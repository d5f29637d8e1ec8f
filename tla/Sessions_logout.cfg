SPECIFICATION SessionsSpec
CONSTANTS
    Requests = {r1}
    SessionIds = {c1}
    home = home
    abroad = abroad
    atHome = atHome
    elsewhere = elsewhere
    Memberships <- MCMemberships
    Organizations <- MCOrganizations
    OrgOf <- MCOrgOf
    NoMembership = NoMembership
    Life = 3
    Idle = 2
    Window = 1
    MaxClock = 3
    MaxEdits = 0
INVARIANT LogoutRevokes
