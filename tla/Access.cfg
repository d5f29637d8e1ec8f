SPECIFICATION AccessSpec
CONSTANTS
    Handlers = {a1, a2}
    Members = {m1}
    Nobody = Nobody
    Ttl = 1
    MaxKeys = 3
    MaxTime = 1
    Requests = {a1, a2}
    SessionIds = {c1}
    home = home
    abroad = abroad
    atHome = atHome
    elsewhere = elsewhere
    Memberships <- MCMemberships
    Organizations <- MCOrganizations
    OrgOf <- MCOrgOf
    NoMembership = NoMembership
    Life = 3
    Idle = 2
    Window = 1
    MaxClock = 3
    MaxEdits = 2
    Calls = {a1, a2}
    Connections = {p1, p2}
    CacheTtl = 1
    MaxEntries = 2
    MaxInstant = 2
    MaxRowEdits = 3
SYMMETRY Alike
CHECK_DEADLOCK FALSE
INVARIANTS KeysTypeOK OneActivePerLine RotatedOnce GrantKept
           SessionsTypeOK RevokedOnce  IdleHonoured
           CredentialAsSelected OldestDropped
PROPERTIES LapsedRevivedByMember FrozenOnceRevoked
