SPECIFICATION GatewaySpec
CONSTANTS
    Requests = {r1}
    MaxChunks = 3
    MaxUsage = 2
    Slots = {s1, s2}
    k1 = k1
    k2 = k2
    workspace = workspace
    environment = environment
    Keys <- OneKey
    Policies = {workspace}
    Scopes <- OneScope
    Environmental = {}
    Environments <- OneEnvironment
    Limits = {2}
    Percents = {50}
    MaxEstimate = 2
    Slack = 1
    MaxMonths = 1
    MaxFree = 0
    MaxChanges = 0
    MaxMoves = 1
    MaxStraddles = 0
    MaxOverrides = 1
    MaxDbErrors = 1
INVARIANTS
    RequestsTypeOK
    RecordedOnce
    RecordedAsDelivered
    AbandonedCallAborted
    OvershootBounded
PROPERTIES
    RequestsSettle
    HardAlertSettles
