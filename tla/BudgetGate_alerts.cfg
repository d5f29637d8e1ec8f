SPECIFICATION BudgetSpec
CONSTANTS
    Slots = {s1, s2}
    k1 = k1
    k2 = k2
    workspace = workspace
    environment = environment
    Keys <- OneKey
    Policies = {workspace}
    Scopes <- OneScope
    Environmental = {}
    Environments <- OneEnvironment
    Limits = {4}
    Percents = {50}
    MaxEstimate = 2
    Slack = 1
    MaxMonths = 1
    MaxFree = 0
    MaxChanges = 0
    MaxMoves = 0
    MaxStraddles = 0
    MaxOverrides = 0
    MaxDbErrors = 0
INVARIANT LimitsAlerted
