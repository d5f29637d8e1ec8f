SPECIFICATION BudgetsAndExportsSpec
CONSTANTS
    Slots = {s1}
    k1 = k1
    k2 = k2
    workspace = workspace
    environment = environment
    Keys <- TwoKeys
    Policies = {workspace, environment}
    Scopes <- TwoScopes
    Environmental = {environment}
    Environments <- TwoEnvironments
    Limits = {2}
    Percents = {50}
    MaxEstimate = 2
    Slack = 0
    MaxMonths = 2
    MaxFree = 1
    MaxChanges = 1
    MaxMoves = 0
    MaxStraddles = 1
    MaxOverrides = 0
    MaxDbErrors = 0
    Workers = {w1}
    NJobs = 2
    Targets = {t1, t2}
    MaxAttempts = 3
    MaxFaults = 2
    MaxOverruns = 0
    NoOwner = NoOwner
INVARIANTS BudgetTypeOK LimitsAlerted AlertsJustified CompletedFileKept
PROPERTY Refines
