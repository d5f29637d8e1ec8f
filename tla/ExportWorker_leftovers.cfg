SPECIFICATION FairSpec
CONSTANTS
    Workers = {w1}
    NJobs = 1
    Targets = {t1}
    MaxAttempts = 1
    MaxFaults = 1
    MaxOverruns = 0
PROPERTY LeftoversRemoved
