SPECIFICATION FairSpec
CONSTANTS
    Workers = {w1, w2}
    NJobs = 1
    Targets = {t1}
    MaxAttempts = 2
    MaxFaults = 1
    MaxOverruns = 1
INVARIANTS
    TypeOK
    ExclusiveClaim
    KeyOnlyWhenSettled
    SingleProcessor
    FileMatchesRow
    DeliveredOnce
PROPERTIES
    JobsSettle
    OrphansPruned
