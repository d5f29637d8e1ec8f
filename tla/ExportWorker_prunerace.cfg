SPECIFICATION Spec
CONSTANTS
    Workers = {w1, w2}
    NJobs = 1
    Targets = {t1}
    MaxAttempts = 1
    MaxFaults = 0
    MaxOverruns = 0
SYMMETRY Symmetry
INVARIANT CompletedFileKept
