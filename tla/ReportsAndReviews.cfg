SPECIFICATION ReportsAndReviewsSpec
CONSTANTS
    Reports = {r1}
    Runners = {a1, a2}
    Events = {e1}
    Cadences = {1}
    DedupWindow = 1
    Cooldown = 1
    LastDay = 2
    MaxJobs = 3
    Job = job
    Workers = {w1}
    NoOwner = NoOwner
    Null = Null
    ada = ada
    bob = bob
    Callers <- MixedCallers
    Emails <- Addresses
    AsIs = AsIs
    Patches = {a1, a2}
    Downloads = {d1}
SYMMETRY Alike
INVARIANTS TypeOK SchedulePaced ManualDeduplicated BurstBounded
           GovTypeOK FourEyes DownloadReviewed
PROPERTY GateKeptInTurn
