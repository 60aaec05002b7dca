\* Two jobs, two sweeps in parallel, directories that expire after one tick.
CONSTANTS
    j1 = j1  j2 = j2  c1 = c1  c2 = c2
    None = None
    Jobs <- TwoJobs
    Callers <- TwoCallers
    FailedTTL = 1
    CompletedTTL = 1
    Interval = 1
    MaxNow = 5
    MaxRestarts = 1
SPECIFICATION Spec
SYMMETRY Symmetry
INVARIANTS
    RenderInputsSurvive
    WorkIsFoundAgain
    CompletedVideoIsWhole
PROPERTIES
    SweepTakesExpiredOnly
