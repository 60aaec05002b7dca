\* Two requests at the gates, three ticks, four failures, one old record, two new, two faults.
CONSTANTS
    r1 = r1  r2 = r2  c1 = c1
    Legacy = Legacy
    Source = Source
    None = None
    Requests <- TwoRequests
    Ids <- OneCustomer
    Keys <- TwoKeys
    OldRecords <- OldHistory
    MaxAttempts = 2
    Window = 2
    MaxTime = 2
    MaxFailures = 4
    MaxRecords = 3
    MaxFaults = 2
    MaxThreadSaves = 2
CONSTRAINT OneAtATime
SYMMETRY Symmetry
VIEW View
SPECIFICATION Spec
INVARIANTS
    RefusalIsJustified
    FailuresAreLimited
    ReachableByOwner
    AcknowledgedIsKept
CHECK_DEADLOCK FALSE
