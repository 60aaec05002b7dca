\* Three threads, two prices, two faults; the model is not in the price list.
CONSTANTS
    t1 = t1  t2 = t2  t3 = t3
    None = None
    Threads <- ThreeThreads
    Usages <- SomeUsages
    DefaultModel = "unlisted"
    HardLimit = 6
    MaxCost = 14
    UseLLMCopy = TRUE
    MaxFaults = 2
SPECIFICATION FairSpec
INVARIANTS
    ChargesAreAccounted
    ExcessIsBounded
PROPERTY
    CopyIsMade
