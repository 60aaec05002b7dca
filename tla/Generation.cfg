\* Two jobs of one product with two formats; saves fail, threads save meanwhile.
CONSTANTS
    j1 = j1  j2 = j2  p1 = p1   item1 = item1 f1 = f1  f2 = f2  edit1 = edit1
    None = None
    Made = Made
    Jobs <- TwoJobs
    Products <- OneProduct
    Items <- OneItem
    Formats <- TwoFormats
    Edits <- OneEdit
    MaxRestarts = 1
    MaxThreadSaves = 2
SPECIFICATION FairSpec
INVARIANTS
    ActiveJobsAreServed
    HistoryAgreesWithJobs
    ImagesShowTheCopy
PROPERTIES
    SavedOutcomeIsFinal
    JobSettles
CHECK_DEADLOCK FALSE
