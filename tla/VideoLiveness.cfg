\* Progress, under the fairness of FairSpec, and decisions, with two threads that
\* run approve and reject in parallel.  When users and clock are at their
\* bounds nothing is left to do, so the absence of a step is no deadlock.
CONSTANTS
    j1 = j1  j2 = j2  j3 = j3  r1 = r1  r2 = r2  c1 = c1  c2 = c2
    loop = loop  t1 = t1  t2 = t2  v1 = v1  v2 = v2
    None = None
    Jobs <- TwoJobs
    Results <- OneResult
    Callers <- OneCaller
    Handlers <- TwoThreads
    Copies <- OneCopy
    NeedsReview <- NoResults
    Requested <- Soon
    Window <- Times
    Lead = 1
    SaveCanFail = FALSE
    LostAnswers = TRUE
    MaxNow = 1
    MaxRequeues = 1
    MaxPublishTasks = 1
    MaxRestarts = 1
SPECIFICATION FairSpec
PROPERTIES
    DecisionIsFinal
    WorkSettles
CHECK_DEADLOCK FALSE
