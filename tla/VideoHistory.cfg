\* A rejected job and the job created after it render for the same result.
CONSTANTS
    j1 = j1  j2 = j2  j3 = j3  r1 = r1  r2 = r2  c1 = c1  c2 = c2
    loop = loop  t1 = t1  t2 = t2  v1 = v1  v2 = v2
    None = None
    Jobs <- TwoJobs
    Results <- OneResult
    Callers <- TwoCallers
    Handlers <- EventLoop
    Copies <- TwoCopies
    NeedsReview <- NoResults
    Requested <- OneTime
    Window <- Times
    Lead = 1
    SaveCanFail = FALSE
    LostAnswers = TRUE
    MaxNow = 2
    MaxRequeues = 1
    MaxPublishTasks = 2
    MaxRestarts = 0
SPECIFICATION Spec
INVARIANT HistoryShowsCompletedVideo
