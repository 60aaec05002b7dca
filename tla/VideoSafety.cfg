\* The application: one event loop, two creating threads, saves succeed; the
\* pronunciation of the product has to be reviewed.
CONSTANTS
    j1 = j1  j2 = j2  j3 = j3  r1 = r1  r2 = r2  c1 = c1  c2 = c2
    loop = loop  t1 = t1  t2 = t2  v1 = v1  v2 = v2
    None = None
    Jobs <- TwoJobs
    Results <- OneResult
    Callers <- TwoCallers
    Handlers <- EventLoop
    Copies <- TwoCopies
    NeedsReview <- OneResult
    Requested <- Times
    Window <- Times
    Lead = 1
    SaveCanFail = FALSE
    LostAnswers = TRUE
    MaxNow = 2
    MaxRequeues = 1
    MaxPublishTasks = 2
    MaxRestarts = 1
SPECIFICATION Spec
SYMMETRY Symmetry
INVARIANTS
    OneActiveJobPerResult
    ActiveIndexIsExact
    UnsettledWorkHasOwner
    UploadResultIsRecorded
    OneSessionPerRequest
    PublishedWorkIsApproved
    OffersAreAccepted
PROPERTIES
    ImplementsLifecycle
    ApprovalSeesCurrentCopy
    ExposureIsKept
