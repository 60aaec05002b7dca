SPECIFICATION FairSpec
CONSTANTS
    t1 = t1
    t2 = t2
    t3 = t3
    p1 = p1
    p2 = p2
    square = square
    story = story
    Threads = {t1, t2, t3}
    Products = {p1, p2}
    Canvases = {square, story}
    Asked <- MCAsked
    CacheSize = 1
    ArtifactSize = 1
    Ttl = 1
    MaxTime = 1
    Quality = TRUE
    None = None
INVARIANTS SingleFlight ArtifactsMatchSource
PROPERTY EveryRequestEnds
CHECK_DEADLOCK FALSE
