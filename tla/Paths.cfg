CONSTANTS
    home = home
    a = a
    b = b
    c = c
    t1 = t1
    t2 = t2
    Nodes <- TriangleNodes
    Home = home
    Links <- TriangleLinks
    Distance <- TriangleDistance
    Gravity <- MCGravity
    EmittedAt <- DistinctTimes
    LatestTime = 2
    MaxEmissions = 2
    MaxHops = 3
    Tags = {t1, t2}
    Requestor <- BothFromB
    Fickle = {a}
    NoPath = NoPath
    NoEntry = NoEntry
SPECIFICATION Spec
INVARIANTS
    TypeOK
    LoopNeedsACause
    
    ResponsesWereAskedFor
PROPERTY FloodEnds
CHECK_DEADLOCK FALSE
