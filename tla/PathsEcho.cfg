CONSTANTS
    home = home
    a = a
    b = b
    c = c
    t1 = t1
    t2 = t2
    Nodes <- StarNodes
    Home = home
    Links <- StarLinks
    Distance <- StarDistance
    Gravity <- MCGravity
    EmittedAt <- DistinctTimes
    LatestTime = 2
    MaxEmissions = 1
    MaxHops = 3
    Tags = {t1}
    Requestor <- FromC
    Fickle = {a}
    NoPath = NoPath
    NoEntry = NoEntry
SPECIFICATION Spec
PROPERTY NoAnswerToNextHop
CHECK_DEADLOCK FALSE
