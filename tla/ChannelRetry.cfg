\* Both timers, numbers 7 and 0, a medium and a very slow link.
SPECIFICATION FairSpec
CONSTANTS
    SeqModulus = 8
    WindowDefault = 1
    WindowMin = 1
    WindowMinMedium = 2
    WindowMinFast = 2
    WindowMaxSlow = 2
    WindowMaxMedium = 2
    WindowMaxFast = 2
    WindowFlexibility = 1
    RateRounds = 2
    MaxMessages = 2
    StartSeq = 7
    MaxTries = 2
    Receipts = TRUE
    Timers = {"loop", "sweep"}
    Rtts = {"medium", "slowest"}
INVARIANTS
    TypeOK
PROPERTIES
    
    GivenUpCloses
CHECK_DEADLOCK FALSE
