\* Three messages numbered 6, 7, 0: the numbers run over the wrap.
\* Nothing is left to do once both ends are closed.
SPECIFICATION Spec
CONSTANTS
    SeqModulus = 8
    WindowDefault = 2
    WindowMin = 1
    WindowMinMedium = 2
    WindowMinFast = 2
    WindowMaxSlow = 2
    WindowMaxMedium = 2
    WindowMaxFast = 2
    WindowFlexibility = 1
    RateRounds = 2
    MaxMessages = 3
    StartSeq = 6
    MaxTries = 2
    Receipts = TRUE
    Timers = {"loop"}
    Rtts = {"fast"}
INVARIANTS
    InOrder
    
    TrackedFitsWindow
PROPERTY
    ImplementsStream
CHECK_DEADLOCK FALSE
