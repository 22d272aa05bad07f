CONSTANTS
    TotalParts = 5
    HashmapMaxLen = 2
    ResourceWindowMax = 3
    WindowFlexibility = 2
    WindowStart <- SmallWindow
    MaxRetries = 1
    MaxAdvRetries = 1
    NetBound = 2
    MaxRepeats = 1
SPECIFICATION FairSpec
INVARIANTS
    TypeOK
    
    NextPartIsSearched
    
PROPERTIES
    
    ReceiverSettles
    
CHECK_DEADLOCK FALSE
