\* A callback that runs twice is the most Resource leads to without another retry.
CONSTANT MaxCalls = 2
SPECIFICATION FairSpec
INVARIANTS
    PacketCallsBackOnce
    ConcludedLeavesList
 
CHECK_DEADLOCK FALSE
