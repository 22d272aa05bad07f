\* The state is finite without bounds.  Nothing is left to do once both ends are
\* closed and forgotten.
SPECIFICATION FairSpec
INVARIANTS
    TypeOK
    ClosedCalledOnce
    InitiatorTracked
PROPERTIES
    InitiatorStaysClosed
    DeadPeerNoticed
    ClosedIsForgotten
    CloseIsMutual
CHECK_DEADLOCK FALSE
