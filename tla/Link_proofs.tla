---------------------------- MODULE Link_proofs ----------------------------
(***************************************************************************)
(* Proofs about Link: typing, and the safety properties of both ends,      *)
(* however the network loses and reorders packets.                         *)
(***************************************************************************)
EXTENDS Link, TLAPS

\* The closing critical section and Link.teardown keep the types of the link's fields.
LEMMA CloseTypes ==
    ASSUME TypeOK, NEW e \in Ends, NEW why \in Reasons, DoTeardown(e, why)
    PROVE  /\ status' \in [Ends -> Statuses] /\ reason' \in [Ends -> Reasons]
           /\ stopWatchdog' \in [Ends -> BOOLEAN]
           /\ closedCalls' \in [Ends -> Nat]
           /\ quiet' \in [Ends -> BOOLEAN]
<1>1. CASE status[e] = "closed"
  BY <1>1 DEF DoTeardown, linkVars, TypeOK
<1>2. CASE status[e] # "closed"
  <2>1. CloseWith(e, why)
    BY <1>2 DEF DoTeardown
  <2>2. "closed" \in Statuses
    BY DEF Statuses
  <2>3. status' \in [Ends -> Statuses] /\ reason' \in [Ends -> Reasons]
    BY <2>1, <2>2 DEF CloseWith, TypeOK
  <2>4. stopWatchdog' \in [Ends -> BOOLEAN] /\ quiet' \in [Ends -> BOOLEAN]
    BY <2>1 DEF CloseWith, TypeOK
  <2>5. closedCalls' \in [Ends -> Nat]
    BY <2>1 DEF CloseWith, TypeOK
  <2>6. QED
    BY <2>3, <2>4, <2>5
<1>3. QED
  BY <1>1, <1>2

\* The reasons an end gives for closing are reasons.
LEMMA OwnReasons == \A e \in Ends : OwnReason(e) \in Reasons /\ Peer(e) \in Ends
  BY DEF OwnReason, Reasons, Peer, Ends

\* Every step of the two ends keeps the types of their fields.
LEMMA LinkTypeStep == TypeOK /\ [Next]_vars => TypeOK'
<1> SUFFICES ASSUME TypeOK, [Next]_vars PROVE TypeOK'
  OBVIOUS
<1>1. ASSUME Establish PROVE TypeOK'
  BY <1>1 DEF Establish, linkVars, TypeOK, Ends, Kinds, Statuses, Reasons, DrainerStates
<1>2. ASSUME SendRequest PROVE TypeOK'
  BY <1>2 DEF SendRequest, Transmit, Peer, linkVars, TypeOK, Ends, Kinds, Statuses, Reasons,
        DrainerStates
<1>3. ASSUME ValidateRequest PROVE TypeOK'
  BY <1>3 DEF ValidateRequest, TypeOK, Ends, Kinds, Statuses, Reasons, DrainerStates
<1>4. ASSUME ValidateProof PROVE TypeOK'
  BY <1>4 DEF ValidateProof, TypeOK, Ends, Kinds, Statuses, Reasons, DrainerStates
<1>5. ASSUME RejectProof PROVE TypeOK'
  BY <1>5 DEF RejectProof, TypeOK, Ends, Kinds, Statuses, Reasons, DrainerStates
<1>6. ASSUME SendRTT PROVE TypeOK'
  BY <1>6 DEF SendRTT, Transmit, Peer, linkVars, TypeOK, Ends, Kinds, Statuses, Reasons,
        DrainerStates
<1>7. ASSUME Prove PROVE TypeOK'
  BY <1>7
    DEF Prove, Transmit, Peer, linkVars, TypeOK, Ends, Kinds, Statuses, Reasons, DrainerStates
<1>8. ASSUME HandleRTT PROVE TypeOK'
  BY <1>8 DEF HandleRTT, linkVars, TypeOK, Ends, Kinds, Statuses, Reasons, DrainerStates
<1>9. ASSUME ActivateFromRTT PROVE TypeOK'
  BY <1>9 DEF ActivateFromRTT, TypeOK, Ends, Kinds, Statuses, Reasons, DrainerStates
<1>10. ASSUME RejectRTT PROVE TypeOK'
  BY <1>10 DEF RejectRTT, Transmit, Peer, linkVars, TypeOK, Ends, Kinds, Statuses, Reasons,
        DrainerStates
<1>11. ASSUME CloseRejected PROVE TypeOK'
  <2>1. "dst" \in Ends /\ OwnReason("dst") \in Reasons
    BY OwnReasons DEF Ends, Reasons
  <2>2. DoTeardown("dst", OwnReason("dst"))
    BY <1>11 DEF CloseRejected
  <2>3. drainer' = [drainer EXCEPT !["dst"] = "idle"]
    BY <1>11 DEF CloseRejected
  <2>4. UNCHANGED <<table, net, established, watchdog, app>>
    BY <1>11 DEF CloseRejected
  <2>5. QED
    BY <2>1, <2>2, <2>3, <2>4, CloseTypes DEF TypeOK, DrainerStates
<1>12. ASSUME NEW e \in Ends, Teardown(e) PROVE TypeOK'
  BY <1>12 DEF Teardown, Transmit, Peer, linkVars, TypeOK, Ends, Kinds, Statuses, Reasons,
        DrainerStates
<1>13. ASSUME NEW e \in Ends, TeardownCloses(e) PROVE TypeOK'
  <2>1. e \in Ends /\ OwnReason(e) \in Reasons
    BY OwnReasons DEF Ends, Reasons
  <2>2. DoTeardown(e, OwnReason(e))
    BY <1>13 DEF TeardownCloses
  <2>3. app' = [app EXCEPT ![e] = "idle"]
    BY <1>13 DEF TeardownCloses
  <2>4. UNCHANGED <<table, net, established, watchdog, drainer>>
    BY <1>13 DEF TeardownCloses
  <2>5. QED
    BY <2>1, <2>2, <2>3, <2>4, CloseTypes DEF TypeOK, DrainerStates
<1>14. ASSUME NEW e \in Ends, ActivateLink(e) PROVE TypeOK'
  BY <1>14 DEF ActivateLink, linkVars, TypeOK, Ends, Kinds, Statuses, Reasons, DrainerStates
<1>15. ASSUME NEW e \in Ends, CallEstablished(e) PROVE TypeOK'
  BY <1>15 DEF CallEstablished, linkVars, TypeOK, Ends, Kinds, Statuses, Reasons, DrainerStates
<1>16. ASSUME NEW e \in Ends, HandleClose(e) PROVE TypeOK'
  <2>1. OwnReason(Peer(e)) \in Reasons
    BY OwnReasons
  <2>2. UNCHANGED linkVars \/ DoTeardown(e, OwnReason(Peer(e)))
    BY <1>16 DEF HandleClose
  <2>3. drainer' = [drainer EXCEPT ![e] = "idle"] /\ UNCHANGED <<table, watchdog, app, net, established>>
    BY <1>16 DEF HandleClose
  <2>4. CASE UNCHANGED linkVars
    BY <2>3, <2>4 DEF TypeOK, DrainerStates, linkVars
  <2>5. CASE DoTeardown(e, OwnReason(Peer(e)))
    BY <2>1, <2>3, <2>5, CloseTypes DEF TypeOK, DrainerStates
  <2>6. QED
    BY <2>2, <2>4, <2>5
<1>17. ASSUME NEW e \in Ends, WatchdogTimeout(e) PROVE TypeOK'
  BY <1>17 DEF WatchdogTimeout, CloseWith, TypeOK, Ends, Kinds, Statuses, Reasons, DrainerStates
<1>18. ASSUME NEW e \in Ends, WatchdogStale(e) PROVE TypeOK'
  BY <1>18 DEF WatchdogStale, Transmit, Peer, linkVars, TypeOK, Ends, Kinds, Statuses, Reasons,
        DrainerStates
<1>19. ASSUME NEW e \in Ends, WatchdogCloses(e) PROVE TypeOK'
  <2>1. e \in Ends /\ "timeout" \in Reasons
    BY OwnReasons DEF Ends, Reasons
  <2>2. DoTeardown(e, "timeout")
    BY <1>19 DEF WatchdogCloses
  <2>3. watchdog' = [watchdog EXCEPT ![e] = "running"]
    BY <1>19 DEF WatchdogCloses
  <2>4. UNCHANGED <<table, net, established, drainer, app>>
    BY <1>19 DEF WatchdogCloses
  <2>5. QED
    BY <2>1, <2>2, <2>3, <2>4, CloseTypes DEF TypeOK, DrainerStates
<1>20. ASSUME NEW e \in Ends, WatchdogExit(e) PROVE TypeOK'
  BY <1>20 DEF WatchdogExit, linkVars, TypeOK, Ends, Kinds, Statuses, Reasons, DrainerStates
<1>21. ASSUME NEW e \in Ends, Prune(e) PROVE TypeOK'
  BY <1>21 DEF Prune, linkVars, TypeOK, Ends, Kinds, Statuses, Reasons, DrainerStates
<1>22. ASSUME NEW e \in Ends, TimePasses(e) PROVE TypeOK'
  BY <1>22 DEF TimePasses, TypeOK, Ends, Kinds, Statuses, Reasons, DrainerStates
<1>23. ASSUME NEW answer \in BOOLEAN, HandleKeepalive(answer) PROVE TypeOK'
  BY <1>23 DEF HandleKeepalive, Transmit, Peer, linkVars, TypeOK, Ends, Kinds, Statuses, Reasons,
        DrainerStates
<1>24. ASSUME NEW e \in Ends, NEW due \in BOOLEAN, WatchdogActive(e, due) PROVE TypeOK'
  BY <1>24 DEF WatchdogActive, SendKeepalive, Peer, TypeOK, Ends, Kinds, Statuses, Reasons,
        DrainerStates
<1>25. ASSUME NEW e \in Ends, NEW packet \in Kinds, Receive(e, packet) PROVE TypeOK'
  <2>1. net' \in [Ends -> SUBSET Kinds]
    BY <1>25 DEF Receive, TypeOK
  <2>2. quiet' \in [Ends -> BOOLEAN]
    BY <1>25, Zenon DEF Receive, TypeOK
  <2>3. drainer' \in [Ends -> DrainerStates]
    BY <1>25 DEF Receive, TypeOK, DrainerStates
  <2>4. status' \in [Ends -> Statuses]
    BY <1>25 DEF Receive, TypeOK, Statuses
  <2>5. QED
    BY <1>25, <2>1, <2>2, <2>3, <2>4 DEF Receive, TypeOK
<1>26. CASE UNCHANGED vars
  BY <1>26 DEF vars, linkVars, TypeOK, Ends, Kinds, Statuses, Reasons, DrainerStates
<1>27. QED
  BY <1>1, <1>2, <1>3, <1>4, <1>5, <1>6, <1>7, <1>8, <1>9, <1>10, <1>11, <1>12,
     <1>13, <1>14, <1>15, <1>16, <1>17, <1>18, <1>19, <1>20, <1>21, <1>22, <1>23, <1>24,
     <1>25, <1>26
  DEF Next, App, Handlers, InitiatorHandlers, DestinationHandlers, Watchdog

\* Link.status, its lists, its goroutines and the packets under way keep their types.
THEOREM LinkTypeCorrect == Spec => []TypeOK
<1>1. Init => TypeOK
  BY DEF Init, TypeOK, Ends, Kinds, Statuses, Reasons, DrainerStates
<1>2. QED
  BY <1>1, LinkTypeStep, PTL DEF Spec

\* ValidateProof looks at the status again under the lock, so neither a late proof nor
\* anything else takes the initiator's link out of LinkClosed.
THEOREM InitiatorClosedIsFinal == Spec => InitiatorStaysClosed
<1> DEFINE Kept == status["ini"] = "closed" => status'["ini"] = "closed"
<1>0. ASSUME TypeOK, [Next]_vars PROVE Kept
<2> USE <1>0
<2>1. ASSUME Establish PROVE Kept
  BY <2>1 DEF Establish, linkVars, TypeOK, Ends, Statuses, Kinds
<2>2. ASSUME SendRequest PROVE Kept
  BY <2>2 DEF SendRequest, Transmit, Peer, linkVars, TypeOK, Ends, Statuses, Kinds
<2>3. ASSUME ValidateRequest PROVE Kept
  BY <2>3 DEF ValidateRequest, TypeOK, Ends, Statuses, Kinds
<2>4. ASSUME ValidateProof PROVE Kept
  BY <2>4 DEF ValidateProof, TypeOK, Ends, Statuses, Kinds
<2>5. ASSUME RejectProof PROVE Kept
  BY <2>5 DEF RejectProof, TypeOK, Ends, Statuses, Kinds
<2>6. ASSUME SendRTT PROVE Kept
  BY <2>6 DEF SendRTT, Transmit, Peer, linkVars, TypeOK, Ends, Statuses, Kinds
<2>7. ASSUME Prove PROVE Kept
  BY <2>7 DEF Prove, Transmit, Peer, linkVars, TypeOK, Ends, Statuses, Kinds
<2>8. ASSUME HandleRTT PROVE Kept
  BY <2>8 DEF HandleRTT, linkVars, TypeOK, Ends, Statuses, Kinds
<2>9. ASSUME ActivateFromRTT PROVE Kept
  BY <2>9 DEF ActivateFromRTT, TypeOK, Ends, Statuses, Kinds
<2>10. ASSUME RejectRTT PROVE Kept
  BY <2>10 DEF RejectRTT, Transmit, Peer, linkVars, TypeOK, Ends, Statuses, Kinds
<2>11. ASSUME CloseRejected PROVE Kept
  BY <2>11 DEF CloseRejected, DoTeardown, CloseWith, OwnReason, Peer, linkVars, TypeOK, Ends,
        Statuses, Kinds
<2>12. ASSUME NEW e \in Ends, Teardown(e) PROVE Kept
  BY <2>12 DEF Teardown, Transmit, Peer, linkVars, TypeOK, Ends, Statuses, Kinds
<2>13. ASSUME NEW e \in Ends, TeardownCloses(e) PROVE Kept
  BY <2>13 DEF TeardownCloses, DoTeardown, CloseWith, OwnReason, Peer, linkVars, TypeOK, Ends,
        Statuses, Kinds
<2>14. ASSUME NEW e \in Ends, ActivateLink(e) PROVE Kept
  BY <2>14 DEF ActivateLink, linkVars, TypeOK, Ends, Statuses, Kinds
<2>15. ASSUME NEW e \in Ends, CallEstablished(e) PROVE Kept
  BY <2>15 DEF CallEstablished, linkVars, TypeOK, Ends, Statuses, Kinds
<2>16. ASSUME NEW e \in Ends, HandleClose(e) PROVE Kept
  BY <2>16
    DEF HandleClose, DoTeardown, CloseWith, OwnReason, Peer, linkVars, TypeOK, Ends, Statuses,
        Kinds
<2>17. ASSUME NEW e \in Ends, WatchdogTimeout(e) PROVE Kept
  BY <2>17 DEF WatchdogTimeout, CloseWith, TypeOK, Ends, Statuses, Kinds
<2>18. ASSUME NEW e \in Ends, WatchdogStale(e) PROVE Kept
  BY <2>18 DEF WatchdogStale, Transmit, Peer, linkVars, TypeOK, Ends, Statuses, Kinds
<2>19. ASSUME NEW e \in Ends, WatchdogCloses(e) PROVE Kept
  BY <2>19 DEF WatchdogCloses, DoTeardown, CloseWith, OwnReason, Peer, linkVars, TypeOK, Ends,
        Statuses, Kinds
<2>20. ASSUME NEW e \in Ends, WatchdogExit(e) PROVE Kept
  BY <2>20 DEF WatchdogExit, linkVars, TypeOK, Ends, Statuses, Kinds
<2>21. ASSUME NEW e \in Ends, Prune(e) PROVE Kept
  BY <2>21 DEF Prune, linkVars, TypeOK, Ends, Statuses, Kinds
<2>22. ASSUME NEW e \in Ends, TimePasses(e) PROVE Kept
  BY <2>22 DEF TimePasses, TypeOK, Ends, Statuses, Kinds
<2>23. ASSUME NEW answer \in BOOLEAN, HandleKeepalive(answer) PROVE Kept
  BY <2>23 DEF HandleKeepalive, Transmit, Peer, linkVars, TypeOK, Ends, Statuses, Kinds
<2>24. ASSUME NEW e \in Ends, NEW due \in BOOLEAN, WatchdogActive(e, due) PROVE Kept
  BY <2>24 DEF WatchdogActive, SendKeepalive, Peer, TypeOK, Ends, Statuses, Kinds
<2>25. ASSUME NEW e \in Ends, NEW packet \in Kinds, Receive(e, packet) PROVE Kept
  BY <2>25 DEF Receive, Counts, Kinds, TypeOK, Ends, Statuses, Kinds
<2>26. CASE UNCHANGED vars
  BY <2>26 DEF vars, linkVars, TypeOK, Ends, Statuses, Kinds
<2>27. QED
  BY <2>1, <2>2, <2>3, <2>4, <2>5, <2>6, <2>7, <2>8, <2>9, <2>10, <2>11, <2>12,
     <2>13, <2>14, <2>15, <2>16, <2>17, <2>18, <2>19, <2>20, <2>21, <2>22, <2>23, <2>24,
     <2>25, <2>26
  DEF Next, App, Handlers, InitiatorHandlers, DestinationHandlers, Watchdog
<1>1. TypeOK /\ [Next]_vars => [status["ini"] = "closed" => status'["ini"] = "closed"]_vars
  BY <1>0
<1>2. QED
  BY <1>1, LinkTypeCorrect, PTL DEF Spec, InitiatorStaysClosed

\* Every step keeps the initiator's link where FindLink finds it.
LEMMA TrackedStep == TypeOK /\ TrackedInv /\ [Next]_vars => TrackedInv'
<1> SUFFICES ASSUME TypeOK, TrackedInv, [Next]_vars PROVE TrackedInv'
  OBVIOUS
<1>1. ASSUME Establish PROVE TrackedInv'
  BY <1>1 DEF Establish, linkVars, TypeOK, TrackedInv, InitiatorTracked, Ends, Kinds, Statuses
<1>2. ASSUME SendRequest PROVE TrackedInv'
  BY <1>2 DEF SendRequest, Transmit, Peer, linkVars, TypeOK, TrackedInv, InitiatorTracked, Ends,
        Kinds, Statuses
<1>3. ASSUME ValidateRequest PROVE TrackedInv'
  BY <1>3 DEF ValidateRequest, TypeOK, TrackedInv, InitiatorTracked, Ends, Kinds, Statuses
<1>4. ASSUME ValidateProof PROVE TrackedInv'
  BY <1>4 DEF ValidateProof, TypeOK, TrackedInv, InitiatorTracked, Ends, Kinds, Statuses
<1>5. ASSUME RejectProof PROVE TrackedInv'
  BY <1>5 DEF RejectProof, TypeOK, TrackedInv, InitiatorTracked, Ends, Kinds, Statuses
<1>6. ASSUME SendRTT PROVE TrackedInv'
  BY <1>6
    DEF SendRTT, Transmit, Peer, linkVars, TypeOK, TrackedInv, InitiatorTracked, Ends, Kinds,
        Statuses
<1>7. ASSUME Prove PROVE TrackedInv'
  BY <1>7 DEF Prove, Transmit, Peer, linkVars, TypeOK, TrackedInv, InitiatorTracked, Ends, Kinds,
        Statuses
<1>8. ASSUME HandleRTT PROVE TrackedInv'
  BY <1>8 DEF HandleRTT, linkVars, TypeOK, TrackedInv, InitiatorTracked, Ends, Kinds, Statuses
<1>9. ASSUME ActivateFromRTT PROVE TrackedInv'
  BY <1>9 DEF ActivateFromRTT, TypeOK, TrackedInv, InitiatorTracked, Ends, Kinds, Statuses
<1>10. ASSUME RejectRTT PROVE TrackedInv'
  BY <1>10 DEF RejectRTT, Transmit, Peer, linkVars, TypeOK, TrackedInv, InitiatorTracked, Ends,
        Kinds, Statuses
<1>11. ASSUME CloseRejected PROVE TrackedInv'
  BY <1>11
    DEF CloseRejected, DoTeardown, CloseWith, OwnReason, Peer, linkVars, TypeOK, TrackedInv,
        InitiatorTracked, Ends, Kinds, Statuses
<1>12. ASSUME NEW e \in Ends, Teardown(e) PROVE TrackedInv'
  BY <1>12
    DEF Teardown, Transmit, Peer, linkVars, TypeOK, TrackedInv, InitiatorTracked, Ends, Kinds,
        Statuses
<1>13. ASSUME NEW e \in Ends, TeardownCloses(e) PROVE TrackedInv'
  BY <1>13
    DEF TeardownCloses, DoTeardown, CloseWith, OwnReason, Peer, linkVars, TypeOK, TrackedInv,
        InitiatorTracked, Ends, Kinds, Statuses
<1>14. ASSUME NEW e \in Ends, ActivateLink(e) PROVE TrackedInv'
  BY <1>14
    DEF ActivateLink, linkVars, TypeOK, TrackedInv, InitiatorTracked, Ends, Kinds, Statuses
<1>15. ASSUME NEW e \in Ends, CallEstablished(e) PROVE TrackedInv'
  BY <1>15
    DEF CallEstablished, linkVars, TypeOK, TrackedInv, InitiatorTracked, Ends, Kinds, Statuses
<1>16. ASSUME NEW e \in Ends, HandleClose(e) PROVE TrackedInv'
  BY <1>16 DEF HandleClose, DoTeardown, CloseWith, OwnReason, Peer, linkVars, TypeOK, TrackedInv,
        InitiatorTracked, Ends, Kinds, Statuses
<1>17. ASSUME NEW e \in Ends, WatchdogTimeout(e) PROVE TrackedInv'
  BY <1>17 DEF WatchdogTimeout, CloseWith, TypeOK, TrackedInv, InitiatorTracked, Ends, Kinds,
        Statuses
<1>18. ASSUME NEW e \in Ends, WatchdogStale(e) PROVE TrackedInv'
  BY <1>18
    DEF WatchdogStale, Transmit, Peer, linkVars, TypeOK, TrackedInv, InitiatorTracked, Ends,
        Kinds, Statuses
<1>19. ASSUME NEW e \in Ends, WatchdogCloses(e) PROVE TrackedInv'
  BY <1>19
    DEF WatchdogCloses, DoTeardown, CloseWith, OwnReason, Peer, linkVars, TypeOK, TrackedInv,
        InitiatorTracked, Ends, Kinds, Statuses
<1>20. ASSUME NEW e \in Ends, WatchdogExit(e) PROVE TrackedInv'
  BY <1>20
    DEF WatchdogExit, linkVars, TypeOK, TrackedInv, InitiatorTracked, Ends, Kinds, Statuses
<1>21. ASSUME NEW e \in Ends, Prune(e) PROVE TrackedInv'
  BY <1>21 DEF Prune, linkVars, TypeOK, TrackedInv, InitiatorTracked, Ends, Kinds, Statuses
<1>22. ASSUME NEW e \in Ends, TimePasses(e) PROVE TrackedInv'
  BY <1>22 DEF TimePasses, TypeOK, TrackedInv, InitiatorTracked, Ends, Kinds, Statuses
<1>23. ASSUME NEW answer \in BOOLEAN, HandleKeepalive(answer) PROVE TrackedInv'
  BY <1>23
    DEF HandleKeepalive, Transmit, Peer, linkVars, TypeOK, TrackedInv, InitiatorTracked, Ends,
        Kinds, Statuses
<1>24. ASSUME NEW e \in Ends, NEW due \in BOOLEAN, WatchdogActive(e, due) PROVE TrackedInv'
  BY <1>24 DEF WatchdogActive, SendKeepalive, Peer, TypeOK, TrackedInv, InitiatorTracked, Ends,
        Kinds, Statuses
<1>25. ASSUME NEW e \in Ends, NEW packet \in Kinds, Receive(e, packet) PROVE TrackedInv'
  BY <1>25
    DEF Receive, Counts, Kinds, TypeOK, TrackedInv, InitiatorTracked, Ends, Kinds, Statuses
<1>26. CASE UNCHANGED vars
  BY <1>26 DEF vars, linkVars, TypeOK, TrackedInv, InitiatorTracked, Ends, Kinds, Statuses
<1>27. QED
  BY <1>1, <1>2, <1>3, <1>4, <1>5, <1>6, <1>7, <1>8, <1>9, <1>10, <1>11, <1>12,
     <1>13, <1>14, <1>15, <1>16, <1>17, <1>18, <1>19, <1>20, <1>21, <1>22, <1>23, <1>24,
     <1>25, <1>26
  DEF Next, App, Handlers, InitiatorHandlers, DestinationHandlers, Watchdog

\* A prune between the two critical sections of ValidateProof never loses the link: an
\* initiator's link in use is always in the active list.
THEOREM InitiatorIsTracked == Spec => []InitiatorTracked
<1>1. Init => TrackedInv
  BY DEF Init, TrackedInv, InitiatorTracked, Ends
<1>2. TrackedInv => InitiatorTracked
  BY DEF TrackedInv
<1>3. QED
  BY <1>1, <1>2, TrackedStep, LinkTypeCorrect, PTL DEF Spec

\* Every step keeps the account of LinkClosed calls.
LEMMA CalledStep == TypeOK /\ CalledInv /\ [Next]_vars => CalledInv'
<1> SUFFICES ASSUME TypeOK, CalledInv, [Next]_vars PROVE CalledInv'
  OBVIOUS
<1>1. ASSUME Establish PROVE CalledInv'
  BY <1>1 DEF Establish, linkVars, TypeOK, CalledInv, ClosedCalledOnce, Ends, Kinds, Statuses
<1>2. ASSUME SendRequest PROVE CalledInv'
  BY <1>2 DEF SendRequest, Transmit, Peer, linkVars, TypeOK, CalledInv, ClosedCalledOnce, Ends,
        Kinds, Statuses
<1>3. ASSUME ValidateRequest PROVE CalledInv'
  BY <1>3 DEF ValidateRequest, TypeOK, CalledInv, ClosedCalledOnce, Ends, Kinds, Statuses
<1>4. ASSUME ValidateProof PROVE CalledInv'
  BY <1>4 DEF ValidateProof, TypeOK, CalledInv, ClosedCalledOnce, Ends, Kinds, Statuses
<1>5. ASSUME RejectProof PROVE CalledInv'
  BY <1>5 DEF RejectProof, TypeOK, CalledInv, ClosedCalledOnce, Ends, Kinds, Statuses
<1>6. ASSUME SendRTT PROVE CalledInv'
  BY <1>6
    DEF SendRTT, Transmit, Peer, linkVars, TypeOK, CalledInv, ClosedCalledOnce, Ends, Kinds,
        Statuses
<1>7. ASSUME Prove PROVE CalledInv'
  BY <1>7 DEF Prove, Transmit, Peer, linkVars, TypeOK, CalledInv, ClosedCalledOnce, Ends, Kinds,
        Statuses
<1>8. ASSUME HandleRTT PROVE CalledInv'
  BY <1>8 DEF HandleRTT, linkVars, TypeOK, CalledInv, ClosedCalledOnce, Ends, Kinds, Statuses
<1>9. ASSUME ActivateFromRTT PROVE CalledInv'
  BY <1>9 DEF ActivateFromRTT, TypeOK, CalledInv, ClosedCalledOnce, Ends, Kinds, Statuses
<1>10. ASSUME RejectRTT PROVE CalledInv'
  BY <1>10
    DEF RejectRTT, Transmit, Peer, linkVars, TypeOK, CalledInv, ClosedCalledOnce, Ends, Kinds,
        Statuses
<1>11. ASSUME CloseRejected PROVE CalledInv'
  BY <1>11
    DEF CloseRejected, DoTeardown, CloseWith, OwnReason, Peer, linkVars, TypeOK, CalledInv,
        ClosedCalledOnce, Ends, Kinds, Statuses
<1>12. ASSUME NEW e \in Ends, Teardown(e) PROVE CalledInv'
  BY <1>12
    DEF Teardown, Transmit, Peer, linkVars, TypeOK, CalledInv, ClosedCalledOnce, Ends, Kinds,
        Statuses
<1>13. ASSUME NEW e \in Ends, TeardownCloses(e) PROVE CalledInv'
  BY <1>13
    DEF TeardownCloses, DoTeardown, CloseWith, OwnReason, Peer, linkVars, TypeOK, CalledInv,
        ClosedCalledOnce, Ends, Kinds, Statuses
<1>14. ASSUME NEW e \in Ends, ActivateLink(e) PROVE CalledInv'
  BY <1>14 DEF ActivateLink, linkVars, TypeOK, CalledInv, ClosedCalledOnce, Ends, Kinds, Statuses
<1>15. ASSUME NEW e \in Ends, CallEstablished(e) PROVE CalledInv'
  BY <1>15
    DEF CallEstablished, linkVars, TypeOK, CalledInv, ClosedCalledOnce, Ends, Kinds, Statuses
<1>16. ASSUME NEW e \in Ends, HandleClose(e) PROVE CalledInv'
  BY <1>16 DEF HandleClose, DoTeardown, CloseWith, OwnReason, Peer, linkVars, TypeOK, CalledInv,
        ClosedCalledOnce, Ends, Kinds, Statuses
<1>17. ASSUME NEW e \in Ends, WatchdogTimeout(e) PROVE CalledInv'
  BY <1>17
    DEF WatchdogTimeout, CloseWith, TypeOK, CalledInv, ClosedCalledOnce, Ends, Kinds, Statuses
<1>18. ASSUME NEW e \in Ends, WatchdogStale(e) PROVE CalledInv'
  BY <1>18
    DEF WatchdogStale, Transmit, Peer, linkVars, TypeOK, CalledInv, ClosedCalledOnce, Ends,
        Kinds, Statuses
<1>19. ASSUME NEW e \in Ends, WatchdogCloses(e) PROVE CalledInv'
  BY <1>19
    DEF WatchdogCloses, DoTeardown, CloseWith, OwnReason, Peer, linkVars, TypeOK, CalledInv,
        ClosedCalledOnce, Ends, Kinds, Statuses
<1>20. ASSUME NEW e \in Ends, WatchdogExit(e) PROVE CalledInv'
  BY <1>20 DEF WatchdogExit, linkVars, TypeOK, CalledInv, ClosedCalledOnce, Ends, Kinds, Statuses
<1>21. ASSUME NEW e \in Ends, Prune(e) PROVE CalledInv'
  BY <1>21 DEF Prune, linkVars, TypeOK, CalledInv, ClosedCalledOnce, Ends, Kinds, Statuses
<1>22. ASSUME NEW e \in Ends, TimePasses(e) PROVE CalledInv'
  BY <1>22 DEF TimePasses, TypeOK, CalledInv, ClosedCalledOnce, Ends, Kinds, Statuses
<1>23. ASSUME NEW answer \in BOOLEAN, HandleKeepalive(answer) PROVE CalledInv'
  BY <1>23
    DEF HandleKeepalive, Transmit, Peer, linkVars, TypeOK, CalledInv, ClosedCalledOnce, Ends,
        Kinds, Statuses
<1>24. ASSUME NEW e \in Ends, NEW due \in BOOLEAN, WatchdogActive(e, due) PROVE CalledInv'
  BY <1>24
    DEF WatchdogActive, SendKeepalive, Peer, TypeOK, CalledInv, ClosedCalledOnce, Ends, Kinds,
        Statuses
<1>25. ASSUME NEW e \in Ends, NEW packet \in Kinds, Receive(e, packet) PROVE CalledInv'
  BY <1>25 DEF Receive, Counts, Kinds, TypeOK, CalledInv, ClosedCalledOnce, Ends, Kinds, Statuses
<1>26. CASE UNCHANGED vars
  BY <1>26 DEF vars, linkVars, TypeOK, CalledInv, ClosedCalledOnce, Ends, Kinds, Statuses
<1>27. QED
  BY <1>1, <1>2, <1>3, <1>4, <1>5, <1>6, <1>7, <1>8, <1>9, <1>10, <1>11, <1>12,
     <1>13, <1>14, <1>15, <1>16, <1>17, <1>18, <1>19, <1>20, <1>21, <1>22, <1>23, <1>24,
     <1>25, <1>26
  DEF Next, App, Handlers, InitiatorHandlers, DestinationHandlers, Watchdog

\* LinkClosed is called at most once at each end, whoever wins the race to close; also
\* when HandleRTT takes a link out of LinkClosed.
THEOREM LinkClosedOnce == Spec => []ClosedCalledOnce
<1>1. Init => CalledInv
  BY DEF Init, CalledInv, ClosedCalledOnce, Ends
<1>2. CalledInv => ClosedCalledOnce
  BY DEF CalledInv
<1>3. QED
  BY <1>1, <1>2, CalledStep, LinkTypeCorrect, PTL DEF Spec

\* Only ActivateFromRTT takes a link out of LinkClosed, and only while the handler has
\* not yet called LinkEstablished.
THEOREM ToldClosedIsFinal == Spec => ToldStaysClosed
<1> DEFINE Told == status["dst"] = "closed" /\ established["dst"] => status'["dst"] = "closed"
<1> DEFINE Kept == status["dst"] = "closed" => status'["dst"] = "closed" \/ drainer["dst"] = "decrypting"
<1>0. ASSUME TypeOK, CalledInv, [Next]_vars PROVE Kept
<2> USE <1>0
<2>1. ASSUME Establish PROVE Kept
  BY <2>1 DEF Establish, linkVars, TypeOK, Ends, Statuses, Kinds
<2>2. ASSUME SendRequest PROVE Kept
  BY <2>2 DEF SendRequest, Transmit, Peer, linkVars, TypeOK, Ends, Statuses, Kinds
<2>3. ASSUME ValidateRequest PROVE Kept
  BY <2>3 DEF ValidateRequest, CalledInv, TypeOK, Ends, Statuses, Kinds
<2>4. ASSUME ValidateProof PROVE Kept
  BY <2>4 DEF ValidateProof, TypeOK, Ends, Statuses, Kinds
<2>5. ASSUME RejectProof PROVE Kept
  BY <2>5 DEF RejectProof, TypeOK, Ends, Statuses, Kinds
<2>6. ASSUME SendRTT PROVE Kept
  BY <2>6 DEF SendRTT, Transmit, Peer, linkVars, TypeOK, Ends, Statuses, Kinds
<2>7. ASSUME Prove PROVE Kept
  BY <2>7 DEF Prove, Transmit, Peer, linkVars, TypeOK, Ends, Statuses, Kinds
<2>8. ASSUME HandleRTT PROVE Kept
  BY <2>8 DEF HandleRTT, linkVars, TypeOK, Ends, Statuses, Kinds
<2>9. ASSUME ActivateFromRTT PROVE Kept
  BY <2>9 DEF ActivateFromRTT, TypeOK, Ends, Statuses, Kinds
<2>10. ASSUME RejectRTT PROVE Kept
  BY <2>10 DEF RejectRTT, Transmit, Peer, linkVars, TypeOK, Ends, Statuses, Kinds
<2>11. ASSUME CloseRejected PROVE Kept
  BY <2>11 DEF CloseRejected, DoTeardown, CloseWith, OwnReason, Peer, linkVars, TypeOK, Ends,
        Statuses, Kinds
<2>12. ASSUME NEW e \in Ends, Teardown(e) PROVE Kept
  BY <2>12 DEF Teardown, Transmit, Peer, linkVars, TypeOK, Ends, Statuses, Kinds
<2>13. ASSUME NEW e \in Ends, TeardownCloses(e) PROVE Kept
  BY <2>13 DEF TeardownCloses, DoTeardown, CloseWith, OwnReason, Peer, linkVars, TypeOK, Ends,
        Statuses, Kinds
<2>14. ASSUME NEW e \in Ends, ActivateLink(e) PROVE Kept
  BY <2>14 DEF ActivateLink, linkVars, TypeOK, Ends, Statuses, Kinds
<2>15. ASSUME NEW e \in Ends, CallEstablished(e) PROVE Kept
  BY <2>15 DEF CallEstablished, linkVars, TypeOK, Ends, Statuses, Kinds
<2>16. ASSUME NEW e \in Ends, HandleClose(e) PROVE Kept
  BY <2>16
    DEF HandleClose, DoTeardown, CloseWith, OwnReason, Peer, linkVars, TypeOK, Ends, Statuses,
        Kinds
<2>17. ASSUME NEW e \in Ends, WatchdogTimeout(e) PROVE Kept
  BY <2>17 DEF WatchdogTimeout, CloseWith, TypeOK, Ends, Statuses, Kinds
<2>18. ASSUME NEW e \in Ends, WatchdogStale(e) PROVE Kept
  BY <2>18 DEF WatchdogStale, Transmit, Peer, linkVars, TypeOK, Ends, Statuses, Kinds
<2>19. ASSUME NEW e \in Ends, WatchdogCloses(e) PROVE Kept
  BY <2>19 DEF WatchdogCloses, DoTeardown, CloseWith, OwnReason, Peer, linkVars, TypeOK, Ends,
        Statuses, Kinds
<2>20. ASSUME NEW e \in Ends, WatchdogExit(e) PROVE Kept
  BY <2>20 DEF WatchdogExit, linkVars, TypeOK, Ends, Statuses, Kinds
<2>21. ASSUME NEW e \in Ends, Prune(e) PROVE Kept
  BY <2>21 DEF Prune, linkVars, TypeOK, Ends, Statuses, Kinds
<2>22. ASSUME NEW e \in Ends, TimePasses(e) PROVE Kept
  BY <2>22 DEF TimePasses, TypeOK, Ends, Statuses, Kinds
<2>23. ASSUME NEW answer \in BOOLEAN, HandleKeepalive(answer) PROVE Kept
  BY <2>23 DEF HandleKeepalive, Transmit, Peer, linkVars, TypeOK, Ends, Statuses, Kinds
<2>24. ASSUME NEW e \in Ends, NEW due \in BOOLEAN, WatchdogActive(e, due) PROVE Kept
  BY <2>24 DEF WatchdogActive, SendKeepalive, Peer, TypeOK, Ends, Statuses, Kinds
<2>25. ASSUME NEW e \in Ends, NEW packet \in Kinds, Receive(e, packet) PROVE Kept
  BY <2>25 DEF Receive, Counts, Kinds, TypeOK, Ends, Statuses, Kinds
<2>26. CASE UNCHANGED vars
  BY <2>26 DEF vars, linkVars, TypeOK, Ends, Statuses, Kinds
<2>27. QED
  BY <2>1, <2>2, <2>3, <2>4, <2>5, <2>6, <2>7, <2>8, <2>9, <2>10, <2>11, <2>12,
     <2>13, <2>14, <2>15, <2>16, <2>17, <2>18, <2>19, <2>20, <2>21, <2>22, <2>23, <2>24,
     <2>25, <2>26
  DEF Next, App, Handlers, InitiatorHandlers, DestinationHandlers, Watchdog
<1>1. TypeOK /\ CalledInv /\ [Next]_vars => [Told]_vars
  BY <1>0 DEF CalledInv
<1>2. Init => CalledInv
  BY DEF Init, CalledInv, ClosedCalledOnce, Ends
<1>3. QED
  BY <1>1, <1>2, CalledStep, LinkTypeCorrect, PTL DEF Spec, ToldStaysClosed

\* Every step keeps what one end may know of the closing of the other.
LEMMA HonestStep ==
    TypeOK /\ TrackedInv /\ CalledInv /\ HonestInv /\ [Next]_vars => HonestInv'
<1> SUFFICES ASSUME TypeOK, TrackedInv, CalledInv, HonestInv, [Next]_vars
             PROVE  HonestInv'
  OBVIOUS
<1>1. ASSUME Establish PROVE HonestInv'
  BY <1>1 DEF Establish, linkVars, TypeOK, Ends, Kinds, Statuses, TrackedInv, HonestInv,
        Announced, Closing, Peer, OwnReason
<1>2. ASSUME SendRequest PROVE HonestInv'
  BY <1>2 DEF SendRequest, Transmit, linkVars, TypeOK, Ends, Kinds, Statuses, HonestInv,
        Announced, Closing, Peer, OwnReason
<1>3. ASSUME ValidateRequest PROVE HonestInv'
  BY <1>3 DEF ValidateRequest, TypeOK, Ends, Kinds, Statuses, CalledInv, HonestInv, Announced,
        Closing, Peer, OwnReason
<1>4. ASSUME ValidateProof PROVE HonestInv'
  BY <1>4 DEF ValidateProof, TypeOK, Ends, Kinds, Statuses, HonestInv, Announced, Closing,
        Peer, OwnReason
<1>5. ASSUME RejectProof PROVE HonestInv'
  BY <1>5 DEF RejectProof, TypeOK, Ends, Kinds, Statuses, HonestInv, Announced, Closing, Peer,
        OwnReason
<1>6. ASSUME SendRTT PROVE HonestInv'
  BY <1>6 DEF SendRTT, Transmit, linkVars, TypeOK, Ends, Kinds, Statuses, HonestInv,
        Announced, Closing, Peer, OwnReason
<1>7. ASSUME Prove PROVE HonestInv'
  BY <1>7 DEF Prove, Transmit, linkVars, TypeOK, Ends, Kinds, Statuses, HonestInv, Announced,
        Closing, Peer, OwnReason
<1>8. ASSUME HandleRTT PROVE HonestInv'
  BY <1>8 DEF HandleRTT, linkVars, TypeOK, Ends, Kinds, Statuses, HonestInv, Announced,
        Closing, Peer, OwnReason
<1>9. ASSUME ActivateFromRTT PROVE HonestInv'
  BY <1>9 DEF ActivateFromRTT, TypeOK, Ends, Kinds, Statuses, HonestInv, Announced, Closing,
        Peer, OwnReason
<1>10. ASSUME RejectRTT PROVE HonestInv'
  BY <1>10 DEF RejectRTT, Transmit, linkVars, TypeOK, Ends, Kinds, Statuses, HonestInv,
        Announced, Closing, Peer, OwnReason
<1>11. ASSUME CloseRejected PROVE HonestInv'
  BY <1>11 DEF CloseRejected, DoTeardown, CloseWith, linkVars, TypeOK, Ends, Kinds, Statuses,
        HonestInv, Announced, Closing, Peer, OwnReason
<1>12. ASSUME NEW e \in Ends, Teardown(e) PROVE HonestInv'
  BY <1>12 DEF Teardown, Transmit, linkVars, TypeOK, Ends, Kinds, Statuses, CalledInv,
        HonestInv, Announced, Closing, Peer, OwnReason
<1>13. ASSUME NEW e \in Ends, TeardownCloses(e) PROVE HonestInv'
  BY <1>13 DEF TeardownCloses, DoTeardown, CloseWith, linkVars, TypeOK, Ends, Kinds, Statuses,
        HonestInv, Announced, Closing, Peer, OwnReason
<1>14. ASSUME NEW e \in Ends, ActivateLink(e) PROVE HonestInv'
  BY <1>14 DEF ActivateLink, linkVars, TypeOK, Ends, Kinds, Statuses, HonestInv, Announced,
        Closing, Peer, OwnReason
<1>15. ASSUME NEW e \in Ends, CallEstablished(e) PROVE HonestInv'
  BY <1>15 DEF CallEstablished, linkVars, TypeOK, Ends, Kinds, Statuses, HonestInv, Announced,
        Closing, Peer, OwnReason
<1>16. ASSUME NEW e \in Ends, HandleClose(e) PROVE HonestInv'
  BY <1>16 DEF HandleClose, DoTeardown, CloseWith, linkVars, TypeOK, Ends, Kinds, Statuses,
        HonestInv, Announced, Closing, Peer, OwnReason
<1>17. ASSUME NEW e \in Ends, WatchdogTimeout(e) PROVE HonestInv'
  BY <1>17 DEF WatchdogTimeout, CloseWith, TypeOK, Ends, Kinds, Statuses, HonestInv,
        Announced, Closing, Peer, OwnReason
<1>18. ASSUME NEW e \in Ends, WatchdogStale(e) PROVE HonestInv'
  BY <1>18 DEF WatchdogStale, Transmit, linkVars, TypeOK, Ends, Kinds, Statuses, HonestInv,
        Announced, Closing, Peer, OwnReason
<1>19. ASSUME NEW e \in Ends, WatchdogCloses(e) PROVE HonestInv'
  BY <1>19 DEF WatchdogCloses, DoTeardown, CloseWith, linkVars, TypeOK, Ends, Kinds, Statuses,
        HonestInv, Announced, Closing, Peer, OwnReason
<1>20. ASSUME NEW e \in Ends, WatchdogExit(e) PROVE HonestInv'
  BY <1>20 DEF WatchdogExit, linkVars, TypeOK, Ends, Kinds, Statuses, HonestInv, Announced,
        Closing, Peer, OwnReason
<1>21. ASSUME NEW e \in Ends, Prune(e) PROVE HonestInv'
  BY <1>21 DEF Prune, linkVars, TypeOK, Ends, Kinds, Statuses, HonestInv, Announced, Closing,
        Peer, OwnReason
<1>22. ASSUME NEW e \in Ends, TimePasses(e) PROVE HonestInv'
  BY <1>22 DEF TimePasses, TypeOK, Ends, Kinds, Statuses, HonestInv, Announced, Closing, Peer,
        OwnReason
<1>23. ASSUME NEW answer \in BOOLEAN, HandleKeepalive(answer) PROVE HonestInv'
  BY <1>23 DEF HandleKeepalive, Transmit, linkVars, TypeOK, Ends, Kinds, Statuses, HonestInv,
        Announced, Closing, Peer, OwnReason
<1>24. ASSUME NEW e \in Ends, NEW due \in BOOLEAN, WatchdogActive(e, due) PROVE HonestInv'
  BY <1>24 DEF WatchdogActive, SendKeepalive, TypeOK, Ends, Kinds, Statuses, HonestInv,
        Announced, Closing, Peer, OwnReason
<1>25. ASSUME NEW e \in Ends, NEW packet \in Kinds, Receive(e, packet) PROVE HonestInv'
  BY <1>25 DEF Receive, Counts, Kinds, TypeOK, Ends, Statuses, HonestInv, Announced, Closing,
        Peer, OwnReason
<1>26. CASE UNCHANGED vars
  BY <1>26 DEF vars, linkVars, TypeOK, Ends, Kinds, Statuses, HonestInv, Announced, Closing,
        Peer, OwnReason
<1>27. QED
  BY <1>1, <1>2, <1>3, <1>4, <1>5, <1>6, <1>7, <1>8, <1>9, <1>10, <1>11, <1>12,
     <1>13, <1>14, <1>15, <1>16, <1>17, <1>18, <1>19, <1>20, <1>21, <1>22, <1>23, <1>24,
     <1>25, <1>26
  DEF Next, App, Handlers, InitiatorHandlers, DestinationHandlers, Watchdog

\* A teardown reason that blames the peer is right: the peer has closed the link, or has
\* sent the close packet and is about to (Teardown, watchdogJob and HandleRTT).
THEOREM LinkCloseIsHonest == Spec => []CloseIsHonest
<1>1. Init => HonestInv
  BY DEF Init, HonestInv, Announced, Closing, OwnReason, Peer, Ends
<1>2. HonestInv => CloseIsHonest
  <2>1. \A e \in Ends : Peer(e) \in Ends /\ Peer(Peer(e)) = e
    BY DEF Peer, Ends
  <2> QED
    BY <2>1 DEF HonestInv, Announced, CloseIsHonest
<1>3. Init => TrackedInv /\ CalledInv
  BY DEF Init, TrackedInv, InitiatorTracked, CalledInv, ClosedCalledOnce, Ends
<1>4. QED
  BY <1>1, <1>2, <1>3, HonestStep, TrackedStep, CalledStep, LinkTypeCorrect, PTL DEF Spec
=============================================================================
