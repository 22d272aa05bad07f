--------------------------- MODULE Request_proofs ---------------------------
(***************************************************************************)
(* Proofs about Request: typing, one callback for a request that fits a    *)
(* packet, the one that agrees with its final status, and a pending list   *)
(* without concluded receipts.                                             *)
(***************************************************************************)
EXTENDS Request, TLAPS

(***************************************************************************)
(* Nothing happens before the receipt is listed, and a receipt that is     *)
(* being answered has left the list.                                       *)
(***************************************************************************)
Listed ==
    /\ caller = "start" =>
          /\ status = "none" /\ pending = FALSE /\ failing = 0 /\ handler = "none"
          /\ timers = 0 /\ expired = 0 /\ concluding = 0
          /\ request = "none" /\ reply = "none"
    /\ handler = "accepts" => pending = FALSE

(***************************************************************************)
(* The callbacks of a packet are counted by its status.                    *)
(***************************************************************************)
Counted ==
    kind = "packet" =>
        /\ calls = 0 /\ concluding = 0
        /\ Concluded => successes + failures + failing = 1
        /\ ~Concluded => successes + failures + failing = 0

RequestInv == TypeOK /\ Listed /\ Counted /\ ConcludedLeavesList

\* Every step keeps the types.
LEMMA RequestTypeStep ==
    ASSUME TypeOK, [Next]_vars
    PROVE  TypeOK'
<1>1. ASSUME ListReceipt PROVE TypeOK'
  BY <1>1 DEF ListReceipt, fixed, TypeOK
<1>2. ASSUME SendRequest PROVE TypeOK'
  BY <1>2, ZenonT(60) DEF SendRequest, fixed, TypeOK
<1>3. ASSUME ArmTimeout PROVE TypeOK'
  BY <1>3 DEF ArmTimeout, fixed, TypeOK
<1>4. ASSUME HandleRequest PROVE TypeOK'
  BY <1>4 DEF HandleRequest, fixed, TypeOK
<1>5. ASSUME Respond PROVE TypeOK'
  BY <1>5 DEF Respond, fixed, TypeOK
<1>6. ASSUME RequestResourceEnds PROVE TypeOK'
  BY <1>6 DEF RequestResourceEnds, fixed, TypeOK
<1>7. ASSUME RequestResourceConcluded PROVE TypeOK'
  <2>1. pending' \in BOOLEAN
    BY <1>7, Zenon DEF RequestResourceConcluded, TypeOK
  <2> QED
    BY <1>7, <2>1 DEF RequestResourceConcluded, fixed, TypeOK
<1>8. ASSUME HandleResponse PROVE TypeOK'
  BY <1>8, ZenonT(60) DEF HandleResponse, fixed, TypeOK
<1>9. ASSUME ResponseReceived PROVE TypeOK'
  BY <1>9 DEF ResponseReceived, fixed, TypeOK
<1>10. ASSUME ResponseRejected PROVE TypeOK'
  BY <1>10 DEF ResponseRejected, FailUnlessConcluded, fixed, TypeOK
<1>11. ASSUME AcceptResponse PROVE TypeOK'
  BY <1>11 DEF AcceptResponse, fixed, TypeOK
<1>12. ASSUME ResponseResourceProgress PROVE TypeOK'
  BY <1>12 DEF ResponseResourceProgress, fixed, TypeOK
<1>13. ASSUME ResponseResourceCancelled PROVE TypeOK'
  BY <1>13 DEF ResponseResourceCancelled, FailUnlessConcluded, fixed, TypeOK
<1>14. ASSUME ResponseResourceGivesUp PROVE TypeOK'
  BY <1>14 DEF ResponseResourceGivesUp, fixed, TypeOK
<1>15. ASSUME TimerStops PROVE TypeOK'
  BY <1>15 DEF TimerStops, fixed, TypeOK
<1>16. ASSUME DeadlinePasses PROVE TypeOK'
  BY <1>16 DEF DeadlinePasses, fixed, TypeOK
<1>17. ASSUME RequestTimedOut PROVE TypeOK'
  BY <1>17 DEF RequestTimedOut, FailUnlessConcluded, fixed, TypeOK
<1>18. ASSUME ReportFailure PROVE TypeOK'
  <2>1. pending' \in BOOLEAN
    BY <1>18, Zenon DEF ReportFailure, TypeOK
  <2> QED
    BY <1>18, <2>1 DEF ReportFailure, fixed, TypeOK
<1>19. ASSUME LinkCloses PROVE TypeOK'
  <2>1. linkUp' \in BOOLEAN
    BY <1>19, Zenon DEF LinkCloses, TypeOK
  <2> QED
    BY <1>19, <2>1 DEF LinkCloses, fixed, TypeOK
<1>20. ASSUME UNCHANGED vars PROVE TypeOK'
  BY <1>20 DEF vars, fixed, TypeOK
<1> QED
  BY <1>1, <1>2, <1>3, <1>4, <1>5, <1>6, <1>7, <1>8, <1>9, <1>10, <1>11, <1>12, <1>13, <1>14, <1>15, <1>16, <1>17, <1>18, <1>19, <1>20 DEF Next

\* Every step keeps Listed.
LEMMA ListedStep ==
    ASSUME TypeOK, Listed, [Next]_vars
    PROVE  Listed'
<1>1. ASSUME ListReceipt PROVE Listed'
  BY <1>1 DEF ListReceipt, fixed, TypeOK, Listed
<1>2. ASSUME SendRequest PROVE Listed'
  BY <1>2, Zenon DEF SendRequest, fixed, TypeOK, Listed
<1>3. ASSUME ArmTimeout PROVE Listed'
  BY <1>3 DEF ArmTimeout, fixed, TypeOK, Listed
<1>4. ASSUME HandleRequest PROVE Listed'
  BY <1>4 DEF HandleRequest, fixed, TypeOK, Listed
<1>5. ASSUME Respond PROVE Listed'
  BY <1>5 DEF Respond, fixed, TypeOK, Listed
<1>6. ASSUME RequestResourceEnds PROVE Listed'
  BY <1>6 DEF RequestResourceEnds, fixed, TypeOK, Listed
<1>7. ASSUME RequestResourceConcluded PROVE Listed'
  BY <1>7 DEF RequestResourceConcluded, fixed, TypeOK, Listed
<1>8. ASSUME HandleResponse PROVE Listed'
  BY <1>8 DEF HandleResponse, fixed, TypeOK, Listed
<1>9. ASSUME ResponseReceived PROVE Listed'
  BY <1>9 DEF ResponseReceived, fixed, TypeOK, Listed
<1>10. ASSUME ResponseRejected PROVE Listed'
  BY <1>10 DEF ResponseRejected, FailUnlessConcluded, fixed, TypeOK, Listed
<1>11. ASSUME AcceptResponse PROVE Listed'
  BY <1>11 DEF AcceptResponse, fixed, TypeOK, Listed
<1>12. ASSUME ResponseResourceProgress PROVE Listed'
  BY <1>12 DEF ResponseResourceProgress, fixed, TypeOK, Listed
<1>13. ASSUME ResponseResourceCancelled PROVE Listed'
  BY <1>13 DEF ResponseResourceCancelled, FailUnlessConcluded, fixed, TypeOK, Listed
<1>14. ASSUME ResponseResourceGivesUp PROVE Listed'
  BY <1>14 DEF ResponseResourceGivesUp, fixed, TypeOK, Listed
<1>15. ASSUME TimerStops PROVE Listed'
  BY <1>15 DEF TimerStops, fixed, TypeOK, Listed
<1>16. ASSUME DeadlinePasses PROVE Listed'
  BY <1>16 DEF DeadlinePasses, fixed, TypeOK, Listed
<1>17. ASSUME RequestTimedOut PROVE Listed'
  BY <1>17 DEF RequestTimedOut, FailUnlessConcluded, fixed, TypeOK, Listed
<1>18. ASSUME ReportFailure PROVE Listed'
  BY <1>18 DEF ReportFailure, fixed, TypeOK, Listed
<1>19. ASSUME LinkCloses PROVE Listed'
  BY <1>19 DEF LinkCloses, fixed, TypeOK, Listed
<1>20. ASSUME UNCHANGED vars PROVE Listed'
  BY <1>20 DEF vars, fixed, TypeOK, Listed
<1> QED
  BY <1>1, <1>2, <1>3, <1>4, <1>5, <1>6, <1>7, <1>8, <1>9, <1>10, <1>11, <1>12, <1>13, <1>14, <1>15, <1>16, <1>17, <1>18, <1>19, <1>20 DEF Next

\* Every step keeps the count: each guard leaves a concluded receipt alone.
LEMMA CountedStep ==
    ASSUME TypeOK, Listed, Counted, [Next]_vars
    PROVE  Counted'
<1>1. ASSUME ListReceipt PROVE Counted'
  BY <1>1 DEF ListReceipt, fixed, TypeOK, Listed, Counted, Concluded
<1>2. ASSUME SendRequest PROVE Counted'
  BY <1>2 DEF SendRequest, fixed, TypeOK, Listed, Counted, Concluded
<1>3. ASSUME ArmTimeout PROVE Counted'
  BY <1>3 DEF ArmTimeout, fixed, TypeOK, Listed, Counted, Concluded
<1>4. ASSUME HandleRequest PROVE Counted'
  BY <1>4 DEF HandleRequest, fixed, TypeOK, Listed, Counted, Concluded
<1>5. ASSUME Respond PROVE Counted'
  BY <1>5 DEF Respond, fixed, TypeOK, Listed, Counted, Concluded
<1>6. ASSUME RequestResourceEnds PROVE Counted'
  BY <1>6 DEF RequestResourceEnds, fixed, TypeOK, Listed, Counted, Concluded
<1>7. ASSUME RequestResourceConcluded PROVE Counted'
  BY <1>7 DEF RequestResourceConcluded, fixed, TypeOK, Listed, Counted, Concluded
<1>8. ASSUME HandleResponse PROVE Counted'
  BY <1>8 DEF HandleResponse, fixed, TypeOK, Listed, Counted, Concluded
<1>9. ASSUME ResponseReceived PROVE Counted'
  BY <1>9 DEF ResponseReceived, fixed, TypeOK, Listed, Counted, Concluded
<1>10. ASSUME ResponseRejected PROVE Counted'
  BY <1>10 DEF ResponseRejected, FailUnlessConcluded, fixed, TypeOK, Listed, Counted, Concluded
<1>11. ASSUME AcceptResponse PROVE Counted'
  BY <1>11 DEF AcceptResponse, fixed, TypeOK, Listed, Counted, Concluded
<1>12. ASSUME ResponseResourceProgress PROVE Counted'
  BY <1>12 DEF ResponseResourceProgress, fixed, TypeOK, Listed, Counted, Concluded
<1>13. ASSUME ResponseResourceCancelled PROVE Counted'
  BY <1>13 DEF ResponseResourceCancelled, FailUnlessConcluded, fixed, TypeOK, Listed, Counted, Concluded
<1>14. ASSUME ResponseResourceGivesUp PROVE Counted'
  BY <1>14 DEF ResponseResourceGivesUp, fixed, TypeOK, Listed, Counted, Concluded
<1>15. ASSUME TimerStops PROVE Counted'
  BY <1>15 DEF TimerStops, fixed, TypeOK, Listed, Counted, Concluded
<1>16. ASSUME DeadlinePasses PROVE Counted'
  BY <1>16 DEF DeadlinePasses, fixed, TypeOK, Listed, Counted, Concluded
<1>17. ASSUME RequestTimedOut PROVE Counted'
  BY <1>17 DEF RequestTimedOut, FailUnlessConcluded, fixed, TypeOK, Listed, Counted, Concluded
<1>18. ASSUME ReportFailure PROVE Counted'
  BY <1>18 DEF ReportFailure, fixed, TypeOK, Listed, Counted, Concluded
<1>19. ASSUME LinkCloses PROVE Counted'
  BY <1>19 DEF LinkCloses, fixed, TypeOK, Listed, Counted, Concluded
<1>20. ASSUME UNCHANGED vars PROVE Counted'
  BY <1>20 DEF vars, fixed, TypeOK, Listed, Counted, Concluded
<1> QED
  BY <1>1, <1>2, <1>3, <1>4, <1>5, <1>6, <1>7, <1>8, <1>9, <1>10, <1>11, <1>12, <1>13, <1>14, <1>15, <1>16, <1>17, <1>18, <1>19, <1>20 DEF Next

\* Every step keeps concluded receipts off the list.
LEMMA LeavesListStep ==
    ASSUME TypeOK, Listed, ConcludedLeavesList, [Next]_vars
    PROVE  ConcludedLeavesList'
<1>1. ASSUME ListReceipt PROVE ConcludedLeavesList'
  BY <1>1 DEF ListReceipt, fixed, TypeOK, Listed, ConcludedLeavesList, Concluded
<1>2. ASSUME SendRequest PROVE ConcludedLeavesList'
  BY <1>2, Zenon DEF SendRequest, fixed, TypeOK, Listed, ConcludedLeavesList, Concluded
<1>3. ASSUME ArmTimeout PROVE ConcludedLeavesList'
  BY <1>3 DEF ArmTimeout, fixed, TypeOK, Listed, ConcludedLeavesList, Concluded
<1>4. ASSUME HandleRequest PROVE ConcludedLeavesList'
  BY <1>4 DEF HandleRequest, fixed, TypeOK, Listed, ConcludedLeavesList, Concluded
<1>5. ASSUME Respond PROVE ConcludedLeavesList'
  BY <1>5 DEF Respond, fixed, TypeOK, Listed, ConcludedLeavesList, Concluded
<1>6. ASSUME RequestResourceEnds PROVE ConcludedLeavesList'
  BY <1>6 DEF RequestResourceEnds, fixed, TypeOK, Listed, ConcludedLeavesList, Concluded
<1>7. ASSUME RequestResourceConcluded PROVE ConcludedLeavesList'
  BY <1>7 DEF RequestResourceConcluded, fixed, TypeOK, Listed, ConcludedLeavesList, Concluded
<1>8. ASSUME HandleResponse PROVE ConcludedLeavesList'
  BY <1>8, Zenon DEF HandleResponse, fixed, TypeOK, Listed, ConcludedLeavesList, Concluded
<1>9. ASSUME ResponseReceived PROVE ConcludedLeavesList'
  BY <1>9 DEF ResponseReceived, fixed, TypeOK, Listed, ConcludedLeavesList, Concluded
<1>10. ASSUME ResponseRejected PROVE ConcludedLeavesList'
  BY <1>10 DEF ResponseRejected, FailUnlessConcluded, fixed, TypeOK, Listed, ConcludedLeavesList, Concluded
<1>11. ASSUME AcceptResponse PROVE ConcludedLeavesList'
  BY <1>11 DEF AcceptResponse, fixed, TypeOK, Listed, ConcludedLeavesList, Concluded
<1>12. ASSUME ResponseResourceProgress PROVE ConcludedLeavesList'
  BY <1>12 DEF ResponseResourceProgress, fixed, TypeOK, Listed, ConcludedLeavesList, Concluded
<1>13. ASSUME ResponseResourceCancelled PROVE ConcludedLeavesList'
  BY <1>13 DEF ResponseResourceCancelled, FailUnlessConcluded, fixed, TypeOK, Listed, ConcludedLeavesList, Concluded
<1>14. ASSUME ResponseResourceGivesUp PROVE ConcludedLeavesList'
  BY <1>14 DEF ResponseResourceGivesUp, fixed, TypeOK, Listed, ConcludedLeavesList, Concluded
<1>15. ASSUME TimerStops PROVE ConcludedLeavesList'
  BY <1>15 DEF TimerStops, fixed, TypeOK, Listed, ConcludedLeavesList, Concluded
<1>16. ASSUME DeadlinePasses PROVE ConcludedLeavesList'
  BY <1>16 DEF DeadlinePasses, fixed, TypeOK, Listed, ConcludedLeavesList, Concluded
<1>17. ASSUME RequestTimedOut PROVE ConcludedLeavesList'
  BY <1>17 DEF RequestTimedOut, FailUnlessConcluded, fixed, TypeOK, Listed, ConcludedLeavesList, Concluded
<1>18. ASSUME ReportFailure PROVE ConcludedLeavesList'
  BY <1>18 DEF ReportFailure, fixed, TypeOK, Listed, ConcludedLeavesList, Concluded
<1>19. ASSUME LinkCloses PROVE ConcludedLeavesList'
  BY <1>19 DEF LinkCloses, fixed, TypeOK, Listed, ConcludedLeavesList, Concluded
<1>20. ASSUME UNCHANGED vars PROVE ConcludedLeavesList'
  BY <1>20 DEF vars, fixed, TypeOK, Listed, ConcludedLeavesList, Concluded
<1> QED
  BY <1>1, <1>2, <1>3, <1>4, <1>5, <1>6, <1>7, <1>8, <1>9, <1>10, <1>11, <1>12, <1>13, <1>14, <1>15, <1>16, <1>17, <1>18, <1>19, <1>20 DEF Next

\* The strengthening of the properties is an invariant of the request.
THEOREM RequestInvariant == Spec => []RequestInv
<1>1. Init => RequestInv
  <2>1. Init => pending \in BOOLEAN /\ progress \in BOOLEAN /\ linkUp \in BOOLEAN
    BY Zenon DEF Init
  <2>2. Init => TypeOK
    BY <2>1 DEF Init, TypeOK
  <2>3. Init => Listed /\ Counted /\ ConcludedLeavesList
    BY DEF Init, Listed, Counted, ConcludedLeavesList, Concluded
  <2> QED
    BY <2>2, <2>3 DEF RequestInv
<1>2. RequestInv /\ [Next]_vars => RequestInv'
  BY RequestTypeStep, ListedStep, CountedStep, LeavesListStep DEF RequestInv
<1> QED
  BY <1>1, <1>2, PTL DEF Spec

\* A request that fits a packet calls back at most once, however responseReceived,
\* ResponseRejected, requestTimedOut and failPendingResponseRequest race.
THEOREM PacketCallback == Spec => []PacketCallsBackOnce
<1>1. RequestInv => PacketCallsBackOnce
  BY DEF RequestInv, TypeOK, Counted, PacketCallsBackOnce
<1> QED
  BY <1>1, RequestInvariant, PTL

\* A receipt that Link.handleResponse could find on the pending list is not concluded,
\* unless the one who concluded it is about to take it off.
THEOREM PendingIsOpen == Spec => []ConcludedLeavesList
<1>1. RequestInv => ConcludedLeavesList
  BY DEF RequestInv
<1> QED
  BY <1>1, RequestInvariant, PTL

\* The types of the receipt, its timers and its callbacks, for any number of callbacks
\* of the request's resource.
THEOREM RequestTypeCorrect == Spec => []TypeOK
<1>1. RequestInv => TypeOK
  BY DEF RequestInv
<1> QED
  BY <1>1, RequestInvariant, PTL

\* The callback a packet has had, or is about to have, is the one of its status.
Agrees ==
    kind = "packet" => /\ status = "ready" <=> successes = 1
                       /\ status = "failed" <=> failures + failing = 1

\* The steps that do not touch the status and the callbacks of a receipt.
Aside ==
    \/ SendRequest \/ HandleRequest \/ Respond \/ RequestResourceEnds \/ HandleResponse
    \/ AcceptResponse \/ ResponseResourceGivesUp \/ TimerStops \/ DeadlinePasses \/ LinkCloses

\* A packet that is concluded keeps its outcome, and the callbacks go with it.
LEMMA OutcomeStep ==
    ASSUME RequestInv, Agrees, [Next]_vars, kind = "packet"
    PROVE  Agrees' /\ (Concluded => status' = status)
<1> DEFINE Goal == Agrees' /\ (Concluded => status' = status)
<1>t. successes \in Nat /\ failures \in Nat /\ failing \in Nat
  BY DEF RequestInv, TypeOK
<1>c. /\ concluding = 0
      /\ Concluded => successes + failures + failing = 1
      /\ ~Concluded => successes = 0 /\ failures = 0 /\ failing = 0
  BY <1>t DEF RequestInv, Counted
<1>k. ASSUME UNCHANGED <<status, successes, failures, failing>> PROVE Goal
  BY <1>k DEF Agrees
<1>1. CASE Aside \/ UNCHANGED vars
  <2>1. UNCHANGED <<status, successes, failures, failing>>
    BY <1>1, Zenon DEF Aside, vars, SendRequest, HandleRequest, Respond, RequestResourceEnds,
       HandleResponse, AcceptResponse, ResponseResourceGivesUp, TimerStops, DeadlinePasses,
       LinkCloses
  <2> QED
    BY <1>k, <2>1
<1>2. CASE ListReceipt
  <2>1. status = "none" /\ status' = "sent" /\ UNCHANGED <<successes, failures, failing>>
    BY <1>2 DEF ListReceipt, RequestInv, Listed
  <2> QED
    BY <2>1 DEF Agrees, Concluded
<1>3. CASE ArmTimeout \/ ResponseResourceProgress
  <2>1. /\ UNCHANGED <<successes, failures, failing>>
        /\ status' = status \/ (~Concluded /\ status' \in {"delivered", "receiving"})
    BY <1>3 DEF ArmTimeout, ResponseResourceProgress, Concluded
  <2> QED
    BY <1>k, <1>c, <2>1 DEF Agrees
<1>4. CASE RequestResourceConcluded
  BY <1>4, <1>c DEF RequestResourceConcluded
<1>5. CASE ResponseReceived
  <2>1. /\ UNCHANGED <<failures, failing>>
        /\ \/ UNCHANGED <<status, successes>>
           \/ ~Concluded /\ status' = "ready" /\ successes' = successes + 1
    BY <1>5 DEF ResponseReceived
  <2> QED
    BY <1>k, <1>c, <2>1 DEF Agrees
<1>6. CASE ResponseRejected \/ ResponseResourceCancelled \/ RequestTimedOut
  <2>1. /\ UNCHANGED <<successes, failures>>
        /\ \/ UNCHANGED <<status, failing>>
           \/ ~Concluded /\ status' = "failed" /\ failing' = failing + 1
    BY <1>6, Zenon DEF ResponseRejected, ResponseResourceCancelled, RequestTimedOut,
       FailUnlessConcluded
  <2> QED
    BY <1>k, <1>c, <2>1 DEF Agrees
<1>7. CASE ReportFailure
  <2>1. /\ failing > 0 /\ failing' = failing - 1 /\ failures' = failures + 1
        /\ UNCHANGED <<status, successes>>
    BY <1>7 DEF ReportFailure
  <2>2. failures' + failing' = failures + failing
    BY <1>t, <2>1
  <2> QED
    BY <2>1, <2>2 DEF Agrees
<1> QED
  BY <1>1, <1>2, <1>3, <1>4, <1>5, <1>6, <1>7 DEF Next, Aside

\* The outcome of a request that fits a packet is settled once: what responseReceived,
\* ResponseRejected or requestTimedOut told the application is what Status says from
\* then on, whatever comes late.
THEOREM PacketOutcome == Spec => OutcomeIsFinal
<1>1. Init => Agrees
  BY DEF Init, Agrees
<1>2. RequestInv /\ Agrees /\ [Next]_vars => Agrees'
  <2>1. ASSUME [Next]_vars PROVE kind' = kind
    BY <2>1, Zenon DEF Next, vars, fixed, ListReceipt, SendRequest, ArmTimeout, HandleRequest, Respond, RequestResourceEnds,
       RequestResourceConcluded, HandleResponse, ResponseReceived, ResponseRejected,
       AcceptResponse, ResponseResourceProgress, ResponseResourceCancelled, ResponseResourceGivesUp,
       TimerStops, DeadlinePasses, RequestTimedOut, ReportFailure, LinkCloses
  <2>2. ASSUME kind # "packet", [Next]_vars PROVE Agrees'
    BY <2>1, <2>2 DEF Agrees
  <2> QED
    BY <2>2, OutcomeStep
<1>3. RequestInv /\ Agrees /\ [Next]_vars => [kind = "packet" /\ Concluded => status' = status]_vars
  BY OutcomeStep
<1> QED
  BY <1>1, <1>2, <1>3, RequestInvariant, PTL DEF Spec, OutcomeIsFinal, Agrees
=============================================================================
