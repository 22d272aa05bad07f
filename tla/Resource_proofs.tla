-------------------------- MODULE Resource_proofs --------------------------
(***************************************************************************)
(* Proofs about Resource.  The first part holds for every size of a        *)
(* resource; the second, about the hash map, for resources of at most      *)
(* three segments of it.                                                   *)
(***************************************************************************)
EXTENDS Resource, FiniteSetTheorems, NaturalsInduction, WellFoundedInduction, TLAPS

\* A set of naturals has a least element.
LEMMA LeastElement ==
    ASSUME NEW S \in SUBSET Nat, S # {}
    PROVE  \E i \in S : \A j \in S : i <= j
<1> DEFINE R == {p \in Nat \X Nat : p[1] < p[2]}
<1>1. IsWellFoundedOn(R, Nat)
  BY NatLessThanWellFounded DEF OpToRel
<1> HIDE DEF R
<1>2. PICK i \in S : \A j \in S : ~(<<j, i>> \in R)
  BY <1>1, WFMin, Zenon
<1>3. ASSUME NEW j \in S PROVE i <= j
  <2>1. ~(<<j, i>> \in R)
    BY <1>2
  <2>2. i \in Nat /\ j \in Nat
    OBVIOUS
  <2> QED
    BY <2>1, <2>2 DEF R
<1> QED
  BY <1>3

\* What consecutiveCompletedHeight stands for exists, and is a missing part unless
\* all are received.
LEMMA FirstMissingFacts ==
    ASSUME NEW S, S \subseteq Parts
    PROVE  /\ FirstMissing(S) \in 0 .. TotalParts
           /\ FirstMissing(S) \notin S
           /\ S # Parts => FirstMissing(S) \in Parts
<1> DEFINE Gaps == (0 .. TotalParts) \ S
           P(i) == i \notin S /\ 0 .. i - 1 \subseteq S
<1>1. TotalParts \in Gaps /\ Gaps \in SUBSET Nat
  BY MapAssumption DEF Parts
<1>2. PICK least \in Gaps : \A j \in Gaps : least <= j
  BY <1>1, LeastElement, Zenon
<1>3. least \in 0 .. TotalParts /\ P(least)
  BY <1>2, MapAssumption
<1>4. FirstMissing(S) \in 0 .. TotalParts /\ P(FirstMissing(S))
  BY <1>3 DEF FirstMissing
<1>5. S # Parts => FirstMissing(S) \in Parts
  <2>1. FirstMissing(S) = TotalParts => Parts \subseteq S
    BY <1>4 DEF Parts
  <2>2. FirstMissing(S) # TotalParts => FirstMissing(S) \in Parts
    BY <1>4, MapAssumption DEF Parts
  <2> QED
    BY <2>1, <2>2
<1> QED
  BY <1>4, <1>5

\* The parts a request looks at are parts, and the first missing one is among them.
LEMMA RequestRangeFacts ==
    ASSUME NEW S, S \subseteq Parts, NEW size \in Nat, size > 0
    PROVE  /\ RequestRange(S, size) \subseteq Parts
           /\ S # Parts => FirstMissing(S) \in RequestRange(S, size)
<1> DEFINE first == FirstMissing(S)
<1>1. first \in 0 .. TotalParts /\ (S # Parts => first \in Parts)
  BY FirstMissingFacts
<1>2. RequestRange(S, size) = first .. Lesser(first + size, TotalParts) - 1
  BY DEF RequestRange
<1> HIDE DEF first
<1>3. first .. Lesser(first + size, TotalParts) - 1 \subseteq Parts
  BY <1>1, MapAssumption DEF Lesser, Parts
<1>4. first \in Parts => first \in first .. Lesser(first + size, TotalParts) - 1
  BY <1>1, MapAssumption DEF Lesser, Parts
<1> QED
  BY <1>1, <1>2, <1>3, <1>4 DEF first

-----------------------------------------------------------------------------
(***************************************************************************)
(* The inductive invariant for every size.  A hashmap update is awaited    *)
(* only while some map hash is unknown, so that no update can reach a      *)
(* resource that has all its parts; Assemble starts once, with the last    *)
(* part.                                                                   *)
(***************************************************************************)
ReceiverInv ==
    /\ received \subseteq Parts /\ received \subseteq known
    /\ rStatus \in ReceiverStatuses /\ (rStatus = "none" => received = {})
    /\ waitingForHmu \in BOOLEAN /\ linkUp \in BOOLEAN
    /\ waitingForHmu = TRUE => ~(Parts \subseteq known)
    /\ assembly \in {"idle", "pending", "done"}
    /\ assembly # "idle" <=> received = Parts
    /\ rStatus = "complete" => assembly = "done"
    /\ rStatus \in {"none", "transferring"} => assembly # "done"

WindowInv ==
    /\ window \in [size : Nat, min : Nat, max : Nat]
    /\ 2 <= window.min /\ window.min <= window.size /\ window.size <= window.max

ProofInv ==
    Prf \in net \/ sStatus = "complete" \/ "complete" \in sTold => rStatus = "complete"

ResourceInv == ReceiverInv /\ WindowInv /\ ProofInv

\* Growing and shrinking keep the window between its bounds.
LEMMA WindowFacts ==
    ASSUME WindowInv
    PROVE  /\ Grow(window) \in [size : Nat, min : Nat, max : Nat]
           /\ 2 <= Grow(window).min
           /\ Grow(window).min <= Grow(window).size /\ Grow(window).size <= Grow(window).max
           /\ Shrink(window) \in [size : Nat, min : Nat, max : Nat]
           /\ 2 <= Shrink(window).min
           /\ Shrink(window).min <= Shrink(window).size
           /\ Shrink(window).size <= Shrink(window).max
<1> DEFINE Record == [size : Nat, min : Nat, max : Nat]
           Ordered(w) == w \in Record /\ 2 <= w.min /\ w.min <= w.size /\ w.size <= w.max
<1>1. Ordered(Grow(window))
  <2>1. CASE window.size < window.max
    <3> DEFINE low == IF window.size + 1 - window.min > WindowFlexibility - 1
                      THEN window.min + 1 ELSE window.min
    <3>1. Grow(window) = [size |-> window.size + 1, min |-> low, max |-> window.max]
      BY <2>1, Zenon DEF Grow, WindowInv
    <3>2. low \in Nat /\ 2 <= low /\ low <= window.size + 1
      BY MapAssumption DEF WindowInv
    <3> QED
      BY <2>1, <3>1, <3>2 DEF WindowInv
  <2>2. CASE ~(window.size < window.max)
    BY <2>2 DEF Grow, WindowInv
  <2> QED
    BY <2>1, <2>2
<1>2. Ordered(Shrink(window))
  <2>1. CASE window.size > window.min
    <3> DEFINE high == IF window.max - 1 - (window.size - 1) > WindowFlexibility - 1
                       THEN window.max - 1 - 1 ELSE window.max - 1
    <3>1. window.max > window.min
      BY <2>1 DEF WindowInv
    <3>2. Shrink(window) = [size |-> window.size - 1, min |-> window.min, max |-> high]
      <4>1. Shrink(window) = [window EXCEPT !.size = @ - 1, !.max = high]
        BY <2>1, <3>1, Zenon DEF Shrink
      <4> HIDE DEF high
      <4> QED
        BY <4>1, Zenon DEF WindowInv
    <3>3. high \in Nat /\ window.size - 1 <= high /\ window.min <= window.size - 1
          /\ window.size - 1 \in Nat
      BY <2>1, <3>1, MapAssumption DEF WindowInv
    <3> QED
      BY <3>2, <3>3 DEF WindowInv
  <2>2. CASE ~(window.size > window.min)
    BY <2>2 DEF Shrink, WindowInv
  <2> QED
    BY <2>1, <2>2
<1> QED
  BY <1>1, <1>2

\* What RequestNext does to the flag and to the network.
LEMMA RequestNextFacts ==
    ASSUME received \subseteq Parts, linkUp \in BOOLEAN,
           NEW taken, NEW waiting \in BOOLEAN, NEW kn, NEW height, NEW size \in Nat, size > 0,
           waiting = TRUE => ~(Parts \subseteq kn),
           RequestNext(taken, waiting, kn, height, size)
    PROVE  /\ waitingForHmu' \in BOOLEAN
           /\ waitingForHmu' = TRUE => ~(Parts \subseteq kn)
           /\ \A m \in net' : m \in net \/ m.type = "req"
<1>1. CASE received = Parts \/ waiting
  BY <1>1 DEF RequestNext, Receive
<1>2. CASE ~(received = Parts \/ waiting)
  <2> DEFINE wanted == Wanted(received, kn, size)
             exhausted == Exhausted(received, kn, size)
  <2>1. exhausted \in BOOLEAN /\ (exhausted => ~(Parts \subseteq kn))
    BY RequestRangeFacts, Zenon DEF Exhausted
  <2>2. CASE exhausted /\ ~(height - 1 \in kn)
    BY <1>2, <2>2, Zenon DEF RequestNext, Receive
  <2>3. CASE ~(exhausted /\ ~(height - 1 \in kn))
    <3>1. /\ waitingForHmu' = (exhausted /\ linkUp)
          /\ Transmit(taken, {Req(wanted, IF exhausted THEN height - 1 ELSE NoMapHash)})
      BY <1>2, <2>3 DEF RequestNext
    <3>2. waitingForHmu' \in BOOLEAN /\ (waitingForHmu' = TRUE => ~(Parts \subseteq kn))
      BY <2>1, <3>1
    <3>3. \A m \in net' : m \in net \/ m.type = "req"
      BY <3>1 DEF Transmit, Receive, Req
    <3> QED
      BY <3>2, <3>3
  <2> QED
    BY <2>2, <2>3, Zenon
<1> QED
  BY <1>1, <1>2, Zenon

\* No step of the sender, and no closing of the link, touches the receiver.
LEMMA SenderKeepsReceiver ==
    ASSUME ReceiverInv, WindowInv, SenderNext \/ LinkCloses
    PROVE  ReceiverInv' /\ WindowInv' /\ rStatus' = rStatus
<1>1. ASSUME UNCHANGED rVars, linkUp' \in BOOLEAN
      PROVE  ReceiverInv' /\ WindowInv' /\ rStatus' = rStatus
  BY <1>1 DEF ReceiverInv, WindowInv, rVars, mapVars, askVars
<1>2. UNCHANGED rVars /\ linkUp' \in BOOLEAN
  <2>1. CASE LinkCloses
    BY <2>1, Zenon DEF LinkCloses
  <2>2. ASSUME NEW m \in net, Request(m) \/ RequestRefused(m)
        PROVE  UNCHANGED rVars /\ linkUp' \in BOOLEAN
    BY <2>2 DEF Request, RequestRefused, ReceiverInv
  <2>3. CASE \/ Advertise \/ ValidateProof \/ AdvertiseAgain \/ TransferTimeout \/ AskForProof
             \/ SenderWatchdogEnds \/ SenderCancel \/ SenderCallback
    BY <2>3 DEF Advertise, ValidateProof, AdvertiseAgain, TransferTimeout, AskForProof,
                SenderWatchdogEnds, SenderCancel, SenderCallback, ReceiverInv
  <2> QED
    BY <2>1, <2>2, <2>3 DEF SenderNext
<1> QED
  BY <1>1, <1>2

\* Every step keeps the receiver's part of the invariant, and leaves a completed
\* resource complete.
LEMMA ReceiverStep ==
    ASSUME ReceiverInv, WindowInv, [Next]_vars
    PROVE  ReceiverInv' /\ WindowInv' /\ (rStatus = "complete" => rStatus' = "complete")
<1> DEFINE Goal == ReceiverInv' /\ WindowInv' /\ (rStatus = "complete" => rStatus' = "complete")
<1>w. window.size \in Nat /\ window.size > 0
  BY DEF WindowInv
<1>s. Shrink(window).size \in Nat /\ Shrink(window).size > 0
  BY WindowFacts
<1>1. ASSUME Accept PROVE Goal
  <2>1. /\ waitingForHmu' \in BOOLEAN
        /\ waitingForHmu' = TRUE => ~(Parts \subseteq HashmapSegment(0))
    BY <1>1, <1>w, RequestNextFacts, Zenon DEF Accept, ReceiverInv
  <2>2. received = {}
    BY <1>1 DEF Accept, ReceiverInv
  <2> QED
    BY <1>1, <2>1, <2>2 DEF Accept, ReceiverInv, WindowInv, ReceiverStatuses
<1>2. ASSUME AcceptRepeated PROVE Goal
  BY <1>2 DEF AcceptRepeated, rVars, mapVars, askVars, ReceiverInv, WindowInv, ReceiverStatuses
<1>3. ASSUME RunRequestNext PROVE Goal
  <2>1. /\ waitingForHmu' \in BOOLEAN
        /\ waitingForHmu' = TRUE => ~(Parts \subseteq known)
    <3>1. CASE rStatus = "failed"
      BY <1>3, <3>1 DEF RunRequestNext, askVars, ReceiverInv
    <3>2. CASE rStatus # "failed"
      BY <1>3, <1>w, <3>2, RequestNextFacts, Zenon DEF RunRequestNext, ReceiverInv
    <3> QED
      BY <3>1, <3>2, Zenon
  <2> QED
    BY <1>3, <2>1 DEF RunRequestNext, mapVars, ReceiverInv, WindowInv, ReceiverStatuses
<1>4. ASSUME Assemble PROVE Goal
  BY <1>4, Zenon DEF Assemble, ReceiverStatuses, mapVars, askVars, ReceiverInv, WindowInv, ReceiverStatuses
<1>5. ASSUME AskAgain PROVE Goal
  <2>1. /\ waitingForHmu' \in BOOLEAN
        /\ waitingForHmu' = TRUE => ~(Parts \subseteq known)
    BY <1>5, <1>s, RequestNextFacts, Zenon DEF AskAgain, ReceiverInv
  <2>2. WindowInv'
    BY <1>5, WindowFacts DEF AskAgain, WindowInv
  <2> QED
    BY <1>5, <2>1, <2>2 DEF AskAgain, mapVars, ReceiverInv
<1>6. ASSUME ReceiverGivesUp \/ ReceiverCancel \/ ReceiverCallback PROVE Goal
  <2>1. linkUp' \in BOOLEAN
    BY <1>6, Zenon DEF ReceiverGivesUp, ReceiverCancel, ReceiverCallback, ReceiverInv
  <2> QED
    BY <1>6, <2>1 DEF ReceiverGivesUp, ReceiverCancel, ReceiverCallback, mapVars, askVars,
                      ReceiverInv, WindowInv, ReceiverStatuses
<1>7. ASSUME NEW m \in net, HashmapUpdate(m) PROVE Goal
  <2>1. CASE HmuIgnored
    BY <1>7, <2>1 DEF HashmapUpdate, rVars, mapVars, askVars, ReceiverInv, WindowInv, ReceiverStatuses
  <2>2. CASE ~HmuIgnored
    <3>1. waitingForHmu = TRUE /\ assembly = "idle" /\ received # Parts
      BY <2>2 DEF HmuIgnored, ReceiverInv
    <3>2. /\ waitingForHmu' \in BOOLEAN
          /\ waitingForHmu' = TRUE => ~(Parts \subseteq known')
      BY <1>7, <1>w, <2>2, RequestNextFacts, Zenon DEF HashmapUpdate, ReceiverInv
    <3> QED
      BY <1>7, <2>2, <3>1, <3>2 DEF HashmapUpdate, ReceiverInv, WindowInv, ReceiverStatuses
  <2> QED
    BY <2>1, <2>2
<1>8. ASSUME NEW i \in Parts, ReceivePart(i) PROVE Goal
  <2>1. CASE rStatus = "failed"
    BY <1>8, <2>1 DEF ReceivePart, rVars, mapVars, askVars, ReceiverInv, WindowInv, ReceiverStatuses
  <2>2. CASE rStatus # "failed"
    <3>1. /\ received' \subseteq Parts /\ received' \subseteq known
          /\ received = Parts => received' = Parts
          /\ received \subseteq received'
      <4>1. received' = received \/ (received' = received \cup {i} /\ i \in known)
        BY <1>8, <2>2 DEF ReceivePart
      <4> QED
        BY <4>1 DEF ReceiverInv
    <3>2. /\ assembly' = IF received' = Parts /\ assembly = "idle" THEN "pending" ELSE assembly
          /\ rStatus' = StatusAfterPart
          /\ UNCHANGED <<known, waitingForHmu, linkUp>>
      BY <1>8, <2>2 DEF ReceivePart, mapVars
    <3>3. WindowInv'
      BY <1>8, <2>2, WindowFacts DEF ReceivePart, WindowInv
    <3>4. /\ assembly' # "idle" <=> received' = Parts
          /\ assembly' \in {"idle", "pending", "done"}
      BY <3>1, <3>2 DEF ReceiverInv
    <3>5. rStatus = "none" => FALSE
      BY <1>8 DEF ReceivePart
    <3> QED
      BY <2>2, <3>1, <3>2, <3>3, <3>4, <3>5 DEF StatusAfterPart, ReceiverInv, ReceiverStatuses
  <2> QED
    BY <2>1, <2>2
<1>9. ASSUME UNCHANGED vars PROVE Goal
  BY <1>9 DEF vars, rVars, mapVars, askVars, ReceiverInv, WindowInv, ReceiverStatuses
<1> QED
  BY <1>1, <1>2, <1>3, <1>4, <1>5, <1>6, <1>7, <1>8, <1>9, SenderKeepsReceiver
     DEF Next, ReceiverNext

\* A proof, and the sender's word that the transfer is complete, are younger than
\* the receiver's COMPLETE.
LEMMA ProofStep ==
    ASSUME ResourceInv, [Next]_vars
    PROVE  ProofInv'
<1> USE DEF ResourceInv
<1>1. CASE rStatus = "complete"
  BY <1>1, ReceiverStep DEF ProofInv
<1>2. CASE rStatus # "complete"
  <2>p. Prf \notin net /\ sStatus # "complete" /\ "complete" \notin sTold
    BY <1>2 DEF ProofInv
  <2> SUFFICES rStatus' = "complete"
            \/ (Prf \notin net' /\ sStatus' # "complete" /\ "complete" \notin sTold')
    BY DEF ProofInv
  <2>q. ASSUME UNCHANGED sVars, \A m \in net' : m \in net \/ m.type = "req"
        PROVE  Prf \notin net' /\ sStatus' # "complete" /\ "complete" \notin sTold'
    BY <2>p, <2>q DEF sVars, Prf
  <2>w. window.size \in Nat /\ window.size > 0
    BY DEF WindowInv
  <2>s. Shrink(window).size \in Nat /\ Shrink(window).size > 0
    BY WindowFacts
  <2>1. CASE Advertise
    BY <2>1, <2>p DEF Advertise, Transmit, Receive, Adv, Prf
  <2>2. CASE ValidateProof
    BY <2>2, <2>p DEF ValidateProof
  <2>3. CASE AdvertiseAgain
    <3>1. sStatus' # "complete" /\ sTold' = sTold
      BY <2>3, <2>p, Zenon DEF AdvertiseAgain, SenderGivesUp
    <3>2. \A m \in net' : m \in net \/ m = Adv
      BY <2>3, Zenon DEF AdvertiseAgain, SenderGivesUp, Transmit, Receive, netVars
    <3> QED
      BY <2>p, <3>1, <3>2 DEF Adv, Prf
  <2>4. CASE TransferTimeout
    BY <2>4, <2>p DEF TransferTimeout, SenderGivesUp, netVars
  <2>5. CASE AskForProof
    BY <1>2, <2>5, <2>p, Zenon DEF AskForProof, SenderGivesUp, netVars
  <2>6. CASE SenderWatchdogEnds \/ SenderCancel \/ SenderCallback
    BY <2>6, <2>p DEF SenderWatchdogEnds, SenderCancel, SenderCallback, netVars
  <2>7. ASSUME NEW m \in net, Request(m)
        PROVE  Prf \notin net' /\ sStatus' # "complete" /\ "complete" \notin sTold'
    <3>1. sStatus' # "complete" /\ sTold' = sTold
      BY <2>7 DEF Request
    <3>2. Prf \notin net'
      <4>1. CASE linkUp
        <5>1. PICK kept, seg : /\ kept \subseteq {Part(i) : i \in m.parts} \cup {Hmu(seg)}
                               /\ net' \subseteq net \cup kept
          BY <2>7, <4>1, Zenon DEF Request, Transmit, Receive
        <5> QED
          BY <5>1, <2>p DEF Part, Hmu, Prf
      <4>2. CASE ~linkUp
        BY <2>7, <4>2, <2>p DEF Request, Discard, Receive
      <4> QED
        BY <4>1, <4>2
    <3> QED
      BY <3>1, <3>2, <2>p
  <2>8. ASSUME NEW m \in net, RequestRefused(m)
        PROVE  Prf \notin net' /\ sStatus' # "complete" /\ "complete" \notin sTold'
    BY <2>8, <2>p DEF RequestRefused, Discard, Receive, sVars
  <2>9. CASE Accept
    BY <2>9, <2>q, <2>w, RequestNextFacts, Zenon DEF Accept, ReceiverInv
  <2>10. CASE AcceptRepeated
    BY <2>10, <2>q DEF AcceptRepeated, Discard, Receive
  <2>11. CASE RunRequestNext
    <3>1. CASE rStatus = "failed"
      BY <2>11, <2>q, <3>1 DEF RunRequestNext, netVars
    <3>2. CASE rStatus # "failed"
      BY <2>11, <2>q, <2>w, <3>2, RequestNextFacts, Zenon DEF RunRequestNext, ReceiverInv
    <3> QED
      BY <3>1, <3>2
  <2>12. CASE Assemble
    BY <2>12, <2>q, Zenon DEF Assemble, netVars
  <2>13. CASE AskAgain
    BY <2>13, <2>q, <2>s, RequestNextFacts, Zenon DEF AskAgain, ReceiverInv
  <2>14. CASE ReceiverGivesUp \/ ReceiverCancel \/ ReceiverCallback \/ LinkCloses
    BY <2>14, <2>q DEF ReceiverGivesUp, ReceiverCancel, ReceiverCallback, LinkCloses, netVars
  <2>15. ASSUME NEW m \in net, HashmapUpdate(m)
         PROVE  Prf \notin net' /\ sStatus' # "complete" /\ "complete" \notin sTold'
    <3>1. CASE HmuIgnored
      BY <2>15, <2>q, <3>1 DEF HashmapUpdate, Discard, Receive
    <3>2. CASE ~HmuIgnored
      BY <2>15, <2>q, <2>w, <3>2, RequestNextFacts, Zenon DEF HashmapUpdate, ReceiverInv
    <3> QED
      BY <3>1, <3>2
  <2>16. ASSUME NEW i \in Parts, ReceivePart(i)
         PROVE  Prf \notin net' /\ sStatus' # "complete" /\ "complete" \notin sTold'
    BY <2>16, <2>q DEF ReceivePart, Discard, Receive
  <2>17. CASE UNCHANGED vars
    BY <2>17, <2>p DEF vars, sVars, netVars
  <2> QED
    BY <2>1, <2>2, <2>3, <2>4, <2>5, <2>6, <2>7, <2>8, <2>9, <2>10, <2>11, <2>12, <2>13,
       <2>14, <2>15, <2>16, <2>17 DEF Next, SenderNext, ReceiverNext
<1> QED
  BY <1>1, <1>2

\* The invariant holds for every size of a resource and of its windows.
THEOREM ResourceInductive == Spec => []ResourceInv
<1>1. Init => ResourceInv
  <2>1. Init => waitingForHmu \in BOOLEAN /\ linkUp \in BOOLEAN
    BY Zenon DEF Init
  <2>2. Parts # {}
    BY MapAssumption DEF Parts
  <2>3. Init => ReceiverInv
    BY <2>1, <2>2 DEF Init, ReceiverInv, ReceiverStatuses
  <2>4. Init => WindowInv
    BY ResourceAssumption DEF Init, WindowInv
  <2>5. Init => ProofInv
    BY DEF Init, ProofInv
  <2> QED
    BY <2>3, <2>4, <2>5 DEF ResourceInv
<1>2. ResourceInv /\ [Next]_vars => ResourceInv'
  BY ReceiverStep, ProofStep DEF ResourceInv
<1> QED
  BY <1>1, <1>2, PTL DEF Spec

\* Whatever timeouts have done to the window, the part needed next is among those
\* ReceivePart compares an arriving part with.
THEOREM NextPart == Spec => []NextPartIsSearched
<1>1. ASSUME ResourceInv PROVE NextPartIsSearched
  <2> SUFFICES ASSUME received # Parts
               PROVE  FirstMissing(received) \in SearchRange(received, window.size)
    BY DEF NextPartIsSearched
  <2> DEFINE first == FirstMissing(received)
             start == Greater(first - 1, 0)
             size == window.size
  <2>1. first \in Parts
    BY <1>1, FirstMissingFacts DEF ResourceInv, ReceiverInv
  <2>2. size \in Nat /\ size >= 2
    BY <1>1 DEF ResourceInv, WindowInv
  <2> HIDE DEF first, size
  <2>3. first \in start .. Lesser(start + size, TotalParts) - 1
    BY <2>1, <2>2, MapAssumption DEF Lesser, Greater, Parts
  <2> QED
    BY <2>3 DEF first, size, SearchRange
<1> QED
  BY <1>1, ResourceInductive, PTL

\* Nothing that arrives late takes back a resource that Assemble has completed.
THEOREM ReceiverCompletes == Spec => ReceiverCompleteIsFinal
<1>1. ResourceInv /\ [Next]_vars => [rStatus = "complete" => rStatus' = "complete"]_vars
  BY ReceiverStep DEF ResourceInv
<1> QED
  BY <1>1, ResourceInductive, PTL DEF Spec, ReceiverCompleteIsFinal

\* The transfer is all or nothing: a resource implements ResourceTransfer.
THEOREM TransferIsImplemented == Spec => ImplementsTransfer
<1> DEFINE handed == IF rStatus = "complete" THEN received ELSE {}
           confirmed == "complete" \in sTold
<1>1. Init => Transfer!Init
  BY DEF Init, Transfer!Init
<1>2. ASSUME ResourceInv, ResourceInv', [Next]_vars
      PROVE  [Transfer!Next]_<<handed, confirmed>>
  <2>1. (rStatus = "complete" => received = Parts) /\ (rStatus' = "complete" => received' = Parts)
    BY <1>2 DEF ResourceInv, ReceiverInv
  <2>2. (confirmed => rStatus = "complete") /\ (confirmed' => rStatus' = "complete")
    BY <1>2 DEF ResourceInv, ProofInv
  <2>3. rStatus = "complete" => rStatus' = "complete"
    BY <1>2, ReceiverStep DEF ResourceInv
  <2>4. sTold \subseteq sTold' /\ (sTold' # sTold => rStatus' = rStatus)
    <3>1. ASSUME ReceiverNext PROVE sTold' = sTold
      BY <3>1, Zenon DEF ReceiverNext, Accept, AcceptRepeated, RunRequestNext, Assemble, AskAgain,
                  ReceiverGivesUp, ReceiverCancel, ReceiverCallback, HashmapUpdate, ReceivePart,
                  sVars
    <3>2. ASSUME SenderNext \/ LinkCloses PROVE sTold \subseteq sTold' /\ rStatus' = rStatus
      <4>1. rStatus' = rStatus
        BY <1>2, <3>2, SenderKeepsReceiver DEF ResourceInv
      <4>2. sTold \subseteq sTold'
        BY <3>2, Zenon DEF SenderNext, LinkCloses, Advertise, ValidateProof, AdvertiseAgain,
                    TransferTimeout, AskForProof, SenderWatchdogEnds, SenderCancel,
                    SenderCallback, Request, RequestRefused, sVars
      <4> QED
        BY <4>1, <4>2
    <3>3. ASSUME UNCHANGED vars PROVE sTold' = sTold
      BY <3>3 DEF vars, sVars
    <3> QED
      BY <1>2, <3>1, <3>2, <3>3, Zenon DEF Next
  <2>5. CASE rStatus = "complete"
    <3>1. handed = Parts /\ handed' = Parts
      BY <2>1, <2>3, <2>5
    <3>2. confirmed' = confirmed \/ confirmed' = TRUE
      BY <2>4
    <3>3. confirmed' = TRUE => Transfer!Confirm
      BY <3>1 DEF Transfer!Confirm
    <3> QED
      BY <3>1, <3>2, <3>3 DEF Transfer!Next
  <2>6. CASE rStatus # "complete"
    <3>1. handed = {} /\ confirmed = FALSE
      BY <2>2, <2>6
    <3>2. CASE rStatus' = "complete"
      <4>1. handed' = Parts
        BY <2>1, <3>2
      <4>2. confirmed' = confirmed
        BY <2>4, <2>6, <3>2
      <4> QED
        BY <3>1, <4>1, <4>2 DEF Transfer!Next, Transfer!Deliver
    <3>3. CASE rStatus' # "complete"
      BY <2>2, <3>1, <3>3
    <3> QED
      BY <3>2, <3>3
  <2> QED
    BY <2>5, <2>6
<1> QED
  BY <1>1, <1>2, ResourceInductive, PTL DEF Spec, ImplementsTransfer, Transfer!Spec

-----------------------------------------------------------------------------
(***************************************************************************)
(* The hash map.  With at most three segments a request, however late,     *)
(* quotes a map hash that the sender still searches: its search starts     *)
(* below the end of the first segment.  So it answers with the segment     *)
(* asked for, and no update in the network is ahead of the map.            *)
(***************************************************************************)
AtMostThreeSegments == TotalParts <= 3 * HashmapMaxLen

Heights == {Lesser(HashmapMaxLen, TotalParts), Lesser(2 * HashmapMaxLen, TotalParts), TotalParts}

MapInv ==
    /\ rStatus = "none" => hashmapHeight = 0
    /\ rStatus # "none" => hashmapHeight \in Heights
    /\ known = 0 .. hashmapHeight - 1
    /\ minHeight \in Nat /\ minHeight < HashmapMaxLen

NetInv ==
    \A m \in net :
        /\ m.type = "req" /\ m.last # NoMapHash =>
              /\ m.last = HashmapMaxLen - 1 \/ m.last = 2 * HashmapMaxLen - 1
              /\ m.last + 1 < TotalParts /\ m.last + 1 <= hashmapHeight
        /\ m.type = "hmu" =>
              /\ m.segment = 1 \/ m.segment = 2
              /\ m.segment * HashmapMaxLen <= hashmapHeight
              /\ m.segment * HashmapMaxLen < TotalParts

\* The heights are positive, and the ones below the size are the ends of segments.
LEMMA HeightFacts ==
    ASSUME AtMostThreeSegments, NEW h \in Heights
    PROVE  /\ h \in Nat /\ h > 0 /\ h <= TotalParts
           /\ h < TotalParts => h = HashmapMaxLen \/ h = 2 * HashmapMaxLen
  BY MapAssumption DEF AtMostThreeSegments, Heights, Lesser

\* A request quotes the end of the map it has, and one that asks for nothing is not
\* sent: either a part is outstanding or an update is awaited.
LEMMA RequestNextMap ==
    ASSUME AtMostThreeSegments,
           received \subseteq Parts, linkUp \in BOOLEAN,
           NEW taken, NEW waiting \in BOOLEAN, NEW height \in Heights, NEW kn,
           kn = 0 .. height - 1, NEW size \in Nat, size > 0,
           RequestNext(taken, waiting, kn, height, size)
    PROVE  /\ \A m \in net' : \/ m \in net
                              \/ /\ m.type = "req"
                                 /\ m.last = NoMapHash \/ (m.last = height - 1 /\ height < TotalParts)
           /\ linkUp /\ received # Parts => waitingForHmu' = TRUE \/ outstanding' > 0
<1> DEFINE wanted == Wanted(received, kn, size)
           exhausted == Exhausted(received, kn, size)
           last == IF exhausted THEN height - 1 ELSE NoMapHash
<1>h. height \in Nat /\ height > 0 /\ height - 1 \in kn
  BY HeightFacts
<1>1. CASE received = Parts \/ waiting
  BY <1>1, Zenon DEF RequestNext, Receive
<1>2. CASE ~(received = Parts \/ waiting)
  <2>1. /\ outstanding' = Cardinality(wanted)
        /\ waitingForHmu' = (exhausted /\ linkUp)
        /\ Transmit(taken, {Req(wanted, last)})
    BY <1>2, <1>h DEF RequestNext
  <2>2. exhausted => height < TotalParts
    <3>1. exhausted => \E j \in Parts : j \notin kn
      BY RequestRangeFacts, Zenon DEF Exhausted
    <3> QED
      BY <3>1, <1>h, MapAssumption DEF Parts
  <2>3. \A m \in net' : m \in net \/ m = Req(wanted, last)
    BY <2>1 DEF Transmit, Receive
  <2>4. Req(wanted, last).type = "req" /\ Req(wanted, last).last = last
    BY DEF Req
  <2>5. ~exhausted => Cardinality(wanted) > 0
    <3>1. ASSUME ~exhausted PROVE FirstMissing(received) \in wanted
      <4> DEFINE first == FirstMissing(received)
                 range == RequestRange(received, size)
      <4>1. first \in range /\ first \notin received /\ range \subseteq received \cup kn
        BY <1>2, <3>1, RequestRangeFacts, FirstMissingFacts DEF Exhausted
      <4> QED
        BY <4>1 DEF Wanted
    <3>2. IsFiniteSet(wanted)
      <4>1. IsFiniteSet(Parts)
        BY FS_Interval, MapAssumption DEF Parts
      <4>2. wanted \subseteq Parts
        BY RequestRangeFacts, Zenon DEF Wanted
      <4> QED
        BY <4>1, <4>2, FS_Subset
    <3> HIDE DEF wanted, exhausted
    <3> QED
      BY <3>1, <3>2, FS_EmptySet, FS_CardinalityType
  <2> HIDE DEF wanted, exhausted
  <2>6. linkUp => waitingForHmu' = TRUE \/ outstanding' > 0
    BY <2>1, <2>5, Zenon
  <2> QED
    BY <2>2, <2>3, <2>4, <2>6
<1> QED
  BY <1>1, <1>2, Zenon

\* The ends of the first two segments, divided by their length.
LEMMA DivMod ==
    /\ HashmapMaxLen \div HashmapMaxLen = 1 /\ HashmapMaxLen % HashmapMaxLen = 0
    /\ (2 * HashmapMaxLen) \div HashmapMaxLen = 2 /\ (2 * HashmapMaxLen) % HashmapMaxLen = 0
    /\ 0 % HashmapMaxLen = 0
  BY MapAssumption

\* The sender finds the map hash it is quoted and answers with the next segment.
LEMMA SequencedFacts ==
    ASSUME AtMostThreeSegments, MapInv, NetInv,
           NEW m \in net, m.type = "req", m.last # NoMapHash
    PROVE  /\ Sequenced(m).ok
           /\ Sequenced(m).segment = 1 \/ Sequenced(m).segment = 2
           /\ Sequenced(m).segment * HashmapMaxLen = m.last + 1
           /\ Sequenced(m).height \in Nat /\ Sequenced(m).height < HashmapMaxLen
<1>1. /\ m.last = HashmapMaxLen - 1 \/ m.last = 2 * HashmapMaxLen - 1
      /\ m.last + 1 < TotalParts
  BY DEF NetInv
<1>2. minHeight \in Nat /\ minHeight < HashmapMaxLen
  BY DEF MapInv
<1>3. PartIndex(m.last, minHeight) = m.last + 1
  BY <1>1, <1>2, MapAssumption DEF PartIndex, Lesser, CollisionGuardSize, AtMostThreeSegments
<1>4. Answerable(m.last + 1)
  BY <1>1, DivMod, MapAssumption DEF Answerable
<1>5. /\ (m.last + 1) \div HashmapMaxLen = 1 \/ (m.last + 1) \div HashmapMaxLen = 2
      /\ ((m.last + 1) \div HashmapMaxLen) * HashmapMaxLen = m.last + 1
  BY <1>1, DivMod, MapAssumption
<1>6. NewMinHeight(m.last + 1) \in Nat /\ NewMinHeight(m.last + 1) < HashmapMaxLen
  BY <1>1, MapAssumption DEF NewMinHeight, Greater
<1> QED
  BY <1>3, <1>4, <1>5, <1>6 DEF Sequenced

\* A segment that begins within the map extends it, or repeats what is known.
LEMMA UpdateFacts ==
    ASSUME AtMostThreeSegments, MapInv, rStatus # "none", NEW first,
           first = HashmapMaxLen \/ first = 2 * HashmapMaxLen,
           first <= hashmapHeight, first < TotalParts,
           NEW added, added = (first .. Lesser(first + HashmapMaxLen, TotalParts) - 1) \ known,
           NEW h, h = hashmapHeight + Cardinality(added)
    PROVE  /\ h \in Heights /\ h >= hashmapHeight
           /\ known \cup added = 0 .. h - 1
<1> DEFINE end == Lesser(first + HashmapMaxLen, TotalParts)
<1>1. /\ hashmapHeight \in Heights /\ hashmapHeight \in Nat
      /\ hashmapHeight <= TotalParts
      /\ hashmapHeight < TotalParts =>
            hashmapHeight = HashmapMaxLen \/ hashmapHeight = 2 * HashmapMaxLen
  BY HeightFacts DEF MapInv
<1>2. end \in Heights /\ end \in Nat /\ end > first
  BY MapAssumption DEF Heights, Lesser, AtMostThreeSegments
<1>3. hashmapHeight = first \/ end <= hashmapHeight
  BY <1>1, MapAssumption DEF Lesser, AtMostThreeSegments
<1>4. known = 0 .. hashmapHeight - 1
  BY DEF MapInv
<1> HIDE DEF end
<1>5. CASE end <= hashmapHeight
  <2>1. added = {}
    BY <1>1, <1>2, <1>4, <1>5, MapAssumption DEF end
  <2>2. h = hashmapHeight
    BY <2>1, <1>1, FS_EmptySet
  <2>3. known \cup added = known
    BY <2>1
  <2>4. known \cup added = 0 .. h - 1
    BY <1>4, <2>2, <2>3, Zenon
  <2>5. h \in Heights
    BY <1>1, <2>2, Zenon
  <2> QED
    BY <1>1, <2>2, <2>4, <2>5
<1>6. CASE hashmapHeight = first
  <2>1. added = hashmapHeight .. end - 1
    BY <1>1, <1>2, <1>4, <1>6, MapAssumption DEF end
  <2>2. hashmapHeight \in Nat /\ end \in Nat /\ hashmapHeight < end
    BY <1>1, <1>2, <1>6
  <2>3. Cardinality(hashmapHeight .. end - 1) = end - hashmapHeight
    BY <2>2, FS_Interval
  <2>4. h = hashmapHeight + (end - hashmapHeight)
    BY <2>1, <2>3, Zenon
  <2>5. (0 .. hashmapHeight - 1) \cup (hashmapHeight .. end - 1) = 0 .. end - 1
    BY <2>2
  <2>6. h = end
    BY <2>2, <2>4
  <2>7. known \cup added = 0 .. end - 1
    BY <1>4, <2>1, <2>5, Zenon
  <2>8. known \cup added = 0 .. h - 1
    BY <2>6, <2>7, Zenon
  <2>9. h \in Heights
    BY <1>2, <2>6, Zenon
  <2>10. h >= hashmapHeight
    BY <2>2, <2>6
  <2> QED
    BY <2>8, <2>9, <2>10, Zenon
<1> QED
  BY <1>3, <1>5, <1>6, Zenon

(***************************************************************************)
(* The gate that lets one request go out per round leaves a transfer with  *)
(* somebody to wait for.                                                   *)
(***************************************************************************)
IdleInv ==
    /\ outstanding \in Nat /\ requests \in Nat
    /\ rStatus = "none" => requests = 0
    /\ NeverIdle

BoundedInv == ResourceInv /\ MapInv /\ NetInv /\ IdleInv

\* Messages that only quote the present map, or repeat old ones, keep NetInv while
\* the map grows.
LEMMA NetGrows ==
    ASSUME AtMostThreeSegments, NetInv, hashmapHeight \in Nat, hashmapHeight' \in Nat,
           hashmapHeight <= hashmapHeight',
           \A m \in net' :
               \/ m \in net
               \/ m.type \notin {"req", "hmu"}
               \/ /\ m.type = "req"
                  /\ \/ m.last = NoMapHash
                     \/ /\ m.last = hashmapHeight' - 1 /\ hashmapHeight' < TotalParts
                        /\ hashmapHeight' \in Heights
    PROVE  NetInv'
<1>1. hashmapHeight' \in Heights /\ hashmapHeight' < TotalParts =>
         hashmapHeight' = HashmapMaxLen \/ hashmapHeight' = 2 * HashmapMaxLen
  BY HeightFacts
<1> SUFFICES ASSUME NEW m \in net'
             PROVE  /\ m.type = "req" /\ m.last # NoMapHash =>
                          /\ m.last = HashmapMaxLen - 1 \/ m.last = 2 * HashmapMaxLen - 1
                          /\ m.last + 1 < TotalParts /\ m.last + 1 <= hashmapHeight'
                    /\ m.type = "hmu" =>
                          /\ m.segment = 1 \/ m.segment = 2
                          /\ m.segment * HashmapMaxLen <= hashmapHeight'
                          /\ m.segment * HashmapMaxLen < TotalParts
  BY DEF NetInv
<1>2. CASE m \in net
  <2>1. m.type = "req" /\ m.last # NoMapHash =>
           /\ m.last = HashmapMaxLen - 1 \/ m.last = 2 * HashmapMaxLen - 1
           /\ m.last + 1 < TotalParts /\ m.last + 1 <= hashmapHeight'
    BY <1>2, MapAssumption DEF NetInv
  <2>2. m.type = "hmu" => /\ m.segment = 1 \/ m.segment = 2
                          /\ m.segment * HashmapMaxLen <= hashmapHeight'
                          /\ m.segment * HashmapMaxLen < TotalParts
    BY <1>2, MapAssumption DEF NetInv
  <2> QED
    BY <2>1, <2>2
<1>3. CASE m \notin net
  BY <1>1, <1>3, MapAssumption
<1> QED
  BY <1>2, <1>3

\* The steps of the sender: it answers a request with the segment after the map hash
\* it is quoted, and does not refuse.
LEMMA SenderMapStep ==
    ASSUME AtMostThreeSegments, BoundedInv, SenderNext \/ LinkCloses
    PROVE  MapInv' /\ NetInv' /\ IdleInv'
<1> USE DEF BoundedInv
<1>0. hashmapHeight \in Nat
  BY HeightFacts DEF MapInv
<1>1. UNCHANGED rVars /\ (linkUp' => linkUp)
  <2>1. CASE LinkCloses
    BY <2>1, Zenon DEF LinkCloses
  <2>2. ASSUME NEW m \in net, Request(m) \/ RequestRefused(m)
        PROVE  UNCHANGED rVars /\ (linkUp' => linkUp)
    BY <2>2, SMTT(60) DEF Request, RequestRefused
  <2>3. CASE \/ Advertise \/ ValidateProof \/ AdvertiseAgain \/ TransferTimeout \/ AskForProof
             \/ SenderWatchdogEnds \/ SenderCancel \/ SenderCallback
    BY <2>3 DEF Advertise, ValidateProof, AdvertiseAgain, TransferTimeout, AskForProof,
                SenderWatchdogEnds, SenderCancel, SenderCallback
  <2> QED
    BY <2>1, <2>2, <2>3 DEF SenderNext
<1>2. IdleInv'
  BY <1>1 DEF IdleInv, NeverIdle, rVars, mapVars, askVars
<1>3. ASSUME minHeight' \in Nat, minHeight' < HashmapMaxLen PROVE MapInv'
  BY <1>1, <1>3 DEF MapInv, rVars, mapVars
<1>4. ASSUME \A m \in net' : m \in net \/ m.type \notin {"req", "hmu"} PROVE NetInv'
  BY <1>0, <1>1, <1>4, NetGrows DEF rVars, mapVars
<1>5. ASSUME NEW m \in net, Request(m) PROVE MapInv' /\ NetInv'
  <2>m. m.type = "req"
    BY <1>5, Zenon DEF Request
  <2> DEFINE more == m.last # NoMapHash
             answer == Sequenced(m)
  <2>a. more => /\ answer.ok /\ (answer.segment = 1 \/ answer.segment = 2)
                /\ answer.segment * HashmapMaxLen = m.last + 1
                /\ answer.height \in Nat /\ answer.height < HashmapMaxLen
    BY <2>m, SequencedFacts
  <2>1. minHeight' \in Nat /\ minHeight' < HashmapMaxLen
    <3>1. minHeight' = minHeight \/ (more /\ minHeight' = answer.height)
      BY <1>5 DEF Request
    <3> QED
      BY <2>a, <3>1 DEF MapInv
  <2>2. NetInv'
    <3>1. CASE ~linkUp
      BY <1>4, <1>5, <3>1 DEF Request, Discard, Receive
    <3>2. CASE linkUp
      <4>1. PICK kept : /\ kept \subseteq {Part(i) : i \in m.parts}
                                   \cup IF more /\ answer.ok THEN {Hmu(answer.segment)} ELSE {}
                        /\ net' \subseteq net \cup kept
        BY <1>5, <3>2, Zenon DEF Request, Transmit, Receive
      <4>2. \A n \in net' : \/ n \in net \/ n.type = "part"
                            \/ /\ more /\ n.type = "hmu" /\ n.segment = answer.segment
        <5> HIDE DEF more, answer
        <5>1. \A n \in kept : \/ \E i \in m.parts : n = Part(i)
                              \/ more /\ n = Hmu(answer.segment)
          <6> TAKE n \in kept
          <6> DEFINE parts == {Part(i) : i \in m.parts}
                     updates == IF more /\ answer.ok THEN {Hmu(answer.segment)} ELSE {}
          <6>1. kept \subseteq parts \cup updates
            BY <4>1, Zenon
          <6>2. \A x \in parts : \E i \in m.parts : x = Part(i)
            OBVIOUS
          <6>3. \A x \in updates : more /\ x = Hmu(answer.segment)
            OBVIOUS
          <6> HIDE DEF parts, updates
          <6> QED
            BY <6>1, <6>2, <6>3
        <5>2. /\ \A i : Part(i).type = "part"
              /\ \A seg : Hmu(seg).type = "hmu" /\ Hmu(seg).segment = seg
          BY DEF Part, Hmu
        <5> QED
          BY <4>1, <5>1, <5>2, ZenonT(30)
      <4>3. more => m.last + 1 <= hashmapHeight /\ m.last + 1 < TotalParts
        BY <2>m DEF NetInv
      <4>4. hashmapHeight' = hashmapHeight
        BY <1>1 DEF rVars, mapVars
      <4> HIDE DEF answer
      <4>5. ASSUME NEW n \in net'
            PROVE  /\ n.type = "req" /\ n.last # NoMapHash =>
                         /\ n.last = HashmapMaxLen - 1 \/ n.last = 2 * HashmapMaxLen - 1
                         /\ n.last + 1 < TotalParts /\ n.last + 1 <= hashmapHeight'
                   /\ n.type = "hmu" =>
                         /\ n.segment = 1 \/ n.segment = 2
                         /\ n.segment * HashmapMaxLen <= hashmapHeight'
                         /\ n.segment * HashmapMaxLen < TotalParts
        <5>1. CASE n \in net
          BY <4>4, <5>1 DEF NetInv
        <5>2. CASE n.type = "part"
          BY <5>2
        <5>3. CASE more /\ n.type = "hmu" /\ n.segment = answer.segment
          BY <2>a, <4>3, <4>4, <5>3
        <5> QED
          BY <4>2, <5>1, <5>2, <5>3
      <4> QED
        BY <4>5, Zenon DEF NetInv
    <3> QED
      BY <3>1, <3>2
  <2> QED
    BY <1>3, <2>1, <2>2
<1>6. ASSUME NEW m \in net, RequestRefused(m) PROVE MapInv' /\ NetInv'
  BY <1>3, <1>4, <1>6 DEF RequestRefused, Discard, Receive, sVars, MapInv
<1>7. ASSUME \/ Advertise \/ ValidateProof \/ AdvertiseAgain \/ TransferTimeout \/ AskForProof
             \/ SenderWatchdogEnds \/ SenderCancel \/ SenderCallback \/ LinkCloses
      PROVE  MapInv' /\ NetInv'
  <2>1. minHeight' = minHeight
    BY <1>7 DEF Advertise, ValidateProof, AdvertiseAgain, TransferTimeout, AskForProof,
                SenderWatchdogEnds, SenderCancel, SenderCallback, LinkCloses, sVars
  <2>2. \A m \in net' : m \in net \/ m = Adv \/ m = Prf
    BY <1>7 DEF Advertise, ValidateProof, AdvertiseAgain, TransferTimeout, AskForProof,
                SenderWatchdogEnds, SenderCancel, SenderCallback, LinkCloses, SenderGivesUp,
                Transmit, Discard, Receive, netVars
  <2>3. \A m \in net' : m \in net \/ m.type \notin {"req", "hmu"}
    BY <2>2 DEF Adv, Prf
  <2> QED
    BY <1>3, <1>4, <2>1, <2>3 DEF MapInv
<1> QED
  BY <1>2, <1>5, <1>6, <1>7 DEF SenderNext

\* The steps of the receiver.
LEMMA ReceiverMapStep ==
    ASSUME AtMostThreeSegments, BoundedInv, ReceiverNext
    PROVE  MapInv' /\ NetInv' /\ IdleInv'
<1> USE DEF BoundedInv
<1> DEFINE Goal == MapInv' /\ NetInv' /\ IdleInv'
<1>w. window.size \in Nat /\ window.size > 0
  BY DEF ResourceInv, WindowInv
<1>s. Shrink(window).size \in Nat /\ Shrink(window).size > 0
  BY WindowFacts DEF ResourceInv
<1>h. hashmapHeight \in Nat /\ (rStatus # "none" => hashmapHeight \in Heights)
  BY HeightFacts DEF MapInv
<1>r. received \subseteq Parts /\ linkUp \in BOOLEAN /\ waitingForHmu \in BOOLEAN
  BY DEF ResourceInv, ReceiverInv
<1>p. rStatus = "transferring" /\ received = Parts => assembly = "pending"
  BY DEF ResourceInv, ReceiverInv
\* Steps that leave the map alone.
<1>m. ASSUME UNCHANGED <<mapVars, minHeight>>, rStatus # "none" <=> rStatus' # "none"
      PROVE  MapInv'
  BY <1>m DEF MapInv, mapVars
<1>n. ASSUME UNCHANGED mapVars, \A m \in net' : m \in net \/ m.type \notin {"req", "hmu"}
      PROVE  NetInv'
  BY <1>h, <1>n, NetGrows DEF mapVars
\* RequestNext, from a map that is as long as the new height.
<1>q. ASSUME NEW taken, NEW waiting \in BOOLEAN, NEW size \in Nat, size > 0,
             known' = 0 .. hashmapHeight' - 1, hashmapHeight' \in Heights,
             hashmapHeight <= hashmapHeight', UNCHANGED <<received, linkUp>>,
             RequestNext(taken, waiting, known', hashmapHeight', size)
      PROVE  NetInv' /\ (linkUp' /\ received' # Parts => waitingForHmu' = TRUE \/ outstanding' > 0)
  <2>1. hashmapHeight' \in Nat
    BY <1>q, HeightFacts
  <2>2. /\ \A m \in net' : \/ m \in net
                           \/ /\ m.type = "req"
                              /\ \/ m.last = NoMapHash
                                 \/ (m.last = hashmapHeight' - 1 /\ hashmapHeight' < TotalParts)
        /\ linkUp /\ received # Parts => waitingForHmu' = TRUE \/ outstanding' > 0
    BY <1>q, <1>r, RequestNextMap, Zenon
  <2> QED
    BY <1>h, <1>q, <2>1, <2>2, NetGrows
<1>o. ASSUME NEW taken, NEW waiting, NEW kn, NEW height, NEW size,
             RequestNext(taken, waiting, kn, height, size), size \in Nat, size > 0
      PROVE  outstanding' \in Nat
  <2>1. Cardinality(Wanted(received, kn, size)) \in Nat
    <3>1. IsFiniteSet(Parts)
      BY FS_Interval, MapAssumption DEF Parts
    <3>2. Wanted(received, kn, size) \subseteq Parts
      BY <1>o, <1>r, RequestRangeFacts, Zenon DEF Wanted
    <3> QED
      BY <3>1, <3>2, FS_Subset, FS_CardinalityType
  <2> QED
    BY <1>o, <2>1 DEF RequestNext, IdleInv
<1>1. ASSUME Accept PROVE Goal
  <2> DEFINE h == Cardinality(HashmapSegment(0))
  <2>1. HashmapSegment(0) = 0 .. Lesser(HashmapMaxLen, TotalParts) - 1
    BY MapAssumption DEF HashmapSegment, Lesser
  <2>2. h = Lesser(HashmapMaxLen, TotalParts) /\ h \in Heights /\ h \in Nat
    BY <2>1, FS_Interval, MapAssumption, SMTT(60) DEF Lesser, Heights
  <2>3. HashmapSegment(0) = 0 .. h - 1
    BY <2>1, <2>2, Zenon
  <2>4. /\ known' = 0 .. hashmapHeight' - 1 /\ hashmapHeight' = h
        /\ RequestNext({Adv}, FALSE, known', hashmapHeight', window.size)
        /\ UNCHANGED <<received, linkUp, minHeight, requests>> /\ rStatus' = "transferring"
        /\ rStatus = "none" /\ assembly' = assembly
    BY <1>1, <2>3, Zenon DEF Accept, sVars
  <2> HIDE DEF h
  <2>5. hashmapHeight <= hashmapHeight' /\ hashmapHeight' \in Heights
    BY <2>2, <2>4 DEF MapInv
  <2>6. NetInv' /\ (linkUp' /\ received' # Parts => waitingForHmu' = TRUE \/ outstanding' > 0)
    BY <1>q, <1>w, <2>4, <2>5, Zenon
  <2>7. received' # Parts
    BY <2>4, MapAssumption DEF ResourceInv, ReceiverInv, Parts
  <2>8. outstanding' \in Nat
    BY <1>o, <1>w, <2>4, Zenon
  <2>9. MapInv'
    BY <2>4, <2>5 DEF MapInv
  <2>10. IdleInv'
    BY <2>4, <2>6, <2>7, <2>8 DEF IdleInv, NeverIdle
  <2> QED
    BY <2>6, <2>9, <2>10
<1>2. ASSUME AcceptRepeated PROVE Goal
  <2>1. UNCHANGED <<rVars, minHeight, linkUp>> /\ \A m \in net' : m \in net
    BY <1>2 DEF AcceptRepeated, sVars, Discard, Receive
  <2> QED
    BY <1>m, <1>n, <2>1 DEF rVars, mapVars, askVars, IdleInv, NeverIdle
<1>3. ASSUME RunRequestNext PROVE Goal
  <2>1. /\ UNCHANGED <<received, linkUp, minHeight, rStatus, assembly>> /\ UNCHANGED mapVars
        /\ requests > 0 /\ requests' = requests - 1
    BY <1>3 DEF RunRequestNext, sVars
  <2>2. requests' \in Nat /\ MapInv'
    BY <1>m, <2>1 DEF IdleInv
  <2>3. CASE rStatus = "failed"
    <3>1. UNCHANGED askVars /\ net' = net
      BY <1>3, <2>3 DEF RunRequestNext, netVars
    <3> QED
      BY <1>n, <2>1, <2>2, <2>3, <3>1 DEF askVars, IdleInv, NeverIdle
  <2>4. CASE rStatus = "none"
    BY <2>1, <2>4 DEF IdleInv
  <2>5. CASE rStatus \notin {"failed", "none"}
    <3>1. RequestNext({}, waitingForHmu, known', hashmapHeight', window.size)
      BY <1>3, <2>1, <2>5 DEF RunRequestNext, mapVars
    <3>2. known' = 0 .. hashmapHeight' - 1 /\ hashmapHeight' \in Heights
          /\ hashmapHeight <= hashmapHeight'
      BY <1>h, <2>1, <2>5 DEF MapInv, mapVars
    <3>3. NetInv' /\ (linkUp' /\ received' # Parts => waitingForHmu' = TRUE \/ outstanding' > 0)
      BY <1>q, <1>r, <1>w, <2>1, <3>1, <3>2, Zenon
    <3>4. outstanding' \in Nat
      BY <1>o, <1>w, <3>1
    <3>5. IdleInv'
      BY <1>p, <2>1, <2>2, <3>3, <3>4 DEF IdleInv, NeverIdle
    <3> QED
      BY <2>2, <3>3, <3>5
  <2> QED
    BY <2>3, <2>4, <2>5
<1>4. ASSUME Assemble PROVE Goal
  <2>1. /\ UNCHANGED <<received, minHeight, requests, outstanding>> /\ UNCHANGED mapVars
        /\ rStatus' \in {"complete", "failed", "corrupt"} /\ assembly = "pending"
        /\ \A m \in net' : m \in net \/ m = Prf
    BY <1>4, Zenon DEF Assemble, Transmit, Receive, sVars, askVars, netVars
  <2>2. rStatus # "none"
    BY <2>1, MapAssumption DEF ResourceInv, ReceiverInv, Parts
  <2>3. \A m \in net' : m \in net \/ m.type \notin {"req", "hmu"}
    BY <2>1 DEF Prf
  <2> QED
    BY <1>m, <1>n, <2>1, <2>2, <2>3 DEF IdleInv, NeverIdle
<1>5. ASSUME AskAgain PROVE Goal
  <2>1. /\ UNCHANGED <<received, linkUp, minHeight, rStatus, assembly, requests>>
        /\ UNCHANGED mapVars /\ rStatus = "transferring"
        /\ RequestNext({}, FALSE, known', hashmapHeight', Shrink(window).size)
    BY <1>5, Zenon DEF AskAgain, sVars, mapVars
  <2>2. known' = 0 .. hashmapHeight' - 1 /\ hashmapHeight' \in Heights
        /\ hashmapHeight <= hashmapHeight'
    BY <1>h, <2>1 DEF MapInv, mapVars
  <2>3. NetInv' /\ (linkUp' /\ received' # Parts => waitingForHmu' = TRUE \/ outstanding' > 0)
    BY <1>q, <1>s, <2>1, <2>2, Zenon
  <2>4. outstanding' \in Nat
    BY <1>o, <1>s, <2>1, Zenon
  <2>5. IdleInv'
    BY <1>p, <2>1, <2>3, <2>4 DEF IdleInv, NeverIdle
  <2> QED
    BY <1>m, <2>1, <2>3, <2>5
<1>6. ASSUME ReceiverGivesUp \/ ReceiverCancel \/ ReceiverCallback PROVE Goal
  <2>1. /\ UNCHANGED <<minHeight, assembly, requests, outstanding, waitingForHmu, net>>
        /\ UNCHANGED mapVars
        /\ rStatus' # rStatus => rStatus = "transferring" /\ rStatus' = "failed"
    BY <1>6 DEF ReceiverGivesUp, ReceiverCancel, ReceiverCallback, sVars, askVars, netVars
  <2>2. linkUp' => linkUp
    BY <1>6, Zenon DEF ReceiverGivesUp, ReceiverCancel, ReceiverCallback
  <2>3. IdleInv'
    BY <2>1, <2>2 DEF IdleInv, NeverIdle
  <2> QED
    BY <1>m, <1>n, <2>1, <2>3
<1>7. ASSUME NEW m \in net, HashmapUpdate(m) PROVE Goal
  <2>0. m.type = "hmu"
    BY <1>7 DEF HashmapUpdate
  <2>1. CASE HmuIgnored
    <3>1. UNCHANGED <<rVars, minHeight, linkUp>> /\ \A n \in net' : n \in net
      BY <1>7, <2>1 DEF HashmapUpdate, sVars, Discard, Receive
    <3> QED
      BY <1>m, <1>n, <3>1 DEF rVars, mapVars, askVars, IdleInv, NeverIdle
  <2>2. CASE ~HmuIgnored
    <3> DEFINE first == m.segment * HashmapMaxLen
               added == HashmapSegment(m.segment) \ known
    <3>1. /\ m.segment = 1 \/ m.segment = 2
          /\ first = HashmapMaxLen \/ first = 2 * HashmapMaxLen
          /\ first <= hashmapHeight /\ first < TotalParts
      BY <2>0, MapAssumption DEF NetInv
    <3>2. HashmapSegment(m.segment) = first .. Lesser(first + HashmapMaxLen, TotalParts) - 1
      BY <3>1, MapAssumption DEF HashmapSegment, Lesser
    <3>3. rStatus # "none"
      BY <3>1, MapAssumption DEF MapInv
    <3>4. /\ known' = known \cup added /\ hashmapHeight' = hashmapHeight + Cardinality(added)
          /\ RequestNext({m}, FALSE, known', hashmapHeight', window.size)
          /\ UNCHANGED <<received, linkUp, minHeight, requests, assembly>>
          /\ rStatus' = "transferring"
      BY <1>7, <2>2, Zenon DEF HashmapUpdate, sVars
    <3>5. added = (first .. Lesser(first + HashmapMaxLen, TotalParts) - 1) \ known
      BY <3>2, Zenon
    <3> HIDE DEF first, added
    <3>6. hashmapHeight' \in Heights /\ hashmapHeight' >= hashmapHeight
          /\ known' = 0 .. hashmapHeight' - 1
      BY <3>1, <3>3, <3>4, <3>5, UpdateFacts, Zenon
    <3>7. hashmapHeight <= hashmapHeight'
      BY <1>h, <3>6, HeightFacts
    <3>8. NetInv' /\ (linkUp' /\ received' # Parts => waitingForHmu' = TRUE \/ outstanding' > 0)
      BY <1>q, <1>w, <3>4, <3>6, <3>7, Zenon
    <3>9. outstanding' \in Nat
      BY <1>o, <1>w, <3>4, Zenon
    <3>10. received # Parts
      BY <2>2 DEF HmuIgnored, ResourceInv, ReceiverInv
    <3>11. IdleInv' /\ MapInv'
      BY <3>4, <3>6, <3>8, <3>9, <3>10 DEF IdleInv, NeverIdle, MapInv
    <3> QED
      BY <3>8, <3>11
  <2> QED
    BY <2>1, <2>2
<1>8. ASSUME NEW i \in Parts, ReceivePart(i) PROVE Goal
  <2>1. /\ UNCHANGED <<minHeight, linkUp>> /\ UNCHANGED mapVars
        /\ \A m \in net' : m \in net
        /\ rStatus # "none"
    BY <1>8 DEF ReceivePart, Discard, Receive, rVars, sVars
  <2>2. CASE rStatus = "failed"
    BY <1>8, <1>m, <1>n, <2>1, <2>2 DEF ReceivePart, rVars, askVars, IdleInv, NeverIdle
  <2>3. CASE rStatus # "failed"
    <3> DEFINE filled == i \in (SearchRange(received, window.size) \cap known) \ received
               left == LeftAfterPart(filled)
               assemble == received' = Parts /\ assembly = "idle"
               ask == ~assemble /\ filled /\ RoundComplete(left)
    <3>1. /\ rStatus' = StatusAfterPart /\ outstanding' = left
          /\ assembly' = IF assemble THEN "pending" ELSE assembly
          /\ requests' = IF ask THEN requests + 1 ELSE requests
          /\ waitingForHmu' = waitingForHmu
      BY <1>8, <2>3 DEF ReceivePart
    <3>2. left \in Nat /\ (~filled => left = outstanding)
      BY DEF LeftAfterPart, IdleInv
    <3>3. rStatus' # "none" /\ (rStatus' = "transferring" => rStatus = "transferring")
      BY <2>1, <2>3, <3>1 DEF StatusAfterPart, ResourceInv, ReceiverInv, ReceiverStatuses
    <3> HIDE DEF filled, left, assemble
    <3>4. IdleInv'
      BY <2>1, <3>1, <3>2, <3>3 DEF IdleInv, NeverIdle, RoundComplete
    <3> QED
      BY <1>m, <1>n, <2>1, <3>3, <3>4
  <2> QED
    BY <2>2, <2>3
<1> QED
  BY <1>1, <1>2, <1>3, <1>4, <1>5, <1>6, <1>7, <1>8 DEF ReceiverNext

\* The invariant of a resource whose map has at most three segments.
LEMMA BoundedInductive ==
    ASSUME AtMostThreeSegments
    PROVE  Spec => []BoundedInv
<1>1. Init => MapInv /\ NetInv /\ IdleInv
  <2>1. Init => MapInv
    BY MapAssumption DEF Init, MapInv
  <2>2. Init => NetInv /\ IdleInv
    BY DEF Init, NetInv, IdleInv, NeverIdle
  <2> QED
    BY <2>1, <2>2
<1>2. ResourceInv /\ MapInv /\ NetInv /\ IdleInv /\ [Next]_vars => MapInv' /\ NetInv' /\ IdleInv'
  <2> SUFFICES ASSUME BoundedInv, [Next]_vars PROVE MapInv' /\ NetInv' /\ IdleInv'
    BY Zenon DEF BoundedInv
  <2>1. CASE UNCHANGED vars
    BY <2>1 DEF vars, sVars, rVars, mapVars, askVars, BoundedInv, MapInv, NetInv, IdleInv, NeverIdle, netVars
  <2> QED
    BY <2>1, SenderMapStep, ReceiverMapStep DEF Next
<1> QED
  BY <1>1, <1>2, ResourceInductive, PTL DEF Spec, BoundedInv

\* The receiver's map has no gap and ends with a whole segment, however hashmap
\* updates and the requests for them are repeated or overtake each other.
THEOREM MapWithoutGap ==
    ASSUME AtMostThreeSegments
    PROVE  Spec => []MapHasNoGap
<1>1. ASSUME BoundedInv PROVE MapHasNoGap
  <2>1. known = 0 .. hashmapHeight - 1 /\ received \subseteq known
    BY <1>1 DEF BoundedInv, MapInv, ResourceInv, ReceiverInv
  <2>2. hashmapHeight = 0 \/ hashmapHeight = HashmapMaxLen \/ hashmapHeight = 2 * HashmapMaxLen
        \/ hashmapHeight = TotalParts
    BY <1>1, HeightFacts, MapAssumption DEF BoundedInv, MapInv
  <2> QED
    BY <2>1, <2>2, DivMod DEF MapHasNoGap
<1> QED
  BY <1>1, BoundedInductive, PTL

\* While the link is up a transfer always has somebody to wait for besides its
\* watchdog.
THEOREM TransferNeverIdle ==
    ASSUME AtMostThreeSegments
    PROVE  Spec => []NeverIdle
<1>1. BoundedInv => NeverIdle
  BY DEF BoundedInv, IdleInv
<1> QED
  BY <1>1, BoundedInductive, PTL

\* The sender does not fail a transfer as a sequencing error, however late the
\* request for a hashmap update is.
THEOREM SequencingHolds ==
    ASSUME AtMostThreeSegments
    PROVE  Spec => NoSequencingError
<1>1. ASSUME BoundedInv, [Next]_vars
      PROVE  [\A m \in net : m.type = "req" /\ sStatus # "failed"
                               => ~Request(m) \/ sStatus' # "failed"]_vars
  <2> SUFFICES ASSUME NEW m \in net, m.type = "req", Request(m) PROVE sStatus' # "failed"
    OBVIOUS
  <2>1. m.last # NoMapHash => Sequenced(m).ok
    BY <1>1, SequencedFacts DEF BoundedInv
  <2> QED
    BY <2>1, Zenon DEF Request
<1> QED
  BY <1>1, BoundedInductive, PTL DEF Spec, NoSequencingError
-----------------------------------------------------------------------------
(***************************************************************************)
(* Typing, for every size of a resource.  What has to be argued is that    *)
(* the packets stay within the resource: no request quotes a map hash, and *)
(* no answer carries a segment, that does not exist.                       *)
(***************************************************************************)
\* What TypeOK says beyond ReceiverInv and WindowInv.
SenderTypes ==
    /\ sStatus \in SenderStatuses /\ sent \subseteq Parts /\ minHeight \in Nat
    /\ sRetries \in Nat /\ sWatchdog \in BOOLEAN
    /\ sCalls \in Nat /\ sTold \subseteq SenderStatuses

CountTypes ==
    /\ known \subseteq Parts /\ hashmapHeight \in Nat /\ outstanding \in Nat /\ rRetries \in Nat
    /\ requests \in Nat /\ rCalls \in Nat /\ rTold \subseteq ReceiverStatuses

NetTypes == net \subseteq Packets /\ repeats \in Nat

TypeInv == ReceiverInv /\ WindowInv /\ SenderTypes /\ CountTypes /\ NetTypes

LEMMA PartsFinite ==
    ASSUME NEW S \in SUBSET Parts
    PROVE  IsFiniteSet(S) /\ Cardinality(S) \in Nat
<1>1. IsFiniteSet(Parts)
  BY FS_Interval, MapAssumption DEF Parts
<1> QED
  BY <1>1, FS_Subset, FS_CardinalityType

\* A quotient does not shrink when the number it is taken of grows.
LEMMA DivMonotone ==
    ASSUME NEW a \in Nat, NEW b \in Nat, a <= b, NEW h \in Nat \ {0}
    PROVE  a \div h \in 0 .. b \div h
<1> DEFINE p == a \div h
           q == b \div h
<1>1. p \in Nat /\ q \in Nat
  OBVIOUS
<1>2. h * p <= a
  OBVIOUS
<1>3. b < h * (q + 1)
  OBVIOUS
<1> HIDE DEF p, q
<1>4. h * p < h * (q + 1)
  <2>1. h * p \in Nat /\ h * (q + 1) \in Nat
    BY <1>1
  <2> QED
    BY <1>2, <1>3, <2>1
<1>5. p < q + 1
  BY <1>1, <1>4
<1> QED
  BY <1>1, <1>5 DEF p, q

\* The map hashes of a segment are those of parts of the resource.
LEMMA SegmentTyped ==
    ASSUME NEW seg \in Nat
    PROVE  HashmapSegment(seg) \subseteq Parts
<1>0. HashmapMaxLen \in Nat /\ seg + 1 \in Nat
  BY MapAssumption
<1>1. seg * HashmapMaxLen \in Nat /\ (seg + 1) * HashmapMaxLen \in Nat
  BY <1>0
<1> QED
  BY <1>1, MapAssumption DEF HashmapSegment, Parts, Lesser

\* What the handlers read from a packet.
LEMMA PacketFields ==
    ASSUME NEW m \in Packets
    PROVE  /\ m.type = "req" => m.parts \subseteq Parts /\ m.last \in Parts \cup {NoMapHash}
           /\ m.type = "hmu" => m.segment \in Segments
<1> DEFINE others == {Adv, Prf} \cup {Part(i) : i \in Parts}
           updates == {Hmu(s) : s \in Segments}
           asked == {Req(p, l) : p \in SUBSET Parts, l \in Parts \cup {NoMapHash}}
<1>1. m \in others \cup updates \cup asked
  BY DEF Packets
<1>2. CASE m \in others
  BY <1>2 DEF Adv, Prf, Part
<1>3. CASE m \in updates
  BY <1>3 DEF Hmu
<1>4. CASE m \in asked
  BY <1>4 DEF Req
<1> HIDE DEF others, updates, asked
<1> QED
  BY <1>1, <1>2, <1>3, <1>4, Zenon

LEMMA PacketsTyped ==
    /\ Adv \in Packets /\ Prf \in Packets /\ \A i \in Parts : Part(i) \in Packets
    /\ \A seg \in Segments : Hmu(seg) \in Packets
    /\ \A q \in SUBSET Parts, l \in Parts \cup {NoMapHash} : Req(q, l) \in Packets
BY DEF Packets

\* The sender's answer has a height, and a segment of the resource if it has one at all.
LEMMA AnswerTyped ==
    ASSUME minHeight \in Nat, NEW m, m.last \in Parts
    PROVE  /\ Sequenced(m).height \in Nat
           /\ Sequenced(m).ok => Sequenced(m).segment \in Segments
<1> DEFINE i == PartIndex(m.last, minHeight)
<1>1. i \in Nat
  BY MapAssumption DEF PartIndex, Lesser, CollisionGuardSize, Parts
<1>2. Sequenced(m).height = NewMinHeight(i) /\ Sequenced(m).ok = Answerable(i)
      /\ Sequenced(m).segment = i \div HashmapMaxLen
  BY DEF Sequenced
<1> HIDE DEF i
<1>3. NewMinHeight(i) \in Nat
  BY <1>1, MapAssumption DEF NewMinHeight, Greater
<1>4. ASSUME Answerable(i) PROVE i \div HashmapMaxLen \in Segments
  <2>1. i <= TotalParts - 1 /\ TotalParts - 1 \in Nat /\ HashmapMaxLen \in Nat \ {0}
    BY <1>1, <1>4, MapAssumption DEF Answerable
  <2> QED
    BY <1>1, <2>1, DivMonotone DEF Segments
<1> QED
  BY <1>2, <1>3, <1>4

\* Delivery, repetition and loss leave packets of the resource in the network.
LEMMA TransmitTyped ==
    ASSUME NetTypes, NEW taken, NEW packets \in SUBSET Packets,
           Receive(taken, packets) \/ Transmit(taken, packets) \/ UNCHANGED netVars
    PROVE  NetTypes'
<1>1. ASSUME NEW some \in SUBSET Packets, Receive(taken, some) PROVE NetTypes'
  BY <1>1 DEF Receive, NetTypes
<1>2. CASE Transmit(taken, packets)
  <2>1. PICK some \in SUBSET packets : Receive(taken, some)
    BY <1>2 DEF Transmit
  <2> QED
    BY <1>1, <2>1
<1> QED
  BY <1>1, <1>2 DEF NetTypes, netVars

\* The request of the receiver asks for parts and quotes a map hash of the resource.
LEMMA RequestNextTyped ==
    ASSUME NetTypes, received \subseteq Parts, outstanding \in Nat, linkUp \in BOOLEAN,
           NEW taken, NEW waiting \in BOOLEAN, NEW kn \in SUBSET Parts, NEW height \in Nat,
           NEW size \in Nat, size > 0, RequestNext(taken, waiting, kn, height, size)
    PROVE  NetTypes' /\ outstanding' \in Nat /\ waitingForHmu' \in BOOLEAN
<1>1. CASE received = Parts \/ waiting
  <2>1. Receive(taken, {}) /\ waitingForHmu' = waiting /\ outstanding' = outstanding
    BY <1>1 DEF RequestNext
  <2> QED
    BY <2>1, TransmitTyped
<1>2. CASE ~(received = Parts \/ waiting)
  <2> DEFINE wanted == Wanted(received, kn, size)
             exhausted == Exhausted(received, kn, size)
             last == IF exhausted THEN height - 1 ELSE NoMapHash
  <2>1. wanted \in SUBSET Parts /\ exhausted \in BOOLEAN
    BY RequestRangeFacts DEF Wanted, Exhausted
  <2>2. outstanding' = Cardinality(wanted)
    BY <1>2 DEF RequestNext
  <2>3. outstanding' \in Nat
    BY <2>1, <2>2, PartsFinite
  <2>4. CASE exhausted /\ ~(height - 1 \in kn)
    <3>1. Receive(taken, {}) /\ waitingForHmu' = FALSE
      BY <1>2, <2>4 DEF RequestNext
    <3> HIDE DEF wanted, exhausted, last
    <3>2. NetTypes'
      BY <3>1, TransmitTyped
    <3> QED
      BY <2>3, <3>1, <3>2, Zenon
  <2>5. CASE ~(exhausted /\ ~(height - 1 \in kn))
    <3>1. waitingForHmu' = (exhausted /\ linkUp) /\ Transmit(taken, {Req(wanted, last)})
      BY <1>2, <2>5 DEF RequestNext
    <3>2. last \in Parts \cup {NoMapHash}
      BY <2>5
    <3> HIDE DEF wanted, exhausted, last
    <3>3. {Req(wanted, last)} \in SUBSET Packets
      BY <2>1, <3>2, PacketsTyped
    <3>4. waitingForHmu' \in BOOLEAN
      BY <2>1, <3>1, Zenon
    <3> QED
      BY <2>3, <3>1, <3>3, <3>4, TransmitTyped
  <2> QED
    BY <2>4, <2>5
<1> QED
  BY <1>1, <1>2

\* The sender keeps its types, and sends packets of the resource only.
LEMMA SenderTyped ==
    ASSUME SenderTypes, NetTypes, linkUp \in BOOLEAN, SenderNext
    PROVE  SenderTypes' /\ NetTypes'
<1>n. {} \in SUBSET Packets /\ {Adv} \in SUBSET Packets
  BY PacketsTyped
<1>1. CASE Advertise
  <2>1. NetTypes'
    BY <1>1, <1>n, TransmitTyped DEF Advertise
  <2> QED
    BY <1>1, <2>1, ResourceAssumption DEF Advertise, SenderTypes, SenderStatuses
<1>2. CASE ValidateProof
  <2>1. NetTypes'
    BY <1>2, <1>n, TransmitTyped DEF ValidateProof, Discard
  <2> QED
    BY <1>2, <2>1 DEF ValidateProof, SenderTypes, SenderStatuses
<1>3. CASE AdvertiseAgain
  <2>1. NetTypes'
    BY <1>3, <1>n, TransmitTyped, Zenon DEF AdvertiseAgain, SenderGivesUp
  <2>2. sWatchdog' \in BOOLEAN
    BY <1>3, Zenon DEF AdvertiseAgain, SenderGivesUp, SenderTypes
  <2>3. /\ UNCHANGED <<sent, minHeight, sCalls, sTold>>
        /\ \/ sStatus' = sStatus /\ sRetries > 0 /\ sRetries' = sRetries - 1
           \/ sStatus' = "failed" /\ sRetries' = sRetries
    BY <1>3, Zenon DEF AdvertiseAgain, SenderGivesUp
  <2> QED
    BY <2>1, <2>2, <2>3 DEF SenderTypes, SenderStatuses
<1>4. CASE TransferTimeout \/ AskForProof \/ SenderWatchdogEnds \/ SenderCancel \/ SenderCallback
  <2>1. UNCHANGED netVars
    BY <1>4 DEF TransferTimeout, AskForProof, SenderWatchdogEnds, SenderCancel, SenderCallback,
                SenderGivesUp
  <2>2. NetTypes'
    BY <2>1 DEF NetTypes, netVars
  <2>3. sWatchdog' \in BOOLEAN
    BY <1>4, Zenon DEF TransferTimeout, AskForProof, SenderWatchdogEnds, SenderCancel,
                       SenderCallback, SenderGivesUp, SenderTypes
  <2>4. sStatus' \in {sStatus, "failed"} /\ sRetries' \in Nat /\ sCalls' \in Nat
        /\ sTold' \in {sTold, sTold \cup {sStatus}} /\ UNCHANGED <<sent, minHeight>>
    BY <1>4 DEF TransferTimeout, AskForProof, SenderWatchdogEnds, SenderCancel, SenderCallback,
                SenderGivesUp, SenderTypes
  <2> QED
    BY <2>2, <2>3, <2>4 DEF SenderTypes, SenderStatuses
<1>5. ASSUME NEW m \in net, Request(m) PROVE SenderTypes' /\ NetTypes'
  <2> DEFINE more == m.last # NoMapHash
             answer == Sequenced(m)
             update == IF more /\ answer.ok THEN {Hmu(answer.segment)} ELSE {}
             reply == {Part(i) : i \in m.parts} \cup update
  <2>1. m.parts \subseteq Parts /\ m.last \in Parts \cup {NoMapHash}
    BY <1>5, PacketFields, Zenon DEF Request, NetTypes
  <2>2. more => answer.height \in Nat /\ (answer.ok => answer.segment \in Segments)
    BY <2>1, AnswerTyped DEF SenderTypes
  <2> HIDE DEF answer
  <2>3. reply \in SUBSET Packets
    BY <2>1, <2>2, PacketsTyped
  <2>4. IF linkUp THEN Transmit({m}, reply) ELSE Receive({m}, {})
    BY <1>5, Zenon DEF Request, Discard, answer
  <2> HIDE DEF reply
  <2>5. NetTypes'
    BY <2>3, <2>4, <1>n, TransmitTyped
  <2>6. /\ sRetries' = MaxRetries /\ sWatchdog' = sWatchdog /\ sCalls' = sCalls /\ sTold' = sTold
        /\ sStatus' \in {"failed", "awaitingProof", "transferring"}
    BY <1>5, Zenon DEF Request
  <2>7. sent' \subseteq Parts /\ minHeight' \in Nat
    BY <1>5, <2>1, <2>2, Zenon DEF Request, SenderTypes, answer
  <2> QED
    BY <2>5, <2>6, <2>7, ResourceAssumption DEF SenderTypes, SenderStatuses
<1>6. ASSUME NEW m \in net, RequestRefused(m) PROVE SenderTypes' /\ NetTypes'
  <2>1. NetTypes'
    BY <1>6, <1>n, TransmitTyped DEF RequestRefused, Discard
  <2> QED
    BY <1>6, <2>1 DEF RequestRefused, SenderTypes, sVars
<1> QED
  BY <1>1, <1>2, <1>3, <1>4, <1>5, <1>6 DEF SenderNext

\* So does the receiver, for the part of its state that ReceiverStep does not cover.
LEMMA CountsTyped ==
    ASSUME TypeInv, ReceiverNext
    PROVE  CountTypes' /\ NetTypes'
<1>n. {} \in SUBSET Packets /\ {Prf} \in SUBSET Packets
  BY PacketsTyped
<1>t. /\ received \subseteq Parts /\ linkUp \in BOOLEAN /\ rStatus \in ReceiverStatuses
      /\ waitingForHmu \in BOOLEAN
  BY DEF TypeInv, ReceiverInv
<1>w. window.size \in Nat /\ window.size > 0
  BY DEF TypeInv, WindowInv
<1>s. Shrink(window).size \in Nat /\ Shrink(window).size > 0
  BY WindowFacts DEF TypeInv
<1>h. \A seg \in Segments : seg \in Nat
  BY DEF Segments
<1>1. CASE Accept
  <2> DEFINE kn == HashmapSegment(0)
  <2>1. kn \in SUBSET Parts
    BY SegmentTyped
  <2>2. Cardinality(kn) \in Nat
    BY <2>1, PartsFinite
  <2>3. known' = kn /\ hashmapHeight' = Cardinality(kn)
        /\ RequestNext({Adv}, FALSE, kn, Cardinality(kn), window.size)
        /\ UNCHANGED <<rRetries, requests, rCalls, rTold>>
    BY <1>1, Zenon DEF Accept
  <2> HIDE DEF kn
  <2>4. NetTypes' /\ outstanding' \in Nat
    BY <1>t, <1>w, <2>1, <2>2, <2>3, RequestNextTyped, Zenon DEF TypeInv, CountTypes
  <2> QED
    BY <2>1, <2>2, <2>3, <2>4 DEF TypeInv, CountTypes
<1>2. CASE AcceptRepeated
  <2>1. NetTypes'
    BY <1>2, <1>n, TransmitTyped DEF AcceptRepeated, Discard, TypeInv
  <2> QED
    BY <1>2, <2>1 DEF AcceptRepeated, TypeInv, CountTypes, rVars, mapVars, askVars
<1>3. CASE RunRequestNext
  <2>1. CASE rStatus = "failed"
    BY <1>3, <2>1 DEF RunRequestNext, TypeInv, CountTypes, NetTypes, mapVars, askVars, netVars
  <2>2. CASE rStatus # "failed"
    <3>1. RequestNext({}, waitingForHmu, known, hashmapHeight, window.size)
      BY <1>3, <2>2 DEF RunRequestNext
    <3>2. NetTypes' /\ outstanding' \in Nat
      BY <1>t, <1>w, <3>1, RequestNextTyped DEF TypeInv, CountTypes
    <3> QED
      BY <1>3, <3>2 DEF RunRequestNext, TypeInv, CountTypes, mapVars
  <2> QED
    BY <2>1, <2>2
<1>4. CASE Assemble
  <2>1. CASE Transmit({}, {Prf}) /\ rCalls' = rCalls + 1
    <3>1. NetTypes'
      BY <1>n, <2>1, TransmitTyped DEF TypeInv
    <3> QED
      BY <1>4, <2>1, <3>1 DEF Assemble, TypeInv, CountTypes, mapVars, askVars
  <2>2. CASE UNCHANGED <<rCalls, netVars>>
    BY <1>4, <2>2 DEF Assemble, TypeInv, CountTypes, NetTypes, mapVars, askVars, netVars
  <2> QED
    BY <1>4, <2>1, <2>2, Zenon DEF Assemble
<1>5. CASE AskAgain
  <2>1. RequestNext({}, FALSE, known, hashmapHeight, Shrink(window).size)
    BY <1>5, Zenon DEF AskAgain
  <2>2. NetTypes' /\ outstanding' \in Nat
    BY <1>t, <1>s, <2>1, RequestNextTyped, Zenon DEF TypeInv, CountTypes
  <2> QED
    BY <1>5, <2>2 DEF AskAgain, TypeInv, CountTypes, mapVars
<1>6. CASE ReceiverGivesUp \/ ReceiverCancel \/ ReceiverCallback
  <2>1. UNCHANGED <<netVars, mapVars, askVars, rRetries, requests>>
    BY <1>6, Zenon DEF ReceiverGivesUp, ReceiverCancel, ReceiverCallback
  <2>2. rCalls' \in Nat /\ rTold' \subseteq ReceiverStatuses
    BY <1>6, <1>t DEF ReceiverGivesUp, ReceiverCancel, ReceiverCallback, TypeInv, CountTypes
  <2> QED
    BY <2>1, <2>2 DEF TypeInv, CountTypes, NetTypes, netVars, mapVars, askVars
<1>7. ASSUME NEW m \in net, HashmapUpdate(m) PROVE CountTypes' /\ NetTypes'
  <2>1. CASE HmuIgnored
    <3>1. NetTypes'
      BY <1>7, <2>1, <1>n, TransmitTyped DEF HashmapUpdate, Discard, TypeInv
    <3> QED
      BY <1>7, <2>1, <3>1 DEF HashmapUpdate, TypeInv, CountTypes, rVars, mapVars, askVars
  <2>2. CASE ~HmuIgnored
    <3> DEFINE added == HashmapSegment(m.segment) \ known
               kn == known \cup added
               height == hashmapHeight + Cardinality(added)
    <3>1. m.segment \in Nat
      BY <1>7, <1>h, PacketFields DEF HashmapUpdate, TypeInv, NetTypes
    <3>2. added \in SUBSET Parts
      BY <3>1, SegmentTyped
    <3>3. kn \in SUBSET Parts /\ height \in Nat
      BY <3>2, PartsFinite DEF TypeInv, CountTypes
    <3>4. /\ known' = kn /\ hashmapHeight' = height /\ rRetries' = MaxRetries
          /\ RequestNext({m}, FALSE, kn, height, window.size)
          /\ UNCHANGED <<requests, rCalls, rTold>>
      BY <1>7, <2>2, Zenon DEF HashmapUpdate
    <3> HIDE DEF kn, height
    <3>5. NetTypes' /\ outstanding' \in Nat
      BY <1>t, <1>w, <3>3, <3>4, RequestNextTyped, Zenon DEF TypeInv, CountTypes
    <3> QED
      BY <3>3, <3>4, <3>5, ResourceAssumption, Zenon DEF TypeInv, CountTypes
  <2> QED
    BY <2>1, <2>2
<1>8. ASSUME NEW i \in Parts, ReceivePart(i) PROVE CountTypes' /\ NetTypes'
  <2>1. NetTypes'
    BY <1>8, <1>n, TransmitTyped DEF ReceivePart, Discard, TypeInv
  <2>2. CASE rStatus = "failed"
    BY <1>8, <2>1, <2>2 DEF ReceivePart, TypeInv, CountTypes, rVars, mapVars, askVars
  <2>3. CASE rStatus # "failed"
    <3> DEFINE filled == i \in (SearchRange(received, window.size) \cap known) \ received
    <3>1. /\ UNCHANGED <<mapVars, rRetries, rCalls, rTold>>
          /\ outstanding' = LeftAfterPart(filled)
          /\ requests' \in {requests, requests + 1}
      BY <1>8, <2>3 DEF ReceivePart
    <3>2. outstanding' \in Nat
      BY <3>1 DEF LeftAfterPart, TypeInv, CountTypes
    <3>3. requests' \in Nat
      BY <3>1 DEF TypeInv, CountTypes
    <3>4. known' = known /\ hashmapHeight' = hashmapHeight
      BY <3>1, Zenon DEF mapVars
    <3> QED
      BY <2>1, <3>1, <3>2, <3>3, <3>4, Zenon DEF TypeInv, CountTypes
  <2> QED
    BY <2>2, <2>3
<1> QED
  BY <1>1, <1>2, <1>3, <1>4, <1>5, <1>6, <1>7, <1>8 DEF ReceiverNext

(***************************************************************************)
(* TypeOK, which the runs check on resources of a few parts, for every      *)
(* size of a resource, of its segments and of its windows: in particular a  *)
(* request quotes a part of the resource, an answer of the sender carries a *)
(* segment that exists, and outstandingParts never goes below zero.         *)
(***************************************************************************)
THEOREM ResourceTypeCorrect == Spec => []TypeOK
<1>1. Init => TypeInv
  <2>1. Init => WindowInv
    BY ResourceAssumption DEF Init, WindowInv
  <2>2. Init => ReceiverInv
    <3>1. Init => waitingForHmu \in BOOLEAN /\ linkUp \in BOOLEAN
      BY Zenon DEF Init
    <3>2. Parts # {}
      BY MapAssumption DEF Parts
    <3> QED
      BY <3>1, <3>2 DEF Init, ReceiverInv, ReceiverStatuses
  <2>3. Init => SenderTypes
    <3>1. Init => sWatchdog \in BOOLEAN
      BY Zenon DEF Init
    <3> QED
      BY <3>1 DEF Init, SenderTypes, SenderStatuses
  <2>4. Init => CountTypes /\ NetTypes
    BY ResourceAssumption DEF Init, CountTypes, NetTypes
  <2> QED
    BY <2>1, <2>2, <2>3, <2>4 DEF TypeInv
<1>2. TypeInv /\ [Next]_vars => TypeInv'
  <2> SUFFICES ASSUME TypeInv, [Next]_vars PROVE TypeInv'
    OBVIOUS
  <2>1. ReceiverInv' /\ WindowInv' /\ linkUp \in BOOLEAN
    BY ReceiverStep, Zenon DEF TypeInv, ReceiverInv
  <2>2. CASE SenderNext
    <3>1. UNCHANGED rVars
      BY <2>2, Zenon DEF SenderNext, Advertise, ValidateProof, AdvertiseAgain, TransferTimeout,
         AskForProof, SenderWatchdogEnds, SenderCancel, SenderCallback, Request, RequestRefused
    <3>2. CountTypes'
      BY <3>1 DEF TypeInv, CountTypes, rVars, mapVars, askVars
    <3> QED
      BY <2>1, <2>2, <3>2, SenderTyped DEF TypeInv
  <2>3. CASE ReceiverNext
    <3>1. UNCHANGED sVars
      BY <2>3, Zenon DEF ReceiverNext, Accept, AcceptRepeated, RunRequestNext, Assemble, AskAgain,
         ReceiverGivesUp, ReceiverCancel, ReceiverCallback, HashmapUpdate, ReceivePart
    <3>2. SenderTypes'
      BY <3>1, Zenon DEF TypeInv, SenderTypes, sVars
    <3> QED
      BY <2>1, <2>3, <3>2, CountsTyped DEF TypeInv
  <2>4. CASE LinkCloses \/ UNCHANGED vars
    BY <2>1, <2>4 DEF LinkCloses, vars, TypeInv, SenderTypes, CountTypes, NetTypes, sVars, rVars,
                      netVars, mapVars, askVars
  <2> QED
    BY <2>2, <2>3, <2>4 DEF Next
<1>3. TypeInv => TypeOK
  BY DEF TypeInv, ReceiverInv, WindowInv, SenderTypes, CountTypes, NetTypes, TypeOK
<1> QED
  BY <1>1, <1>2, <1>3, PTL DEF Spec
=============================================================================
