------------------------ MODULE InboundQueues_proofs ------------------------
(***************************************************************************)
(* For every number of traffic classes, every capacity and any number of   *)
(* arrivals: the queue loses, duplicates and reorders nothing it accepted, *)
(* and the drainer never sleeps through a Put.                             *)
(***************************************************************************)
EXTENDS InboundQueues, SequenceTheorems, TLAPS

\* Taking the head of a FIFO and appending it to what was taken keeps their
\* concatenation, the step the drainer makes in Take.
LEMMA HeadMoves ==
    ASSUME NEW t \in Seq(Nat), NEW q \in Seq(Nat), q # <<>>
    PROVE  /\ Head(q) \in Nat
           /\ Tail(q) \in Seq(Nat)
           /\ Append(t, Head(q)) \in Seq(Nat)
           /\ Append(t, Head(q)) \o Tail(q) = t \o q
<1>1. Head(q) \in Nat /\ Tail(q) \in Seq(Nat)
  BY HeadTailProperties
<1>2. Append(t, Head(q)) \in Seq(Nat)
  BY <1>1, AppendProperties
<1>3. q = <<Head(q)>> \o Tail(q)
  BY HeadTailProperties, <1>1
<1>4. Append(t, Head(q)) = t \o <<Head(q)>>
  BY <1>1, AppendIsConcat
<1>5. <<Head(q)>> \in Seq(Nat)
  BY <1>1
<1>6. (t \o <<Head(q)>>) \o Tail(q) = t \o (<<Head(q)>> \o Tail(q))
  BY <1>1, <1>5, ConcatAssociative, SMTT(60)
<1> QED
  BY <1>1, <1>2, <1>3, <1>4, <1>6

\* Appending to the accepted packets and to the FIFO alike, the step of Put.
LEMMA AppendMoves ==
    ASSUME NEW t \in Seq(Nat), NEW q \in Seq(Nat), NEW e \in Nat
    PROVE  /\ Append(q, e) \in Seq(Nat)
           /\ Append(t \o q, e) = t \o Append(q, e)
<1>1. Append(q, e) = q \o <<e>> /\ Append(q, e) \in Seq(Nat)
  BY AppendIsConcat, AppendProperties
<1>2. t \o q \in Seq(Nat) /\ <<e>> \in Seq(Nat)
  BY ConcatProperties
<1>3. Append(t \o q, e) = (t \o q) \o <<e>>
  BY <1>2, AppendIsConcat
<1>4. (t \o q) \o <<e>> = t \o (q \o <<e>>)
  BY <1>2, ConcatAssociative, SMTT(60)
<1> QED
  BY <1>1, <1>3, <1>4

\* Every variable keeps its type.
THEOREM TypeCorrect == Spec => []TypeOK
<1>1. Init => TypeOK
  <2>1. <<>> \in Seq(Nat)
    BY EmptySeq
  <2>2. 0 \in Nat
    OBVIOUS
  <2> QED
    BY <2>1, <2>2, Zenon DEF Init, TypeOK
<1>2. TypeOK /\ [Next]_vars => TypeOK'
  <2> SUFFICES ASSUME TypeOK, [Next]_vars PROVE TypeOK'
    OBVIOUS
  <2> USE DEF TypeOK
  <2>1. ASSUME NEW c \in Classes, Put(c) PROVE TypeOK'
    <3>1. Arrival(c) \in Nat
      BY DEF Arrival
    <3>2. /\ Append(queues[c], Arrival(c)) \in Seq(Nat)
          /\ Append(accepted[c], Arrival(c)) \in Seq(Nat)
      BY <3>1, AppendProperties
    <3>3. dropped' \in [Classes -> Nat] /\ notify' \in Nat
      <4>1. dropped[c] + 1 \in Nat /\ notify + 1 \in Nat
        OBVIOUS
      <4> QED
        BY <2>1, <4>1, Zenon DEF Put, CloseNotify, CountDrop
    <3>4. queues' \in [Classes -> Seq(Nat)]
      BY <2>1, <3>2, Zenon DEF Put
    <3>5. accepted' \in [Classes -> Seq(Nat)]
      BY <2>1, <3>2, Zenon DEF Put
    <3>6. UNCHANGED <<pc, ch, stopCh, joined, taken, late>>
      BY <2>1 DEF Put
    <3> QED
      BY <3>3, <3>4, <3>5, <3>6
  <2>2. ASSUME NEW c \in Queued, Take(c) PROVE TypeOK'
    <3>1. c \in Classes /\ queues[c] \in Seq(Nat) /\ taken[c] \in Seq(Nat) /\ queues[c] # <<>>
      BY DEF Queued
    <3>2. /\ Tail(queues[c]) \in Seq(Nat)
          /\ Append(taken[c], Head(queues[c])) \in Seq(Nat)
      BY <3>1, HeadMoves
    <3> QED
      BY <2>2, <3>1, <3>2 DEF Take
  <2>3. CASE Drainer
    BY <2>2, <2>3 DEF Drainer, ScanTake, ScanEmpty, Wake, StopTake, DrainerExit, Processed
  <2>4. CASE Stop
    BY <2>4 DEF Stop
  <2>5. CASE Join
    BY <2>5 DEF Join
  <2>6. CASE UNCHANGED vars
    BY <2>6 DEF vars
  <2> QED
    BY <2>1, <2>3, <2>4, <2>5, <2>6 DEF Next
<1> QED
  BY <1>1, <1>2, PTL DEF Spec

\* What a class accepted is what the drainer took from it followed by what
\* it still holds: no packet Put accepted is lost, duplicated or reordered.
THEOREM NothingIsLost == Spec => []NothingLost
<1>1. Init => NothingLost
  BY DEF Init, NothingLost
<1>2. TypeOK /\ NothingLost /\ [Next]_vars => NothingLost'
  <2> SUFFICES ASSUME TypeOK, NothingLost, [Next]_vars PROVE NothingLost'
    OBVIOUS
  <2> USE DEF TypeOK, NothingLost
  <2>1. ASSUME NEW c \in Classes, Put(c) PROVE NothingLost'
    <3>1. CASE Len(queues[c]) >= sizes[c]
      BY <2>1, <3>1 DEF Put, CountDrop
    <3>2. CASE ~(Len(queues[c]) >= sizes[c])
      <4>1. Arrival(c) \in Nat /\ taken[c] \in Seq(Nat) /\ queues[c] \in Seq(Nat)
        BY DEF Arrival
      <4>2. Append(taken[c] \o queues[c], Arrival(c)) = taken[c] \o Append(queues[c], Arrival(c))
        BY <4>1, AppendMoves, Zenon
      <4> QED
        BY <2>1, <3>2, <4>1, <4>2, Zenon DEF Put
    <3> QED
      BY <3>1, <3>2, Zenon
  <2>2. ASSUME NEW c \in Queued, Take(c) PROVE NothingLost'
    <3>1. c \in Classes /\ queues[c] \in Seq(Nat) /\ taken[c] \in Seq(Nat) /\ queues[c] # <<>>
      BY DEF Queued
    <3>2. Append(taken[c], Head(queues[c])) \o Tail(queues[c]) = taken[c] \o queues[c]
      BY <3>1, HeadMoves, Zenon
    <3> QED
      BY <2>2, <3>1, <3>2, Zenon DEF Take
  <2>3. CASE Drainer
    BY <2>2, <2>3, Zenon DEF Drainer, ScanTake, ScanEmpty, Wake, StopTake, DrainerExit, Processed
  <2>4. CASE Stop \/ Join \/ UNCHANGED vars
    BY <2>4, Zenon DEF Stop, Join, vars
  <2> QED
    BY <2>1, <2>3, <2>4, Zenon DEF Next
<1> QED
  BY <1>1, <1>2, TypeCorrect, PTL DEF Spec

\* The channel the drainer waits on is never newer than the current one, and
\* a parked drainer that faces a packet holds a closed one.
WakeInv == ch <= notify /\ NoLostWakeup

\* No Put can slip unseen between GetUntil's scan and its wait.
THEOREM NoWakeupIsLost == Spec => []NoLostWakeup
<1>1. Init => WakeInv
  BY DEF Init, WakeInv, NoLostWakeup
<1>2. TypeOK /\ WakeInv /\ [Next]_vars => WakeInv'
  <2> SUFFICES ASSUME TypeOK, WakeInv, [Next]_vars PROVE WakeInv'
    OBVIOUS
  <2> USE DEF TypeOK, WakeInv, NoLostWakeup
  <2>1. ASSUME NEW c \in Classes, Put(c) PROVE WakeInv'
    <3>1. CASE Len(queues[c]) >= sizes[c]
      BY <2>1, <3>1 DEF Put, Queued
    <3>2. CASE ~(Len(queues[c]) >= sizes[c])
      BY <2>1, <3>2 DEF Put, CloseNotify
    <3> QED
      BY <3>1, <3>2
  <2>2. ASSUME NEW c \in Queued, Take(c) PROVE WakeInv'
    BY <2>2 DEF Take
  <2>3. CASE Drainer
    BY <2>2, <2>3 DEF Drainer, ScanTake, ScanEmpty, Wake, StopTake, DrainerExit, Processed, Queued
  <2>4. CASE Stop \/ Join \/ UNCHANGED vars
    BY <2>4 DEF Stop, Join, vars, Queued
  <2> QED
    BY <2>1, <2>3, <2>4 DEF Next
<1> QED
  BY <1>1, <1>2, TypeCorrect, PTL DEF Spec, WakeInv

\* Arrival numbers only grow: what a class accepted is in order, and every number in it
\* is smaller than that of the next arrival.
Growing(s, next) ==
    /\ \A i \in 1 .. Len(s) : s[i] < next
    /\ \A i, j \in 1 .. Len(s) : i < j => s[i] < s[j]

OrderInv ==
    \A c \in Classes : Len(queues[c]) <= sizes[c] /\ Growing(accepted[c], Arrival(c))

\* A sequence in order stays so when something larger is appended.
LEMMA AppendGrows ==
    ASSUME NEW s \in Seq(Nat), NEW n \in Nat, Growing(s, n), NEW m \in Nat, n < m
    PROVE  Growing(Append(s, n), m) /\ Growing(s, m)
<1>1. Len(s) \in Nat /\ \A i \in 1 .. Len(s) : s[i] \in Nat
  BY LenProperties, ElementOfSeq
<1>2. /\ Len(Append(s, n)) = Len(s) + 1 /\ Append(s, n)[Len(s) + 1] = n
      /\ \A i \in 1 .. Len(s) : Append(s, n)[i] = s[i]
  BY AppendProperties
<1>3. \A i \in 1 .. Len(s) : s[i] < n /\ s[i] < m
  BY <1>1 DEF Growing
<1>4. \A i \in 1 .. Len(s) + 1 : i \in 1 .. Len(s) \/ i = Len(s) + 1
  BY <1>1
<1>5. \A i \in 1 .. Len(s) + 1 : Append(s, n)[i] < m
  BY <1>2, <1>3, <1>4
<1>6. ASSUME NEW i \in 1 .. Len(s) + 1, NEW j \in 1 .. Len(s) + 1, i < j
      PROVE  Append(s, n)[i] < Append(s, n)[j]
  <2>1. i \in 1 .. Len(s)
    BY <1>1, <1>6
  <2>2. CASE j \in 1 .. Len(s)
    BY <1>2, <1>6, <2>1, <2>2 DEF Growing
  <2>3. CASE j = Len(s) + 1
    BY <1>2, <1>3, <2>1, <2>3
  <2> QED
    BY <1>4, <2>2, <2>3
<1> QED
  BY <1>2, <1>3, <1>5, <1>6 DEF Growing

\* The first half of what grows is a sequence that grows.
LEMMA PrefixGrows ==
    ASSUME NEW t \in Seq(Nat), NEW q \in Seq(Nat), NEW n, Growing(t \o q, n)
    PROVE  \A i, j \in 1 .. Len(t) : i < j => t[i] < t[j]
<1>1. Len(t) \in Nat /\ Len(q) \in Nat /\ Len(t \o q) = Len(t) + Len(q)
  BY LenProperties, ConcatProperties
<1>2. \A i \in 1 .. Len(t) : i \in 1 .. Len(t \o q) /\ (t \o q)[i] = t[i]
  BY <1>1, ConcatProperties
<1> QED
  BY <1>2 DEF Growing

\* No step disturbs the order of what is taken and queued.
LEMMA OrderStep == TypeOK /\ OrderInv /\ [Next]_vars => OrderInv'
<1> SUFFICES ASSUME TypeOK, OrderInv, [Next]_vars PROVE OrderInv'
  OBVIOUS
<1>k. ASSUME UNCHANGED <<queues, accepted, dropped>> PROVE OrderInv'
  BY <1>k DEF OrderInv, Growing, Arrival
<1>1. ASSUME NEW c \in Classes, Put(c) PROVE OrderInv'
  <2> SUFFICES ASSUME NEW d \in Classes
               PROVE  Len(queues'[d]) <= sizes[d] /\ Growing(accepted'[d], Arrival(d)')
    BY DEF OrderInv
  <2>1. /\ queues[d] \in Seq(Nat) /\ accepted[d] \in Seq(Nat) /\ dropped[d] \in Nat
        /\ Len(queues[d]) \in Nat /\ Len(accepted[d]) \in Nat /\ sizes[d] \in Nat
    BY LenProperties, SizesAssumption DEF TypeOK, Classes
  <2>2. Len(queues[d]) <= sizes[d] /\ Growing(accepted[d], Arrival(d))
    BY DEF OrderInv
  <2>3. Arrival(d) \in Nat /\ Arrival(d) + 1 \in Nat /\ Arrival(d) < Arrival(d) + 1
    BY <2>1 DEF Arrival
  <2>4. CASE d # c
    <3>1. queues'[d] = queues[d] /\ accepted'[d] = accepted[d] /\ dropped'[d] = dropped[d]
      BY <1>1, <2>4 DEF Put, CountDrop, TypeOK
    <3> QED
      BY <2>2, <3>1 DEF Arrival
  <2>5. CASE d = c /\ Len(queues[d]) >= sizes[d]
    <3>1. queues' = queues /\ accepted' = accepted /\ dropped'[d] = dropped[d] + 1
      BY <1>1, <2>5 DEF Put, CountDrop, TypeOK
    <3>2. Arrival(d)' = Arrival(d) + 1
      <4> DEFINE a == Len(accepted[d])
                 b == dropped[d]
      <4>1. a \in Nat /\ b \in Nat /\ a' = a /\ b' = b + 1
        BY <2>1, <3>1
      <4>2. Arrival(d) = a + b + 1 /\ Arrival(d)' = a' + b' + 1
        BY DEF Arrival
      <4> HIDE DEF a, b
      <4> QED
        BY <4>1, <4>2
    <3>3. Growing(accepted[d], Arrival(d) + 1)
      BY <2>1, <2>2, <2>3, AppendGrows
    <3> QED
      BY <2>2, <3>1, <3>2, <3>3
  <2>6. CASE d = c /\ ~(Len(queues[d]) >= sizes[d])
    <3>1. /\ queues'[d] = Append(queues[d], Arrival(d)) /\ dropped'[d] = dropped[d]
          /\ accepted'[d] = Append(accepted[d], Arrival(d))
      BY <1>1, <2>6 DEF Put, TypeOK
    <3>2. Len(queues'[d]) = Len(queues[d]) + 1 /\ Len(accepted'[d]) = Len(accepted[d]) + 1
      BY <2>1, <2>3, <3>1, AppendProperties
    <3>3. Arrival(d)' = Arrival(d) + 1
      BY <2>1, <3>1, <3>2 DEF Arrival
    <3>4. Growing(Append(accepted[d], Arrival(d)), Arrival(d) + 1)
      BY <2>1, <2>2, <2>3, AppendGrows
    <3> QED
      BY <2>1, <2>6, <3>1, <3>2, <3>3, <3>4
  <2> QED
    BY <2>4, <2>5, <2>6
<1>2. ASSUME NEW c \in Queued, Take(c) PROVE OrderInv'
  <2> SUFFICES ASSUME NEW d \in Classes
               PROVE  Len(queues'[d]) <= sizes[d] /\ Growing(accepted'[d], Arrival(d)')
    BY DEF OrderInv
  <2>1. accepted' = accepted /\ dropped' = dropped
    BY <1>2 DEF Take
  <2>2. Arrival(d)' = Arrival(d)
    BY <2>1 DEF Arrival
  <2>3. Len(queues[d]) <= sizes[d] /\ Growing(accepted[d], Arrival(d))
    BY DEF OrderInv
  <2>4. Len(queues'[d]) <= sizes[d]
    <3>1. c \in Classes /\ queues[c] # <<>> /\ queues[c] \in Seq(Nat) /\ sizes[d] \in Nat
      BY SizesAssumption DEF Queued, TypeOK, Classes
    <3>2. Len(Tail(queues[c])) = Len(queues[c]) - 1 /\ Len(queues[c]) \in Nat
      BY <3>1, HeadTailProperties, LenProperties
    <3>3. queues'[d] = IF d = c THEN Tail(queues[c]) ELSE queues[d]
      BY <1>2, <3>1 DEF Take, TypeOK
    <3> QED
      BY <2>3, <3>1, <3>2, <3>3
  <2> QED
    BY <2>1, <2>2, <2>3, <2>4
<1>3. CASE Drainer
  <2>1. CASE ScanEmpty \/ Wake \/ DrainerExit \/ Processed
    BY <1>k, <2>1 DEF ScanEmpty, Wake, DrainerExit, Processed
  <2> QED
    BY <1>2, <1>3, <2>1 DEF Drainer, ScanTake, StopTake
<1>4. CASE Stop \/ Join \/ UNCHANGED vars
  BY <1>k, <1>4 DEF Stop, Join, vars
<1> QED
  BY <1>1, <1>3, <1>4 DEF Next

\* For every number of classes and every capacity: Put never lets a class grow past its
\* capacity, and GetUntil hands the packets of a class on in the order of their arrival.
THEOREM TakenInOrder == Spec => []ArrivalOrder
<1>1. Init => OrderInv
  <2> SUFFICES ASSUME Init, NEW c \in Classes
               PROVE  Len(queues[c]) <= sizes[c] /\ Growing(accepted[c], Arrival(c))
    BY DEF OrderInv
  <2>1. queues[c] = <<>> /\ accepted[c] = <<>> /\ sizes[c] \in Nat
    BY SizesAssumption DEF Init, Classes
  <2>2. Len(queues[c]) = 0 /\ Len(accepted[c]) = 0
    BY <2>1
  <2> QED
    BY <2>1, <2>2 DEF Growing
<1>2. TypeOK /\ OrderInv /\ NothingLost => ArrivalOrder
  <2> SUFFICES ASSUME TypeOK, OrderInv, NothingLost, NEW c \in Classes
               PROVE  /\ Len(queues[c]) <= sizes[c]
                      /\ \A i, j \in DOMAIN taken[c] : i < j => taken[c][i] < taken[c][j]
    BY DEF ArrivalOrder
  <2>1. taken[c] \in Seq(Nat) /\ queues[c] \in Seq(Nat)
    BY DEF TypeOK
  <2>2. Growing(taken[c] \o queues[c], Arrival(c))
    BY Zenon DEF OrderInv, NothingLost
  <2>3. DOMAIN taken[c] = 1 .. Len(taken[c])
    BY <2>1, LenProperties
  <2> QED
    BY <2>1, <2>2, <2>3, PrefixGrows DEF OrderInv
<1> QED
  BY <1>1, <1>2, OrderStep, TypeCorrect, NothingIsLost, PTL DEF Spec
=============================================================================
