--------------------------- MODULE Channel_proofs --------------------------
(***************************************************************************)
(* Proofs about Channel, for every number of messages below the sequence   *)
(* modulus, every start number, window and set of timers: typing, in-order *)
(* delivery, that Channel implements MessageStream, that what is proved is *)
(* held, and that the window neither overflows nor closes.                 *)
(***************************************************************************)
EXTENDS Channel, FiniteSetTheorems, TLAPS

(***************************************************************************)
(* A non-empty set of numbers has a least element.                         *)
(***************************************************************************)
LEMMA LeastExists ==
    ASSUME NEW S \in SUBSET Nat, S # {}
    PROVE  \E x \in S : \A y \in S : x <= y
<1>1. IsWellFoundedOn(OpToRel(<, Nat), Nat)
  BY NatLessThanWellFounded, Zenon
<1>2. \E x \in S : \A y \in S : ~ (<<y, x>> \in OpToRel(<, Nat))
  BY ONLY <1>1, WFMin, S \in SUBSET Nat, S # {}, Zenon
<1>3. PICK x \in S : \A y \in S : ~ (<<y, x>> \in OpToRel(<, Nat))
  BY <1>2, Zenon
<1>4. ASSUME NEW y \in S
      PROVE  x <= y
  <2>1. x \in Nat /\ y \in Nat
    OBVIOUS
  <2>2. ~ (y < x)
    BY <1>3, <2>1, Zenon DEF OpToRel
  <2> QED
    BY <2>1, <2>2
<1> QED
  BY <1>4

\* What FiniteSetsExt!Min returns on such a set.
LEMMA MinIsLeast ==
    ASSUME NEW S \in SUBSET Nat, S # {}
    PROVE  Min(S) \in S /\ \A y \in S : Min(S) <= y
<1>1. PICK x \in S : \A y \in S : x <= y
  BY LeastExists
<1>2. \A y \in S : x =< y
  BY <1>1
<1> QED
  BY <1>2, Zenon DEF Min

(***************************************************************************)
(* The arithmetic of sequence numbers.                                     *)
(***************************************************************************)
LEMMA SeqAddType ==
    ASSUME NEW a \in SeqNumbers, NEW b \in 0..SeqModulus
    PROVE  SeqAdd(a, b) \in SeqNumbers
BY ModulusAssumption DEF SeqAdd, SeqNumbers

\* The number of the message n further on.
LEMMA NumberOfAdds ==
    ASSUME NEW i \in Nat, NEW n \in Nat, i + n <= SeqModulus, i >= 1
    PROVE  SeqAdd(NumberOf(i), n) = NumberOf(i + n)
BY ModulusAssumption, StartAssumption DEF SeqAdd, SeqNumbers, NumberOf

\* With fewer messages than numbers, a number is that of one message.
LEMMA NumberOfInjective ==
    ASSUME NEW i \in 1..SeqModulus, NEW j \in 1..SeqModulus, NumberOf(i) = NumberOf(j)
    PROVE  i = j
BY ModulusAssumption, StartAssumption DEF SeqAdd, SeqNumbers, NumberOf

LEMMA NumberOfType ==
    ASSUME NEW i \in 1..SeqModulus
    PROVE  NumberOf(i) \in SeqNumbers
BY ModulusAssumption, StartAssumption DEF SeqAdd, SeqNumbers, NumberOf
(***************************************************************************)
(* emplaceEnvelope and the contiguous run.                                 *)
(***************************************************************************)
LEMMA ConcatEntries ==
    ASSUME NEW s \in Seq(Envelopes), NEW t \in Seq(Envelopes)
    PROVE  /\ s \o t \in Seq(Envelopes)
           /\ Len(s \o t) = Len(s) + Len(t)
           /\ \A k \in 1..Len(s) : (s \o t)[k] = s[k]
           /\ \A k \in (Len(s) + 1)..(Len(s) + Len(t)) : (s \o t)[k] = t[k - Len(s)]
<1>1. s \o t \in Seq(Envelopes)
  OBVIOUS
<1>2. Len(s \o t) = Len(s) + Len(t)
  OBVIOUS
<1>3. Len(s) \in Nat /\ Len(t) \in Nat
  OBVIOUS
<1>4. \A k \in 1..(Len(s) + Len(t)) :
         (s \o t)[k] = IF k <= Len(s) THEN s[k] ELSE t[k - Len(s)]
  OBVIOUS
<1>5. \A k \in 1..Len(s) : (s \o t)[k] = s[k]
  BY <1>3, <1>4
<1>6. \A k \in (Len(s) + 1)..(Len(s) + Len(t)) : (s \o t)[k] = t[k - Len(s)]
  BY <1>3, <1>4
<1> QED
  BY <1>1, <1>2, <1>5, <1>6

\* Nothing is handed over while the handoff is empty.
LEMMA EmptyDomain == DOMAIN << >> = {}
OBVIOUS

\* Positions in a ring.
LEMMA Positions ==
    ASSUME NEW ring \in Seq(Envelopes), NEW n \in 0..Len(ring), NEW k \in DOMAIN ring
    PROVE  Len(ring) \in Nat /\ n \in Nat /\ n <= Len(ring) /\ k \in Nat /\ 1 <= k /\ k <= Len(ring)
OBVIOUS

\* What stays of a ring when its front is popped.
LEMMA Suffix ==
    ASSUME NEW ring \in Seq(Envelopes), NEW n \in Nat, n <= Len(ring)
    PROVE  \A k \in DOMAIN ring : k > n =>
               /\ k - n \in DOMAIN SubSeq(ring, n + 1, Len(ring))
               /\ SubSeq(ring, n + 1, Len(ring))[k - n] = ring[k]
<1>1. /\ DOMAIN SubSeq(ring, n + 1, Len(ring)) = 1..(Len(ring) - n)
      /\ \A j \in 1..(Len(ring) - n) : SubSeq(ring, n + 1, Len(ring))[j] = ring[n + j]
  OBVIOUS
<1>2. \A k \in DOMAIN ring : k > n => k - n \in 1..(Len(ring) - n) /\ n + (k - n) = k
  OBVIOUS
<1> QED
  BY <1>1, <1>2

\* The entries of a ring with an envelope inserted before position i.
LEMMA InsertAtValues ==
    ASSUME NEW ring \in Seq(Envelopes), NEW env \in Envelopes, NEW i \in 1..Len(ring)
    PROVE  /\ InsertAt(ring, i, env) \in Seq(Envelopes)
           /\ DOMAIN InsertAt(ring, i, env) = 1..(Len(ring) + 1)
           /\ \A k \in 1..(i - 1) : InsertAt(ring, i, env)[k] = ring[k]
           /\ InsertAt(ring, i, env)[i] = env
           /\ \A k \in (i + 1)..(Len(ring) + 1) : InsertAt(ring, i, env)[k] = ring[k - 1]
<1> DEFINE a == SubSeq(ring, 1, i - 1)
           b == <<env>>
           c == SubSeq(ring, i, Len(ring))
           ab == a \o b
<1>1. /\ a \in Seq(Envelopes) /\ Len(a) = i - 1
      /\ \A k \in 1..(i - 1) : a[k] = ring[k]
  OBVIOUS
<1>2. b \in Seq(Envelopes) /\ Len(b) = 1 /\ b[1] = env
  OBVIOUS
<1>3. /\ c \in Seq(Envelopes) /\ Len(c) = Len(ring) - i + 1
      /\ \A k \in 1..(Len(ring) - i + 1) : c[k] = ring[i + k - 1]
  OBVIOUS
<1>4. InsertAt(ring, i, env) = ab \o c
  BY DEF InsertAt
<1> HIDE DEF a, b, c
<1>n. i \in Nat /\ Len(ring) \in Nat /\ 1 <= i /\ i <= Len(ring)
  OBVIOUS
<1>5. ab \in Seq(Envelopes) /\ Len(ab) = i
  <2>1. ab \in Seq(Envelopes) /\ Len(ab) = Len(a) + Len(b)
    BY <1>1, <1>2, ConcatEntries, Zenon
  <2>2. Len(a) + Len(b) = i
    BY <1>1, <1>2, <1>n
  <2> QED
    BY <2>1, <2>2
<1>6. \A k \in 1..(i - 1) : ab[k] = ring[k]
  BY <1>1, <1>2, <1>n, ConcatEntries
<1>7. ab[i] = env
  <2>1. i \in (Len(a) + 1)..(Len(a) + Len(b)) /\ i - Len(a) = 1
    BY <1>1, <1>2, <1>n
  <2> QED
    BY <1>1, <1>2, <2>1, ConcatEntries
<1> HIDE DEF ab
<1>8. ab \o c \in Seq(Envelopes) /\ Len(ab \o c) = Len(ring) + 1
  <2>1. ab \o c \in Seq(Envelopes) /\ Len(ab \o c) = Len(ab) + Len(c)
    BY <1>3, <1>5, ConcatEntries, Zenon
  <2>2. Len(ab) + Len(c) = Len(ring) + 1
    BY <1>3, <1>5, <1>n
  <2> QED
    BY <2>1, <2>2
<1>9. \A k \in 1..i : (ab \o c)[k] = ab[k]
  BY <1>3, <1>5, ConcatEntries
<1>10. \A k \in (i + 1)..(Len(ring) + 1) : (ab \o c)[k] = c[k - i]
  BY <1>3, <1>5, <1>n, ConcatEntries
<1>11. ASSUME NEW k \in 1..(i - 1) PROVE (ab \o c)[k] = ring[k]
  <2>1. k \in 1..i
    BY <1>n
  <2> QED
    BY <1>6, <1>9, <2>1, Zenon
<1>12. (ab \o c)[i] = env
  <2>1. i \in 1..i
    BY <1>n
  <2> QED
    BY <1>7, <1>9, <2>1, Zenon
<1>13. ASSUME NEW k \in (i + 1)..(Len(ring) + 1) PROVE (ab \o c)[k] = ring[k - 1]
  <2>1. k - i \in 1..(Len(ring) - i + 1) /\ i + (k - i) - 1 = k - 1
    BY <1>n
  <2>2. (ab \o c)[k] = c[k - i]
    BY <1>10, Zenon
  <2>3. c[k - i] = ring[i + (k - i) - 1]
    BY <1>3, <2>1
  <2> QED
    BY <2>1, <2>2, <2>3
<1>14. DOMAIN (ab \o c) = 1..(Len(ring) + 1)
  BY <1>8, <1>n
<1> QED
  BY <1>4, <1>8, <1>11, <1>12, <1>13, <1>14, Zenon

\* An insertion adds the envelope and nothing else.
LEMMA InsertAtEntries ==
    ASSUME NEW ring \in Seq(Envelopes), NEW env \in Envelopes, NEW i \in 1..Len(ring)
    PROVE  \A k \in DOMAIN InsertAt(ring, i, env) :
                 \/ InsertAt(ring, i, env)[k] = env
                 \/ \E j \in DOMAIN ring : InsertAt(ring, i, env)[k] = ring[j]
<1>n. i \in Nat /\ Len(ring) \in Nat /\ 1 <= i /\ i <= Len(ring) /\ DOMAIN ring = 1..Len(ring)
  OBVIOUS
<1> DEFINE ins == InsertAt(ring, i, env)
<1>1. /\ DOMAIN ins = 1..(Len(ring) + 1) /\ ins[i] = env
      /\ \A k \in 1..(i - 1) : ins[k] = ring[k]
      /\ \A k \in (i + 1)..(Len(ring) + 1) : ins[k] = ring[k - 1]
  BY InsertAtValues
<1> HIDE DEF ins
<1>2. ASSUME NEW k \in DOMAIN ins PROVE ins[k] = env \/ \E j \in DOMAIN ring : ins[k] = ring[j]
  <2>0. k \in Nat /\ 1 <= k /\ k <= Len(ring) + 1
    BY <1>n, <1>1
  <2>1. CASE k < i
    <3>1. k \in 1..(i - 1) /\ k \in DOMAIN ring
      BY <1>n, <2>0, <2>1
    <3> QED
      BY <1>1, <3>1
  <2>2. CASE k = i
    BY <1>1, <2>2
  <2>3. CASE k > i
    <3>1. k \in (i + 1)..(Len(ring) + 1) /\ k - 1 \in DOMAIN ring
      BY <1>n, <2>0, <2>3
    <3> QED
      BY <1>1, <3>1
  <2> QED
    BY <1>n, <2>0, <2>1, <2>2, <2>3
<1> QED
  BY <1>2 DEF ins

\* Emplace adds the envelope and nothing else.
LEMMA EmplaceEntries ==
    ASSUME NEW ring \in Seq(Envelopes), NEW env \in Envelopes, NEW r \in SeqNumbers
    PROVE  /\ Emplace(ring, env, r) \in Seq(Envelopes)
           /\ \A k \in DOMAIN Emplace(ring, env, r) :
                 \/ Emplace(ring, env, r)[k] = env
                 \/ \E j \in DOMAIN ring : Emplace(ring, env, r)[k] = ring[j]
<1> DEFINE stops == StopsAt(ring, env.seq, r)
<1>1. CASE stops = {}
  <2>1. Emplace(ring, env, r) = Append(ring, env)
    BY <1>1 DEF Emplace
  <2> QED
    BY <2>1
<1>2. CASE stops # {}
  <2>1. stops \in SUBSET Nat /\ stops \subseteq 1..Len(ring)
    BY DEF StopsAt
  <2>2. Min(stops) \in 1..Len(ring)
    BY <1>2, <2>1, MinIsLeast
  <2>3. Emplace(ring, env, r) = InsertAt(ring, Min(stops), env)
    BY <1>2 DEF Emplace
  <2> QED
    BY <2>2, <2>3, InsertAtValues, InsertAtEntries
<1> QED
  BY <1>1, <1>2

\* What Receive pops is numbered consecutively from nextRXSequence.
LEMMA ContiguousRun ==
    ASSUME NEW ring \in Seq(Envelopes), NEW r \in SeqNumbers
    PROVE  /\ Contiguous(ring, r) \in 0..Len(ring)
           /\ \A k \in 1..Contiguous(ring, r) : ring[k].seq = SeqAdd(r, k - 1)
<1> DEFINE bad == Mismatches(ring, r)
<1>1. bad \in SUBSET Nat /\ bad \subseteq 1..Len(ring)
  BY DEF Mismatches
<1>2. \A k \in 1..Len(ring) : k \notin bad => ring[k].seq = SeqAdd(r, k - 1)
  BY DEF Mismatches
<1>3. CASE bad = {}
  BY <1>2, <1>3 DEF Contiguous
<1>4. CASE bad # {}
  <2>1. Min(bad) \in bad /\ \A y \in bad : Min(bad) <= y
    BY <1>1, <1>4, MinIsLeast
  <2>2. Contiguous(ring, r) = Min(bad) - 1
    BY <1>4 DEF Contiguous
  <2> HIDE DEF bad
  <2> DEFINE m == Min(bad)
  <2>m. m \in 1..Len(ring) /\ Len(ring) \in Nat /\ \A y \in bad : m <= y
    <3>1. Len(ring) \in Nat
      OBVIOUS
    <3>2. m \in bad
      BY <2>1
    <3>3. m \in 1..Len(ring)
      BY <1>1, <3>2, Zenon
    <3> QED
      BY <2>1, <3>1, <3>3, Zenon
  <2>2a. Contiguous(ring, r) = m - 1
    BY <2>2
  <2> HIDE DEF m
  <2>3. \A k \in 1..(m - 1) : k \in 1..Len(ring) /\ k \notin bad
    BY <2>m
  <2>4. m - 1 \in 0..Len(ring)
    BY <2>m
  <2>5. \A k \in 1..(m - 1) : ring[k].seq = SeqAdd(r, k - 1)
    BY <1>2, <2>3
  <2> QED
    BY <2>2a, <2>4, <2>5
<1> QED
  BY <1>3, <1>4
(***************************************************************************)
(* The window records.                                                     *)
(***************************************************************************)
LEMMA NewWindowType ==
    ASSUME NEW c \in RttClasses
    PROVE  NewWindow(c) \in Windows
BY WindowAssumption DEF NewWindow, Windows, RttClasses

\* The updates of the fields of the window.
LEMMA WindowUpdates ==
    ASSUME NEW w \in Windows, NEW a \in Nat, NEW b \in Nat,
           NEW f \in 0..RateRounds, NEW m \in 0..RateRounds
    PROVE  /\ [w EXCEPT !.window = a, !.max = b] \in Windows
           /\ [w EXCEPT !.max = a, !.min = b] \in Windows
           /\ [w EXCEPT !.fast = f, !.medium = m] \in Windows
           /\ [w EXCEPT !.fast = f] \in Windows
BY Zenon DEF Windows

LEMMA CountRoundType ==
    ASSUME NEW n \in 0..RateRounds
    PROVE  CountRound(n) \in 0..RateRounds
BY WindowAssumption DEF CountRound

\* What a delivery makes of the window is a window.
LEMMA GrowType ==
    ASSUME NEW w \in Windows, NEW c \in RttClasses
    PROVE  Grow(w, c) \in Windows
<1>0. 0 \in 0..RateRounds /\ WindowMaxMedium \in Nat /\ WindowMinMedium \in Nat
      /\ WindowMaxFast \in Nat /\ WindowMinFast \in Nat
  BY WindowAssumption
<1>1. GrowByOne(w) \in Windows
  BY DEF GrowByOne, Windows
<1>2. ASSUME NEW v \in Windows
      PROVE  RateFast(v) \in Windows
  <2>1. CountRound(v.fast) \in 0..RateRounds
    BY CountRoundType DEF Windows
  <2>2. [v EXCEPT !.fast = CountRound(v.fast)] \in Windows
    BY <2>1 DEF Windows
  <2> QED
    BY <1>0, <2>2, WindowUpdates, Zenon DEF RateFast
<1>3. ASSUME NEW v \in Windows
      PROVE  RateMedium(v) \in Windows
  <2>1. CountRound(v.medium) \in 0..RateRounds
    BY CountRoundType DEF Windows
  <2>2. [v EXCEPT !.fast = 0, !.medium = CountRound(v.medium)] \in Windows
    BY <1>0, <2>1, WindowUpdates, Zenon
  <2> QED
    BY <1>0, <2>2, WindowUpdates, Zenon DEF RateMedium
<1>4. ASSUME NEW v \in Windows
      PROVE  [v EXCEPT !.fast = 0, !.medium = 0] \in Windows
  BY <1>0, WindowUpdates, Zenon
<1> QED
  BY <1>1, <1>2, <1>3, <1>4, Zenon DEF Grow

\* So is what a timeout makes of it.
LEMMA ShrinkType ==
    ASSUME NEW w \in Windows
    PROVE  Shrink(w) \in Windows
<1>1. w.window \in Nat /\ w.max \in Nat /\ w.min \in Nat /\ w.flexibility \in Nat
  BY DEF Windows
<1> DEFINE top == IF w.max > w.min + w.flexibility THEN w.max - 1 ELSE w.max
<1>2. CASE w.window > w.min
  <2>1. w.window - 1 \in Nat /\ top \in Nat
    BY <1>1, <1>2
  <2>2. Shrink(w) = [w EXCEPT !.window = w.window - 1, !.max = top]
    BY <1>2 DEF Shrink, Windows
  <2> HIDE DEF top
  <2> QED
    BY <2>1, <2>2, Zenon DEF Windows
<1>3. CASE ~(w.window > w.min)
  BY <1>3 DEF Shrink
<1> QED
  BY <1>2, <1>3

(***************************************************************************)
(* Typing.                                                                 *)
(***************************************************************************)
LEMMA InitTyped == Init => TypeOK
<1> SUFFICES ASSUME Init PROVE TypeOK
  OBVIOUS
<1>1. win \in Windows /\ rtt \in RttClasses
  BY RttsAssumption, NewWindowType DEF Init
<1>2. StartSeq \in SeqNumbers /\ 0 \in 0..MaxMessages
  BY StartAssumption, MessagesAssumption
<1>3. receipt \in [Messages -> Receipt]
  BY DEF Init, NoReceipt, Receipt
<1>4. timer \in [Timers -> TimerState]
  BY DEF Init, Idle, TimerState
<1>5. rxRing \in Seq(Envelopes) /\ handoff \in Seq(Messages) /\ delivered \in Seq(Messages)
  BY DEF Init
<1>6. tries \in [Messages -> Nat]
  BY DEF Init
<1> QED
  BY <1>1, <1>2, <1>3, <1>4, <1>5, <1>6, Zenon DEF Init, TypeOK, None

\* What Receive pops from the ring: while the channel is open, the messages that follow
\* the last one handed over.
LEMMA ReceivePops ==
    ASSUME TypeOK, OrderInv, NEW env \in Envelopes, Receive(env),
           NEW ring, ring = Emplace(rxRing, env, nextRXSequence),
           NEW n, n = Contiguous(ring, nextRXSequence)
    PROVE  /\ ring \in Seq(Envelopes) /\ \A k \in DOMAIN ring : Numbered(ring[k])
           /\ n \in 0..Len(ring) /\ n \in 0..SeqModulus
           /\ rxOpen => /\ Len(delivered) + n <= sent
                        /\ \A k \in 1..n : ring[k].msg = Len(delivered) + k
<1> DEFINE d == Len(delivered)
<1>0. /\ rxRing \in Seq(Envelopes) /\ nextRXSequence \in SeqNumbers
      /\ d \in Nat /\ sent \in 0..MaxMessages
  BY DEF TypeOK
<1>1. ring \in Seq(Envelopes)
  BY <1>0, EmplaceEntries
<1>2. \A k \in DOMAIN ring : Numbered(ring[k])
  <2>1. Numbered(env)
    BY DEF OrderInv, EnvelopesNumbered, Receive
  <2>2. \A j \in DOMAIN rxRing : Numbered(rxRing[j])
    BY DEF OrderInv, EnvelopesNumbered
  <2>3. \A k \in DOMAIN ring : ring[k] = env \/ \E j \in DOMAIN rxRing : ring[k] = rxRing[j]
    BY <1>0, EmplaceEntries
  <2> QED
    BY <2>1, <2>2, <2>3
<1>3. n \in 0..Len(ring) /\ \A k \in 1..n : ring[k].seq = SeqAdd(nextRXSequence, k - 1)
  BY <1>0, <1>1, ContiguousRun
<1>4. \A k \in 1..n : /\ k \in DOMAIN ring /\ ring[k].msg \in 1..MaxMessages
                       /\ ring[k].msg <= sent /\ ring[k].seq = NumberOf(ring[k].msg)
  <2> TAKE k \in 1..n
  <2>1. k \in DOMAIN ring
    BY <1>1, <1>3
  <2>2. ring[k] \in Envelopes
    BY <1>1, <2>1
  <2> QED
    BY <1>2, <2>1, <2>2 DEF Numbered, Envelopes, Messages
<1>5. CASE rxOpen
  <2>0. n \in Nat /\ MaxMessages \in Nat /\ SeqModulus \in Nat /\ MaxMessages < SeqModulus
    BY <1>1, <1>3, MessagesAssumption, ModulusAssumption
  <2>1. d <= sent /\ nextRXSequence = NumberOf(d + 1)
    <3>1. handoff = <<>> /\ Len(handoff) = 0
      BY DEF OrderInv, ReceiverNumbered, Receive
    <3> QED
      BY <1>0, <1>5, <3>1 DEF OrderInv, ReceiverNumbered
  <2> DEFINE bad == {k \in 1..n : ring[k].msg # d + k}
  <2>2. ASSUME bad # {} PROVE FALSE
    <3>1. bad \in SUBSET Nat
      BY <2>0
    <3>2. PICK m \in bad : \A y \in bad : m <= y
      BY <2>2, <3>1, LeastExists, Zenon
    <3>3. m \in 1..n /\ ring[m].msg # d + m
      BY <3>2
    <3>4. d + m - 1 <= sent
      <4>1. CASE m = 1
        BY <1>0, <2>1, <4>1
      <4>2. CASE m # 1
        <5>1. m - 1 \in 1..n
          BY <2>0, <3>3, <4>2
        <5>2. m - 1 \notin bad
          BY <2>0, <3>2, <3>3
        <5>3. ring[m - 1].msg = d + (m - 1)
          BY <5>1, <5>2, Zenon
        <5>4. ring[m - 1].msg <= sent
          BY <1>4, <5>1
        <5> HIDE DEF d, bad
        <5> QED
          BY <1>0, <2>0, <3>3, <5>3, <5>4
      <4> QED
        BY <4>1, <4>2
    <3> HIDE DEF d, bad
    <3>5. d + m \in 1..SeqModulus /\ (d + 1) + (m - 1) = d + m /\ m - 1 \in Nat
      BY <1>0, <2>0, <3>3, <3>4
    <3>6. SeqAdd(NumberOf(d + 1), m - 1) = NumberOf((d + 1) + (m - 1))
      BY <1>0, <3>5, NumberOfAdds, ModulusAssumption
    <3>7. NumberOf(ring[m].msg) = NumberOf(d + m)
      BY <1>3, <1>4, <2>1, <3>3, <3>5, <3>6
    <3>8. ring[m].msg \in 1..SeqModulus
      BY <1>4, <2>0, <3>3
    <3> QED
      BY <3>3, <3>5, <3>7, <3>8, NumberOfInjective
  <2>3. \A k \in 1..n : ring[k].msg = d + k
    BY <2>2
  <2>4. d + n <= sent
    <3>1. CASE n = 0
      BY <1>0, <2>1, <3>1
    <3>2. CASE n # 0
      <4>1. n \in 1..n
        BY <2>0, <3>2
      <4> QED
        BY <1>4, <2>3, <4>1
    <3> QED
      BY <3>1, <3>2
  <2> HIDE DEF d
  <2>5. n \in 0..SeqModulus
    BY <1>0, <2>0, <2>4
  <2> QED
    BY <1>1, <1>2, <1>3, <2>3, <2>4, <2>5 DEF d
<1>6. CASE ~rxOpen
  <2>1. rxRing = <<>>
    BY <1>6 DEF OrderInv, ReceiverNumbered, Receive
  <2>2. StopsAt(rxRing, env.seq, nextRXSequence) = {}
    BY <2>1 DEF StopsAt
  <2>3. ring = Append(<<>>, env)
    BY <2>1, <2>2 DEF Emplace
  <2>4. Len(ring) = 1
    BY <2>3
  <2>5. n \in 0..SeqModulus
    BY <1>3, <2>4, ModulusAssumption, WindowAssumption
  <2> QED
    BY <1>1, <1>2, <1>3, <1>6, <2>5
<1> QED
  BY <1>5, <1>6

\* A step of Receive leaves well-typed rings.
LEMMA ReceiveTyped ==
    ASSUME TypeOK, OrderInv, NEW env \in Envelopes, Receive(env)
    PROVE  /\ rxRing' \in Seq(Envelopes) /\ nextRXSequence' \in SeqNumbers
           /\ handoff' \in Seq(Messages) /\ proofs' \in SUBSET Messages
           /\ rxPacket' \in SUBSET Envelopes
<1>r. PICK ring : ring = Emplace(rxRing, env, nextRXSequence)
  OBVIOUS
<1>n. PICK n : n = Contiguous(ring, nextRXSequence)
  OBVIOUS
<1>0. rxRing \in Seq(Envelopes) /\ nextRXSequence \in SeqNumbers /\ env.msg \in Messages
      /\ proofs \in SUBSET Messages /\ handoff \in Seq(Messages)
  BY DEF TypeOK, Envelopes
<1>1. ring \in Seq(Envelopes) /\ n \in 0..Len(ring) /\ n \in 0..SeqModulus
  BY <1>r, <1>n, ReceivePops
<1>3. rxPacket' = {} /\ proofs' \in SUBSET Messages
  BY <1>0 DEF Receive
<1>4. CASE Accepted(env)
  <2>1. /\ rxRing' = SubSeq(ring, n + 1, Len(ring))
        /\ nextRXSequence' = SeqAdd(nextRXSequence, n)
        /\ handoff' = [k \in 1..n |-> ring[k].msg]
    BY <1>4, <1>r, <1>n DEF Receive
  <2>2. SubSeq(ring, n + 1, Len(ring)) \in Seq(Envelopes)
    BY <1>1
  <2>3. \A k \in 1..n : ring[k].msg \in Messages
    <3>1. \A k \in 1..n : k \in DOMAIN ring
      BY <1>1
    <3>2. \A k \in DOMAIN ring : ring[k] \in Envelopes
      BY <1>1
    <3> QED
      BY <3>1, <3>2 DEF Envelopes
  <2>4. [k \in 1..n |-> ring[k].msg] \in Seq(Messages)
    <3>1. n \in Nat /\ [k \in 1..n |-> ring[k].msg] \in [1..n -> Messages]
      BY <1>1, <2>3
    <3> QED
      BY <3>1
  <2>5. SeqAdd(nextRXSequence, n) \in SeqNumbers
    BY <1>0, <1>1, SeqAddType
  <2> QED
    BY <1>3, <2>1, <2>2, <2>4, <2>5
<1>5. CASE ~Accepted(env)
  BY <1>0, <1>3, <1>5 DEF Receive
<1> QED
  BY <1>4, <1>5

\* Every step keeps the types.
LEMMA TypeStep ==
    ASSUME TypeOK, OrderInv, [Next]_vars
    PROVE  TypeOK'
<1> USE DEF txVars, ringVars, rxVars
<1>n. MaxMessages \in Nat
  BY MessagesAssumption
<1>1. ASSUME SendReserve PROVE TypeOK'
  <2>1. SeqAdd(nextSequence, 1) \in SeqNumbers
    BY SeqAddType, ModulusAssumption, WindowAssumption DEF TypeOK
  <2> QED
    BY <1>1, <2>1 DEF TypeOK, SendReserve
<1>2. ASSUME SendRollback PROVE TypeOK'
  BY <1>2 DEF TypeOK, SendRollback
<1>3. ASSUME NEW w \in BOOLEAN, SendOutbound(w) PROVE TypeOK'
  <2>1. sent + 1 \in 0..MaxMessages /\ sent + 1 \in Messages
    BY <1>n, <1>3 DEF TypeOK, OrderInv, SenderNumbered, SendOutbound, Messages
  <2>2. [seq |-> reserved, msg |-> sent + 1] \in Envelopes
    BY <2>1 DEF TypeOK, Envelopes
  <2>3. wire' \in SUBSET Envelopes
    BY <1>3, <2>2 DEF TypeOK, SendOutbound
  <2>4. receipt' \in [Messages -> Receipt]
    BY <1>3, <2>1, Zenon DEF TypeOK, SendOutbound, Receipt
  <2>5. sender' \in {"idle", "reserved", "written", "done"}
    BY <1>3 DEF SendOutbound
  <2> QED
    BY <1>3, <2>1, <2>3, <2>4, <2>5 DEF TypeOK, SendOutbound
<1>4. ASSUME SendRegister PROVE TypeOK'
  <2>1. receipt' \in [Messages -> Receipt]
    BY <1>4, ZenonT(60) DEF TypeOK, SendRegister, MarkListed, Receipt
  <2> QED
    BY <1>4, <2>1 DEF TypeOK, SendRegister
<1>5. ASSUME SendCommit PROVE TypeOK'
  <2>1. sent \in Messages
    BY <1>n, <1>5 DEF TypeOK, OrderInv, SenderNumbered, SendCommit, Messages
  <2>2. [seq |-> reserved, msg |-> sent] \in Envelopes
    BY <2>1 DEF TypeOK, Envelopes
  <2>3. receipt' \in [Messages -> Receipt] /\ tries' \in [Messages -> Nat]
    <3>1. CASE Receipts
      <4>1. /\ receipt' = [receipt EXCEPT ![sent].status = "sent", ![sent].armed = TRUE]
            /\ tries' = [tries EXCEPT ![sent] = 1]
        BY <1>5, <3>1 DEF SendCommit
      <4>2. receipt' \in [Messages -> Receipt]
        BY <2>1, <4>1, ZenonT(60) DEF TypeOK, Receipt
      <4>3. tries' \in [Messages -> Nat]
        BY <2>1, <4>1 DEF TypeOK
      <4> QED
        BY <4>2, <4>3
    <3>2. CASE ~Receipts
      BY <1>5, <3>2 DEF SendCommit, TypeOK
    <3> QED
      BY <3>1, <3>2
  <2>5. txRing' \in SUBSET Envelopes
    BY <1>5, <2>2 DEF TypeOK, SendCommit
  <2>6. nextSequence' \in SeqNumbers
    BY <1>5 DEF TypeOK, SendCommit
  <2>7. sender' \in {"idle", "reserved", "written", "done"}
    BY <1>5 DEF SendCommit
  <2> QED
    BY <1>5, <2>3, <2>5, <2>6, <2>7, Zenon DEF TypeOK, SendCommit
<1>6. ASSUME NEW m \in Messages, ProofArrives(m) PROVE TypeOK'
  <2>1. receipt' \in [Messages -> Receipt]
    BY <1>6, ZenonT(60) DEF TypeOK, ProofArrives, Receipt
  <2>2. proving' \in Messages \cup {None}
    BY <1>6 DEF TypeOK, ProofArrives
  <2> QED
    BY <1>6, <2>1, <2>2 DEF TypeOK, ProofArrives
<1>7. ASSUME NEW m \in Messages, Concluded(m)
      PROVE  txRing' \in SUBSET Envelopes /\ win' \in Windows
  BY <1>7, GrowType DEF TypeOK, Concluded, RingWithout
<1>8. ASSUME PacketDelivered PROVE TypeOK'
  <2>1. proving \in Messages /\ Concluded(proving)
    BY <1>8 DEF TypeOK, PacketDelivered
  <2>2. txRing' \in SUBSET Envelopes /\ win' \in Windows
    BY <1>7, <2>1
  <2> QED
    BY <1>8, <2>2 DEF TypeOK, PacketDelivered
<1>9. ASSUME NEW t \in Timers, NEW m \in Messages, Expire(t, m) PROVE TypeOK'
  <2>1. CASE ExpireIdle(t, m)
    <3>1. receipt' \in [Messages -> Receipt]
      BY <2>1, Zenon DEF TypeOK, ExpireIdle, Receipt
    <3> QED
      BY <2>1, <3>1 DEF TypeOK, ExpireIdle
  <2>2. CASE ExpireLast(t, m)
    <3>1. receipt' \in [Messages -> Receipt]
      BY <2>2, Zenon DEF TypeOK, ExpireLast, Receipt
    <3>2. timer' \in [Timers -> TimerState]
      BY <2>2, Zenon DEF TypeOK, ExpireLast, TimerState
    <3> QED
      BY <2>2, <3>1, <3>2 DEF TypeOK, ExpireLast
  <2>3. CASE ExpireRetry(t, m)
    <3>1. receipt' \in [Messages -> Receipt]
      BY <2>3, Zenon DEF TypeOK, ExpireRetry, Receipt
    <3>2. timer' \in [Timers -> TimerState]
      BY <2>3 DEF TypeOK, ExpireRetry, TimerState
    <3>3. win' \in Windows
      BY <2>3, ShrinkType DEF TypeOK, ExpireRetry
    <3>4. tries' \in [Messages -> Nat]
      BY <2>3 DEF TypeOK, ExpireRetry
    <3> QED
      BY <2>3, <3>1, <3>2, <3>3, <3>4 DEF TypeOK, ExpireRetry
  <2> QED
    BY <1>9, <2>1, <2>2, <2>3 DEF Expire
<1>10. ASSUME NEW t \in Timers, NEW w \in BOOLEAN, Resend(t, w) PROVE TypeOK'
  <2>1. timer' \in [Timers -> TimerState]
    BY <1>10, Zenon DEF TypeOK, Resend, TimerState
  <2>2. wire' \in SUBSET Envelopes
    BY <1>10 DEF TypeOK, Resend, TimerState
  <2> QED
    BY <1>10, <2>1, <2>2 DEF TypeOK, Resend
<1>11. ASSUME NEW t \in Timers, ResendRegister(t) PROVE TypeOK'
  <2>1. timer' \in [Timers -> TimerState]
    BY <1>11, Zenon DEF TypeOK, ResendRegister, TimerState
  <2>2. PICK e \in timer[t].env : receipt' = MarkListed(e.msg)
    BY <1>11 DEF ResendRegister
  <2>3. receipt' \in [Messages -> Receipt]
    BY <2>2, ZenonT(60) DEF TypeOK, MarkListed, Receipt
  <2> QED
    BY <1>11, <2>1, <2>3 DEF TypeOK, ResendRegister
<1>12. ASSUME NEW t \in Timers, ResendCommit(t) PROVE TypeOK'
  <2>1. timer' \in [Timers -> TimerState]
    BY <1>12 DEF TypeOK, ResendCommit, TimerState, Idle
  <2>2. PICK e \in timer[t].env : /\ receipt' = [receipt EXCEPT ![e.msg].armed = TRUE]
                                  /\ LateProof(e.msg)
    BY <1>12, Zenon DEF ResendCommit
  <2>3. e.msg \in Messages
    BY <2>2 DEF TypeOK, TimerState, Envelopes
  <2>4. receipt' \in [Messages -> Receipt]
    BY <2>2, Zenon DEF TypeOK, Receipt
  <2>5. txRing' \in SUBSET Envelopes /\ win' \in Windows
    BY <1>7, <2>2, <2>3 DEF LateProof, TypeOK
  <2> QED
    BY <1>12, <2>1, <2>4, <2>5 DEF TypeOK, ResendCommit
<1>13. ASSUME LinkCloses
       PROVE  /\ receipt' \in [Messages -> Receipt] /\ txRing' \in SUBSET Envelopes
              /\ txLink' \in BOOLEAN /\ stopped' \in BOOLEAN
  <2>1. Disarm \in [Messages -> Receipt]
    BY Zenon DEF TypeOK, Disarm, Receipt
  <2> QED
    BY <1>13, <2>1, Zenon DEF TypeOK, LinkCloses
<1>14. ASSUME NEW t \in Timers, TimedOut(t) PROVE TypeOK'
  <2>1. timer' \in [Timers -> TimerState]
    BY <1>14 DEF TypeOK, TimedOut, TimerState, Idle
  <2>2. LinkCloses
    BY <1>14, Zenon DEF TimedOut
  <2> QED
    BY <1>13, <2>1, <2>2, Zenon DEF TypeOK, LinkCloses
<1>15. ASSUME TxClose PROVE TypeOK'
  <2>1. LinkCloses /\ timer' = timer
    BY <1>15 DEF TxClose
  <2> QED
    BY <1>13, <2>1, Zenon DEF TypeOK, LinkCloses
<1>16. ASSUME SweepEnd PROVE TypeOK'
  <2>0. ASSUME NEW m \in Messages, NEW b \in BOOLEAN
        PROVE  [receipt[m] EXCEPT !.listed = b] \in Receipt
    BY Zenon DEF TypeOK, Receipt
  <2>1. receipt' \in [Messages -> Receipt]
    <3>1. \A m \in Messages : (receipt[m].listed /\ receipt[m].status = "sent") \in BOOLEAN
      OBVIOUS
    <3>2. receipt' = [m \in Messages |->
                       [receipt[m] EXCEPT !.listed =
                          receipt[m].listed /\ receipt[m].status = "sent"]]
      BY <1>16 DEF SweepEnd, TypeOK, Receipt
    <3>3. \A m \in Messages :
            [receipt[m] EXCEPT !.listed = receipt[m].listed /\ receipt[m].status = "sent"] \in Receipt
      BY <2>0, <3>1, Zenon
    <3> QED
      BY <3>2, <3>3, Zenon
  <2> QED
    BY <1>16, <2>1 DEF TypeOK, SweepEnd
<1>17. ASSUME RxClose PROVE TypeOK'
  <2>0. <<>> \in Seq(Envelopes)
    OBVIOUS
  <2>1. rxRing' \in Seq(Envelopes) /\ rxOpen' \in BOOLEAN
    BY <1>17, <2>0, Zenon DEF RxClose
  <2> QED
    BY <1>17, <2>1 DEF TypeOK, RxClose
<1>18. ASSUME NEW env \in Envelopes, LinkReceive(env) PROVE TypeOK'
  BY <1>18, Zenon DEF TypeOK, LinkReceive, Envelopes
<1>19. ASSUME NEW env \in Envelopes, Receive(env) PROVE TypeOK'
  BY <1>19, ReceiveTyped, Zenon DEF TypeOK, Receive
<1>20. ASSUME HandleMessage PROVE TypeOK'
  <2>1. Head(handoff) \in Messages /\ Tail(handoff) \in Seq(Messages)
    BY <1>20 DEF TypeOK, HandleMessage
  <2> QED
    BY <1>20, <2>1 DEF TypeOK, HandleMessage, HandOver
<1>21. ASSUME NEW t \in Timers, Shutdown(t) PROVE TypeOK'
  <2>1. receipt' \in [Messages -> Receipt]
    BY <1>21, Zenon DEF TypeOK, Shutdown, Disarm, Receipt
  <2>2. timer' \in [Timers -> TimerState]
    BY <1>21, Zenon DEF TypeOK, Shutdown, TimerState
  <2> QED
    BY <1>21, <2>1, <2>2 DEF TypeOK, Shutdown
<1>22. ASSUME UNCHANGED vars PROVE TypeOK'
  BY <1>22 DEF TypeOK, vars
<1> QED
  BY <1>1, <1>2, <1>3, <1>4, <1>5, <1>6, <1>8, <1>9, <1>10, <1>11, <1>12, <1>14, <1>15,
     <1>16, <1>17, <1>18, <1>19, <1>20, <1>21, <1>22
     DEF Next, Send, TimerStep, Drainer

(***************************************************************************)
(* Order.  A step of Send, of a timer or of the proof path only moves      *)
(* numbered envelopes around; Receive pops what follows.                   *)
(***************************************************************************)
LEMMA OrderInit == Init => OrderInv
<1> SUFFICES ASSUME Init PROVE OrderInv
  OBVIOUS
<1>1. NumberOf(1) = StartSeq
  BY ModulusAssumption, StartAssumption DEF NumberOf, SeqAdd, SeqNumbers
<1>2. Len(delivered) = 0 /\ Len(handoff) = 0 /\ DOMAIN delivered = {} /\ DOMAIN handoff = {}
      /\ DOMAIN rxRing = {}
  BY DEF Init
<1>3. EnvelopesNumbered
  BY <1>2 DEF Init, EnvelopesNumbered, Idle
<1>4. SenderNumbered
  BY <1>1 DEF Init, SenderNumbered
<1>5. ReceiverNumbered
  BY <1>1, <1>2 DEF Init, ReceiverNumbered
<1> QED
  BY <1>2, <1>3, <1>4, <1>5 DEF OrderInv, InOrder

\* Steps that give the network, the ring and the timers no new envelope and leave the
\* receiving end alone.
LEMMA OrderKept ==
    ASSUME TypeOK, OrderInv, UNCHANGED <<rxVars, sent>>, SenderNumbered',
           wire' \subseteq wire \cup txRing \cup UNION {timer[t].env : t \in Timers},
           txRing' \subseteq txRing,
           \A t \in Timers : timer'[t].env \subseteq timer[t].env \cup txRing
    PROVE  OrderInv'
<1>1. \A e : Numbered(e)' <=> Numbered(e)
  BY DEF Numbered
<1>2. \A e \in wire \cup txRing \cup rxPacket : Numbered(e)
  BY DEF OrderInv, EnvelopesNumbered
<1>3. \A t \in Timers : \A e \in timer[t].env : Numbered(e)
  BY DEF OrderInv, EnvelopesNumbered
<1>4. EnvelopesNumbered'
  <2>1. \A e \in wire' \cup txRing' \cup rxPacket' : Numbered(e)
    BY <1>2, <1>3 DEF rxVars
  <2>2. \A t \in Timers : \A e \in timer'[t].env : Numbered(e)
    BY <1>2, <1>3
  <2>3. \A i \in DOMAIN rxRing' : Numbered(rxRing'[i])
    BY DEF OrderInv, EnvelopesNumbered, rxVars
  <2> QED
    BY <1>1, <2>1, <2>2, <2>3 DEF EnvelopesNumbered
<1>5. ReceiverNumbered'
  BY DEF OrderInv, ReceiverNumbered, rxVars
<1>6. InOrder'
  BY DEF OrderInv, InOrder, rxVars
<1> QED
  BY <1>4, <1>5, <1>6 DEF OrderInv

\* Every step keeps the order invariant.
LEMMA OrderStep ==
    ASSUME TypeOK, OrderInv, [Next]_vars
    PROVE  OrderInv'
<1>n. /\ MaxMessages \in Nat /\ SeqModulus \in Nat /\ MaxMessages < SeqModulus
      /\ sent \in 0..MaxMessages
  BY MessagesAssumption, ModulusAssumption DEF TypeOK
<1>k. ASSUME UNCHANGED <<rxVars, txVars>>, txRing' \subseteq txRing,
             wire' \subseteq wire \cup txRing \cup UNION {timer[t].env : t \in Timers},
             \A t \in Timers : timer'[t].env \subseteq timer[t].env \cup txRing
      PROVE  OrderInv'
  <2>1. SenderNumbered'
    BY <1>k, Zenon DEF OrderInv, SenderNumbered, txVars
  <2> QED
    BY <1>k, <2>1, OrderKept DEF txVars
<1>1. ASSUME SendReserve PROVE OrderInv'
  <2>1. SenderNumbered'
    BY <1>1, Zenon DEF SendReserve, OrderInv, SenderNumbered
  <2> QED
    BY <1>1, <2>1, OrderKept DEF SendReserve, ringVars
<1>2. ASSUME SendRollback PROVE OrderInv'
  <2>1. SenderNumbered'
    BY <1>2, Zenon DEF SendRollback, OrderInv, SenderNumbered
  <2> QED
    BY <1>2, <2>1, OrderKept DEF SendRollback, ringVars
<1>3. ASSUME SendRegister PROVE OrderInv'
  <2>1. SenderNumbered'
    BY <1>3 DEF SendRegister, OrderInv, SenderNumbered, ringVars
  <2> QED
    BY <1>3, <2>1, OrderKept DEF SendRegister, ringVars
<1>4. ASSUME NEW m \in Messages, ProofArrives(m) PROVE OrderInv'
  <2>1. UNCHANGED <<rxVars, txVars>> /\ txRing' \subseteq txRing
    BY <1>4 DEF ProofArrives, ringVars
  <2>2. wire' \subseteq wire \cup txRing \cup UNION {timer[t].env : t \in Timers}
    BY <1>4 DEF ProofArrives, ringVars
  <2>3. \A t \in Timers : timer'[t].env \subseteq timer[t].env \cup txRing
    BY <1>4 DEF ProofArrives, ringVars, TypeOK, TimerState, Idle
  <2> QED
    BY <1>k, <2>1, <2>2, <2>3
<1>5. ASSUME PacketDelivered PROVE OrderInv'
  <2>1. UNCHANGED <<rxVars, txVars>> /\ txRing' \subseteq txRing
    BY <1>5 DEF PacketDelivered, Concluded, RingWithout
  <2>2. wire' \subseteq wire \cup txRing \cup UNION {timer[t].env : t \in Timers}
    BY <1>5 DEF PacketDelivered, Concluded, RingWithout
  <2>3. \A t \in Timers : timer'[t].env \subseteq timer[t].env \cup txRing
    BY <1>5, Zenon DEF PacketDelivered, Concluded, RingWithout, TypeOK, TimerState, Idle
  <2> QED
    BY <1>k, <2>1, <2>2, <2>3
<1>6. ASSUME NEW t1 \in Timers, NEW m \in Messages, ExpireIdle(t1, m) PROVE OrderInv'
  <2>1. UNCHANGED <<rxVars, txVars>> /\ txRing' \subseteq txRing
    BY <1>6 DEF ExpireIdle, ringVars
  <2>2. wire' \subseteq wire \cup txRing \cup UNION {timer[t].env : t \in Timers}
    BY <1>6 DEF ExpireIdle, ringVars
  <2>3. \A t \in Timers : timer'[t].env \subseteq timer[t].env \cup txRing
    BY <1>6 DEF ExpireIdle, ringVars, TypeOK, TimerState, Idle
  <2> QED
    BY <1>k, <2>1, <2>2, <2>3
<1>7. ASSUME NEW t1 \in Timers, NEW m \in Messages, ExpireLast(t1, m) PROVE OrderInv'
  <2>1. UNCHANGED <<rxVars, txVars>> /\ txRing' \subseteq txRing
    BY <1>7 DEF ExpireLast, ringVars
  <2>2. wire' \subseteq wire \cup txRing \cup UNION {timer[t].env : t \in Timers}
    BY <1>7 DEF ExpireLast, ringVars
  <2>3. \A t \in Timers : timer'[t].env \subseteq timer[t].env \cup txRing
    BY <1>7 DEF ExpireLast, ringVars, TypeOK, TimerState, Idle
  <2> QED
    BY <1>k, <2>1, <2>2, <2>3
<1>8. ASSUME NEW t1 \in Timers, NEW m \in Messages, ExpireRetry(t1, m) PROVE OrderInv'
  <2>1. UNCHANGED <<rxVars, txVars>> /\ txRing' \subseteq txRing
    BY <1>8 DEF ExpireRetry
  <2>2. wire' \subseteq wire \cup txRing \cup UNION {timer[t].env : t \in Timers}
    BY <1>8 DEF ExpireRetry
  <2>3. \A t \in Timers : timer'[t].env \subseteq timer[t].env \cup txRing
    BY <1>8 DEF ExpireRetry, TypeOK, TimerState, Idle
  <2> QED
    BY <1>k, <2>1, <2>2, <2>3
<1>9. ASSUME NEW t1 \in Timers, NEW w \in BOOLEAN, Resend(t1, w) PROVE OrderInv'
  <2>1. UNCHANGED <<rxVars, txVars>> /\ txRing' \subseteq txRing
    BY <1>9 DEF Resend, ringVars
  <2>2. wire' \subseteq wire \cup txRing \cup UNION {timer[t].env : t \in Timers}
    BY <1>9 DEF Resend, ringVars
  <2>3. \A t \in Timers : timer'[t].env \subseteq timer[t].env \cup txRing
    BY <1>9 DEF Resend, ringVars, TypeOK, TimerState, Idle
  <2> QED
    BY <1>k, <2>1, <2>2, <2>3
<1>10. ASSUME NEW t1 \in Timers, ResendRegister(t1) PROVE OrderInv'
  <2>1. UNCHANGED <<rxVars, txVars>> /\ txRing' \subseteq txRing
    BY <1>10 DEF ResendRegister, ringVars
  <2>2. wire' \subseteq wire \cup txRing \cup UNION {timer[t].env : t \in Timers}
    BY <1>10 DEF ResendRegister, ringVars
  <2>3. \A t \in Timers : timer'[t].env \subseteq timer[t].env \cup txRing
    BY <1>10 DEF ResendRegister, ringVars, TypeOK, TimerState, Idle
  <2> QED
    BY <1>k, <2>1, <2>2, <2>3
<1>11. ASSUME NEW t1 \in Timers, ResendCommit(t1) PROVE OrderInv'
  <2>1. UNCHANGED <<rxVars, txVars>> /\ txRing' \subseteq txRing
    BY <1>11 DEF ResendCommit, LateProof, Concluded, RingWithout
  <2>2. wire' \subseteq wire \cup txRing \cup UNION {timer[t].env : t \in Timers}
    BY <1>11 DEF ResendCommit, LateProof, Concluded, RingWithout
  <2>3. \A t \in Timers : timer'[t].env \subseteq timer[t].env \cup txRing
    BY <1>11 DEF ResendCommit, LateProof, Concluded, RingWithout, TypeOK, TimerState, Idle
  <2> QED
    BY <1>k, <2>1, <2>2, <2>3
<1>12. ASSUME NEW t1 \in Timers, TimedOut(t1) PROVE OrderInv'
  <2>1. UNCHANGED <<rxVars, txVars>> /\ txRing' \subseteq txRing
    BY <1>12 DEF TimedOut, LinkCloses
  <2>2. wire' \subseteq wire \cup txRing \cup UNION {timer[t].env : t \in Timers}
    BY <1>12, Zenon DEF TimedOut, LinkCloses
  <2>3. \A t \in Timers : timer'[t].env \subseteq timer[t].env \cup txRing
    BY <1>12 DEF TimedOut, LinkCloses, TypeOK, TimerState, Idle
  <2> QED
    BY <1>k, <2>1, <2>2, <2>3
<1>13. ASSUME TxClose PROVE OrderInv'
  <2>1. UNCHANGED <<rxVars, txVars>> /\ txRing' \subseteq txRing
    BY <1>13 DEF TxClose, LinkCloses
  <2>2. wire' \subseteq wire \cup txRing \cup UNION {timer[t].env : t \in Timers}
    BY <1>13 DEF TxClose, LinkCloses
  <2>3. \A t \in Timers : timer'[t].env \subseteq timer[t].env \cup txRing
    BY <1>13 DEF TxClose, LinkCloses, TypeOK, TimerState, Idle
  <2> QED
    BY <1>k, <2>1, <2>2, <2>3
<1>14. ASSUME SweepEnd PROVE OrderInv'
  <2>1. UNCHANGED <<rxVars, txVars>> /\ txRing' \subseteq txRing
    BY <1>14 DEF SweepEnd, ringVars
  <2>2. wire' \subseteq wire \cup txRing \cup UNION {timer[t].env : t \in Timers}
    BY <1>14 DEF SweepEnd, ringVars
  <2>3. \A t \in Timers : timer'[t].env \subseteq timer[t].env \cup txRing
    BY <1>14 DEF SweepEnd, ringVars, TypeOK, TimerState, Idle
  <2> QED
    BY <1>k, <2>1, <2>2, <2>3
<1>15. ASSUME NEW w \in BOOLEAN, SendOutbound(w) PROVE OrderInv'
  <2> USE DEF rxVars, ringVars
  <2>0. /\ sender = "reserved" /\ sent' = sent + 1 /\ reserved' = reserved
        /\ nextSequence' = nextSequence /\ sender' \in {"written", "done"}
        /\ txRing' = txRing /\ timer' = timer /\ rxPacket' = rxPacket /\ rxRing' = rxRing
        /\ wire' \subseteq wire \cup {[seq |-> reserved, msg |-> sent + 1]}
    BY <1>15 DEF SendOutbound
  <2>1. reserved = NumberOf(sent + 1) /\ nextSequence = SeqAdd(reserved, 1) /\ sent < MaxMessages
    BY <2>0 DEF OrderInv, SenderNumbered
  <2>2. \A e \in Envelopes : Numbered(e) => Numbered(e)'
    <3> SUFFICES ASSUME NEW e \in Envelopes, Numbered(e) PROVE Numbered(e)'
      OBVIOUS
    <3>1. e.msg \in Nat /\ e.msg <= sent /\ e.seq = NumberOf(e.msg)
      BY <1>n DEF Numbered, Envelopes, Messages
    <3>2. e.msg <= sent'
      BY <1>n, <2>0, <3>1
    <3> QED
      BY <3>1, <3>2 DEF Numbered
  <2>e. PICK env : env = [seq |-> reserved, msg |-> sent + 1]
    BY Zenon
  <2>3. Numbered(env)'
    BY <1>n, <2>0, <2>1, <2>e DEF Numbered
  <2>4. EnvelopesNumbered'
    <3>1. \A e \in wire \cup txRing \cup rxPacket : Numbered(e)'
      BY <2>2 DEF OrderInv, EnvelopesNumbered, TypeOK
    <3>2. \A t \in Timers : \A e \in timer[t].env : Numbered(e)'
      BY <2>2 DEF OrderInv, EnvelopesNumbered, TypeOK, TimerState
    <3>3. \A i \in DOMAIN rxRing : rxRing[i] \in Envelopes
      BY DEF TypeOK
    <3>4. \A i \in DOMAIN rxRing : Numbered(rxRing[i])'
      <4> TAKE i \in DOMAIN rxRing
      <4>1. Numbered(rxRing[i]) /\ rxRing[i] \in Envelopes
        BY <3>3 DEF OrderInv, EnvelopesNumbered
      <4>2. rxRing[i].msg \in Nat /\ rxRing[i].msg <= sent
        BY <1>n, <4>1 DEF Numbered, Envelopes, Messages
      <4>3. rxRing'[i].msg <= sent'
        BY <1>n, <2>0, <4>2, SMTT(60)
      <4> QED
        BY <2>0, <4>1, <4>3 DEF Numbered
    <3>5. \A e \in wire' \cup txRing' \cup rxPacket' : Numbered(e)'
      BY <2>0, <2>3, <2>e, <3>1, Zenon
    <3> QED
      BY <2>0, <3>2, <3>4, <3>5, Zenon DEF EnvelopesNumbered, Numbered
  <2>5. SenderNumbered'
    <3>1. SeqAdd(NumberOf(sent + 1), 1) = NumberOf((sent + 1) + 1)
      BY <1>n, <2>1, NumberOfAdds
    <3>2. \A e \in txRing : e.msg # sent + 1
      BY <1>n, SMTT(60) DEF OrderInv, EnvelopesNumbered, Numbered, TypeOK, Envelopes, Messages
    <3> QED
      BY <1>n, <2>0, <2>1, <3>1, <3>2, SMTT(60) DEF SenderNumbered
  <2>6. Len(delivered) \in Nat /\ Len(handoff) \in Nat
    BY DEF TypeOK
  <2>7. ReceiverNumbered'
    BY <1>15, <1>n, <2>0, <2>6 DEF OrderInv, ReceiverNumbered, SendOutbound
  <2>8. InOrder'
    BY <1>15 DEF OrderInv, InOrder, SendOutbound
  <2> QED
    BY <2>4, <2>5, <2>7, <2>8 DEF OrderInv
<1>16. ASSUME SendCommit PROVE OrderInv'
  <2> DEFINE env == [seq |-> reserved, msg |-> sent]
  <2>0. /\ sender = "done" /\ sender' = "idle" /\ sent' = sent /\ reserved' = reserved
        /\ timer' = timer /\ wire' = wire /\ UNCHANGED rxVars
    BY <1>16 DEF SendCommit
  <2>1. sent > 0 /\ reserved = NumberOf(sent) /\ nextSequence = NumberOf(sent + 1)
        /\ \A e \in txRing : e.msg # sent
    BY <2>0 DEF OrderInv, SenderNumbered
  <2>2. \A e \in txRing : e.seq # reserved
    <3> SUFFICES ASSUME NEW e \in txRing, e.seq = reserved PROVE FALSE
      BY Zenon
    <3>1. e.msg \in 1..MaxMessages /\ NumberOf(e.msg) = NumberOf(sent)
      BY <2>1 DEF OrderInv, EnvelopesNumbered, Numbered, TypeOK, Envelopes, Messages
    <3>2. e.msg \in 1..SeqModulus /\ sent \in 1..SeqModulus
      BY <1>n, <2>1, <3>1
    <3>3. e.msg = sent
      BY <3>1, <3>2, NumberOfInjective
    <3> QED
      BY <2>1, <3>3
  <2>3. nextSequence' = nextSequence /\ txRing' \subseteq txRing \cup {env}
    BY <1>16, <2>2 DEF SendCommit
  <2>4. Numbered(env)
    BY <1>n, <2>1 DEF Numbered
  <2>5. \A e : Numbered(e)' <=> Numbered(e)
    BY <2>0 DEF Numbered
  <2> HIDE DEF env
  <2>6. EnvelopesNumbered'
    <3>1. \A e \in wire' \cup txRing' \cup rxPacket' : Numbered(e)
      BY <2>0, <2>3, <2>4, Zenon DEF OrderInv, EnvelopesNumbered, rxVars
    <3> QED
      BY <2>0, <2>5, <3>1, Zenon DEF OrderInv, EnvelopesNumbered, rxVars, Numbered
  <2>7. SenderNumbered'
    BY <2>0, <2>1, <2>3 DEF SenderNumbered
  <2>8. ReceiverNumbered' /\ InOrder'
    BY <2>0 DEF OrderInv, ReceiverNumbered, InOrder, rxVars
  <2> QED
    BY <2>6, <2>7, <2>8 DEF OrderInv
<1>17. ASSUME RxClose PROVE OrderInv'
  <2>1. /\ rxOpen' = FALSE /\ rxRing' = <<>> /\ DOMAIN rxRing' = {}
        /\ UNCHANGED <<txVars, txRing, timer, wire, rxPacket, handoff, delivered>>
    BY <1>17 DEF RxClose, ringVars
  <2>2. EnvelopesNumbered'
    BY <2>1 DEF OrderInv, EnvelopesNumbered, Numbered, txVars
  <2>3. SenderNumbered'
    BY <2>1, Zenon DEF OrderInv, SenderNumbered, txVars
  <2>4. ReceiverNumbered' /\ InOrder'
    BY <2>1 DEF OrderInv, ReceiverNumbered, InOrder, txVars
  <2> QED
    BY <2>2, <2>3, <2>4 DEF OrderInv
<1>18. ASSUME NEW env \in Envelopes, LinkReceive(env) PROVE OrderInv'
  <2>1. /\ rxPacket' = {env} /\ env \in wire /\ handoff = <<>> /\ rxOpen
        /\ UNCHANGED <<txVars, txRing, timer, wire, rxOpen, rxRing, nextRXSequence, handoff,
                       delivered>>
    BY <1>18, Zenon DEF LinkReceive, ringVars
  <2>2. EnvelopesNumbered'
    BY <2>1 DEF OrderInv, EnvelopesNumbered, Numbered, txVars
  <2>3. SenderNumbered'
    BY <2>1, Zenon DEF OrderInv, SenderNumbered, txVars
  <2>4. ReceiverNumbered' /\ InOrder'
    BY <2>1 DEF OrderInv, ReceiverNumbered, InOrder, txVars
  <2> QED
    BY <2>2, <2>3, <2>4 DEF OrderInv
<1>19. ASSUME NEW env \in Envelopes, Receive(env) PROVE OrderInv'
  <2>r. PICK ring : ring = Emplace(rxRing, env, nextRXSequence)
    OBVIOUS
  <2>n. PICK n : n = Contiguous(ring, nextRXSequence)
    OBVIOUS
  <2>0. UNCHANGED <<txVars, txRing, timer, wire, rxOpen, delivered>> /\ rxPacket' = {}
    BY <1>19 DEF Receive, ringVars
  <2>1. handoff = <<>> /\ Len(handoff) = 0
    BY <1>19 DEF Receive, OrderInv, ReceiverNumbered
  <2>2. SenderNumbered' /\ InOrder'
    BY <2>0, Zenon DEF OrderInv, SenderNumbered, InOrder, txVars
  <2>3. CASE Accepted(env)
    <3>1. /\ rxRing' = SubSeq(ring, n + 1, Len(ring))
          /\ nextRXSequence' = SeqAdd(nextRXSequence, n)
          /\ handoff' = [k \in 1..n |-> ring[k].msg]
      BY <1>19, <2>3, <2>r, <2>n DEF Receive
    <3>2. /\ ring \in Seq(Envelopes) /\ \A k \in DOMAIN ring : Numbered(ring[k])
          /\ n \in 0..Len(ring) /\ n \in 0..SeqModulus
          /\ rxOpen => /\ Len(delivered) + n <= sent
                       /\ \A k \in 1..n : ring[k].msg = Len(delivered) + k
      BY <1>19, <2>r, <2>n, ReceivePops, Zenon
    <3>3. EnvelopesNumbered'
      <4>1. \A k \in DOMAIN rxRing' : k + n \in DOMAIN ring /\ rxRing'[k] = ring[k + n]
        BY <3>1, <3>2, SMTT(60)
      <4>2. \A k \in DOMAIN rxRing' : Numbered(rxRing'[k])
        BY <3>2, <4>1
      <4> QED
        BY <2>0, <4>2, Zenon DEF OrderInv, EnvelopesNumbered, Numbered, txVars
    <3>4. n \in Nat /\ Len(handoff') = n /\ DOMAIN handoff' = 1..n
      <4>1. n \in Nat
        BY <3>2
      <4> QED
        BY <3>1, <4>1
    <3>5. Len(delivered) \in Nat
      BY DEF TypeOK
    <3>6. CASE rxOpen
      <4>1. nextRXSequence = NumberOf(Len(delivered) + 1)
        BY <2>1, <3>5, <3>6 DEF OrderInv, ReceiverNumbered
      <4>2. /\ Len(delivered) + 1 \in Nat /\ (Len(delivered) + 1) + n <= SeqModulus
            /\ (Len(delivered) + 1) + n = Len(delivered) + n + 1
        BY <1>n, <3>2, <3>4, <3>5, <3>6
      <4>3. SeqAdd(NumberOf(Len(delivered) + 1), n) = NumberOf((Len(delivered) + 1) + n)
        BY <3>4, <3>5, <4>2, NumberOfAdds
      <4>4. nextRXSequence' = NumberOf(Len(delivered) + n + 1)
        BY <3>1, <4>1, <4>2, <4>3, Zenon
      <4>5. \A k \in DOMAIN handoff' : handoff'[k] = Len(delivered) + k
        BY <3>1, <3>2, <3>4, <3>6
      <4> QED
        BY <2>0, <2>2, <3>2, <3>3, <3>4, <3>6, <4>4, <4>5, Zenon
           DEF OrderInv, ReceiverNumbered, txVars
    <3>7. CASE ~rxOpen
      <4>1. ReceiverNumbered'
        BY <2>0, <3>7, Zenon DEF OrderInv, ReceiverNumbered, txVars
      <4> QED
        BY <2>2, <3>3, <4>1 DEF OrderInv
    <3> QED
      BY <3>6, <3>7, Zenon
  <2>4. CASE ~Accepted(env)
    <3>1. UNCHANGED <<rxRing, nextRXSequence, handoff>>
      BY <1>19, <2>4 DEF Receive
    <3>2. EnvelopesNumbered'
      BY <2>0, <3>1, Zenon DEF OrderInv, EnvelopesNumbered, Numbered, txVars
    <3>3. ReceiverNumbered'
      BY <2>0, <3>1 DEF OrderInv, ReceiverNumbered, txVars
    <3> QED
      BY <2>2, <3>2, <3>3 DEF OrderInv
  <2> QED
    BY <2>3, <2>4
<1>20. ASSUME HandleMessage PROVE OrderInv'
  <2>0. /\ UNCHANGED <<txVars, txRing, timer, wire, rxOpen, rxPacket, rxRing, nextRXSequence>>
        /\ handoff # <<>> /\ handoff' = Tail(handoff)
        /\ delivered' = HandOver(Head(handoff))
    BY <1>20 DEF HandleMessage, ringVars
  <2>1. handoff \in Seq(Messages) /\ delivered \in Seq(Messages)
    BY Zenon DEF TypeOK
  <2>2. EnvelopesNumbered' /\ SenderNumbered'
    BY <2>0 DEF OrderInv, EnvelopesNumbered, Numbered, SenderNumbered, txVars
  <2>3. /\ Len(handoff) \in Nat /\ Len(handoff) > 0 /\ Len(delivered) \in Nat
        /\ Len(handoff') = Len(handoff) - 1 /\ DOMAIN handoff = 1..Len(handoff)
        /\ DOMAIN handoff' = 1..(Len(handoff) - 1)
        /\ \A k \in 1..(Len(handoff) - 1) : handoff'[k] = handoff[k + 1]
    BY <2>0, <2>1
  <2>4. rxPacket' = {}
    BY <2>0 DEF OrderInv, ReceiverNumbered
  <2>5. CASE rxOpen
    <3>1. /\ Len(delivered) + Len(handoff) <= sent
          /\ nextRXSequence = NumberOf(Len(delivered) + Len(handoff) + 1)
          /\ \A k \in 1..Len(handoff) : handoff[k] = Len(delivered) + k
      BY <2>3, <2>5, Zenon DEF OrderInv, ReceiverNumbered
    <3>2. Head(handoff) = Len(delivered) + 1
      <4>1. Head(handoff) = handoff[1] /\ 1 \in 1..Len(handoff)
        BY <2>1, <2>3
      <4> QED
        BY <3>1, <4>1
    <3>3. /\ delivered' = Append(delivered, Len(delivered) + 1)
          /\ Len(delivered') = Len(delivered) + 1
      <4>1. delivered' = Append(delivered, Len(delivered) + 1)
        BY <2>0, <2>5, <3>2 DEF HandOver
      <4> QED
        BY <2>1, <4>1
    <3>4. InOrder'
      <4>1. \A i \in DOMAIN delivered : delivered[i] = i
        BY DEF OrderInv, InOrder
      <4> QED
        BY <2>1, <3>3, <4>1 DEF InOrder
    <3>5. \A k \in DOMAIN handoff' : handoff'[k] = Len(delivered') + k
      <4> TAKE k \in DOMAIN handoff'
      <4>1. k \in 1..(Len(handoff) - 1) /\ k + 1 \in 1..Len(handoff)
        BY <2>3
      <4>2. handoff'[k] = Len(delivered) + (k + 1)
        BY <2>3, <3>1, <4>1
      <4> QED
        BY <2>3, <3>3, <4>1, <4>2
    <3>6. /\ Len(delivered') + Len(handoff') = Len(delivered) + Len(handoff)
          /\ Len(delivered') <= sent
      BY <1>n, <2>3, <3>1, <3>3
    <3>7. ReceiverNumbered'
      BY <2>0, <2>4, <3>1, <3>5, <3>6 DEF ReceiverNumbered, txVars
    <3> QED
      BY <2>2, <3>4, <3>7 DEF OrderInv
  <2>6. CASE ~rxOpen
    <3>1. delivered' = delivered
      BY <2>0, <2>6 DEF HandOver
    <3>2. ReceiverNumbered' /\ InOrder'
      BY <2>0, <2>4, <2>6, <3>1 DEF OrderInv, ReceiverNumbered, InOrder, txVars
    <3> QED
      BY <2>2, <3>2 DEF OrderInv
  <2> QED
    BY <2>5, <2>6
<1>21. ASSUME NEW t1 \in Timers, Shutdown(t1) PROVE OrderInv'
  <2>1. UNCHANGED <<rxVars, txVars>> /\ txRing' \subseteq txRing
    BY <1>21 DEF Shutdown
  <2>2. wire' \subseteq wire \cup txRing \cup UNION {timer[t].env : t \in Timers}
    BY <1>21 DEF Shutdown
  <2>3. \A t \in Timers : timer'[t].env \subseteq timer[t].env \cup txRing
    BY <1>21 DEF Shutdown, TypeOK, TimerState
  <2> QED
    BY <1>k, <2>1, <2>2, <2>3
<1>22. ASSUME UNCHANGED vars PROVE OrderInv'
  <2>1. UNCHANGED <<rxVars, txVars, txRing, wire, timer>>
    BY <1>22 DEF vars, ringVars
  <2> QED
    BY <1>k, <2>1
<1> QED
  BY <1>1, <1>2, <1>3, <1>4, <1>5, <1>6, <1>7, <1>8, <1>9, <1>10, <1>11, <1>12, <1>13, <1>14,
     <1>15, <1>16, <1>17, <1>18, <1>19, <1>20, <1>21, <1>22
     DEF Next, Send, TimerStep, Expire, Drainer

\* Typing and order together are inductive.
LEMMA ChannelInductive == Spec => [](TypeOK /\ OrderInv)
<1>1. Init => TypeOK /\ OrderInv
  BY InitTyped, OrderInit
<1>2. TypeOK /\ OrderInv /\ [Next]_vars => (TypeOK /\ OrderInv)'
  BY TypeStep, OrderStep
<1> QED
  BY <1>1, <1>2, PTL DEF Spec

\* The two channel ends, the receipts and the network keep their types.
THEOREM ChannelTypeCorrect == Spec => []TypeOK
BY ChannelInductive, PTL

\* However packets and proofs are lost, repeated and reordered, whenever retries and
\* closes come, Channel.Receive and handleMessage hand over the messages in the order
\* Channel.Send numbered them, none skipped and none twice.
THEOREM DeliveryInOrder == Spec => []InOrder
<1>1. TypeOK /\ OrderInv => InOrder
  BY DEF OrderInv
<1> QED
  BY <1>1, ChannelInductive, PTL

\* Channel implements the message stream: a step of the two ends submits a message,
\* hands over the next one, closes the receiving end, or is not seen.
THEOREM ChannelImplementsStream == Spec => ImplementsStream
<1>1. Init => Stream!Init
  BY DEF Init, Stream!Init
<1>2. ASSUME TypeOK, OrderInv, [Next]_vars
      PROVE  [Stream!Next]_<<sent, delivered, rxOpen>>
  <2>1. ASSUME NEW w \in BOOLEAN, SendOutbound(w) PROVE Stream!Submit
    BY <2>1 DEF SendOutbound, Stream!Submit, rxVars
  <2>2. ASSUME HandleMessage
        PROVE  Stream!Deliver \/ UNCHANGED <<sent, delivered, rxOpen>>
    <3>1. handoff # <<>> /\ UNCHANGED <<sent, rxOpen>> /\ delivered' = HandOver(Head(handoff))
      BY <2>2 DEF HandleMessage, txVars
    <3>2. CASE rxOpen
      <4>1. handoff \in Seq(Messages) /\ Len(delivered) \in Nat /\ sent \in Nat
        BY <1>2, MessagesAssumption DEF TypeOK
      <4>2. Len(handoff) \in Nat /\ Len(handoff) > 0 /\ 1 \in DOMAIN handoff
            /\ Head(handoff) = handoff[1]
        BY <3>1, <4>1
      <4>3. handoff[1] = Len(delivered) + 1 /\ Len(delivered) + Len(handoff) <= sent
        BY <1>2, <3>2, <4>2 DEF OrderInv, ReceiverNumbered
      <4>4. Len(delivered) < sent
        BY <4>1, <4>2, <4>3
      <4> QED
        BY <3>1, <3>2, <4>2, <4>3, <4>4 DEF HandOver, Stream!Deliver
    <3>3. CASE ~rxOpen
      BY <3>1, <3>3 DEF HandOver
    <3> QED
      BY <3>2, <3>3
  <2>3. ASSUME RxClose PROVE Stream!Close
    BY <2>3 DEF RxClose, Stream!Close, txVars
  <2>4. ASSUME NEW env \in Envelopes, LinkReceive(env) \/ Receive(env)
        PROVE  UNCHANGED <<sent, delivered, rxOpen>>
    BY <2>4 DEF LinkReceive, Receive, txVars
  <2>5. ASSUME SendReserve \/ SendRollback \/ SendRegister \/ SendCommit
        PROVE  UNCHANGED <<sent, delivered, rxOpen>>
    BY <2>5 DEF SendReserve, SendRollback, SendRegister, SendCommit, rxVars
  <2>6. ASSUME NEW t \in Timers, TimerStep(t)
        PROVE  UNCHANGED <<sent, delivered, rxOpen>>
    BY <2>6 DEF TimerStep, Expire, ExpireIdle, ExpireLast, ExpireRetry, Resend, ResendRegister,
                ResendCommit, Shutdown, TimedOut, LinkCloses, txVars, rxVars
  <2>7. ASSUME SweepEnd \/ PacketDelivered \/ TxClose \/ \E m \in Messages : ProofArrives(m)
        PROVE  UNCHANGED <<sent, delivered, rxOpen>>
    BY <2>7, Zenon DEF SweepEnd, PacketDelivered, TxClose, LinkCloses, ProofArrives, txVars, rxVars
  <2>8. ASSUME UNCHANGED vars PROVE UNCHANGED <<sent, delivered, rxOpen>>
    BY <2>8 DEF vars, txVars, rxVars
  <2> QED
    BY <1>2, <2>1, <2>2, <2>3, <2>4, <2>5, <2>6, <2>7, <2>8
       DEF Next, Send, Drainer, Stream!Next
<1> QED
  BY <1>1, <1>2, ChannelInductive, PTL DEF Spec, ImplementsStream, Stream!Spec
-----------------------------------------------------------------------------
\* The limits of the window stay at most WindowMaxFast.
LEMMA WindowLimits ==
  ASSUME NEW w \in Windows, w.window <= WindowMaxFast, w.max <= WindowMaxFast, NEW r
  PROVE  /\ Grow(w, r).window <= WindowMaxFast /\ Grow(w, r).max <= WindowMaxFast
         /\ Shrink(w).window <= WindowMaxFast /\ Shrink(w).max <= WindowMaxFast
<1>0. WindowMaxFast \in Nat /\ WindowMaxMedium \in Nat /\ WindowMaxMedium <= WindowMaxFast
  BY WindowAssumption
<1>1. w.window \in Nat /\ w.max \in Nat
  BY DEF Windows
<1>2. /\ GrowByOne(w) \in Windows /\ GrowByOne(w).window <= WindowMaxFast
      /\ GrowByOne(w).max <= WindowMaxFast
  BY <1>0, <1>1 DEF GrowByOne, Windows
<1>3. ASSUME NEW v \in Windows, v.window <= WindowMaxFast, v.max <= WindowMaxFast
      PROVE  /\ RateFast(v).window <= WindowMaxFast /\ RateFast(v).max <= WindowMaxFast
             /\ RateMedium(v).window <= WindowMaxFast /\ RateMedium(v).max <= WindowMaxFast
  BY <1>0, <1>3 DEF RateFast, RateMedium, Windows
<1>4. Grow(w, r).window <= WindowMaxFast /\ Grow(w, r).max <= WindowMaxFast
  BY <1>2, <1>3 DEF Grow, Windows
<1>5. Shrink(w).window <= WindowMaxFast /\ Shrink(w).max <= WindowMaxFast
  BY <1>0, <1>1 DEF Shrink, Windows
<1> QED
  BY <1>4, <1>5

\* A step that only takes envelopes out of the ring, or leaves it, keeps the bound.
LEMMA WindowKept ==
  ASSUME TypeOK, WindowInv, txRing' \subseteq txRing, sender' \in {"idle", sender} \/ sender # "idle",
         win' = win \/ win' = Grow(win, rtt) \/ win' = Shrink(win)
  PROVE  WindowInv'
<1>1. win \in Windows /\ win.window <= WindowMaxFast /\ win.max <= WindowMaxFast
  BY DEF TypeOK, WindowInv
<1>2. win'.window <= WindowMaxFast /\ win'.max <= WindowMaxFast
  BY <1>1, WindowLimits
<1>3. /\ IsFiniteSet(txRing') /\ Cardinality(txRing') \in Nat /\ Cardinality(txRing) \in Nat
      /\ Cardinality(txRing') <= Cardinality(txRing)
  BY FS_Subset, FS_CardinalityType DEF WindowInv, TrackedFitsWindow
<1>4. WindowMaxFast \in Nat
  BY WindowAssumption
<1> QED
  BY <1>2, <1>3, <1>4 DEF WindowInv, TrackedFitsWindow

\* The window bound is kept by every step: Send enters only below the window, and
\* while it runs nothing else adds to the ring.
LEMMA WindowStep == TypeOK /\ WindowInv /\ [Next]_vars => WindowInv'
<1> SUFFICES ASSUME TypeOK, WindowInv, [Next]_vars PROVE WindowInv'
  OBVIOUS
<1>n. /\ WindowMaxFast \in Nat /\ IsFiniteSet(txRing) /\ Cardinality(txRing) \in Nat
      /\ win.window \in Nat
  BY WindowAssumption, FS_CardinalityType DEF WindowInv, TypeOK, Windows
<1>1. ASSUME SendReserve PROVE WindowInv'
  <2>1. Cardinality(txRing) < win.window /\ UNCHANGED <<txRing, win>>
    BY <1>1 DEF SendReserve, IsReadyToSend, ringVars
  <2> QED
    BY <1>n, <2>1 DEF WindowInv, TrackedFitsWindow
<1>2. ASSUME SendCommit PROVE WindowInv'
  <2>1. sender = "done" /\ sender' = "idle" /\ win' = win
    BY <1>2 DEF SendCommit
  <2>2. PICK env : txRing' = txRing \/ txRing' = txRing \cup {env}
    BY <1>2, Zenon DEF SendCommit
  <2>3. IsFiniteSet(txRing') /\ Cardinality(txRing') <= Cardinality(txRing) + 1
    BY <1>n, <2>2, FS_AddElement
  <2>4. Cardinality(txRing') \in Nat
    BY <2>3, FS_CardinalityType
  <2>5. Cardinality(txRing) < WindowMaxFast
    BY <2>1 DEF WindowInv, TrackedFitsWindow
  <2> QED
    BY <1>n, <2>1, <2>3, <2>4, <2>5 DEF WindowInv, TrackedFitsWindow
<1>3. ASSUME SendRollback \/ SendRegister \/ \E w \in BOOLEAN : SendOutbound(w) PROVE WindowInv'
  BY <1>3, WindowKept DEF SendRollback, SendRegister, SendOutbound, ringVars
<1>4. ASSUME NEW m \in Messages, Concluded(m), sender' = sender PROVE WindowInv'
  BY <1>4, WindowKept DEF Concluded, RingWithout
<1>5. ASSUME PacketDelivered PROVE WindowInv'
  BY <1>4, <1>5 DEF PacketDelivered, TypeOK, txVars
<1>6. ASSUME NEW t \in Timers, ResendCommit(t) PROVE WindowInv'
  <2>1. PICK e \in timer[t].env : LateProof(e.msg)
    BY <1>6 DEF ResendCommit
  <2>2. e.msg \in Messages /\ sender' = sender
    BY <1>6, <2>1 DEF ResendCommit, TypeOK, TimerState, Envelopes, txVars
  <2>3. CASE Concluded(e.msg)
    BY <1>4, <2>2, <2>3, Zenon
  <2>4. CASE UNCHANGED <<txRing, win>>
    BY <2>2, <2>4, WindowKept
  <2> QED
    BY <2>1, <2>3, <2>4 DEF LateProof
<1>7. ASSUME NEW t \in Timers, NEW m \in Messages, Expire(t, m) PROVE WindowInv'
  BY <1>7, WindowKept DEF Expire, ExpireIdle, ExpireLast, ExpireRetry, ringVars, txVars
<1>8. ASSUME NEW t \in Timers,
             (\E w \in BOOLEAN : Resend(t, w)) \/ ResendRegister(t) \/ Shutdown(t) \/ TimedOut(t)
      PROVE  WindowInv'
  BY <1>8, WindowKept DEF Resend, ResendRegister, Shutdown, TimedOut, LinkCloses, ringVars, txVars
<1>9. ASSUME TxClose \/ RxClose \/ SweepEnd \/ HandleMessage PROVE WindowInv'
  BY <1>9, WindowKept, Zenon DEF TxClose, LinkCloses, RxClose, SweepEnd, HandleMessage, ringVars, txVars
<1>10. ASSUME NEW env \in Envelopes, LinkReceive(env) \/ Receive(env) PROVE WindowInv'
  BY <1>10, WindowKept DEF LinkReceive, Receive, ringVars, txVars
<1>11. ASSUME NEW m \in Messages, ProofArrives(m) PROVE WindowInv'
  BY <1>11, WindowKept DEF ProofArrives, ringVars, txVars
<1>12. ASSUME UNCHANGED vars PROVE WindowInv'
  BY <1>12, WindowKept DEF vars, ringVars, txVars
<1> QED
  BY <1>1, <1>2, <1>3, <1>5, <1>6, <1>7, <1>8, <1>9, <1>10, <1>11, <1>12
     DEF Next, Send, TimerStep, Drainer

\* Send, delivery, back-off and the change of rate class together never let the sending
\* channel track more envelopes than ChannelWindowMaxFast, the span of numbers
\* Channel.Receive takes across the wrap.
THEOREM RingFitsWindow == Spec => []TrackedFitsWindow
<1>1. Init => WindowInv
  <2> SUFFICES ASSUME Init PROVE WindowInv
    OBVIOUS
  <2>1. IsFiniteSet(txRing) /\ Cardinality(txRing) = 0 /\ sender = "idle"
    BY FS_EmptySet, Zenon DEF Init
  <2>2. win.window <= WindowMaxFast /\ win.max <= WindowMaxFast
    BY WindowAssumption, SMTT(60) DEF Init, NewWindow
  <2> QED
    BY <2>1, <2>2, WindowAssumption DEF WindowInv, TrackedFitsWindow
<1>2. WindowInv => TrackedFitsWindow
  BY Zenon DEF WindowInv, TrackedFitsWindow
<1> QED
  BY <1>1, <1>2, WindowStep, ChannelTypeCorrect, PTL DEF Spec
-----------------------------------------------------------------------------
(***************************************************************************)
(* What the link proves is not lost.                                       *)
(***************************************************************************)
\* Emplace keeps every entry of the ring, and the envelope is one of the new ring.
LEMMA InsertAtKeeps ==
    ASSUME NEW ring \in Seq(Envelopes), NEW env \in Envelopes, NEW i \in 1..Len(ring)
    PROVE  /\ \E k \in DOMAIN InsertAt(ring, i, env) : InsertAt(ring, i, env)[k] = env
           /\ \A j \in DOMAIN ring :
                 \E k \in DOMAIN InsertAt(ring, i, env) : InsertAt(ring, i, env)[k] = ring[j]
<1>n. i \in Nat /\ Len(ring) \in Nat /\ 1 <= i /\ i <= Len(ring) /\ DOMAIN ring = 1..Len(ring)
  OBVIOUS
<1> DEFINE ins == InsertAt(ring, i, env)
<1>1. /\ DOMAIN ins = 1..(Len(ring) + 1) /\ ins[i] = env
      /\ \A k \in 1..(i - 1) : ins[k] = ring[k]
      /\ \A k \in (i + 1)..(Len(ring) + 1) : ins[k] = ring[k - 1]
  BY InsertAtValues
<1> HIDE DEF ins
<1>2. i \in DOMAIN ins
  BY <1>n, <1>1
<1>3. ASSUME NEW j \in DOMAIN ring PROVE \E k \in DOMAIN ins : ins[k] = ring[j]
  <2>0. j \in Nat /\ 1 <= j /\ j <= Len(ring)
    BY <1>n
  <2>1. CASE j < i
    <3>1. j \in 1..(i - 1) /\ j \in DOMAIN ins
      BY <1>n, <1>1, <2>0, <2>1
    <3> QED
      BY <1>1, <3>1
  <2>2. CASE j >= i
    <3>1. j + 1 \in (i + 1)..(Len(ring) + 1) /\ j + 1 \in DOMAIN ins /\ (j + 1) - 1 = j
      BY <1>n, <1>1, <2>0, <2>2
    <3> QED
      BY <1>1, <3>1
  <2> QED
    BY <1>n, <2>0, <2>1, <2>2
<1> QED
  BY <1>1, <1>2, <1>3, Zenon DEF ins

\* emplaceEnvelope drops nothing from the ring and adds the new envelope.
LEMMA EmplaceKeeps ==
    ASSUME NEW ring \in Seq(Envelopes), NEW env \in Envelopes, NEW r \in SeqNumbers,
           NEW new, new = Emplace(ring, env, r)
    PROVE  /\ \E k \in DOMAIN new : new[k] = env
           /\ \A j \in DOMAIN ring : \E k \in DOMAIN new : new[k] = ring[j]
<1> DEFINE stops == StopsAt(ring, env.seq, r)
<1>1. CASE stops = {}
  <2>1. new = Append(ring, env)
    BY <1>1 DEF Emplace
  <2>2. /\ Len(ring) \in Nat /\ DOMAIN ring = 1..Len(ring) /\ DOMAIN new = 1..(Len(ring) + 1)
        /\ new[Len(ring) + 1] = env /\ \A k \in 1..Len(ring) : new[k] = ring[k]
    BY <2>1
  <2>3. Len(ring) + 1 \in DOMAIN new /\ DOMAIN ring \subseteq DOMAIN new
    BY <2>2
  <2> QED
    BY <2>2, <2>3
<1>2. CASE stops # {}
  <2>1. stops \in SUBSET Nat /\ stops \subseteq 1..Len(ring)
    BY DEF StopsAt
  <2>2. Min(stops) \in 1..Len(ring)
    BY <1>2, <2>1, MinIsLeast
  <2>3. new = InsertAt(ring, Min(stops), env)
    BY <1>2 DEF Emplace
  <2> HIDE DEF stops
  <2> QED
    BY <2>2, <2>3, InsertAtKeeps
<1> QED
  BY <1>1, <1>2, Zenon

\* A message whose number comes before the wrap and before the one Receive waits for
\* has been handed over.
LEMMA BelowNextIsDelivered ==
    ASSUME TypeOK, OrderInv, rxOpen, handoff = <<>>, NEW m \in Messages, m <= sent,
           NumberOf(m) >= StartSeq, NumberOf(m) < nextRXSequence
    PROVE  \E i \in DOMAIN delivered : delivered[i] = m
<1> DEFINE d == Len(delivered)
<1>1. /\ d \in Nat /\ sent \in 0..MaxMessages /\ DOMAIN delivered = 1..d
      /\ MaxMessages \in Nat /\ SeqModulus \in Nat /\ MaxMessages < SeqModulus
      /\ StartSeq \in 0..(SeqModulus - 1)
  BY MessagesAssumption, ModulusAssumption, StartAssumption DEF TypeOK, SeqNumbers
<1>2. Len(handoff) = 0 /\ d <= sent /\ nextRXSequence = NumberOf(d + Len(handoff) + 1)
  BY DEF OrderInv, ReceiverNumbered
<1>3. \A i \in DOMAIN delivered : delivered[i] = i
  BY DEF OrderInv, InOrder
<1> HIDE DEF d
<1>4. m \in Nat /\ 1 <= m /\ m < SeqModulus /\ nextRXSequence = NumberOf(d + 1)
  BY <1>1, <1>2 DEF Messages
<1>5. m <= d
  BY <1>1, <1>2, <1>4 DEF NumberOf, SeqAdd
<1>6. m \in DOMAIN delivered
  BY <1>1, <1>4, <1>5
<1> QED
  BY <1>3, <1>6, Zenon

\* A receipt is marked proved only by ProofArrives, and no proof is taken back.
LEMMA ProvedStep ==
    ASSUME TypeOK, OrderInv, [Next]_vars
    PROVE  /\ proofs \subseteq proofs'
           /\ \A m \in Messages : receipt'[m].proved => receipt[m].proved \/ m \in proofs
<1> DEFINE Good == /\ proofs \subseteq proofs'
                   /\ \A m \in Messages : receipt'[m].proved => receipt[m].proved \/ m \in proofs
<1>t. receipt \in [Messages -> Receipt]
  BY DEF TypeOK
<1>r. ASSUME NEW m \in Messages, NEW r \in Receipt, r.proved = receipt[m].proved,
             receipt' = [receipt EXCEPT ![m] = r], proofs' = proofs
      PROVE  Good
  BY <1>t, <1>r
<1>k. ASSUME receipt' = receipt, proofs \subseteq proofs' PROVE Good
  BY <1>k
<1>s. ASSUME NEW m \in Messages
      PROVE  /\ receipt[m] \in Receipt
             /\ \A x \in {"none", "sent", "failed", "delivered"} :
                   /\ [receipt[m] EXCEPT !.status = x] \in Receipt
                   /\ [receipt[m] EXCEPT !.status = x].proved = receipt[m].proved
             /\ [receipt[m] EXCEPT !.armed = TRUE] \in Receipt
             /\ [receipt[m] EXCEPT !.armed = TRUE].proved = receipt[m].proved
             /\ [receipt[m] EXCEPT !.status = "sent", !.armed = TRUE] \in Receipt
             /\ [receipt[m] EXCEPT !.status = "sent", !.armed = TRUE].proved = receipt[m].proved
             /\ [receipt[m] EXCEPT !.status = "sent", !.listed = TRUE] \in Receipt
             /\ [receipt[m] EXCEPT !.status = "sent", !.listed = TRUE].proved = receipt[m].proved
  BY <1>t, Zenon DEF Receipt
<1> HIDE DEF Good
<1>1. ASSUME NEW w \in BOOLEAN, SendOutbound(w) PROVE Good
  <2>1. sent + 1 \in Messages /\ proofs' = proofs
    BY <1>1, MessagesAssumption DEF TypeOK, OrderInv, SenderNumbered, SendOutbound, Messages
  <2>2. receipt' = receipt \/ receipt' = [receipt EXCEPT ![sent + 1] = [receipt[sent + 1] EXCEPT !.status = "sent"]]
    BY <1>1, SMTT(60) DEF SendOutbound
  <2> QED
    BY <1>r, <1>k, <1>s, <2>1, <2>2, Zenon
<1>m. ASSUME NEW m \in Messages, receipt' = MarkListed(m), proofs' = proofs PROVE Good
  <2>1. receipt' = [receipt EXCEPT ![m] = [receipt[m] EXCEPT !.status = "sent", !.listed = TRUE]]
    BY <1>m, <1>t, Zenon DEF MarkListed
  <2> QED
    BY <1>m, <1>r, <1>s, <2>1, Zenon
<1>2. ASSUME SendRegister PROVE Good
  <2>1. sent \in Messages /\ proofs' = proofs /\ receipt' = MarkListed(sent)
    BY <1>2, MessagesAssumption DEF TypeOK, OrderInv, SenderNumbered, SendRegister, Messages
  <2> QED
    BY <1>m, <2>1
<1>3. ASSUME SendCommit PROVE Good
  <2>1. sent \in Messages /\ proofs' = proofs
    BY <1>3, MessagesAssumption DEF TypeOK, OrderInv, SenderNumbered, SendCommit, Messages
  <2>2. \/ receipt' = receipt
        \/ receipt' = [receipt EXCEPT ![sent] = [receipt[sent] EXCEPT !.status = "sent", !.armed = TRUE]]
    BY <1>3, <1>t, <2>1, Zenon DEF SendCommit
  <2> QED
    BY <1>r, <1>k, <1>s, <2>1, <2>2, Zenon
<1>4. ASSUME NEW m \in Messages, ProofArrives(m) PROVE Good
  <2>1. m \in proofs /\ proofs' = proofs /\ \A k \in Messages \ {m} : receipt'[k] = receipt[k]
    BY <1>4, <1>t DEF ProofArrives
  <2> QED
    BY <2>1 DEF Good
<1>5. ASSUME NEW t \in Timers, NEW m \in Messages, Expire(t, m) PROVE Good
  <2>1. proofs' = proofs /\ receipt' = [receipt EXCEPT ![m] = [receipt[m] EXCEPT !.status = "failed"]]
    BY <1>5, SMTT(60) DEF Expire, ExpireIdle, ExpireLast, ExpireRetry
  <2> QED
    BY <1>r, <1>s, <2>1, Zenon
<1>6. ASSUME NEW t \in Timers, ResendRegister(t) PROVE Good
  <2>1. PICK e \in timer[t].env : receipt' = MarkListed(e.msg) /\ proofs' = proofs
    BY <1>6 DEF ResendRegister
  <2>2. e.msg \in Messages
    BY DEF TypeOK, TimerState, Envelopes
  <2> QED
    BY <1>m, <2>1, <2>2
<1>7. ASSUME NEW t \in Timers, ResendCommit(t) PROVE Good
  <2>1. PICK e \in timer[t].env : /\ receipt' = [receipt EXCEPT ![e.msg] = [receipt[e.msg] EXCEPT !.armed = TRUE]]
                                  /\ proofs' = proofs
    BY <1>7, Zenon DEF ResendCommit
  <2>2. e.msg \in Messages
    BY DEF TypeOK, TimerState, Envelopes
  <2> QED
    BY <1>r, <1>s, <2>1, <2>2, Zenon
<1>d. ASSUME receipt' = receipt \/ receipt' = Disarm, proofs' = proofs PROVE Good
  <2>1. \A m \in Messages : Disarm[m].proved = receipt[m].proved
    BY <1>t DEF Disarm, Receipt
  <2> QED
    BY <1>d, <2>1 DEF Good
<1>8. ASSUME NEW t \in Timers, Shutdown(t) \/ TimedOut(t) PROVE Good
  BY <1>8, <1>d DEF Shutdown, TimedOut, LinkCloses
<1>9. ASSUME TxClose PROVE Good
  BY <1>9, <1>d DEF TxClose, LinkCloses
<1>10. ASSUME SweepEnd PROVE Good
  <2>1. \A m \in Messages : receipt'[m].proved = receipt[m].proved
    BY <1>10, <1>t DEF SweepEnd, Receipt
  <2> QED
    BY <1>10, <2>1, Zenon DEF SweepEnd, Good
<1>11. ASSUME SendReserve \/ SendRollback \/ PacketDelivered \/ RxClose \/ HandleMessage PROVE Good
  BY <1>11, <1>k, Zenon DEF SendReserve, SendRollback, PacketDelivered, RxClose, HandleMessage
<1>12. ASSUME NEW env \in Envelopes, LinkReceive(env) \/ Receive(env) PROVE Good
  BY <1>12, <1>k DEF LinkReceive, Receive
<1>13. ASSUME NEW t \in Timers, NEW w \in BOOLEAN, Resend(t, w) PROVE Good
  BY <1>13, <1>k DEF Resend
<1>14. ASSUME UNCHANGED vars PROVE Good
  BY <1>14, <1>k DEF vars
<1>15. Good
  BY <1>1, <1>2, <1>3, <1>4, <1>5, <1>6, <1>7, <1>8, <1>9, <1>10, <1>11, <1>12, <1>13, <1>14, Zenon
     DEF Next, Send, TimerStep, Drainer
<1> QED
  BY <1>15 DEF Good

\* What Channel.Receive puts on its ring is held afterwards: the contiguous run is
\* about to be handed over, the rest stays.
LEMMA RingIsHeld ==
    ASSUME TypeOK, OrderInv, NEW env \in Envelopes, Receive(env), Accepted(env),
           NEW ring, ring = Emplace(rxRing, env, nextRXSequence), NEW k \in DOMAIN ring
    PROVE  Held(ring[k].msg)'
<1>n. PICK n : n = Contiguous(ring, nextRXSequence)
  BY Zenon
<1>1. ring \in Seq(Envelopes) /\ n \in 0..Len(ring)
  BY <1>n, ReceivePops, Zenon
<1>2. /\ rxRing' = SubSeq(ring, n + 1, Len(ring))
      /\ handoff' = [j \in 1..n |-> ring[j].msg]
  BY <1>n DEF Receive
<1>3. Len(ring) \in Nat /\ n \in Nat /\ n <= Len(ring) /\ k \in Nat /\ 1 <= k /\ k <= Len(ring)
  BY <1>1, Positions, Zenon
<1>4. CASE k <= n
  <2>1. k \in DOMAIN handoff' /\ handoff'[k] = ring[k].msg
    BY <1>2, <1>3, <1>4
  <2> QED
    BY <2>1, Zenon DEF Held
<1>5. CASE k > n
  <2>1. k - n \in DOMAIN rxRing' /\ rxRing'[k - n].msg = ring[k].msg
    BY <1>1, <1>2, <1>3, <1>5, Suffix, Zenon
  <2> QED
    BY <2>1, Zenon DEF Held
<1> QED
  BY <1>3, <1>4, <1>5

\* The packet Channel.Receive refuses: a copy is on the ring, or its message has been
\* handed over.
LEMMA RefusedIsHeld ==
    ASSUME TypeOK, OrderInv, rxOpen, NEW env \in Envelopes, rxPacket = {env}, ~Accepted(env),
           NumberOf(env.msg) >= StartSeq
    PROVE  \/ \E i \in DOMAIN delivered : delivered[i] = env.msg
           \/ \E i \in DOMAIN rxRing : rxRing[i].msg = env.msg
<1>1. /\ env.msg \in Messages /\ env.seq = NumberOf(env.msg) /\ env.msg <= sent
      /\ handoff = <<>> /\ env.seq \in SeqNumbers /\ nextRXSequence \in SeqNumbers
      /\ rxRing \in Seq(Envelopes)
  BY Zenon DEF OrderInv, EnvelopesNumbered, Numbered, ReceiverNumbered, Envelopes, TypeOK
<1>2. CASE ~InReceiveWindow(env.seq, nextRXSequence)
  <2>1. NumberOf(env.msg) < nextRXSequence
    BY <1>1, <1>2, ModulusAssumption DEF InReceiveWindow, SeqNumbers
  <2> QED
    BY <1>1, <2>1, BelowNextIsDelivered, Zenon
<1>3. CASE ~IsNew(rxRing, env, nextRXSequence)
  <2> DEFINE stops == StopsAt(rxRing, env.seq, nextRXSequence)
             i == Min(stops)
  <2>1. stops # {} /\ rxRing[i].seq = env.seq
    BY <1>3, Zenon DEF IsNew
  <2>2. stops \in SUBSET Nat /\ stops \subseteq DOMAIN rxRing
    BY <1>1 DEF StopsAt
  <2>3. i \in DOMAIN rxRing
    BY <2>1, <2>2, MinIsLeast, Zenon
  <2> HIDE DEF i, stops
  <2>4. rxRing[i] \in Envelopes /\ Numbered(rxRing[i])
    BY <1>1, <2>3 DEF OrderInv, EnvelopesNumbered
  <2>5. rxRing[i].msg \in Messages /\ NumberOf(rxRing[i].msg) = NumberOf(env.msg)
    BY <1>1, <2>1, <2>4, Zenon DEF Numbered, Envelopes
  <2>6. rxRing[i].msg \in 1..SeqModulus /\ env.msg \in 1..SeqModulus
    BY <1>1, <2>5, MessagesAssumption, ModulusAssumption DEF Messages
  <2>7. rxRing[i].msg = env.msg
    BY <2>5, <2>6, NumberOfInjective, Zenon
  <2> QED
    BY <2>3, <2>7, Zenon
<1> QED
  BY <1>2, <1>3, Zenon DEF Accepted

\* Whatever the link has proved stays held.
LEMMA HeldStep ==
    ASSUME TypeOK, OrderInv, HeldInv, [Next]_vars
    PROVE  HeldInv'
<1>1. \A m \in Messages : receipt'[m].proved => m \in proofs'
  BY ProvedStep, Zenon DEF HeldInv
<1> DEFINE Kept == \A m \in proofs' : rxOpen' /\ NumberOf(m) >= StartSeq => Held(m)'
<1>2. ASSUME UNCHANGED <<rxVars, proofs>> PROVE Kept
  BY <1>2 DEF HeldInv, Held, rxVars
<1>3. ASSUME RxClose PROVE Kept
  BY <1>3, Zenon DEF RxClose
<1>4. ASSUME NEW env \in Envelopes, LinkReceive(env) PROVE Kept
  <2>1. /\ rxPacket = {} /\ rxPacket' = {env} /\ proofs' = proofs \cup {env.msg}
        /\ UNCHANGED <<rxOpen, rxRing, handoff, delivered>>
    BY <1>4, Zenon DEF LinkReceive
  <2>2. Held(env.msg)'
    BY <2>1 DEF Held
  <2>3. ASSUME NEW m, Held(m) PROVE Held(m)'
    BY <2>1, <2>3 DEF Held
  <2> QED
    BY <2>1, <2>2, <2>3 DEF HeldInv
<1>5. ASSUME NEW env \in Envelopes, Receive(env) PROVE Kept
  <2> SUFFICES ASSUME NEW m \in proofs', rxOpen, NumberOf(m) >= StartSeq PROVE Held(m)'
    BY <1>5, Zenon DEF Receive
  <2>1. /\ rxPacket = {env} /\ handoff = <<>> /\ delivered' = delivered
        /\ rxRing \in Seq(Envelopes) /\ nextRXSequence \in SeqNumbers
    BY <1>5, Zenon DEF Receive, OrderInv, ReceiverNumbered, TypeOK
  <2>2. m \in proofs \/ m = env.msg
    BY <1>5 DEF Receive
  <2>3. \/ m = env.msg
        \/ \E i \in DOMAIN delivered : delivered[i] = m
        \/ \E i \in DOMAIN rxRing : rxRing[i].msg = m
    <3>1. m = env.msg \/ Held(m)
      BY <2>2, Zenon DEF HeldInv
    <3>2. DOMAIN handoff = {}
      BY <2>1, EmptyDomain, Zenon
    <3> QED
      BY <2>1, <3>1, <3>2, Zenon DEF Held
  <2>4. CASE Accepted(env)
    <3>1. PICK ring : ring = Emplace(rxRing, env, nextRXSequence)
      OBVIOUS
    <3>2. \A k \in DOMAIN ring : Held(ring[k].msg)'
      BY <1>5, <2>4, <3>1, RingIsHeld, Zenon
    <3>3. /\ \E k \in DOMAIN ring : ring[k] = env
          /\ \A j \in DOMAIN rxRing : \E k \in DOMAIN ring : ring[k] = rxRing[j]
      <4>1. rxRing \in Seq(Envelopes) /\ nextRXSequence \in SeqNumbers
        BY <2>1, Zenon
      <4> QED
        BY <3>1, <4>1, EmplaceKeeps
    <3>4. CASE \E i \in DOMAIN delivered : delivered[i] = m
      BY <2>1, <3>4 DEF Held
    <3>5. CASE m = env.msg \/ \E i \in DOMAIN rxRing : rxRing[i].msg = m
      <4>1. \E k \in DOMAIN ring : ring[k].msg = m
        BY <3>3, <3>5, Zenon
      <4> QED
        BY <3>2, <4>1
    <3> QED
      BY <2>3, <3>4, <3>5, Zenon
  <2>5. CASE ~Accepted(env)
    <3>1. rxRing' = rxRing
      BY <1>5, <2>5, Zenon DEF Receive
    <3>2. \/ \E i \in DOMAIN delivered : delivered[i] = m
          \/ \E i \in DOMAIN rxRing : rxRing[i].msg = m
      BY <2>1, <2>3, <2>5, RefusedIsHeld, Zenon
    <3> QED
      BY <2>1, <3>1, <3>2 DEF Held
  <2> QED
    BY <2>4, <2>5, Zenon
<1>6. ASSUME HandleMessage PROVE Kept
  <2> SUFFICES ASSUME NEW m \in proofs, rxOpen, Held(m) PROVE Held(m)'
    BY <1>6 DEF HandleMessage, HeldInv
  <2>1. /\ handoff # <<>> /\ handoff' = Tail(handoff) /\ delivered' = Append(delivered, Head(handoff))
        /\ UNCHANGED <<rxPacket, rxRing>>
    BY <1>6 DEF HandleMessage, HandOver
  <2>2. handoff \in Seq(Messages) /\ delivered \in Seq(Messages)
    BY Zenon DEF TypeOK
  <2>3. CASE \E i \in DOMAIN delivered : delivered[i] = m
    <3>1. PICK i \in DOMAIN delivered : delivered[i] = m
      BY <2>3
    <3>2. i \in DOMAIN delivered' /\ delivered'[i] = m
      BY <2>1, <2>2, <3>1
    <3> QED
      BY <3>2 DEF Held
  <2>4. CASE \E i \in DOMAIN handoff : handoff[i] = m
    <3>1. PICK i \in DOMAIN handoff : handoff[i] = m
      BY <2>4
    <3>2. CASE i = 1
      <4>1. Len(delivered) + 1 \in DOMAIN delivered' /\ delivered'[Len(delivered) + 1] = m
        BY <2>1, <2>2, <3>1, <3>2
      <4> QED
        BY <4>1 DEF Held
    <3>3. CASE i # 1
      <4>1. i - 1 \in DOMAIN handoff' /\ handoff'[i - 1] = m
        BY <2>1, <2>2, <3>1, <3>3
      <4> QED
        BY <4>1 DEF Held
    <3> QED
      BY <3>2, <3>3, Zenon
  <2> QED
    BY <2>1, <2>3, <2>4, Zenon DEF Held
<1>7. ASSUME Send PROVE UNCHANGED <<rxVars, proofs>>
  BY <1>7, SMTT(60) DEF Send, SendReserve, SendRollback, SendRegister, SendCommit, SendOutbound
<1>8. ASSUME NEW t \in Timers, TimerStep(t) PROVE UNCHANGED <<rxVars, proofs>>
  BY <1>8, SMTT(60) DEF TimerStep, Expire, ExpireIdle, ExpireLast, ExpireRetry, Resend,
              ResendRegister, ResendCommit, Shutdown, TimedOut, LinkCloses
<1>9. ASSUME SweepEnd \/ PacketDelivered \/ TxClose \/ \E m \in Messages : ProofArrives(m)
      PROVE  UNCHANGED <<rxVars, proofs>>
  BY <1>9, Zenon DEF SweepEnd, PacketDelivered, TxClose, LinkCloses, ProofArrives
<1>10. ASSUME UNCHANGED vars PROVE UNCHANGED <<rxVars, proofs>>
  BY <1>10 DEF vars
<1> HIDE DEF Kept
<1>11. Kept
  BY <1>2, <1>3, <1>4, <1>5, <1>6, <1>7, <1>8, <1>9, <1>10, Zenon DEF Next, Drainer
<1> QED
  BY <1>1, <1>11 DEF HeldInv, Kept

\* Link.receive proves a packet before Channel.Receive has looked at it, and the sender
\* never sends a proved message again.  Nothing is lost by that before the numbers
\* wrap: while the receiving channel is open, every message whose proof the sender
\* accepted waits in the drainer, lies on the ring, or is handed over.
THEOREM ProvedBeforeWrapIsHeld == Spec => []HeldBeforeWrap
<1>1. Init => HeldInv
  BY DEF Init, HeldInv, NoReceipt
<1>2. TypeOK /\ HeldInv => HeldBeforeWrap
  BY DEF TypeOK, HeldInv, HeldBeforeWrap
<1> QED
  BY <1>1, <1>2, HeldStep, ChannelInductive, PTL DEF Spec
-----------------------------------------------------------------------------
\* A delivery never lowers the window, a timeout not below its lower limit.
LEMMA WindowOpen ==
  ASSUME NEW w \in Windows, w.window >= 1, w.min >= 1, NEW r
  PROVE  /\ Grow(w, r).window >= 1 /\ Grow(w, r).min >= 1
         /\ Shrink(w).window >= 1 /\ Shrink(w).min >= 1
<1>0. WindowMinMedium \in Nat /\ WindowMinMedium >= 1 /\ WindowMinFast \in Nat /\ WindowMinFast >= 1
  BY WindowAssumption
<1>1. w.window \in Nat /\ w.max \in Nat /\ w.min \in Nat
  BY DEF Windows
<1>2. GrowByOne(w) \in Windows /\ GrowByOne(w).window >= 1 /\ GrowByOne(w).min >= 1
  BY <1>1 DEF GrowByOne, Windows
<1>3. ASSUME NEW v \in Windows, v.window >= 1, v.min >= 1
      PROVE  /\ RateFast(v).window >= 1 /\ RateFast(v).min >= 1
             /\ RateMedium(v).window >= 1 /\ RateMedium(v).min >= 1
  BY <1>0, <1>3 DEF RateFast, RateMedium, Windows
<1>4. Grow(w, r).window >= 1 /\ Grow(w, r).min >= 1
  BY <1>2, <1>3 DEF Grow, Windows
<1>5. Shrink(w).window >= 1 /\ Shrink(w).min >= 1
  BY <1>1 DEF Shrink, Windows
<1> QED
  BY <1>4, <1>5

\* The window is only changed by Grow and Shrink.
LEMMA WindowMoves ==
  ASSUME [Next]_vars
  PROVE  win' = win \/ win' = Grow(win, rtt) \/ win' = Shrink(win)
<1>1. ASSUME Send PROVE win' = win
  BY <1>1, SMTT(60) DEF Send, SendReserve, SendRollback, SendRegister, SendCommit, SendOutbound, ringVars
<1>2. ASSUME NEW t \in Timers, NEW m \in Messages, Expire(t, m) PROVE win' = win \/ win' = Shrink(win)
  BY <1>2 DEF Expire, ExpireIdle, ExpireLast, ExpireRetry, ringVars
<1>3. ASSUME NEW t \in Timers, ResendCommit(t) PROVE win' = win \/ win' = Grow(win, rtt)
  BY <1>3 DEF ResendCommit, LateProof, Concluded
<1>4. ASSUME NEW t \in Timers,
             (\E w \in BOOLEAN : Resend(t, w)) \/ ResendRegister(t) \/ Shutdown(t) \/ TimedOut(t)
      PROVE  win' = win
  BY <1>4 DEF Resend, ResendRegister, Shutdown, TimedOut, LinkCloses, ringVars
<1>5. ASSUME PacketDelivered PROVE win' = win \/ win' = Grow(win, rtt)
  BY <1>5 DEF PacketDelivered, Concluded
<1>6. ASSUME TxClose \/ RxClose \/ SweepEnd \/ HandleMessage \/ UNCHANGED vars PROVE win' = win
  BY <1>6, Zenon DEF TxClose, LinkCloses, RxClose, SweepEnd, HandleMessage, ringVars, vars
<1>7. ASSUME NEW env \in Envelopes, LinkReceive(env) \/ Receive(env) PROVE win' = win
  BY <1>7 DEF LinkReceive, Receive, ringVars
<1>8. ASSUME NEW m \in Messages, ProofArrives(m) PROVE win' = win
  BY <1>8 DEF ProofArrives, ringVars
<1> QED
  BY <1>1, <1>2, <1>3, <1>4, <1>5, <1>6, <1>7, <1>8, Zenon DEF Next, TimerStep, Drainer

\* Channel.Send is never locked out by back-off: with an active link and nothing in
\* flight IsReadyToSend holds, whatever deliveries, timeouts and changes of the rate
\* class came before.
THEOREM NeverLockedOut == Spec => []ReadyWhenEmpty
<1>1. Init => OpenInv
  <2> SUFFICES ASSUME Init PROVE OpenInv
    OBVIOUS
  <2>1. win = NewWindow(rtt)
    BY Zenon DEF Init
  <2> QED
    BY <2>1, WindowAssumption, SMTT(60) DEF NewWindow, OpenInv
<1>2. TypeOK /\ OpenInv /\ [Next]_vars => OpenInv'
  BY WindowMoves, WindowOpen, Zenon DEF OpenInv, TypeOK
<1>3. TypeOK /\ OpenInv => ReadyWhenEmpty
  BY FS_EmptySet DEF OpenInv, ReadyWhenEmpty, IsReadyToSend, TypeOK, Windows
<1> QED
  BY <1>1, <1>2, <1>3, ChannelTypeCorrect, PTL DEF Spec
=============================================================================
