---------------------------- MODULE ChannelRing ----------------------------
(***************************************************************************)
(* The sequence arithmetic of rns/channel.go: the receive window test, the *)
(* insertion of an envelope into a ring and the removal of the contiguous  *)
(* run at its front.  Sequence numbers are the uint16 of the code scaled   *)
(* to SeqModulus (65536 in the code); every sum and difference below wraps *)
(* once at SeqModulus, as the machine arithmetic does.                     *)
(***************************************************************************)
EXTENDS ChannelWindow, Sequences, FiniteSetsExt

CONSTANT SeqModulus       \* ChannelSeqMax + 1

ASSUME ModulusAssumption == SeqModulus \in Nat /\ WindowMaxFast < SeqModulus

SeqNumbers == 0..(SeqModulus - 1)

\* (mutation) the number does not wrap
SeqAddUnwrapped(a, b) == a + b

SeqAdd(a, b) == IF a + b < SeqModulus THEN a + b ELSE a + b - SeqModulus

SeqSub(a, b) == IF a >= b THEN a - b ELSE a - b + SeqModulus

(***************************************************************************)
(* The window check of Receive: a number below nextRX is taken only while  *)
(* the window reaches past the wrap and the number lies inside it.         *)
(***************************************************************************)
\* (mutation) only the next number is taken
OnlyNextAccepted(seq, nextRX) == seq = nextRX

InReceiveWindow(seq, nextRX) ==
    \/ seq >= nextRX
    \/ LET windowOverflow == SeqAdd(nextRX, WindowMaxFast)
       IN  windowOverflow < nextRX /\ seq <= windowOverflow

(***************************************************************************)
(* emplaceEnvelope walks the ring and stops at an equal number (duplicate) *)
(* or at the first larger one, unless the new number counts as wrapped     *)
(* around; if it stops nowhere it appends.                                 *)
(***************************************************************************)
Wrapped(seq, nextRX) == SeqSub(nextRX, seq) > (SeqModulus - 1) \div 2

StopsAt(ring, seq, nextRX) ==
    {i \in DOMAIN ring : \/ seq = ring[i].seq
                         \/ seq < ring[i].seq /\ ~Wrapped(seq, nextRX)}

IsNew(ring, env, nextRX) ==
    LET stops == StopsAt(ring, env.seq, nextRX)
    IN  stops = {} \/ ring[Min(stops)].seq # env.seq

\* The new ring: the prefix copied, the envelope, the rest copied behind it.  (As the
\* operator of SequencesExt, which is not extended here: the many definitions it brings
\* in triple the time of every proof about the channel.)
InsertAt(ring, i, env) ==
    SubSeq(ring, 1, i - 1) \o <<env>> \o SubSeq(ring, i, Len(ring))

Emplace(ring, env, nextRX) ==
    LET stops == StopsAt(ring, env.seq, nextRX)
    IN  IF stops = {} THEN Append(ring, env) ELSE InsertAt(ring, Min(stops), env)

(***************************************************************************)
(* Receive then pops the front of the ring while it carries nextRX.        *)
(***************************************************************************)
Mismatches(ring, nextRX) ==
    {k \in DOMAIN ring : ring[k].seq # SeqAdd(nextRX, k - 1)}

\* (mutation) gaps are not noticed
ContiguousWithGap(ring, nextRX) == Len(ring)

Contiguous(ring, nextRX) ==
    IF Mismatches(ring, nextRX) = {} THEN Len(ring)
    ELSE Min(Mismatches(ring, nextRX)) - 1
=============================================================================
