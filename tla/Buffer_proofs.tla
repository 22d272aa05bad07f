--------------------------- MODULE Buffer_proofs ---------------------------
(***************************************************************************)
(* Proofs about Buffer, for any streams, any sizes of messages and chunks, *)
(* and any number of messages.                                             *)
(***************************************************************************)
EXTENDS Buffer, SequenceTheorems, TLAPS

\* The bytes of a stream that are in messages sent so far.
Sent(s) == pos[s] + writing[s].done

\* The messages the channel has yet to hand over.
Waiting == Len(delivered) + 1 .. Len(log)

\* The writer: the messages that wait carry the bytes from passed to Sent, each
\* once and in order, and the end of the stream comes behind all of them.
WriterInv ==
    /\ \A s \in Streams :
          /\ passed[s] <= Sent(s)
          /\ finished[s] => writing[s].left = 0 /\ writing[s].done = 0
          /\ \A p \in passed[s] + 1 .. Sent(s) : \E k \in Waiting :
                log[k].stream = s /\ log[k].first <= p /\ p < log[k].first + log[k].len
    /\ \A k \in Waiting :
          /\ passed[log[k].stream] < log[k].first
          /\ log[k].first + log[k].len <= Sent(log[k].stream) + 1
          /\ log[k].eof => finished[log[k].stream] /\ log[k].first = Sent(log[k].stream) + 1
    /\ \A j, k \in Waiting :
          j < k /\ log[j].stream = log[k].stream => log[j].first + log[j].len <= log[k].first

\* handleMessage holds a message that the reader of s will get.
Pending(s) == inHand # <<>> /\ inHand[1].msg.stream = s /\ s \in inHand[1].to

\* The bytes of the stream that the reader has got.
Got(s) == start[s] + taken[s] + Len(buffer[s])

ReaderInv ==
    \A s \in Streams :
        /\ reader[s] = "none" =>
              ~Pending(s) /\ Len(buffer[s]) = 0 /\ taken[s] = 0 /\ ~eof[s] /\ ~ended[s]
        /\ reader[s] = "open" /\ ~Pending(s) => Got(s) = passed[s]
        /\ Pending(s) =>
              /\ inHand[1].msg.first = Got(s) + 1
              /\ Got(s) + inHand[1].msg.len = passed[s]
              /\ inHand[1].msg.eof => finished[s] /\ passed[s] = pos[s]
        /\ eof[s] => finished[s] /\ Got(s) = pos[s]
        /\ ended[s] => eof[s] /\ Len(buffer[s]) = 0

IInv == TypeOK /\ WriterInv /\ ReaderInv /\ BytesInOrder /\ SleeperHasNothing
-----------------------------------------------------------------------------
\* A chunk is a part of what is left, and not empty.
LEMMA ChunkFacts ==
    ASSUME NEW left \in Nat, left > 0, NEW chunk \in Chunks(left)
    PROVE  chunk[1] \in 1 .. left /\ chunk[2] \in BOOLEAN
<1> DEFINE c == Candidate(left)
<1>1. c \in 1 .. left
  BY BufferAssumption DEF Candidate, Lesser
<1>2. CASE chunk = <<Lesser(c, MDU), FALSE>>
  BY <1>1, <1>2, BufferAssumption DEF Lesser
<1>3. CASE \E t \in 1 .. 3 : c \div t > 0 /\ chunk = <<c \div t, TRUE>>
  <2>1. PICK t \in 1 .. 3 : c \div t > 0 /\ chunk = <<c \div t, TRUE>>
    BY <1>3
  <2>2. c \div t \in 1 .. c
    <3>1. t = 1 \/ t = 2 \/ t = 3
      OBVIOUS
    <3> QED
      BY <1>1, <2>1, <3>1
  <2> QED
    BY <1>1, <2>1, <2>2
<1> QED
  BY <1>2, <1>3, Zenon DEF Chunks

\* A message that Write or Close sends goes to the end of the log.
LEMMA SendFacts ==
    ASSUME TypeOK, NEW m \in Messages, Send(m)
    PROVE  /\ log' \in Seq(Messages) /\ Len(log') = Len(log) + 1
           /\ \A k \in 1 .. Len(log) : log'[k] = log[k]
           /\ log'[Len(log) + 1] = m
           /\ sent' = Len(log') /\ delivered' = delivered /\ open' = open
  BY DEF TypeOK, Send, Stream!Submit

\* The numbers the invariant speaks of.
LEMMA WaitingFacts ==
    ASSUME TypeOK
    PROVE  /\ Len(log) \in Nat /\ Len(delivered) \in Nat /\ Len(delivered) <= Len(log)
           /\ Waiting \subseteq 1 .. Len(log)
           /\ \A k \in Waiting : log[k] \in Messages
<1>1. log \in Seq(Messages) /\ delivered \in Seq(Nat) /\ Len(delivered) <= Len(log)
  BY DEF TypeOK
<1>2. Len(log) \in Nat /\ Len(delivered) \in Nat
  BY <1>1, LenProperties
<1>3. Waiting \subseteq 1 .. Len(log)
  BY <1>2 DEF Waiting
<1> QED
  BY <1>1, <1>2, <1>3, ElementOfSeq

\* Positions in a stream are numbers.
LEMMA SentIsNat ==
    ASSUME TypeOK, NEW s \in Streams
    PROVE  Sent(s) \in Nat
<1>1. pos \in [Streams -> Nat] /\ writing \in [Streams -> [left : Nat, done : Nat]]
  BY DEF TypeOK
<1> QED
  BY <1>1 DEF Sent

\* The bytes of a chunk.
LEMMA BytesFacts ==
    ASSUME NEW first \in Nat, first > 0, NEW len \in Nat
    PROVE  /\ Bytes(first, len) \in Seq(Nat) /\ Len(Bytes(first, len)) = len
           /\ \A i \in 1 .. len : Bytes(first, len)[i] = first + i - 1
<1>1. Bytes(first, len) \in [1 .. len -> Nat]
  BY DEF Bytes
<1>2. Bytes(first, len) \in Seq(Nat)
  BY <1>1, SeqDef
<1>3. Len(Bytes(first, len)) = len
  <2>1. Len(Bytes(first, len)) \in Nat /\ DOMAIN Bytes(first, len) = 1 .. Len(Bytes(first, len))
    BY <1>2, LenProperties
  <2>2. DOMAIN Bytes(first, len) = 1 .. len
    BY <1>1
  <2> DEFINE L == Len(Bytes(first, len))
  <2>3. L \in Nat /\ 1 .. L = 1 .. len
    BY <2>1, <2>2, Zenon
  <2> HIDE DEF L
  <2>4. ~(L < len)
    <3>1. len > 0 => len \in 1 .. len
      OBVIOUS
    <3> QED
      BY <2>3, <3>1
  <2>5. ~(len < L)
    <3>1. L > 0 => L \in 1 .. L
      BY <2>3
    <3> QED
      BY <2>3, <3>1
  <2> QED
    BY <2>3, <2>4, <2>5 DEF L
<1> QED
  BY <1>2, <1>3 DEF Bytes

\* The initial state.
LEMMA InitIInv == Init => IInv
<1> SUFFICES ASSUME Init PROVE IInv
  OBVIOUS
<1>1. TypeOK
  <2>1. /\ log \in Seq(Messages) /\ sent = Len(log)
        /\ delivered \in Seq(Nat) /\ Len(delivered) <= sent
    BY DEF Init, Stream!Init
  <2>2. /\ pos \in [Streams -> Nat] /\ taken \in [Streams -> Nat] /\ passed \in [Streams -> Nat]
        /\ start \in [Streams -> Nat] /\ writing \in [Streams -> [left : Nat, done : Nat]]
        /\ buffer \in [Streams -> Seq(Nat)]
    BY DEF Init, Idle
  <2>3. /\ finished \in [Streams -> BOOLEAN] /\ eof \in [Streams -> BOOLEAN]
        /\ ended \in [Streams -> BOOLEAN] /\ typeKnown \in BOOLEAN /\ open \in BOOLEAN
    BY Zenon DEF Init, Stream!Init
  <2>4. /\ reader \in [Streams -> {"none", "open", "closed"}]
        /\ reading \in [Streams -> {"idle", "asleep", "awake"}] /\ inHand = <<>>
    BY DEF Init
  <2> QED
    BY <2>1, <2>2, <2>3, <2>4, Zenon DEF TypeOK
<1>2. WriterInv
  BY DEF Init, Stream!Init, WriterInv, Sent, Waiting, Idle
<1>3. ReaderInv
  BY Zenon DEF Init, ReaderInv, Pending, Got
<1>4. BytesInOrder /\ SleeperHasNothing
  BY DEF Init, BytesInOrder, SleeperHasNothing
<1> QED
  BY <1>1, <1>2, <1>3, <1>4 DEF IInv
-----------------------------------------------------------------------------
(* The writer's part of the invariant. *)

\* What it says of one stream and of one waiting message, after a step that sends
\* nothing and hands nothing over.
LEMMA WriterKept ==
    ASSUME TypeOK, WriterInv, UNCHANGED <<log, delivered, passed, finished>>,
           \A s \in Streams :
              /\ pos'[s] + writing'[s].done = Sent(s)
              /\ finished[s] => writing'[s].left = 0 /\ writing'[s].done = 0
    PROVE  WriterInv'
<1>1. Waiting' = Waiting
  BY DEF Waiting
<1>2. \A s \in Streams : Sent(s)' = Sent(s)
  BY DEF Sent
<1>3. \A k \in Waiting : log[k].stream \in Streams
  BY WaitingFacts DEF Messages
<1>4. ASSUME NEW s \in Streams
      PROVE  /\ passed'[s] <= Sent(s)'
             /\ finished'[s] => writing'[s].left = 0 /\ writing'[s].done = 0
             /\ \A p \in passed'[s] + 1 .. Sent(s)' : \E k \in Waiting' :
                   log'[k].stream = s /\ log'[k].first <= p /\ p < log'[k].first + log'[k].len
  BY <1>1, <1>2 DEF WriterInv
<1>5. ASSUME NEW k \in Waiting'
      PROVE  /\ passed'[log'[k].stream] < log'[k].first
             /\ log'[k].first + log'[k].len <= Sent(log[k].stream)' + 1
             /\ log'[k].eof => finished'[log'[k].stream] /\ log'[k].first = Sent(log[k].stream)' + 1
  BY <1>1, <1>2, <1>3 DEF WriterInv
<1>6. ASSUME NEW j \in Waiting', NEW k \in Waiting', j < k, log'[j].stream = log'[k].stream
      PROVE  log'[j].first + log'[j].len <= log'[k].first
  BY <1>1, <1>6 DEF WriterInv
<1> QED
  BY <1>4, <1>5, <1>6 DEF WriterInv

\* A Write begins or ends.
LEMMA WriteSteps ==
    ASSUME IInv, NEW s \in Streams, Write(s) \/ WriteReturns(s)
    PROVE  TypeOK' /\ WriterInv'
<1>1. CASE Write(s)
  <2>1. PICK len \in Sizes : writing' = [writing EXCEPT ![s] = [left |-> len, done |-> 0]]
    BY <1>1, Zenon DEF Write
  <2>2. TypeOK'
    BY <1>1, <2>1, BufferAssumption, Zenon DEF IInv, TypeOK, Write, channel, readerVars
  <2>3. WriterInv'
    <3>1. UNCHANGED <<log, delivered, passed, finished, pos>> /\ ~finished[s] /\ writing[s].done = 0
      BY <1>1 DEF Write, channel, Idle
    <3>2. \A t \in Streams : /\ pos'[t] + writing'[t].done = Sent(t)
                             /\ finished[t] => writing'[t].left = 0 /\ writing'[t].done = 0
      BY <2>1, <3>1 DEF IInv, TypeOK, WriterInv, Sent
    <3> QED
      BY <3>1, <3>2, WriterKept DEF IInv
  <2> QED
    BY <2>2, <2>3
<1>2. CASE WriteReturns(s)
  <2>1. TypeOK'
    BY <1>2, SMTT(60) DEF IInv, TypeOK, WriteReturns, channel, readerVars, Idle
  <2>2. WriterInv'
    <3>1. UNCHANGED <<log, delivered, passed, finished>>
      BY <1>2 DEF WriteReturns, channel
    <3>2. \A t \in Streams : /\ pos'[t] + writing'[t].done = Sent(t)
                             /\ finished[t] => writing'[t].left = 0 /\ writing'[t].done = 0
      BY <1>2, SMTT(60) DEF IInv, TypeOK, WriterInv, Sent, WriteReturns, Idle
    <3> QED
      BY <3>1, <3>2, WriterKept DEF IInv
  <2> QED
    BY <2>1, <2>2
<1> QED
  BY <1>1, <1>2

\* A message is sent: the next bytes of its stream, or its end.
LEMMA WriterSends ==
    ASSUME TypeOK, WriterInv, NEW s \in Streams, NEW len \in Nat, NEW c \in BOOLEAN, NEW e \in BOOLEAN,
           Send(Message(s, Sent(s) + 1, len, c, e)),
           passed' = passed, ~finished[s],
           \A t \in Streams : pos'[t] + writing'[t].done = IF t = s THEN Sent(s) + len ELSE Sent(t),
           finished' = [finished EXCEPT ![s] = e],
           e => len = 0,
           \A t \in Streams : finished'[t] => writing'[t].left = 0 /\ writing'[t].done = 0
    PROVE  WriterInv'
<1> DEFINE m == Message(s, Sent(s) + 1, len, c, e)
           n == Len(log) + 1
<1>1. m \in Messages /\ m.stream = s /\ m.first = Sent(s) + 1 /\ m.len = len /\ m.eof = e
  <2>1. Sent(s) + 1 \in Nat
    BY DEF TypeOK, Sent
  <2> QED
    BY <2>1 DEF Message, Messages
<1> HIDE DEF m
<1>2. /\ log' \in Seq(Messages) /\ Len(log') = n /\ delivered' = delivered
      /\ \A k \in 1 .. Len(log) : log'[k] = log[k]
      /\ log'[n] = m
  BY <1>1, SendFacts DEF m
<1>3. Len(log) \in Nat /\ Len(delivered) \in Nat /\ Len(delivered) <= Len(log)
  BY WaitingFacts
<1>4. Waiting' = Waiting \cup {n} /\ n \notin Waiting /\ Waiting \subseteq 1 .. Len(log)
  BY <1>2, <1>3 DEF Waiting
<1>5. \A k \in Waiting : log[k] \in Messages
  BY WaitingFacts
<1>6. \A t \in Streams : Sent(t) \in Nat /\ Sent(t)' = IF t = s THEN Sent(s) + len ELSE Sent(t)
  <2>1. \A t \in Streams : Sent(t) \in Nat
    BY SentIsNat
  <2>2. ASSUME NEW t \in Streams PROVE Sent(t)' = IF t = s THEN Sent(s) + len ELSE Sent(t)
    <3>1. Sent(t)' = pos'[t] + writing'[t].done
      BY DEF Sent
    <3> QED
      BY <3>1
  <2> QED
    BY <2>1, <2>2
<1>7. passed \in [Streams -> Nat] /\ finished \in [Streams -> BOOLEAN]
  BY DEF TypeOK
<1>8. ASSUME NEW k \in Waiting'
      PROVE  /\ passed'[log'[k].stream] < log'[k].first
             /\ log'[k].first + log'[k].len <= Sent(log[k].stream)' + 1
             /\ log'[k].eof => finished'[log'[k].stream] /\ log'[k].first = Sent(log[k].stream)' + 1
  <2>1. CASE k = n
    BY <1>1, <1>2, <1>6, <1>7, <2>1 DEF WriterInv
  <2>2. CASE k \in Waiting
    <3>1. log'[k] = log[k] /\ log[k].stream \in Streams /\ log[k].first \in Nat /\ log[k].len \in Nat
      BY <1>2, <1>4, <1>5, <2>2 DEF Messages
    <3>2. log[k].eof => log[k].stream # s
      BY <2>2 DEF WriterInv
    <3> QED
      BY <1>6, <1>7, <2>2, <3>1, <3>2 DEF WriterInv
  <2> QED
    BY <1>4, <2>1, <2>2
<1>9. ASSUME NEW j \in Waiting', NEW k \in Waiting', j < k, log'[j].stream = log'[k].stream
      PROVE  log'[j].first + log'[j].len <= log'[k].first
  <2>1. j \in Waiting /\ log'[j] = log[j]
    BY <1>2, <1>3, <1>4, <1>9
  <2>2. CASE k = n
    BY <1>1, <1>2, <1>6, <1>9, <2>1, <2>2 DEF WriterInv
  <2>3. CASE k \in Waiting
    BY <1>2, <1>4, <1>9, <2>1, <2>3 DEF WriterInv
  <2> QED
    BY <1>4, <2>2, <2>3
<1>10. ASSUME NEW t \in Streams, NEW p \in passed'[t] + 1 .. Sent(t)'
       PROVE  \E k \in Waiting' :
                 log'[k].stream = t /\ log'[k].first <= p /\ p < log'[k].first + log'[k].len
  <2>1. CASE p <= Sent(t)
    <3>1. PICK k \in Waiting : log[k].stream = t /\ log[k].first <= p /\ p < log[k].first + log[k].len
      BY <1>6, <1>7, <2>1 DEF WriterInv
    <3> QED
      BY <1>2, <1>4, <3>1
  <2>2. CASE ~(p <= Sent(t))
    <3>1. t = s /\ Sent(s) < p /\ p <= Sent(s) + len
      BY <1>6, <1>7, <2>2
    <3> QED
      BY <1>1, <1>2, <1>4, <1>6, <3>1
  <2> QED
    BY <2>1, <2>2
<1>11. \A t \in Streams : passed'[t] <= Sent(t)'
  BY <1>6, <1>7 DEF WriterInv
<1> QED
  BY <1>8, <1>9, <1>10, <1>11 DEF WriterInv

\* A turn of the loop in Write, and Close.
LEMMA SendSteps ==
    ASSUME IInv, NEW s \in Streams, WriteChunk(s) \/ CloseWriter(s)
    PROVE  TypeOK' /\ WriterInv'
<1> USE DEF IInv
<1>t. /\ pos \in [Streams -> Nat] /\ writing \in [Streams -> [left : Nat, done : Nat]]
      /\ finished \in [Streams -> BOOLEAN]
  BY DEF TypeOK
<1>1. CASE WriteChunk(s)
  <2>1. PICK chunk \in Chunks(writing[s].left) :
           /\ Send(Message(s, pos[s] + writing[s].done + 1, chunk[1], chunk[2], FALSE))
           /\ writing' = [writing EXCEPT ![s] = [left |-> writing[s].left - chunk[1],
                                                 done |-> writing[s].done + chunk[1]]]
    BY <1>1, Zenon DEF WriteChunk
  <2>2. writing[s].left \in Nat /\ writing[s].left > 0
    BY <1>1, <1>t DEF WriteChunk
  <2> DEFINE len == chunk[1]
             c == chunk[2]
  <2>3. len \in 1 .. writing[s].left /\ c \in BOOLEAN
    BY <2>2, ChunkFacts
  <2>4. UNCHANGED <<pos, finished, typeKnown, reader, inHand, passed, start>> /\ UNCHANGED readerVars
    BY <1>1 DEF WriteChunk
  <2>5. Send(Message(s, Sent(s) + 1, len, c, FALSE))
    BY <2>1, Zenon DEF Sent
  <2> HIDE DEF len, c
  <2>6. ~finished[s]
    BY <2>2 DEF WriterInv
  <2>7. writing' \in [Streams -> [left : Nat, done : Nat]]
    BY <1>t, <2>1, <2>2, <2>3 DEF len
  <2>8. \A t \in Streams : pos'[t] + writing'[t].done = IF t = s THEN Sent(s) + len ELSE Sent(t)
    BY <1>t, <2>1, <2>3, <2>4 DEF Sent, len
  <2>9. finished' = [finished EXCEPT ![s] = FALSE]
    BY <1>t, <2>4, <2>6
  <2>10. \A t \in Streams : finished'[t] => writing'[t].left = 0 /\ writing'[t].done = 0
    BY <1>t, <2>1, <2>4, <2>6 DEF WriterInv
  <2>11. WriterInv'
    <3>1. len \in Nat /\ passed' = passed
      BY <2>2, <2>3, <2>4
    <3> QED
      BY <2>3, <2>5, <2>6, <2>8, <2>9, <2>10, <3>1, WriterSends, Zenon
  <2>12. Message(s, Sent(s) + 1, len, c, FALSE) \in Messages
    BY <2>3, SentIsNat DEF Message, Messages
  <2>13. /\ log' \in Seq(Messages) /\ Len(log') = Len(log) + 1
         /\ sent' = Len(log') /\ delivered' = delivered /\ open' = open
    BY <2>5, <2>12, SendFacts, Zenon
  <2>14. delivered' \in Seq(Nat) /\ Len(delivered') <= sent' /\ open' \in BOOLEAN
    BY <2>13, WaitingFacts DEF TypeOK
  <2>15. TypeOK'
    BY <2>4, <2>7, <2>13, <2>14, Zenon DEF TypeOK, readerVars
  <2> QED
    BY <2>11, <2>15
<1>2. CASE CloseWriter(s)
  <2>1. writing[s].left = 0 /\ writing[s].done = 0 /\ ~finished[s] /\ Sent(s) = pos[s]
    BY <1>2, <1>t DEF CloseWriter, Idle, Sent
  <2>2. /\ UNCHANGED <<pos, writing, typeKnown, reader, inHand, passed, start>> /\ UNCHANGED readerVars
        /\ finished' = [finished EXCEPT ![s] = TRUE]
    BY <1>2 DEF CloseWriter
  <2>3. Send(Message(s, Sent(s) + 1, 0, FALSE, TRUE))
    BY <1>2, <2>1, Zenon DEF CloseWriter
  <2>4. \A t \in Streams : pos'[t] + writing'[t].done = IF t = s THEN Sent(s) + 0 ELSE Sent(t)
    BY <2>2, SentIsNat DEF Sent
  <2>5. \A t \in Streams : finished'[t] => writing'[t].left = 0 /\ writing'[t].done = 0
    BY <1>t, <2>1, <2>2 DEF WriterInv
  <2>6. WriterInv'
    BY <2>1, <2>2, <2>3, <2>4, <2>5, WriterSends, Zenon
  <2>7. Message(s, Sent(s) + 1, 0, FALSE, TRUE) \in Messages
    BY SentIsNat DEF Message, Messages
  <2>8. /\ log' \in Seq(Messages) /\ Len(log') = Len(log) + 1
        /\ sent' = Len(log') /\ delivered' = delivered /\ open' = open
    BY <2>3, <2>7, SendFacts, Zenon
  <2>9. delivered' \in Seq(Nat) /\ Len(delivered') <= sent' /\ open' \in BOOLEAN
    BY <2>8, WaitingFacts DEF TypeOK
  <2>10. finished' \in [Streams -> BOOLEAN]
    BY <1>t, <2>2
  <2>11. TypeOK'
    BY <2>2, <2>8, <2>9, <2>10, Zenon DEF TypeOK, readerVars
  <2> QED
    BY <2>6, <2>11
<1> QED
  BY <1>1, <1>2

\* The message the channel hands over continues its stream where it stood.
LEMMA NextInOrder ==
    ASSUME TypeOK, WriterInv, Len(delivered) < Len(log)
    PROVE  LET m == log[Len(delivered) + 1]
           IN  /\ m \in Messages
               /\ m.first = passed[m.stream] + 1
               /\ passed[m.stream] + m.len <= Sent(m.stream)
               /\ m.eof => finished[m.stream] /\ passed[m.stream] + m.len = pos[m.stream]
<1> DEFINE d == Len(delivered) + 1
           m == log[d]
           s == m.stream
<1>1. d \in Waiting /\ m \in Messages /\ \A k \in Waiting : k = d \/ d < k
  BY WaitingFacts DEF Waiting
<1>2. s \in Streams /\ m.first \in Nat /\ m.len \in Nat
  BY <1>1 DEF Messages
<1>3. passed[s] \in Nat /\ Sent(s) \in Nat
  BY <1>2, SentIsNat, Zenon DEF TypeOK
<1>4. /\ passed[s] < m.first /\ m.first + m.len <= Sent(s) + 1
      /\ m.eof => finished[s] /\ m.first = Sent(s) + 1
  BY <1>1 DEF WriterInv
<1>5. \A k \in Waiting : log[k] \in Messages /\ log[k].first \in Nat /\ log[k].len \in Nat
  BY WaitingFacts DEF Messages
<1>6. ~(passed[s] + 1 < m.first)
  <2> SUFFICES ASSUME passed[s] + 1 < m.first PROVE FALSE
    OBVIOUS
  <2>1. passed[s] + 1 \in passed[s] + 1 .. Sent(s)
    BY <1>2, <1>3, <1>4
  <2>2. PICK k \in Waiting : /\ log[k].stream = s /\ log[k].first <= passed[s] + 1
                            /\ passed[s] + 1 < log[k].first + log[k].len
    BY <1>2, <2>1 DEF WriterInv
  <2>3. k # d
    BY <1>2, <1>3, <2>2
  <2>4. m.first + m.len <= log[k].first
    BY <1>1, <2>2, <2>3 DEF WriterInv
  <2>5. log[k].first \in Nat
    BY <1>5
  <2> HIDE DEF m
  <2> QED
    BY <1>2, <1>3, <2>2, <2>4, <2>5
<1>7. m.first = passed[s] + 1
  BY <1>2, <1>3, <1>4, <1>6
<1>8. m.eof => passed[s] + m.len = pos[s]
  <2>1. finished[s] => Sent(s) = pos[s]
    BY <1>2 DEF WriterInv, Sent, TypeOK
  <2> QED
    BY <1>2, <1>3, <1>4, <1>7, <2>1
<1> QED
  BY <1>1, <1>2, <1>3, <1>4, <1>7, <1>8

\* The channel takes the handlers for its next message.
LEMMA TakeWriter ==
    ASSUME IInv, TakeHandlers
    PROVE  TypeOK' /\ WriterInv'
<1> USE DEF IInv
<1> DEFINE d == Len(delivered) + 1
           m == log[d]
<1>1. /\ Len(delivered) < Len(log) /\ delivered' = Append(delivered, d)
      /\ sent' = sent /\ open' = open /\ log' = log
      /\ inHand' = <<[msg |-> m, to |-> {t \in Streams : reader[t] = "open"}]>>
      /\ passed' = [passed EXCEPT ![m.stream] = passed[m.stream] + m.len]
      /\ UNCHANGED <<pos, writing, finished, typeKnown, reader, start>> /\ UNCHANGED readerVars
  BY DEF TakeHandlers, Stream!Deliver, TypeOK, writerVars
<1>2. /\ m \in Messages /\ m.first = passed[m.stream] + 1
      /\ passed[m.stream] + m.len <= Sent(m.stream)
  BY <1>1, NextInOrder
<1>3. m.stream \in Streams /\ m.len \in Nat /\ m.first \in Nat
  BY <1>2 DEF Messages
<1>4. delivered' \in Seq(Nat) /\ Len(delivered') = d /\ d \in Nat /\ d <= Len(log)
  BY <1>1, WaitingFacts DEF TypeOK
<1>5. passed \in [Streams -> Nat] /\ passed' \in [Streams -> Nat]
  <2> HIDE DEF m
  <2>1. passed \in [Streams -> Nat]
    BY DEF TypeOK
  <2> QED
    BY <1>1, <1>3, <2>1
<1>6. TypeOK'
  <2>1. Len(inHand') = 1 /\ inHand'[1].msg \in Messages /\ inHand'[1].to \subseteq Streams
    BY <1>1, <1>2
  <2> HIDE DEF m, d
  <2> QED
    BY <1>1, <1>4, <1>5, <2>1, Zenon DEF TypeOK, readerVars
<1>7. Waiting = Waiting' \cup {d} /\ d \notin Waiting' /\ \A k \in Waiting' : d < k
  BY <1>1, <1>4, WaitingFacts DEF Waiting
<1>8. \A t \in Streams : Sent(t)' = Sent(t) /\ Sent(t) \in Nat
  <2>1. \A t \in Streams : Sent(t)' = Sent(t)
    BY <1>1 DEF Sent
  <2> QED
    BY <2>1, SentIsNat
<1>9. \A k \in Waiting : log[k] \in Messages /\ log[k].first \in Nat /\ log[k].len \in Nat
  BY WaitingFacts DEF Messages
<1> HIDE DEF m
<1>10. ASSUME NEW k \in Waiting'
       PROVE  /\ passed'[log'[k].stream] < log'[k].first
              /\ log'[k].first + log'[k].len <= Sent(log[k].stream)' + 1
              /\ log'[k].eof => finished'[log'[k].stream] /\ log'[k].first = Sent(log[k].stream)' + 1
  <2>1. k \in Waiting /\ d \in Waiting /\ d < k /\ log'[k] = log[k]
    BY <1>1, <1>7
  <2>2. log[k].stream \in Streams
    BY <1>9, <2>1 DEF Messages
  <2>3. log[k].stream = m.stream => m.first + m.len <= log[k].first
    BY <2>1 DEF WriterInv, m
  <2>4. passed'[log[k].stream] < log[k].first
    <3>1. passed[log[k].stream] < log[k].first
      BY <2>1 DEF WriterInv
    <3>2. log[k].first \in Nat /\ passed[log[k].stream] \in Nat
      BY <1>5, <1>9, <2>1, <2>2
    <3>3. CASE log[k].stream = m.stream
      <4>1. passed'[m.stream] = passed[m.stream] + m.len
        BY <1>1, <1>3, <1>5
      <4> QED
        BY <1>2, <1>3, <2>3, <3>2, <3>3, <4>1
    <3>4. CASE log[k].stream # m.stream
      BY <1>1, <1>5, <2>2, <3>1, <3>4
    <3> QED
      BY <3>3, <3>4
  <2> QED
    BY <1>1, <1>8, <2>1, <2>2, <2>4 DEF WriterInv
<1>11. ASSUME NEW j \in Waiting', NEW k \in Waiting', j < k, log'[j].stream = log'[k].stream
       PROVE  log'[j].first + log'[j].len <= log'[k].first
  BY <1>1, <1>7, <1>11 DEF WriterInv
<1>12. ASSUME NEW t \in Streams
       PROVE  /\ passed'[t] <= Sent(t)'
              /\ finished'[t] => writing'[t].left = 0 /\ writing'[t].done = 0
  <2>1. passed'[t] <= Sent(t)
    BY <1>1, <1>2, <1>3, <1>5 DEF WriterInv
  <2> QED
    BY <1>1, <1>8, <2>1 DEF WriterInv
<1>13. ASSUME NEW t \in Streams, NEW p \in passed'[t] + 1 .. Sent(t)'
       PROVE  \E k \in Waiting' :
                 log'[k].stream = t /\ log'[k].first <= p /\ p < log'[k].first + log'[k].len
  <2>1. p \in passed[t] + 1 .. Sent(t) /\ p > passed'[t]
    BY <1>1, <1>3, <1>5, <1>8
  <2>2. PICK k \in Waiting : log[k].stream = t /\ log[k].first <= p /\ p < log[k].first + log[k].len
    BY <2>1 DEF WriterInv
  <2>3. k # d
    <3> SUFFICES ASSUME k = d PROVE FALSE
      OBVIOUS
    <3>1. t = m.stream /\ p < m.first + m.len
      BY <2>2 DEF m
    <3>2. passed'[t] = passed[t] + m.len
      BY <1>1, <1>3, <1>5, <3>1
    <3> QED
      BY <1>2, <1>3, <1>5, <2>1, <3>1, <3>2
  <2> QED
    BY <1>1, <1>7, <2>2, <2>3
<1>14. WriterInv'
  BY <1>10, <1>11, <1>12, <1>13 DEF WriterInv
<1> QED
  BY <1>6, <1>14

\* A step of the reading end that hands nothing over leaves the writer alone.
LEMMA WriterUntouched ==
    ASSUME IInv, UNCHANGED <<log, delivered, passed, pos, writing, finished>>
    PROVE  WriterInv'
<1>1. \A s \in Streams : /\ pos'[s] + writing'[s].done = Sent(s)
                         /\ finished[s] => writing'[s].left = 0 /\ writing'[s].done = 0
  BY DEF IInv, WriterInv, Sent
<1> QED
  BY <1>1, WriterKept DEF IInv
-----------------------------------------------------------------------------
(* The reader's part of the invariant. *)

ReadSide == ReaderInv /\ BytesInOrder /\ SleeperHasNothing

\* The numbers of the reader.
LEMMA ReaderFacts ==
    ASSUME TypeOK, NEW s \in Streams
    PROVE  /\ buffer[s] \in Seq(Nat) /\ Len(buffer[s]) \in Nat /\ DOMAIN buffer[s] = 1 .. Len(buffer[s])
           /\ start[s] \in Nat /\ taken[s] \in Nat /\ passed[s] \in Nat /\ pos[s] \in Nat
           /\ Got(s) \in Nat
           /\ buffer[s] = <<>> <=> Len(buffer[s]) = 0
<1>1. /\ buffer[s] \in Seq(Nat)
      /\ start[s] \in Nat /\ taken[s] \in Nat /\ passed[s] \in Nat /\ pos[s] \in Nat
  BY DEF TypeOK
<1>2. Len(buffer[s]) \in Nat /\ DOMAIN buffer[s] = 1 .. Len(buffer[s])
  BY <1>1, LenProperties
<1>3. buffer[s] = <<>> <=> Len(buffer[s]) = 0
  BY <1>1, EmptySeq
<1> QED
  BY <1>1, <1>2, <1>3 DEF Got

\* A step that leaves the reader and what it is told alone.
LEMMA ReadSideKept ==
    ASSUME TypeOK, ReadSide,
           UNCHANGED <<reader, inHand, passed, start, buffer, eof, reading, taken, ended>>,
           \A s \in Streams : finished[s] => finished'[s] /\ pos'[s] = pos[s]
    PROVE  ReadSide'
<1>1. BytesInOrder' /\ SleeperHasNothing'
  BY DEF ReadSide, BytesInOrder, SleeperHasNothing
<1>2. \A s \in Streams : (Pending(s)' <=> Pending(s)) /\ Got(s)' = Got(s)
  BY DEF Pending, Got
<1>3. ReaderInv'
  BY <1>2 DEF ReadSide, ReaderInv
<1> QED
  BY <1>1, <1>3 DEF ReadSide

\* A step of a writer leaves the side of the readers in the invariant as it was.
LEMMA WriterLeavesReader ==
    ASSUME IInv, NEW s \in Streams, Write(s) \/ WriteChunk(s) \/ WriteReturns(s) \/ CloseWriter(s)
    PROVE  ReadSide'
<1>t. pos \in [Streams -> Nat] /\ writing \in [Streams -> [left : Nat, done : Nat]]
      /\ finished \in [Streams -> BOOLEAN]
  BY DEF IInv, TypeOK
<1>1. UNCHANGED <<reader, inHand, passed, start, buffer, eof, reading, taken, ended>>
  BY Zenon DEF Write, WriteChunk, WriteReturns, CloseWriter, readerVars
<1>2. ASSUME NEW t \in Streams, finished[t] PROVE finished'[t] /\ pos'[t] = pos[t]
  <2>1. CASE Write(s) \/ WriteChunk(s)
    BY <1>2, <2>1, Zenon DEF Write, WriteChunk
  <2>2. CASE WriteReturns(s)
    <3>1. finished' = finished /\ pos' = [pos EXCEPT ![s] = pos[s] + writing[s].done]
      BY <2>2 DEF WriteReturns
    <3>2. t = s => writing[s].done = 0
      BY <1>2 DEF IInv, WriterInv
    <3> QED
      BY <1>2, <1>t, <3>1, <3>2
  <2>3. CASE CloseWriter(s)
    BY <1>2, <1>t, <2>3 DEF CloseWriter
  <2> QED
    BY <2>1, <2>2, <2>3
<1> QED
  BY <1>1, <1>2, ReadSideKept DEF IInv, ReadSide

\* The handlers are taken for a message: the reader of its stream, if it has one,
\* is to get the bytes after those it has.
LEMMA TakeReader ==
    ASSUME IInv, TakeHandlers
    PROVE  ReadSide'
<1> USE DEF IInv
<1> DEFINE m == log[Len(delivered) + 1]
           to == {t \in Streams : reader[t] = "open"}
<1>1. /\ Len(delivered) < Len(log) /\ inHand = <<>>
      /\ inHand' = <<[msg |-> m, to |-> to]>>
      /\ passed' = [passed EXCEPT ![m.stream] = passed[m.stream] + m.len]
      /\ UNCHANGED <<pos, finished, reader, start, buffer, eof, reading, taken, ended>>
  BY DEF TakeHandlers, Stream!Deliver, TypeOK, writerVars, readerVars
<1>2. /\ m \in Messages /\ m.first = passed[m.stream] + 1
      /\ m.eof => finished[m.stream] /\ passed[m.stream] + m.len = pos[m.stream]
  BY <1>1, NextInOrder
<1>3. m.stream \in Streams /\ m.len \in Nat
  BY <1>2 DEF Messages
<1> HIDE DEF m
<1>4. inHand'[1].msg = m /\ inHand'[1].to = to /\ inHand' # <<>>
  BY <1>1
<1>5. passed \in [Streams -> Nat]
  BY DEF TypeOK
<1>6. BytesInOrder' /\ SleeperHasNothing'
  BY <1>1 DEF BytesInOrder, SleeperHasNothing
<1>7. ASSUME NEW t \in Streams
      PROVE  ~Pending(t) /\ Got(t)' = Got(t) /\ (Pending(t)' <=> t = m.stream /\ reader[t] = "open")
  BY <1>1, <1>4 DEF Pending, Got
<1>8. ASSUME NEW t \in Streams
      PROVE  /\ reader'[t] = "none" =>
                   ~Pending(t)' /\ Len(buffer'[t]) = 0 /\ taken'[t] = 0 /\ ~eof'[t] /\ ~ended'[t]
             /\ reader'[t] = "open" /\ ~Pending(t)' => Got(t)' = passed'[t]
             /\ eof'[t] => finished'[t] /\ Got(t)' = pos'[t]
             /\ ended'[t] => eof'[t] /\ Len(buffer'[t]) = 0
  BY <1>1, <1>3, <1>5, <1>7 DEF ReaderInv
<1>9. ASSUME NEW t \in Streams, Pending(t)'
      PROVE  /\ inHand'[1].msg.first = Got(t)' + 1
             /\ Got(t)' + inHand'[1].msg.len = passed'[t]
             /\ inHand'[1].msg.eof => finished'[t] /\ passed'[t] = pos'[t]
  <2>1. t = m.stream /\ Got(t)' = passed[t] /\ passed'[t] = passed[t] + m.len
    BY <1>1, <1>3, <1>5, <1>7, <1>9 DEF ReaderInv
  <2> QED
    BY <1>1, <1>2, <1>4, <2>1
<1>10. ReaderInv'
  BY <1>8, <1>9 DEF ReaderInv
<1> QED
  BY <1>6, <1>10 DEF ReadSide

\* The handlers run: the reader takes the message, or nobody does.
LEMMA RunSteps ==
    ASSUME IInv, RunHandlers
    PROVE  TypeOK' /\ WriterInv' /\ ReadSide'
<1> USE DEF IInv
<1>m. PICK m : m = inHand[1].msg
  OBVIOUS
<1>s. PICK s : s = m.stream
  OBVIOUS
<1>1. /\ inHand # <<>> /\ inHand' = <<>>
      /\ UNCHANGED <<sent, delivered, open, log, pos, writing, finished, typeKnown, reader>>
      /\ UNCHANGED <<taken, ended, passed, start>>
  BY DEF RunHandlers, channel, writerVars
<1>2. WriterInv'
  BY <1>1, WriterUntouched
<1>3. \A t \in Streams : ~Pending(t)'
  BY <1>1 DEF Pending
<1>4. CASE ~(s \in inHand[1].to)
  <2>1. UNCHANGED <<buffer, eof, reading>>
    BY <1>m, <1>s, <1>4 DEF RunHandlers
  <2>2. TypeOK'
    BY <1>1, <2>1, Zenon DEF TypeOK
  <2>3. \A t \in Streams : ~Pending(t) /\ Got(t)' = Got(t)
    BY <1>m, <1>s, <1>1, <1>4, <2>1, Zenon DEF Pending, Got
  <2>4. ReaderInv'
    BY <1>1, <1>3, <2>1, <2>3 DEF ReaderInv
  <2>5. BytesInOrder' /\ SleeperHasNothing'
    BY <1>1, <2>1, Zenon DEF BytesInOrder, SleeperHasNothing
  <2> QED
    BY <1>2, <2>2, <2>4, <2>5 DEF ReadSide
<1>5. CASE s \in inHand[1].to
  <2>1. /\ buffer' = [buffer EXCEPT ![s] = buffer[s] \o Bytes(m.first, m.len)]
        /\ eof' = [eof EXCEPT ![s] = eof[s] \/ m.eof]
        /\ reading' = [reading EXCEPT ![s] = IF reading[s] = "asleep" THEN "awake" ELSE reading[s]]
    BY <1>m, <1>s, <1>5, Zenon DEF RunHandlers, HandleMessage, Broadcast
  <2>2. m \in Messages /\ inHand[1].to \subseteq Streams
    BY <1>m, <1>1 DEF TypeOK
  <2>3. s \in Streams /\ m.len \in Nat /\ m.eof \in BOOLEAN
    BY <1>s, <1>5, <2>2 DEF Messages
  <2>4. \A t \in Streams : Pending(t) <=> t = s
    BY <1>m, <1>s, <1>1, <1>5 DEF Pending
  <2>5. /\ m.first = Got(s) + 1 /\ Got(s) + m.len = passed[s]
        /\ m.eof => finished[s] /\ passed[s] = pos[s]
        /\ reader[s] # "none"
    BY <1>m, <2>3, <2>4 DEF ReaderInv
  <2> DEFINE new == Bytes(m.first, m.len)
             old == buffer[s]
  <2>6. /\ old \in Seq(Nat) /\ Len(old) \in Nat /\ DOMAIN old = 1 .. Len(old)
        /\ start[s] \in Nat /\ taken[s] \in Nat /\ passed[s] \in Nat /\ Got(s) \in Nat /\ pos[s] \in Nat
    BY <2>3, ReaderFacts
  <2>7. /\ new \in Seq(Nat) /\ Len(new) = m.len
        /\ \A i \in 1 .. m.len : new[i] = Got(s) + i
    <3>1. m.first \in Nat /\ m.first > 0
      BY <2>5, <2>6
    <3>2. /\ new \in Seq(Nat) /\ Len(new) = m.len
          /\ \A i \in 1 .. m.len : new[i] = m.first + i - 1
      BY <2>3, <3>1, BytesFacts, Zenon
    <3> HIDE DEF new
    <3>3. ASSUME NEW i \in 1 .. m.len PROVE new[i] = Got(s) + i
      <4>1. new[i] = m.first + i - 1 /\ i \in Int
        BY <3>2
      <4> QED
        BY <2>5, <2>6, <4>1
    <3> QED
      BY <3>2, <3>3
  <2> HIDE DEF new, old
  <2>8. /\ old \o new \in Seq(Nat) /\ Len(old \o new) = Len(old) + m.len
        /\ \A i \in 1 .. Len(old) + m.len :
              (old \o new)[i] = IF i <= Len(old) THEN old[i] ELSE new[i - Len(old)]
    <3>1. /\ old \o new \in Seq(Nat) /\ Len(old \o new) = Len(old) + Len(new)
          /\ \A i \in 1 .. Len(old) + Len(new) :
                (old \o new)[i] = IF i <= Len(old) THEN old[i] ELSE new[i - Len(old)]
      BY <2>6, <2>7, ConcatProperties, Zenon
    <3> QED
      BY <2>7, <3>1
  <2>9. /\ buffer \in [Streams -> Seq(Nat)] /\ eof \in [Streams -> BOOLEAN]
        /\ reading \in [Streams -> {"idle", "asleep", "awake"}]
    BY DEF TypeOK
  <2>10. buffer'[s] = old \o new /\ \A t \in Streams : t # s => buffer'[t] = buffer[t]
    BY <2>1, <2>3, <2>9, Zenon DEF new, old
  <2>11. TypeOK'
    <3>1. buffer' \in [Streams -> Seq(Nat)]
      BY <2>1, <2>3, <2>8, <2>9 DEF new, old
    <3>2. eof' \in [Streams -> BOOLEAN]
      BY <2>1, <2>3, <2>9
    <3>3. reading' \in [Streams -> {"idle", "asleep", "awake"}]
      BY <2>1, <2>3, <2>9
    <3> QED
      BY <1>1, <3>1, <3>2, <3>3 DEF TypeOK
  <2>12. \A t \in Streams : Got(t)' = IF t = s THEN Got(s) + m.len ELSE Got(t)
    <3>1. Got(s)' = start[s] + taken[s] + Len(buffer'[s])
      BY <1>1 DEF Got
    <3>2. Got(s)' = Got(s) + m.len
      BY <2>3, <2>6, <2>8, <2>10, <3>1 DEF Got, old
    <3>3. \A t \in Streams : t # s => Got(t)' = Got(t)
      BY <1>1, <2>10 DEF Got
    <3> QED
      BY <3>2, <3>3
  <2>13. BytesInOrder'
    <3>1. ASSUME NEW t \in Streams, t # s, NEW i \in DOMAIN buffer'[t]
          PROVE  buffer'[t][i] = start'[t] + taken'[t] + i
      BY <1>1, <2>10, <3>1 DEF BytesInOrder
    <3>2. ASSUME NEW i \in DOMAIN buffer'[s]
          PROVE  buffer'[s][i] = start'[s] + taken'[s] + i
      <4>1. i \in 1 .. Len(old) + m.len
        BY <2>8, <2>10, <3>2, LenProperties
      <4>2. CASE i <= Len(old)
        <5>1. i \in DOMAIN old
          BY <2>6, <4>1, <4>2
        <5>2. old[i] = start[s] + taken[s] + i
          BY <2>3, <5>1 DEF BytesInOrder, old
        <5> QED
          BY <1>1, <2>8, <2>10, <4>1, <4>2, <5>2
      <4>3. CASE ~(i <= Len(old))
        <5>1. i - Len(old) \in 1 .. m.len
          BY <2>3, <2>6, <4>1, <4>3
        <5>2. new[i - Len(old)] = start[s] + taken[s] + Len(old) + (i - Len(old))
          BY <2>7, <5>1 DEF Got, old
        <5>3. (old \o new)[i] = new[i - Len(old)]
          BY <2>8, <4>1, <4>3
        <5> QED
          BY <1>1, <2>6, <2>10, <4>1, <5>2, <5>3
      <4> QED
        BY <4>2, <4>3
    <3> QED
      BY <3>1, <3>2 DEF BytesInOrder
  <2>14. SleeperHasNothing'
    <3>1. \A t \in Streams : reading'[t] = "asleep" => t # s /\ reading[t] = "asleep"
      BY <2>1, <2>3, <2>9
    <3>2. \A t \in Streams : t # s => eof'[t] = eof[t]
      BY <2>1, <2>9
    <3> QED
      BY <2>10, <3>1, <3>2 DEF SleeperHasNothing
  <2>15. eof[s] => m.len = 0 /\ passed[s] = pos[s]
    <3>1. eof[s] => finished[s] /\ Got(s) = pos[s]
      BY <2>3 DEF ReaderInv
    <3>2. finished[s] => Sent(s) = pos[s]
      BY <2>3, <2>6, SMTT(60) DEF WriterInv, Sent
    <3>3. passed[s] <= Sent(s)
      BY <2>3 DEF WriterInv
    <3> QED
      BY <2>3, <2>5, <2>6, <3>1, <3>2, <3>3
  <2>16. ASSUME NEW t \in Streams
         PROVE  /\ reader'[t] = "none" =>
                      ~Pending(t)' /\ Len(buffer'[t]) = 0 /\ taken'[t] = 0 /\ ~eof'[t] /\ ~ended'[t]
                /\ reader'[t] = "open" /\ ~Pending(t)' => Got(t)' = passed'[t]
                /\ eof'[t] => finished'[t] /\ Got(t)' = pos'[t]
                /\ ended'[t] => eof'[t] /\ Len(buffer'[t]) = 0
    <3>1. CASE t # s
      <4>1. eof'[t] = eof[t] /\ buffer'[t] = buffer[t] /\ Got(t)' = Got(t) /\ ~Pending(t)
        BY <2>1, <2>4, <2>9, <2>10, <2>12, <3>1, Zenon
      <4> QED
        BY <1>1, <1>3, <4>1 DEF ReaderInv
    <3>2. CASE t = s
      <4>1. eof'[s] <=> eof[s] \/ m.eof
        BY <2>1, <2>3, <2>9
      <4>2. Got(s)' = passed[s]
        BY <2>3, <2>5, <2>12
      <4>3. eof'[s] => finished[s] /\ passed[s] = pos[s]
        BY <2>3, <2>5, <2>15, <4>1 DEF ReaderInv
      <4>4. ended[s] => eof[s] /\ Len(buffer'[s]) = 0
        <5>1. ended[s] => eof[s] /\ Len(old) = 0
          BY <2>3, Zenon DEF ReaderInv, old
        <5>2. ended[s] => Len(old) + m.len = 0
          BY <2>15, <5>1
        <5>3. Len(buffer'[s]) = Len(old) + m.len
          BY <2>8, <2>10
        <5> QED
          BY <5>1, <5>2, <5>3, Zenon
      <4> QED
        BY <1>1, <2>5, <3>2, <4>1, <4>2, <4>3, <4>4
    <3> QED
      BY <3>1, <3>2
  <2>17. ReaderInv'
    BY <1>3, <2>16 DEF ReaderInv
  <2> QED
    BY <1>2, <2>11, <2>13, <2>14, <2>17, Zenon DEF ReadSide
<1> QED
  BY <1>4, <1>5

\* A handler is added or taken off.
LEMMA HandlerSteps ==
    ASSUME IInv, NEW s \in Streams, AddMessageHandler(s) \/ RemoveMessageHandler(s)
    PROVE  TypeOK' /\ WriterInv' /\ ReadSide'
<1> USE DEF IInv
<1>1. /\ UNCHANGED <<sent, delivered, open, log, pos, writing, finished, typeKnown, inHand, passed>>
      /\ UNCHANGED <<buffer, eof, reading, taken, ended>>
  BY DEF AddMessageHandler, RemoveMessageHandler, channel, writerVars, readerVars
<1>2. WriterInv'
  BY <1>1, WriterUntouched
<1>3. /\ reader \in [Streams -> {"none", "open", "closed"}]
      /\ start \in [Streams -> Nat] /\ passed \in [Streams -> Nat]
  BY DEF TypeOK
<1>4. SleeperHasNothing'
  BY <1>1 DEF SleeperHasNothing
<1>5. \A t \in Streams : Pending(t)' <=> Pending(t)
  BY <1>1 DEF Pending
<1>6. CASE AddMessageHandler(s)
  <2>1. /\ reader[s] = "none" /\ reader' = [reader EXCEPT ![s] = "open"]
        /\ start' = [start EXCEPT ![s] = passed[s]]
    BY <1>6, Zenon DEF AddMessageHandler
  <2>2. TypeOK'
    <3>1. reader' \in [Streams -> {"none", "open", "closed"}] /\ start' \in [Streams -> Nat]
      BY <1>3, <2>1
    <3> QED
      BY <1>1, <3>1, Zenon DEF TypeOK
  <2>3. ~Pending(s) /\ Len(buffer[s]) = 0 /\ taken[s] = 0 /\ ~eof[s] /\ ~ended[s]
    BY <2>1 DEF ReaderInv
  <2>4. \A t \in Streams : t # s => Got(t)' = Got(t) /\ reader'[t] = reader[t] /\ start'[t] = start[t]
    BY <1>1, <1>3, <2>1 DEF Got
  <2>5. Got(s)' = passed[s]
    <3>1. Got(s)' = start'[s] + taken[s] + Len(buffer[s]) /\ start'[s] = passed[s] /\ passed[s] \in Nat
      BY <1>1, <1>3, <2>1 DEF Got
    <3> QED
      BY <2>3, <3>1
  <2>6. BytesInOrder'
    <3>1. buffer[s] = <<>>
      BY <2>3, ReaderFacts
    <3> QED
      BY <1>1, <2>4, <3>1 DEF BytesInOrder
  <2>7. ASSUME NEW t \in Streams
        PROVE  /\ reader'[t] = "none" =>
                     ~Pending(t)' /\ Len(buffer'[t]) = 0 /\ taken'[t] = 0 /\ ~eof'[t] /\ ~ended'[t]
               /\ reader'[t] = "open" /\ ~Pending(t)' => Got(t)' = passed'[t]
               /\ Pending(t)' =>
                     /\ inHand'[1].msg.first = Got(t)' + 1
                     /\ Got(t)' + inHand'[1].msg.len = passed'[t]
                     /\ inHand'[1].msg.eof => finished'[t] /\ passed'[t] = pos'[t]
               /\ eof'[t] => finished'[t] /\ Got(t)' = pos'[t]
               /\ ended'[t] => eof'[t] /\ Len(buffer'[t]) = 0
    <3>1. CASE t # s
      BY <1>1, <1>5, <2>4, <3>1, Zenon DEF ReaderInv
    <3>2. CASE t = s
      BY <1>1, <1>3, <1>5, <2>1, <2>3, <2>5, <3>2
    <3> QED
      BY <3>1, <3>2, Zenon
  <2>8. ReaderInv'
    BY <2>7, Zenon DEF ReaderInv
  <2> QED
    BY <1>2, <1>4, <2>2, <2>6, <2>8 DEF ReadSide
<1>7. CASE RemoveMessageHandler(s)
  <2>1. reader[s] = "open" /\ reader' = [reader EXCEPT ![s] = "closed"] /\ start' = start
    BY <1>7 DEF RemoveMessageHandler
  <2>2. TypeOK'
    <3>1. reader' \in [Streams -> {"none", "open", "closed"}]
      BY <1>3, <2>1
    <3> QED
      BY <1>1, <2>1, <3>1, Zenon DEF TypeOK
  <2>3. \A t \in Streams : /\ Got(t)' = Got(t)
                           /\ reader'[t] = "none" => reader[t] = "none"
                           /\ reader'[t] = "open" => reader[t] = "open"
    BY <1>1, <1>3, <2>1 DEF Got
  <2>4. BytesInOrder'
    BY <1>1, <2>1, Zenon DEF BytesInOrder
  <2>5. ReaderInv'
    BY <1>1, <1>5, <2>3 DEF ReaderInv
  <2> QED
    BY <1>2, <1>4, <2>2, <2>4, <2>5 DEF ReadSide
<1> QED
  BY <1>6, <1>7

\* Read goes to sleep, returns io.EOF, or returns bytes.
LEMMA ReadSteps ==
    ASSUME IInv, NEW s \in Streams, Read(s)
    PROVE  TypeOK' /\ WriterInv' /\ ReadSide'
<1> USE DEF IInv
<1>1. /\ UNCHANGED <<sent, delivered, open, log, pos, writing, finished, typeKnown, reader, inHand>>
      /\ UNCHANGED <<eof, passed, start>> /\ reader[s] # "none"
  BY DEF Read, channel, writerVars
<1>2. WriterInv'
  BY <1>1, WriterUntouched
<1>3. /\ buffer \in [Streams -> Seq(Nat)] /\ taken \in [Streams -> Nat] /\ ended \in [Streams -> BOOLEAN]
      /\ reading \in [Streams -> {"idle", "asleep", "awake"}]
  BY DEF TypeOK
<1>4. \A t \in Streams : Pending(t)' <=> Pending(t)
  BY <1>1 DEF Pending
<1>5. CASE UNCHANGED <<buffer, taken>>
  <2>1. \/ /\ buffer[s] = <<>> /\ ~eof[s] /\ UNCHANGED ended
           /\ reading' = [reading EXCEPT ![s] = "asleep"]
        \/ /\ eof[s] /\ buffer[s] = <<>> /\ ended' = [ended EXCEPT ![s] = TRUE]
           /\ reading' = [reading EXCEPT ![s] = "idle"]
        \/ /\ UNCHANGED ended /\ reading' = [reading EXCEPT ![s] = "idle"]
    BY Zenon DEF Read, ReadResult
  <2>2. TypeOK'
    <3>1. reading' \in [Streams -> {"idle", "asleep", "awake"}] /\ ended' \in [Streams -> BOOLEAN]
      BY <1>3, <2>1, Zenon
    <3> QED
      BY <1>1, <1>5, <3>1, Zenon DEF TypeOK
  <2>3. BytesInOrder'
    BY <1>1, <1>5 DEF BytesInOrder
  <2>4. SleeperHasNothing'
    BY <1>1, <1>3, <1>5, <2>1 DEF SleeperHasNothing
  <2>5. \A t \in Streams : Got(t)' = Got(t)
    BY <1>1, <1>5, Zenon DEF Got
  <2>a. \A t \in Streams : ended'[t] => ended[t] \/ (t = s /\ eof[s] /\ buffer[s] = <<>>)
    BY <1>3, <2>1, Zenon
  <2>6. \A t \in Streams : ended'[t] => eof[t] /\ Len(buffer[t]) = 0
    BY <2>a, ReaderFacts, Zenon DEF ReaderInv
  <2>7. \A t \in Streams : reader[t] = "none" => ~ended'[t]
    BY <1>1, <2>a, Zenon DEF ReaderInv
  <2>8. ReaderInv'
    BY <1>1, <1>4, <1>5, <2>5, <2>6, <2>7, Zenon DEF ReaderInv
  <2> QED
    BY <1>2, <2>2, <2>3, <2>4, <2>8 DEF ReadSide
<1>6. CASE ~UNCHANGED <<buffer, taken>>
  <2>1. /\ buffer[s] # <<>> /\ UNCHANGED ended
        /\ reading' = [reading EXCEPT ![s] = "idle"]
        /\ \E len \in Sizes :
              /\ taken' = [taken EXCEPT ![s] = taken[s] + Lesser(len, Len(buffer[s]))]
              /\ buffer' = [buffer EXCEPT ![s] =
                                SubSeq(buffer[s], Lesser(len, Len(buffer[s])) + 1, Len(buffer[s]))]
    BY <1>6 DEF Read, ReadResult
  <2>2. PICK len \in Sizes :
           /\ taken' = [taken EXCEPT ![s] = taken[s] + Lesser(len, Len(buffer[s]))]
           /\ buffer' = [buffer EXCEPT ![s] =
                             SubSeq(buffer[s], Lesser(len, Len(buffer[s])) + 1, Len(buffer[s]))]
    BY <2>1, Zenon
  <2>3. /\ buffer[s] \in Seq(Nat) /\ Len(buffer[s]) \in Nat /\ DOMAIN buffer[s] = 1 .. Len(buffer[s])
        /\ start[s] \in Nat /\ taken[s] \in Nat /\ Len(buffer[s]) # 0
    BY <2>1, ReaderFacts, Zenon
  <2>4. PICK n \in Nat : n = Lesser(len, Len(buffer[s])) /\ n <= Len(buffer[s])
    BY <2>3, BufferAssumption DEF Lesser
  <2>5. PICK L \in Nat : L = Len(buffer[s])
    BY <2>3
  <2>6. PICK rest : rest = SubSeq(buffer[s], n + 1, L)
    BY Zenon
  <2>7. /\ rest \in Seq(Nat) /\ Len(rest) = L - n
        /\ \A i \in 1 .. L - n : rest[i] = buffer[s][n + i]
    <3>1. \A i \in n + 1 .. L : buffer[s][i] \in Nat
      BY <2>3, <2>4, <2>5, ElementOfSeq
    <3>2. /\ rest \in Seq(Nat) /\ Len(rest) = IF n + 1 <= L THEN L - (n + 1) + 1 ELSE 0
          /\ \A i \in 1 .. L - (n + 1) + 1 : rest[i] = buffer[s][(n + 1) + i - 1]
      BY <2>4, <2>5, <2>6, <3>1, SubSeqProperties
    <3>3. Len(rest) = L - n
      BY <2>4, <2>5, <3>2
    <3>4. ASSUME NEW i \in 1 .. L - n PROVE rest[i] = buffer[s][n + i]
      <4>1. i \in 1 .. L - (n + 1) + 1 /\ (n + 1) + i - 1 = n + i
        BY <2>4, <2>5
      <4> QED
        BY <3>2, <4>1, Zenon
    <3> QED
      BY <3>2, <3>3, <3>4
  <2>8. /\ taken'[s] = taken[s] + n /\ buffer'[s] = rest
        /\ \A t \in Streams : t # s => taken'[t] = taken[t] /\ buffer'[t] = buffer[t]
        /\ taken' \in [Streams -> Nat] /\ buffer' \in [Streams -> Seq(Nat)]
    <3>1. taken' = [taken EXCEPT ![s] = taken[s] + n] /\ buffer' = [buffer EXCEPT ![s] = rest]
      BY <2>2, <2>4, <2>5, <2>6
    <3>2. taken[s] + n \in Nat
      BY <2>3
    <3> QED
      BY <1>3, <2>7, <3>1, <3>2
  <2>9. TypeOK'
    <3>1. reading' \in [Streams -> {"idle", "asleep", "awake"}]
      BY <1>3, <2>1
    <3> QED
      BY <1>1, <2>1, <2>8, <3>1, Zenon DEF TypeOK
  <2>10. \A t \in Streams : Got(t)' = Got(t)
    <3>1. Got(s)' = start[s] + taken'[s] + Len(buffer'[s])
      BY <1>1 DEF Got
    <3>2. Got(s)' = Got(s)
      <4>1. Got(s)' = start[s] + (taken[s] + n) + (L - n)
        BY <2>7, <2>8, <3>1
      <4>2. Got(s) = start[s] + taken[s] + L
        BY <2>5 DEF Got
      <4> QED
        BY <2>3, <4>1, <4>2
    <3>3. \A t \in Streams : t # s => Got(t)' = Got(t)
      BY <1>1, <2>8 DEF Got
    <3> QED
      BY <3>2, <3>3
  <2>11. BytesInOrder'
    <3>1. ASSUME NEW i \in DOMAIN buffer'[s] PROVE buffer'[s][i] = start'[s] + taken'[s] + i
      <4>1. i \in 1 .. L - n
        BY <2>7, <2>8, LenProperties
      <4>2. n + i \in DOMAIN buffer[s]
        BY <2>3, <2>4, <2>5, <4>1
      <4>3. buffer[s][n + i] = start[s] + taken[s] + (n + i)
        BY <4>2 DEF BytesInOrder
      <4>4. buffer'[s][i] = start[s] + taken[s] + (n + i) /\ i \in Int
        BY <2>7, <2>8, <4>1, <4>3
      <4>5. start'[s] = start[s] /\ taken'[s] = taken[s] + n /\ start[s] \in Nat /\ taken[s] \in Nat
        BY <1>1, <2>3, <2>8, Zenon
      <4> QED
        BY <4>4, <4>5
    <3>2. ASSUME NEW t \in Streams, t # s, NEW i \in DOMAIN buffer'[t]
          PROVE  buffer'[t][i] = start'[t] + taken'[t] + i
      BY <1>1, <2>8, <3>2, Zenon DEF BytesInOrder
    <3> QED
      BY <3>1, <3>2 DEF BytesInOrder
  <2>12. SleeperHasNothing'
    <3>1. \A t \in Streams : reading'[t] = "asleep" => t # s /\ reading[t] = "asleep"
      BY <1>3, <2>1
    <3> QED
      BY <1>1, <2>8, <3>1, Zenon DEF SleeperHasNothing
  <2>13. ~ended[s]
    BY <2>3 DEF ReaderInv
  <2>14. ASSUME NEW t \in Streams
         PROVE  /\ reader'[t] = "none" =>
                      ~Pending(t)' /\ Len(buffer'[t]) = 0 /\ taken'[t] = 0 /\ ~eof'[t] /\ ~ended'[t]
                /\ reader'[t] = "open" /\ ~Pending(t)' => Got(t)' = passed'[t]
                /\ Pending(t)' =>
                      /\ inHand'[1].msg.first = Got(t)' + 1
                      /\ Got(t)' + inHand'[1].msg.len = passed'[t]
                      /\ inHand'[1].msg.eof => finished'[t] /\ passed'[t] = pos'[t]
                /\ eof'[t] => finished'[t] /\ Got(t)' = pos'[t]
                /\ ended'[t] => eof'[t] /\ Len(buffer'[t]) = 0
    BY <1>1, <1>4, <2>1, <2>8, <2>10, <2>13, Zenon DEF ReaderInv
  <2>15. ReaderInv'
    BY <2>14, Zenon DEF ReaderInv
  <2> QED
    BY <1>2, <2>9, <2>11, <2>12, <2>15 DEF ReadSide
<1> QED
  BY <1>5, <1>6
-----------------------------------------------------------------------------
(* The theorems. *)

\* Write, Send, the channel's dispatch, the handlers and Read keep the invariant.
THEOREM BufferInvariant == Spec => []IInv
<1>1. IInv /\ [Next]_vars => IInv'
  <2> SUFFICES ASSUME IInv, [Next]_vars PROVE IInv'
    OBVIOUS
  <2>1. ASSUME NEW s \in Streams, Write(s) \/ WriteChunk(s) \/ WriteReturns(s) \/ CloseWriter(s)
        PROVE  IInv'
    BY <2>1, WriteSteps, SendSteps, WriterLeavesReader DEF IInv, ReadSide
  <2>2. CASE TakeHandlers
    BY <2>2, TakeWriter, TakeReader DEF IInv, ReadSide
  <2>3. CASE RunHandlers
    BY <2>3, RunSteps DEF IInv, ReadSide
  <2>4. ASSUME NEW s \in Streams, AddMessageHandler(s) \/ RemoveMessageHandler(s) \/ Read(s)
        PROVE  IInv'
    BY <2>4, HandlerSteps, ReadSteps DEF IInv, ReadSide
  <2>5. CASE RegisterMessageType \/ Shutdown \/ UNCHANGED vars
    <3>1. /\ UNCHANGED <<log, delivered, passed, pos, writing, finished, sent>>
          /\ UNCHANGED <<reader, inHand, start, buffer, eof, reading, taken, ended>>
          /\ open' \in BOOLEAN /\ typeKnown' \in BOOLEAN
      BY <2>5, Zenon DEF RegisterMessageType, Shutdown, Stream!Close, vars, channel, writerVars, readerVars,
                  IInv, TypeOK
    <3>2. TypeOK'
      BY <3>1 DEF IInv, TypeOK
    <3>3. WriterInv'
      BY <3>1, WriterUntouched
    <3>4. ReadSide'
      BY <3>1, ReadSideKept DEF IInv, ReadSide
    <3> QED
      BY <3>2, <3>3, <3>4 DEF IInv, ReadSide
  <2> QED
    BY <2>1, <2>2, <2>3, <2>4, <2>5 DEF Next
<1> QED
  BY InitIInv, <1>1, PTL DEF Spec

\* What Read returns is what Write was given, in order, for every cut into chunks.
THEOREM StreamInOrder == Spec => []BytesInOrder
  BY BufferInvariant, PTL DEF IInv

\* Read gives io.EOF only after every byte that Write has reported.
THEOREM EofComesLast == Spec => []EofIsTheEnd
<1>1. IInv => EofIsTheEnd
  <2> SUFFICES ASSUME IInv, NEW s \in Streams, ended[s] PROVE start[s] + taken[s] = pos[s]
    BY Zenon DEF EofIsTheEnd
  <2>1. Len(buffer[s]) = 0 /\ Got(s) = pos[s]
    BY DEF IInv, ReaderInv
  <2>2. start[s] \in Nat /\ taken[s] \in Nat
    BY ReaderFacts DEF IInv
  <2> QED
    BY <2>1, <2>2 DEF Got
<1> QED
  BY <1>1, BufferInvariant, PTL

\* No Read sleeps on data or on the end of its stream.
THEOREM NoReadOversleeps == Spec => []SleeperHasNothing
  BY BufferInvariant, PTL DEF IInv

(***************************************************************************)
(* TypeOK, for any streams and sizes: it is part of the invariant.         *)
(***************************************************************************)
THEOREM BufferTypeCorrect == Spec => []TypeOK
<1>1. IInv => TypeOK
  BY DEF IInv
<1> QED
  BY <1>1, BufferInvariant, PTL

(***************************************************************************)
(* Every step of a writer or a reader is a step of the channel as          *)
(* MessageStream describes it, or leaves the channel alone.  With          *)
(* ChannelImplementsStream, what is proved here of the streams rests only  *)
(* on what is proved there of the channel.                                 *)
(***************************************************************************)
THEOREM BufferUsesTheChannel == Spec => UsesTheChannel
<1>1. Init => Stream!Init
  BY DEF Init
<1>2. [Next]_vars => [Stream!Next]_channel
  <2> SUFFICES ASSUME [Next]_vars PROVE [Stream!Next]_channel
    OBVIOUS
  <2>1. ASSUME NEW m, Send(m) PROVE Stream!Next
    BY <2>1 DEF Send, Stream!Next
  <2>2. ASSUME NEW s \in Streams, WriteChunk(s) \/ CloseWriter(s) PROVE Stream!Next
    BY <2>1, <2>2, Zenon DEF WriteChunk, CloseWriter
  <2>3. ASSUME NEW s \in Streams,
               Write(s) \/ WriteReturns(s) \/ AddMessageHandler(s) \/ RemoveMessageHandler(s) \/ Read(s)
        PROVE  UNCHANGED channel
    BY <2>3, Zenon DEF Write, WriteReturns, AddMessageHandler, RemoveMessageHandler, Read
  <2>4. CASE RegisterMessageType \/ RunHandlers
    BY <2>4, Zenon DEF RegisterMessageType, RunHandlers
  <2>5. CASE TakeHandlers \/ Shutdown
    BY <2>5, Zenon DEF TakeHandlers, Shutdown, Stream!Next
  <2>6. CASE UNCHANGED vars
    BY <2>6 DEF vars
  <2> QED
    BY <2>2, <2>3, <2>4, <2>5, <2>6 DEF Next
<1> QED
  BY <1>1, <1>2, PTL DEF Spec, UsesTheChannel, Stream!Spec, channel
=============================================================================
