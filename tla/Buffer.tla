------------------------------- MODULE Buffer -------------------------------
(***************************************************************************)
(* Byte streams over one direction of a channel, rns/buffer.go: at one end *)
(* a ChannelWriter for every stream, at the other a ChannelReader.  They   *)
(* share the channel, of which this module uses what MessageStream         *)
(* promises; Channel implements it.                                        *)
(*                                                                         *)
(* The bytes of a stream are numbered from 1 in the order in which the     *)
(* application writes them.  The application goes on after the bytes that  *)
(* Write has reported, whether or not it returned an error, and does not   *)
(* write after a Close that succeeded.                                     *)
(*                                                                         *)
(* A step is one critical section: of the writer's lock (one Send), of the *)
(* reader's lock, or of the channel's.                                     *)
(***************************************************************************)
EXTENDS Naturals, Sequences

CONSTANTS
    Streams,
    MDU,             \* bytes of data in a message, packed
    MaxChunkLen,     \* bufferMaxChunkLen
    CompressAbove,   \* Write tries to compress what is longer
    Sizes,           \* lengths of the slices given to Write and Read
    MaxMessages      \* messages sent on the channel

ASSUME BufferAssumption ==
    /\ MDU \in Nat \ {0} /\ MaxChunkLen \in Nat \ {0} /\ CompressAbove \in Nat
    /\ Sizes \subseteq Nat \ {0}

VARIABLES
    sent, delivered, open,   \* the channel, see MessageStream
    log,         \* the messages sent on it
    pos,         \* bytes that Write has reported as written
    writing,     \* the Write in progress: bytes still to send, and bytes sent
    finished,    \* Close has succeeded
    typeKnown,   \* SMTStreamData is registered at the reading end
    reader,      \* the reader's handler: "none", "open" or "closed"
    inHand,      \* the message handleMessage is handing over, and to which readers
    buffer, eof, \* of the reader
    reading,     \* the goroutine in Read: "idle", "asleep" in cond.Wait, "awake"
    taken,       \* bytes that Read has returned
    ended,       \* Read has returned io.EOF
    passed,      \* bytes handed over for the stream, also while it had no reader
    start        \* passed when the handler was added

channel == <<sent, delivered, open>>
writerVars == <<pos, writing, finished>>
readerVars == <<buffer, eof, reading, taken, ended>>
vars == <<channel, log, writerVars, typeKnown, reader, inHand, readerVars, passed, start>>

Stream == INSTANCE MessageStream

Idle == [left |-> 0, done |-> 0]

\* The bytes from first on, len of them.
Bytes(first, len) == [i \in 1 .. len |-> first + i - 1]

Message(s, first, len, compressed, end) ==
    [stream |-> s, first |-> first, len |-> len, compressed |-> compressed, eof |-> end]

Init ==
    /\ Stream!Init /\ log = <<>>
    /\ pos = [s \in Streams |-> 0] /\ writing = [s \in Streams |-> Idle]
    /\ finished = [s \in Streams |-> FALSE]
    /\ typeKnown = FALSE /\ reader = [s \in Streams |-> "none"]
    /\ inHand = <<>>
    /\ buffer = [s \in Streams |-> <<>>] /\ eof = [s \in Streams |-> FALSE]
    /\ reading = [s \in Streams |-> "idle"] /\ taken = [s \in Streams |-> 0]
    /\ ended = [s \in Streams |-> FALSE]
    /\ passed = [s \in Streams |-> 0] /\ start = [s \in Streams |-> 0]
-----------------------------------------------------------------------------
(* The writing end. *)

Lesser(a, b) == IF a < b THEN a ELSE b

Candidate(left) == Lesser(left, MaxChunkLen)

(***************************************************************************)
(* The chunk of one turn of the loop: all, a half or a third of the        *)
(* candidate, whichever is the first to fit when compressed, or what fits  *)
(* as it is.                                                               *)
(***************************************************************************)
Chunks(left) ==
    {<<Lesser(Candidate(left), MDU), FALSE>>}
    \cup IF Candidate(left) > CompressAbove
         THEN {<<Candidate(left) \div try, TRUE>> : try \in {t \in 1 .. 3 : Candidate(left) \div t > 0}}
         ELSE {}

\* Channel.Send when the channel takes the message.
Send(m) ==
    /\ Len(log) < MaxMessages
    /\ Stream!Submit
    /\ log' = Append(log, m)

Write(s) ==
    /\ writing[s] = Idle /\ ~finished[s]
    /\ \E len \in Sizes : writing' = [writing EXCEPT ![s] = [left |-> len, done |-> 0]]
    /\ UNCHANGED <<channel, log, pos, finished, typeKnown, reader, inHand, readerVars, passed, start>>

WriteChunk(s) ==
    /\ writing[s].left > 0
    /\ \E chunk \in Chunks(writing[s].left) :
          /\ Send(Message(s, pos[s] + writing[s].done + 1, chunk[1], chunk[2], FALSE))
          /\ writing' = [writing EXCEPT ![s] = [left |-> writing[s].left - chunk[1],
                                                done |-> writing[s].done + chunk[1]]]
    /\ UNCHANGED <<pos, finished, typeKnown, reader, inHand, readerVars, passed, start>>

\* Mutation: an error of Send makes Write report that it has written nothing.
WriteReturnsNothing(s) ==
    /\ writing[s] # Idle
    /\ pos' = [pos EXCEPT ![s] = IF writing[s].left = 0 THEN pos[s] + writing[s].done ELSE pos[s]]
    /\ writing' = [writing EXCEPT ![s] = Idle]
    /\ UNCHANGED <<channel, log, finished, typeKnown, reader, inHand, readerVars, passed, start>>

(***************************************************************************)
(* Write returns when all is sent, or when Send refuses a message: the     *)
(* window is full, or the link is closed.                                  *)
(***************************************************************************)
WriteReturns(s) ==
    /\ writing[s] # Idle
    /\ pos' = [pos EXCEPT ![s] = pos[s] + writing[s].done]
    /\ writing' = [writing EXCEPT ![s] = Idle]
    /\ UNCHANGED <<channel, log, finished, typeKnown, reader, inHand, readerVars, passed, start>>

\* A Close that Send refuses returns the error and changes nothing.
CloseWriter(s) ==
    /\ writing[s] = Idle /\ ~finished[s]
    /\ Send(Message(s, pos[s] + 1, 0, FALSE, TRUE))
    /\ finished' = [finished EXCEPT ![s] = TRUE]
    /\ UNCHANGED <<pos, writing, typeKnown, reader, inHand, readerVars, passed, start>>
-----------------------------------------------------------------------------
(* The reading end. *)

\* NewChannelReader: the type is registered first, the handler added after.
RegisterMessageType ==
    /\ ~typeKnown /\ typeKnown' = TRUE
    /\ UNCHANGED <<channel, log, writerVars, reader, inHand, readerVars, passed, start>>

\* After Shutdown a handler is added to a channel that calls none.
AddMessageHandler(s) ==
    /\ typeKnown /\ reader[s] = "none"
    /\ reader' = [reader EXCEPT ![s] = "open"]
    /\ start' = [start EXCEPT ![s] = passed[s]]
    /\ UNCHANGED <<channel, log, writerVars, typeKnown, inHand, readerVars, passed>>

\* BidirectionalBuffer.Close takes the handler off; Read goes on with the buffer.
RemoveMessageHandler(s) ==
    /\ reader[s] = "open"
    /\ reader' = [reader EXCEPT ![s] = "closed"]
    /\ UNCHANGED <<channel, log, writerVars, typeKnown, inHand, readerVars, passed, start>>

\* Unpack refuses a chunk that decompresses to more than bufferMaxChunkLen.
Unpacks(m) == m.compressed => m.len <= MaxChunkLen

(***************************************************************************)
(* Channel.handleMessage copies the list of handlers under the lock of the *)
(* channel; they run after it.  A message that arrives before its type is  *)
(* registered, or that Unpack refuses, never gets this far.                *)
(***************************************************************************)
TakeHandlers ==
    /\ typeKnown /\ inHand = <<>>
    /\ Stream!Deliver
    /\ LET m == log[Len(delivered) + 1]
       IN  /\ Unpacks(m)
           /\ inHand' = <<[msg |-> m, to |-> {s \in Streams : reader[s] = "open"}]>>
           /\ passed' = [passed EXCEPT ![m.stream] = passed[m.stream] + m.len]
    /\ UNCHANGED <<log, writerVars, typeKnown, reader, readerVars, start>>

Broadcast(s) == reading' = [reading EXCEPT ![s] = IF reading[s] = "asleep" THEN "awake" ELSE reading[s]]

\* Mutation: only data wakes the reader.
HandleMessageQuietly(m) ==
    /\ buffer' = [buffer EXCEPT ![m.stream] = buffer[m.stream] \o Bytes(m.first, m.len)]
    /\ eof' = [eof EXCEPT ![m.stream] = eof[m.stream] \/ m.eof]
    /\ IF m.len > 0 THEN Broadcast(m.stream) ELSE UNCHANGED reading

\* ChannelReader.handleMessage
HandleMessage(m) ==
    /\ buffer' = [buffer EXCEPT ![m.stream] = buffer[m.stream] \o Bytes(m.first, m.len)]
    /\ eof' = [eof EXCEPT ![m.stream] = eof[m.stream] \/ m.eof]
    /\ Broadcast(m.stream)

\* The handlers are tried in turn; a reader refuses messages of other streams.
RunHandlers ==
    /\ inHand # <<>>
    /\ inHand' = <<>>
    /\ IF inHand[1].msg.stream \in inHand[1].to
       THEN HandleMessage(inHand[1].msg)
       ELSE UNCHANGED <<buffer, eof, reading>>
    /\ UNCHANGED <<channel, log, writerVars, typeKnown, reader, taken, ended, passed, start>>

\* Mutation: Read gives io.EOF as soon as the end of the stream has arrived.
ReadResultEager(s) ==
    IF eof[s]
    THEN ended' = [ended EXCEPT ![s] = TRUE] /\ UNCHANGED <<buffer, taken>>
    ELSE \E len \in Sizes :
            LET n == Lesser(len, Len(buffer[s]))
            IN  /\ taken' = [taken EXCEPT ![s] = taken[s] + n]
                /\ buffer' = [buffer EXCEPT ![s] = SubSeq(buffer[s], n + 1, Len(buffer[s]))]
                /\ UNCHANGED ended

ReadResult(s) ==
    IF buffer[s] = <<>>
    THEN ended' = [ended EXCEPT ![s] = TRUE] /\ UNCHANGED <<buffer, taken>>
    ELSE \E len \in Sizes :
            LET n == Lesser(len, Len(buffer[s]))
            IN  /\ taken' = [taken EXCEPT ![s] = taken[s] + n]
                /\ buffer' = [buffer EXCEPT ![s] = SubSeq(buffer[s], n + 1, Len(buffer[s]))]
                /\ UNCHANGED ended

\* A call of Read, or its loop after a wake-up.
Read(s) ==
    /\ reader[s] # "none" /\ reading[s] # "asleep" /\ ~ended[s]
    /\ IF buffer[s] = <<>> /\ ~eof[s]
       THEN reading' = [reading EXCEPT ![s] = "asleep"] /\ UNCHANGED <<buffer, taken, ended>>
       ELSE reading' = [reading EXCEPT ![s] = "idle"] /\ ReadResult(s)
    /\ UNCHANGED <<channel, log, writerVars, typeKnown, reader, inHand, eof, passed, start>>

\* Channel.Shutdown at the reading end forgets the handlers and wakes nobody.
Shutdown ==
    /\ Stream!Close
    /\ UNCHANGED <<log, writerVars, typeKnown, reader, inHand, readerVars, passed, start>>
-----------------------------------------------------------------------------
Next ==
    \/ RegisterMessageType \/ TakeHandlers \/ RunHandlers \/ Shutdown
    \/ \E s \in Streams :
          \/ Write(s) \/ WriteChunk(s) \/ WriteReturns(s) \/ CloseWriter(s)
          \/ AddMessageHandler(s) \/ RemoveMessageHandler(s) \/ Read(s)

Spec == Init /\ [][Next]_vars

\* A Read that has been woken goes on; the drainer's goroutine runs the handlers.
FairSpec ==
    /\ Spec /\ WF_vars(RunHandlers)
    /\ \A s \in Streams : WF_vars(reading[s] = "awake" /\ Read(s))
-----------------------------------------------------------------------------
Messages ==
    [stream : Streams, first : Nat, len : Nat, compressed : BOOLEAN, eof : BOOLEAN]

\* The type invariant.
TypeOK ==
    /\ log \in Seq(Messages) /\ sent = Len(log)
    /\ delivered \in Seq(Nat) /\ Len(delivered) <= sent /\ open \in BOOLEAN
    /\ pos \in [Streams -> Nat] /\ writing \in [Streams -> [left : Nat, done : Nat]]
    /\ finished \in [Streams -> BOOLEAN] /\ typeKnown \in BOOLEAN
    /\ reader \in [Streams -> {"none", "open", "closed"}]
    /\ inHand = <<>> \/ (Len(inHand) = 1 /\ inHand[1].msg \in Messages /\ inHand[1].to \subseteq Streams)
    /\ buffer \in [Streams -> Seq(Nat)] /\ eof \in [Streams -> BOOLEAN]
    /\ reading \in [Streams -> {"idle", "asleep", "awake"}]
    /\ taken \in [Streams -> Nat] /\ ended \in [Streams -> BOOLEAN]
    /\ passed \in [Streams -> Nat] /\ start \in [Streams -> Nat]

\* Read returns the bytes of its own stream in the order written, none missing and
\* none twice, from the first one handed over after its handler was added: however
\* Write cuts and compresses them, whatever error it returns half way, and however
\* the messages of other streams come in between.
BytesInOrder ==
    \A s \in Streams : \A i \in DOMAIN buffer[s] : buffer[s][i] = start[s] + taken[s] + i

\* When Read gives io.EOF it has returned every byte that Write has reported.
EofIsTheEnd ==
    \A s \in Streams : ended[s] => start[s] + taken[s] = pos[s]

\* A goroutine asleep in Read has nothing to return: handleMessage wakes it for
\* data and for the end of the stream.
SleeperHasNothing ==
    \A s \in Streams : reading[s] = "asleep" => buffer[s] = <<>> /\ ~eof[s]

\* The streams use the channel only as MessageStream allows, and learn nothing from
\* it but what it delivers: Channel, which implements MessageStream, can stand in.
UsesTheChannel == Stream!Spec

\* Read blocks "until data arrives or the stream ends": once the channel is shut
\* down, a blocked Read returns.
ShutdownEndsRead ==
    \A s \in Streams : ~open /\ reading[s] = "asleep" ~> reading[s] # "asleep"
=============================================================================
