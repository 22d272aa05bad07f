------------------------------ MODULE Channel ------------------------------
(***************************************************************************)
(* One direction of a message channel over a link: rns/channel.go with the *)
(* receipt it arms (rns/packet.go), the outlet and prover of rns/link.go   *)
(* and the receipt list of rns/transport.go.                               *)
(*                                                                         *)
(* Sending end: a caller inside Channel.Send (the send lock admits one),   *)
(* the goroutine that validates a proof, and the timers that retire        *)
(* receipts: "loop" is Channel.maintenanceLoop, "sweep" is                 *)
(* TransportSystem.processReceipts.  Receiving end: the inbound drainer.   *)
(* Between them a network that loses, duplicates and reorders: wire and    *)
(* proofs hold everything ever written, and a receiver may take any of it  *)
(* at any time, again, or never.                                           *)
(*                                                                         *)
(* The i-th message given to the network is i; its envelope is             *)
(* [seq, msg].  A step is one critical section of the code.                *)
(***************************************************************************)
EXTENDS ChannelRing, FiniteSets

CONSTANTS MaxMessages,    \* bound: messages sent on the channel
          StartSeq,       \* number of the first message (messages before it are done)
          MaxTries,       \* maxTries, 5 in NewChannel
          Receipts,       \* the outlet's packets carry receipts
          Timers,         \* subset of {"loop", "sweep"}
          Rtts            \* classes of round trip time considered

ASSUME MessagesAssumption == MaxMessages \in Nat /\ MaxMessages < SeqModulus
ASSUME StartAssumption == StartSeq \in SeqNumbers
ASSUME TriesAssumption == MaxTries \in Nat \ {0}
ASSUME ReceiptsAssumption == Receipts \in BOOLEAN
ASSUME TimersAssumption == Timers \subseteq {"loop", "sweep"}
ASSUME RttsAssumption == Rtts \subseteq RttClasses

Messages == 1..MaxMessages
Envelopes == [seq : SeqNumbers, msg : Messages]
None == 0

VARIABLES
    txLink,         \* the sender's link is active (outlet.IsUsable)
    stopped,        \* stopCh is closed: Shutdown has run on the sending channel
    sender,         \* where the call of Send stands
    reserved,       \* reservedSequence of that call
    nextSequence,
    sent,           \* messages given to the outlet
    txRing,         \* set of envelopes: nothing reads the order of txRing
    tries,          \* Envelope.Tries of each message
    receipt,        \* PacketReceipt of each message
    win,            \* the window fields
    rtt,            \* class of outlet.RTT()
    timer,          \* what each timer's goroutine is doing
    proving,        \* message whose delivery callback waits for the channel lock
    wire, proofs,   \* packets and proofs written to the network so far
    rxOpen,         \* the receiver's link is active and its handlers are set
    rxPacket,       \* the envelope (at most one) the link has proved and not yet passed on
    rxRing,
    nextRXSequence,
    handoff,        \* contiguous messages Receive is about to hand over
    delivered       \* messages handed to the handlers, in order

txVars == <<sender, reserved, nextSequence, sent>>
ringVars == <<txRing, tries, win>>
rxVars == <<rxOpen, rxPacket, rxRing, nextRXSequence, handoff, delivered>>
vars == <<txLink, stopped, txVars, ringVars, receipt, rtt, timer, proving, wire, proofs,
          rxVars>>

Idle == [at |-> "idle", env |-> {}]
NoReceipt == [status |-> "none", proved |-> FALSE, armed |-> FALSE, listed |-> FALSE]

Init ==
    /\ txLink = TRUE /\ stopped = FALSE
    /\ sender = "idle" /\ reserved = StartSeq /\ nextSequence = StartSeq /\ sent = 0
    /\ txRing = {} /\ tries = [m \in Messages |-> 0]
    /\ receipt = [m \in Messages |-> NoReceipt]
    /\ rtt \in Rtts /\ win = NewWindow(rtt)
    /\ timer = [t \in Timers |-> Idle] /\ proving = None
    /\ wire = {} /\ proofs = {}
    /\ rxOpen = TRUE /\ rxPacket = {} /\ rxRing = <<>> /\ nextRXSequence = StartSeq
    /\ handoff = <<>> /\ delivered = <<>>
-----------------------------------------------------------------------------
(***************************************************************************)
(* Channel.Send.                                                           *)
(***************************************************************************)
\* (mutation) off by one at the edge of the window
ReadyAtWindow == txLink /\ Cardinality(txRing) <= win.window

IsReadyToSend == txLink /\ Cardinality(txRing) < win.window

SendReserve ==
    /\ sender = "idle" /\ sent < MaxMessages
    /\ IsReadyToSend
    /\ reserved' = nextSequence
    /\ nextSequence' = SeqAdd(nextSequence, 1)
    /\ sender' = "reserved"
    /\ UNCHANGED <<txLink, stopped, sent, ringVars, receipt, rtt, timer, proving, wire, proofs,
                   rxVars>>

\* outlet.Send failed: the reserved number is given back.
SendRollback ==
    /\ sender = "reserved"
    /\ nextSequence' = reserved
    /\ sender' = "idle"
    /\ UNCHANGED <<txLink, stopped, reserved, sent, ringVars, receipt, rtt, timer, proving, wire,
                   proofs, rxVars>>

\* outlet.Send up to the interface write.  On a link with an attached interface no
\* receipt is made; otherwise Packet.Send makes one, and Outbound may find no
\* interface to write to and still report success.
SendOutbound(transmitted) ==
    LET m == sent + 1 IN
    /\ sender = "reserved"
    /\ txLink
    /\ transmitted \/ Receipts
    /\ sent' = m
    /\ wire' = IF transmitted THEN wire \cup {[seq |-> reserved, msg |-> m]} ELSE wire
    /\ receipt' = IF Receipts THEN [receipt EXCEPT ![m].status = "sent"] ELSE receipt
    /\ sender' = IF Receipts /\ transmitted THEN "written" ELSE "done"
    /\ UNCHANGED <<txLink, stopped, reserved, nextSequence, ringVars, rtt, timer, proving,
                   proofs, rxVars>>

\* Outbound marks the receipt sent and lists it.  The proof path holds the same
\* transport lock while a delivery callback waits.
MarkListed(m) == [receipt EXCEPT ![m].status = "sent", ![m].listed = TRUE]

SendRegister ==
    /\ sender = "written" /\ proving = None
    /\ receipt' = MarkListed(sent)
    /\ sender' = "done"
    /\ UNCHANGED <<txLink, stopped, reserved, nextSequence, sent, ringVars, rtt, timer, proving,
                   wire, proofs, rxVars>>

\* The rest of Send, under the channel lock.
SendCommit ==
    LET env == [seq |-> reserved, msg |-> sent]
        duplicate == \E e \in txRing : e.seq = env.seq
    IN
    /\ sender = "done"
    /\ IF Receipts
       THEN /\ receipt' = [receipt EXCEPT ![sent].status = "sent", ![sent].armed = TRUE]
            /\ tries' = [tries EXCEPT ![sent] = 1]
            /\ txRing' = IF duplicate THEN txRing ELSE txRing \cup {env}
            /\ nextSequence' = IF duplicate THEN reserved ELSE nextSequence
       ELSE UNCHANGED <<receipt, tries, txRing, nextSequence>>
    /\ sender' = "idle"
    /\ UNCHANGED <<txLink, stopped, reserved, sent, win, rtt, timer, proving, wire, proofs, rxVars>>
-----------------------------------------------------------------------------
(***************************************************************************)
(* Proofs.  ValidateLinkProof concludes a listed receipt and runs its      *)
(* delivery callback, packetDelivered, which takes the channel lock.       *)
(***************************************************************************)
ProofArrives(m) ==
    /\ m \in proofs /\ proving = None
    /\ receipt[m].listed
    /\ receipt' = [receipt EXCEPT ![m].status = "delivered", ![m].proved = TRUE,
                                  ![m].listed = FALSE]
    /\ proving' = IF receipt[m].armed THEN m ELSE None
    /\ UNCHANGED <<txLink, stopped, txVars, ringVars, rtt, timer, wire, proofs, rxVars>>

RingWithout(m) == {e \in txRing : e.msg # m}

Tracked(m) == \E e \in txRing : e.msg = m

Concluded(m) ==
    /\ txRing' = RingWithout(m)
    /\ win' = IF Tracked(m) THEN Grow(win, rtt) ELSE win

\* (mutation) the lock is not released when no envelope matches
DeliveredHoldsLock ==
    /\ proving # None /\ Tracked(proving)
    /\ Concluded(proving)
    /\ proving' = None
    /\ UNCHANGED <<txLink, stopped, txVars, tries, receipt, rtt, timer, wire, proofs, rxVars>>

PacketDelivered ==
    /\ proving # None
    /\ Concluded(proving)
    /\ proving' = None
    /\ UNCHANGED <<txLink, stopped, txVars, tries, receipt, rtt, timer, wire, proofs, rxVars>>
-----------------------------------------------------------------------------
(***************************************************************************)
(* Timeouts.  CheckTimeout fails a receipt that is still "sent" (the       *)
(* passage of time is not modelled: its window may have passed), and       *)
(* packetTimeout retries the envelope or gives the channel up.             *)
(***************************************************************************)
Due(t, m) ==
    /\ receipt[m].status = "sent" /\ receipt[m].armed
    /\ CASE t = "loop"  -> ~stopped /\ Tracked(m)
         [] t = "sweep" -> receipt[m].listed

AlreadyProved(m) == receipt[m].proved

\* Shutdown: callbacks of the envelopes in the ring are cleared, then the ring.
Disarm == [m \in Messages |-> IF Tracked(m) THEN [receipt[m] EXCEPT !.armed = FALSE]
                              ELSE receipt[m]]

\* The timeout finds nothing left to do: a proof came first, or no envelope is tracked.
ExpireIdle(t, m) ==
    /\ timer[t].at = "idle" /\ Due(t, m)
    /\ AlreadyProved(m) \/ ~Tracked(m)
    /\ receipt' = [receipt EXCEPT ![m].status = "failed"]
    /\ UNCHANGED <<txLink, stopped, txVars, ringVars, rtt, timer, proving, wire, proofs, rxVars>>

\* Retries are used up: the decision is taken under the lock, Shutdown takes it again,
\* and outlet.TimedOut follows without it.
ExpireLast(t, m) ==
    /\ timer[t].at = "idle" /\ Due(t, m)
    /\ ~AlreadyProved(m) /\ Tracked(m)
    /\ tries[m] >= MaxTries
    /\ receipt' = [receipt EXCEPT ![m].status = "failed"]
    /\ timer' = [timer EXCEPT ![t].at = "giveup"]
    /\ UNCHANGED <<txLink, stopped, txVars, ringVars, rtt, proving, wire, proofs, rxVars>>

Shutdown(t) ==
    /\ timer[t].at = "giveup"
    /\ receipt' = Disarm
    /\ stopped' = TRUE
    /\ txRing' = {}
    /\ timer' = [timer EXCEPT ![t].at = "timedout"]
    /\ UNCHANGED <<txLink, txVars, tries, win, rtt, proving, wire, proofs, rxVars>>

ExpireRetry(t, m) ==
    /\ timer[t].at = "idle" /\ Due(t, m)
    /\ ~AlreadyProved(m) /\ Tracked(m)
    /\ tries[m] < MaxTries
    /\ receipt' = [receipt EXCEPT ![m].status = "failed"]
    /\ tries' = [tries EXCEPT ![m] = @ + 1]
    /\ win' = Shrink(win)
    /\ timer' = [timer EXCEPT ![t] = [at |-> "resend", env |-> {e \in txRing : e.msg = m}]]
    /\ UNCHANGED <<txLink, stopped, txVars, txRing, rtt, proving, wire, proofs, rxVars>>

Expire(t, m) == ExpireIdle(t, m) \/ ExpireLast(t, m) \/ ExpireRetry(t, m)

\* outlet.Resend: Outbound writes the same packet again, or finds no interface.
Resend(t, transmitted) ==
    /\ timer[t].at = "resend"
    /\ wire' = IF transmitted THEN wire \cup timer[t].env ELSE wire
    /\ timer' = [timer EXCEPT ![t].at = IF transmitted THEN "written" ELSE "done"]
    /\ UNCHANGED <<txLink, stopped, txVars, ringVars, receipt, rtt, proving, proofs, rxVars>>

ResendRegister(t) ==
    /\ timer[t].at = "written" /\ proving = None
    /\ \E e \in timer[t].env : receipt' = MarkListed(e.msg)
    /\ timer' = [timer EXCEPT ![t].at = "done"]
    /\ UNCHANGED <<txLink, stopped, txVars, ringVars, rtt, proving, wire, proofs, rxVars>>

\* The tail of packetTimeout: callbacks are set again, and a proof that came during
\* the resend is honoured.
LateProof(m) == IF receipt[m].proved THEN Concluded(m) ELSE UNCHANGED <<txRing, win>>

ResendCommit(t) ==
    /\ timer[t].at = "done"
    /\ \E e \in timer[t].env : /\ receipt' = [receipt EXCEPT ![e.msg].armed = TRUE]
                               /\ LateProof(e.msg)
    /\ timer' = [timer EXCEPT ![t] = Idle]
    /\ UNCHANGED <<txLink, stopped, txVars, tries, rtt, proving, wire, proofs, rxVars>>

\* The sweep ends by dropping every receipt that is no longer "sent".
SweepEnd ==
    /\ "sweep" \in Timers /\ timer["sweep"].at = "idle"
    /\ \E m \in Messages : receipt[m].listed /\ receipt[m].status # "sent"
    /\ receipt' = [m \in Messages |-> [receipt[m] EXCEPT !.listed = @ /\ receipt[m].status = "sent"]]
    /\ UNCHANGED <<txLink, stopped, txVars, ringVars, rtt, timer, proving, wire, proofs, rxVars>>
-----------------------------------------------------------------------------
(***************************************************************************)
(* Link.teardown at either end: the link closes and its channel shuts.     *)
(***************************************************************************)
LinkCloses ==
    /\ txLink' = FALSE /\ stopped' = TRUE
    /\ receipt' = IF txLink THEN Disarm ELSE receipt
    /\ txRing' = IF txLink THEN {} ELSE txRing
    /\ UNCHANGED <<txVars, tries, win, rtt, proving, wire, proofs, rxVars>>

\* (mutation) the outlet is not told
TimedOutUnnoticed(t) ==
    /\ timer[t].at = "timedout"
    /\ timer' = [timer EXCEPT ![t] = Idle]
    /\ UNCHANGED <<txLink, stopped, txVars, ringVars, receipt, rtt, proving, wire, proofs, rxVars>>

TimedOut(t) ==
    /\ timer[t].at = "timedout"
    /\ timer' = [timer EXCEPT ![t] = Idle]
    /\ LinkCloses

TxClose == txLink /\ LinkCloses /\ UNCHANGED timer

RxClose ==
    /\ rxOpen
    /\ rxOpen' = FALSE /\ rxRing' = <<>>
    /\ UNCHANGED <<txLink, stopped, txVars, ringVars, receipt, rtt, timer, proving, wire, proofs,
                   rxPacket, nextRXSequence, handoff, delivered>>
-----------------------------------------------------------------------------
(***************************************************************************)
(* Receiving.  The link proves every channel packet before the channel     *)
(* sees it; Receive proves a new one again under its lock.                 *)
(***************************************************************************)
LinkReceive(env) ==
    /\ env \in wire /\ rxOpen
    /\ rxPacket = {} /\ handoff = <<>>
    /\ rxPacket' = {env}
    /\ proofs' = proofs \cup {env.msg}
    /\ UNCHANGED <<txLink, stopped, txVars, ringVars, receipt, rtt, timer, proving, wire,
                   rxOpen, rxRing, nextRXSequence, handoff, delivered>>

Accepted(env) ==
    /\ InReceiveWindow(env.seq, nextRXSequence)
    /\ IsNew(rxRing, env, nextRXSequence)

Receive(env) ==
    LET ring == Emplace(rxRing, env, nextRXSequence)
        n    == Contiguous(ring, nextRXSequence)
    IN
    /\ rxPacket = {env}
    /\ rxPacket' = {}
    /\ IF Accepted(env)
       THEN /\ proofs' = IF rxOpen THEN proofs \cup {env.msg} ELSE proofs
            /\ rxRing' = SubSeq(ring, n + 1, Len(ring))
            /\ nextRXSequence' = SeqAdd(nextRXSequence, n)
            /\ handoff' = [k \in 1..n |-> ring[k].msg]
       ELSE UNCHANGED <<proofs, rxRing, nextRXSequence, handoff>>
    /\ UNCHANGED <<txLink, stopped, txVars, ringVars, receipt, rtt, timer, proving, wire,
                   rxOpen, delivered>>

\* After Shutdown there is no handler left and the message is dropped.
\* (mutation) handlers outlive the channel
HandlersSurviveShutdown(m) == Append(delivered, m)

HandOver(m) == IF rxOpen THEN Append(delivered, m) ELSE delivered

HandleMessage ==
    /\ handoff # <<>>
    /\ handoff' = Tail(handoff)
    /\ delivered' = HandOver(Head(handoff))
    /\ UNCHANGED <<txLink, stopped, txVars, ringVars, receipt, rtt, timer, proving, wire, proofs,
                   rxOpen, rxPacket, rxRing, nextRXSequence>>
-----------------------------------------------------------------------------
Send == SendReserve \/ SendRollback \/ SendRegister \/ SendCommit
        \/ \E transmitted \in BOOLEAN : SendOutbound(transmitted)

TimerStep(t) ==
    \/ \E m \in Messages : Expire(t, m)
    \/ \E transmitted \in BOOLEAN : Resend(t, transmitted)
    \/ ResendRegister(t) \/ ResendCommit(t) \/ Shutdown(t) \/ TimedOut(t)

Drainer == HandleMessage \/ \E env \in Envelopes : LinkReceive(env) \/ Receive(env)

Next ==
    \/ Send
    \/ \E t \in Timers : TimerStep(t)
    \/ SweepEnd
    \/ PacketDelivered \/ \E m \in Messages : ProofArrives(m)
    \/ TxClose \/ RxClose
    \/ Drainer

Spec == Init /\ [][Next]_vars

\* A call of Send that has reserved a number runs on; so does a timer's goroutine once
\* it has failed a receipt, a proof's callback, and the drainer with the packet it
\* holds.  That a timeout is due, that a proof arrives or that the network delivers is
\* left open, except that the timers keep coming back to a due receipt.
SendRuns == SendRollback \/ SendRegister \/ SendCommit
            \/ \E transmitted \in BOOLEAN : SendOutbound(transmitted)

FairSpec ==
    /\ Spec
    /\ WF_vars(SendRuns) /\ WF_vars(PacketDelivered)
    /\ \A t \in Timers : WF_vars(TimerStep(t))
    /\ WF_vars(HandleMessage \/ \E env \in Envelopes : Receive(env))
-----------------------------------------------------------------------------
(***************************************************************************)
(* Properties.                                                             *)
(***************************************************************************)
Receipt == [status : {"none", "sent", "failed", "delivered"},
            proved : BOOLEAN, armed : BOOLEAN, listed : BOOLEAN]

TimerState == [at : {"idle", "resend", "written", "done", "giveup", "timedout"},
               env : SUBSET Envelopes]

\* Every field of the two channel ends, the receipts and the network has its type.
TypeOK ==
    /\ txLink \in BOOLEAN /\ stopped \in BOOLEAN /\ rxOpen \in BOOLEAN
    /\ sender \in {"idle", "reserved", "written", "done"}
    /\ reserved \in SeqNumbers /\ nextSequence \in SeqNumbers
    /\ sent \in 0..MaxMessages
    /\ txRing \in SUBSET Envelopes
    /\ tries \in [Messages -> Nat]
    /\ receipt \in [Messages -> Receipt]
    /\ win \in Windows /\ rtt \in RttClasses
    /\ timer \in [Timers -> TimerState]
    /\ proving \in Messages \cup {None}
    /\ wire \in SUBSET Envelopes /\ proofs \in SUBSET Messages
    /\ rxPacket \in SUBSET Envelopes
    /\ rxRing \in Seq(Envelopes) /\ nextRXSequence \in SeqNumbers
    /\ handoff \in Seq(Messages) /\ delivered \in Seq(Messages)

\* Channel hands messages to its handlers in the order they were sent, each at most
\* once and none skipped, whatever the network, the retries and the close of either
\* end do.
InOrder == \A i \in DOMAIN delivered : delivered[i] = i

\* The sequence number of the i-th message.
NumberOf(i) == SeqAdd(StartSeq, i - 1)

\* The parts of the inductive invariant behind InOrder.  Every copy of an envelope
\* carries the number of its message:
Numbered(e) == e.seq = NumberOf(e.msg) /\ e.msg <= sent

EnvelopesNumbered ==
    /\ \A e \in wire \cup txRing \cup rxPacket : Numbered(e)
    /\ \A t \in Timers : \A e \in timer[t].env : Numbered(e)
    /\ \A k \in DOMAIN rxRing : Numbered(rxRing[k])

\* the number reserved by a call of Send is the one of the message it sends, and is
\* given back if it is not sent:
SenderNumbered ==
    /\ sender = "idle" => nextSequence = NumberOf(sent + 1)
    /\ sender = "reserved" => /\ sent < MaxMessages /\ reserved = NumberOf(sent + 1)
                              /\ nextSequence = SeqAdd(reserved, 1)
    /\ sender \in {"written", "done"} => /\ sent > 0 /\ reserved = NumberOf(sent)
                                         /\ nextSequence = NumberOf(sent + 1)
                                         /\ \A e \in txRing : e.msg # sent

\* and the open receiver waits for the message after the last one it popped.
ReceiverNumbered ==
    /\ rxPacket # {} => handoff = <<>> /\ (~rxOpen => rxRing = <<>>)
    /\ Len(delivered) <= sent
    /\ rxOpen => /\ Len(delivered) + Len(handoff) <= sent
                 /\ nextRXSequence = NumberOf(Len(delivered) + Len(handoff) + 1)
                 /\ \A k \in DOMAIN handoff : handoff[k] = Len(delivered) + k

OrderInv == EnvelopesNumbered /\ SenderNumbered /\ ReceiverNumbered /\ InOrder

\* A message the receiving end holds.
Held(m) ==
    \/ \E i \in DOMAIN delivered : delivered[i] = m
    \/ \E i \in DOMAIN handoff : handoff[i] = m
    \/ \E i \in DOMAIN rxRing : rxRing[i].msg = m
    \/ \E env \in rxPacket : env.msg = m

\* A message whose proof the sender accepted (so it is never sent again) is held by
\* the receiving channel as long as that is open: proving the packet before Receive
\* looks at it loses nothing.
ProvedIsHeld == \A m \in Messages : receipt[m].proved /\ rxOpen => Held(m)

\* The same of the messages whose numbers come before the wrap of the uint16 sequence.
HeldBeforeWrap ==
    \A m \in Messages : receipt[m].proved /\ rxOpen /\ NumberOf(m) >= StartSeq => Held(m)

\* The inductive invariant behind it: a receipt is concluded only by a proof the
\* receiving link wrote, and whatever that link has proved is held.
HeldInv ==
    /\ \A m \in Messages : receipt[m].proved => m \in proofs
    /\ \A m \in proofs : rxOpen /\ NumberOf(m) >= StartSeq => Held(m)

\* Send, delivery and back-off together never track more envelopes than the receive
\* window ChannelWindowMaxFast.
TrackedFitsWindow == Cardinality(txRing) <= WindowMaxFast

\* The inductive invariant behind it: a call of Send holds a free place.
WindowInv ==
    /\ win.window <= WindowMaxFast /\ win.max <= WindowMaxFast
    /\ IsFiniteSet(txRing) /\ TrackedFitsWindow
    /\ sender # "idle" => Cardinality(txRing) < WindowMaxFast

\* However often packetTimeout backs off, a channel on an active link that tracks
\* nothing is ready to send.
ReadyWhenEmpty == txLink /\ txRing = {} => IsReadyToSend

\* The inductive invariant behind it: neither the window nor its lower limit gets to 0.
OpenInv == win.window >= 1 /\ win.min >= 1

\* Receive leaves no message behind that it could hand over: nothing in rxRing carries
\* the number Receive waits for.
NextIsNotBuffered == \A i \in DOMAIN rxRing : rxRing[i].seq # nextRXSequence

\* The callbacks and retries of message m have all run.
Settled(m) == proving # m /\ \A t \in Timers : \A e \in timer[t].env : e.msg # m

\* Once a proof has been accepted and its handling is over, the envelope has left
\* txRing and no longer takes up a place in the window.
ProvedLeavesRing ==
    \A m \in Messages : receipt[m].proved /\ Settled(m) => ~Tracked(m)

\* A call of Send returns, also when a proof or a timeout needs the transport lock or
\* the channel lock in the middle of it.
SendReturns == sender # "idle" ~> sender = "idle"

\* A channel that has run out of retries does not stay half closed: its link is torn
\* down.
GivenUpCloses == stopped ~> ~txLink

\* A message that Send took is handed over, or the sender learns of it by the close of
\* its link.
DeliveredOrClosed ==
    \A m \in Messages : sent >= m ~> (Len(delivered) >= m \/ ~txLink)

\* The two channel ends implement the message stream.
Stream == INSTANCE MessageStream WITH open <- rxOpen

ImplementsStream == Stream!Spec
=============================================================================
