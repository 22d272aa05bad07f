--------------------------- MODULE InboundQueues ---------------------------
(***************************************************************************)
(* The bounded inbound queue between the interface read loops and the      *)
(* transport's drainer goroutine (src/rns/inbound-queues.go, the tail of   *)
(* TransportSystem.inbound, inboundDrainer and the join in Stop).          *)
(*                                                                         *)
(* Every critical section of InboundQueues.mu is one step.  The drainer is *)
(* parked on the notify channel it captured; a channel is named by the     *)
(* number of Puts that happened before it was made, and it is closed once  *)
(* a later Put has replaced it.  A packet is named by its arrival number   *)
(* in its class.                                                           *)
(***************************************************************************)
EXTENDS Naturals, Sequences

CONSTANTS NumTrafficClasses,  \* traffic classes, in priority order from 0
          sizes,              \* sizes[c]: capacity of class c
          MaxArrivals         \* bound on the packets offered per class

ASSUME ClassesAssumption == NumTrafficClasses \in Nat \ {0}
ASSUME SizesAssumption == sizes \in [0 .. NumTrafficClasses - 1 -> Nat]
ASSUME ArrivalsAssumption == MaxArrivals \in Nat

VARIABLES queues,    \* queues[c]: the FIFO of class c
          dropped,   \* dropped[c]: packets refused because class c was full
          notify,    \* number of the current notify channel
          pc,        \* where the drainer is: scan, parked, process, done
          ch,        \* the notify channel the drainer captured
          stopCh,    \* TRUE once Stop has closed the stop channel
          joined,    \* TRUE once Stop has seen the drainer finish
          accepted,  \* history: packets each class accepted, in order
          taken,     \* history: packets the drainer took, in order
          late       \* history: packets taken after stopCh was closed

vars == <<queues, dropped, notify, pc, ch, stopCh, joined, accepted, taken, late>>

Classes == 0 .. NumTrafficClasses - 1

Queued == {c \in Classes : queues[c] # <<>>}

Init ==
    /\ queues = [c \in Classes |-> <<>>]
    /\ dropped = [c \in Classes |-> 0]
    /\ notify = 0
    /\ pc = "scan"
    /\ ch = 0
    /\ stopCh = FALSE
    /\ joined = FALSE
    /\ accepted = [c \in Classes |-> <<>>]
    /\ taken = [c \in Classes |-> <<>>]
    /\ late = 0

\* The number of the next packet offered to class c.
Arrival(c) == Len(accepted[c]) + dropped[c] + 1

\* Mutant of CloseNotify: Put forgets to wake the drainer.
CloseNotifyForgotten == UNCHANGED notify

\* Put wakes whoever waits on the current notify channel and replaces it.
CloseNotify == notify' = notify + 1

\* Mutant of CountDrop: the drop counter runs backwards.
CountDropBackwards(c) == dropped' = [dropped EXCEPT ![c] = @ - 1]

\* A packet refused by a full class is counted.
CountDrop(c) == dropped' = [dropped EXCEPT ![c] = @ + 1]

\* An interface read loop hands a packet of class c to the queue: it is
\* appended, or counted as dropped when the class is at capacity.  Once Stop
\* has cleared ts.inboundQueues no packet reaches the queue any more.
Put(c) ==
    /\ ~joined
    /\ Arrival(c) <= MaxArrivals
    /\ IF Len(queues[c]) >= sizes[c]
       THEN /\ CountDrop(c)
            /\ UNCHANGED <<queues, notify, accepted>>
       ELSE /\ queues' = [queues EXCEPT ![c] = Append(@, Arrival(c))]
            /\ accepted' = [accepted EXCEPT ![c] = Append(@, Arrival(c))]
            /\ CloseNotify
            /\ UNCHANGED dropped
    /\ UNCHANGED <<pc, ch, stopCh, joined, taken, late>>

\* Mutant of Take: the packet is returned but stays in its class.
TakeWithoutRemoving(c) ==
    /\ \A d \in Queued : c <= d
    /\ taken' = [taken EXCEPT ![c] = Append(@, Head(queues[c]))]
    /\ late' = IF stopCh THEN late + 1 ELSE late
    /\ pc' = "process"
    /\ UNCHANGED <<queues, dropped, notify, ch, stopCh, joined, accepted>>

\* The drainer takes the oldest packet of the first non-empty class.
Take(c) ==
    /\ \A d \in Queued : c <= d
    /\ queues' = [queues EXCEPT ![c] = Tail(@)]
    /\ taken' = [taken EXCEPT ![c] = Append(@, Head(queues[c]))]
    /\ late' = IF stopCh THEN late + 1 ELSE late
    /\ pc' = "process"
    /\ UNCHANGED <<dropped, notify, ch, stopCh, joined, accepted>>

\* GetUntil scans the classes, and parks on the notify channel it read in the
\* same critical section when every class is empty.
ScanTake == pc = "scan" /\ \E c \in Queued : Take(c)

ScanEmpty ==
    /\ pc = "scan"
    /\ Queued = {}
    /\ pc' = "parked"
    /\ ch' = notify
    /\ UNCHANGED <<queues, dropped, notify, stopCh, joined, accepted, taken, late>>

\* The select of GetUntil: a closed notify channel sends it back to the scan.
Wake ==
    /\ pc = "parked"
    /\ ch < notify
    /\ pc' = "scan"
    /\ UNCHANGED <<queues, dropped, notify, ch, stopCh, joined, accepted, taken, late>>

\* The other arm of the select: the stop channel is closed.  GetUntil looks at
\* the classes once more and only an empty queue makes the drainer return.
StopTake == pc = "parked" /\ stopCh /\ \E c \in Queued : Take(c)

\* Mutant of DrainerExit: the closed stop channel is taken for a wake-up.
DrainerScansAgain ==
    /\ pc = "parked"
    /\ stopCh
    /\ Queued = {}
    /\ pc' = "scan"
    /\ UNCHANGED <<queues, dropped, notify, ch, stopCh, joined, accepted, taken, late>>

DrainerExit ==
    /\ pc = "parked"
    /\ stopCh
    /\ Queued = {}
    /\ pc' = "done"
    /\ UNCHANGED <<queues, dropped, notify, ch, stopCh, joined, accepted, taken, late>>

\* processInboundPacket returns and the drainer calls GetUntil again.
Processed ==
    /\ pc = "process"
    /\ pc' = "scan"
    /\ UNCHANGED <<queues, dropped, notify, ch, stopCh, joined, accepted, taken, late>>

\* TransportSystem.Stop closes stopCh, then waits for the drainer to finish
\* before it clears ts.inboundQueues.
Stop ==
    /\ ~stopCh
    /\ stopCh' = TRUE
    /\ UNCHANGED <<queues, dropped, notify, pc, ch, joined, accepted, taken, late>>

Join ==
    /\ stopCh
    /\ pc = "done"
    /\ ~joined
    /\ joined' = TRUE
    /\ UNCHANGED <<queues, dropped, notify, pc, ch, stopCh, accepted, taken, late>>

Drainer == ScanTake \/ ScanEmpty \/ Wake \/ StopTake \/ DrainerExit \/ Processed

Next == (\E c \in Classes : Put(c)) \/ Drainer \/ Stop \/ Join

\* The drainer and the caller of Stop are goroutines that are never blocked
\* for ever by the scheduler; nothing forces a packet to arrive or a Stop.
Spec == Init /\ [][Next]_vars /\ WF_vars(Drainer) /\ WF_vars(Join)

----------------------------------------------------------------------------

\* Every variable has its type.
TypeOK ==
    /\ queues \in [Classes -> Seq(Nat)]
    /\ dropped \in [Classes -> Nat]
    /\ notify \in Nat
    /\ pc \in {"scan", "parked", "process", "done"}
    /\ ch \in Nat
    /\ stopCh \in BOOLEAN
    /\ joined \in BOOLEAN
    /\ accepted \in [Classes -> Seq(Nat)]
    /\ taken \in [Classes -> Seq(Nat)]
    /\ late \in Nat

\* Within a class nothing Put accepted is lost, duplicated or reordered by the
\* drainer, across every interleaving of Put, GetUntil and Stop: what was
\* accepted is what was taken followed by what is still queued.
NothingLost == \A c \in Classes : accepted[c] = taken[c] \o queues[c]

\* A drainer parked in GetUntil's select while a packet waits has a closed
\* notify channel in hand: no Put can slip between the scan and the wait.
NoLostWakeup == pc = "parked" /\ Queued # {} => ch < notify

\* The drainer takes the packets of a class in the order they arrived, and no class
\* ever holds more than its capacity, whatever arrives while it is being drained.
ArrivalOrder ==
    \A c \in Classes :
        /\ Len(queues[c]) <= sizes[c]
        /\ \A i, j \in DOMAIN taken[c] : i < j => taken[c][i] < taken[c][j]

\* A packet Put accepted is eventually taken, unless the drainer has returned.
AcceptedIsTaken ==
    \A c \in Classes : \A i \in 1 .. MaxArrivals :
        Len(accepted[c]) >= i ~> (Len(taken[c]) >= i \/ pc = "done")

\* Stop returns: it joins the drainer, which must notice the closed stopCh.
StopReturns == stopCh ~> joined

\* The comment on the join in Stop: the drainer "exits as soon as stopCh
\* closes, leaving any undrained packets in the queue".  At most the one
\* packet of GetUntil's re-scan may still be taken after the close.
LeavesUndrained == late <= 1
=============================================================================
