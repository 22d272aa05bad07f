------------------------------ MODULE Resource ------------------------------
(***************************************************************************)
(* One resource transfer over a link, rns/resource.go, at the sending and  *)
(* the receiving end, with the dispatch of its packets in rns/link.go.     *)
(*                                                                         *)
(* Every handler runs in a goroutine of its own under the lock of its      *)
(* resource: the packet handlers, the watchdog, Assemble, RequestNext, the *)
(* application's Cancel and the conclude callbacks.  A step is one         *)
(* critical section.  A goroutine that a handler starts is a step of its   *)
(* own (assembly, requests, sCalls, rCalls).                               *)
(*                                                                         *)
(* net is the set of packets under way.  What is written may be lost, and  *)
(* a packet may be overtaken by any other; so a handler of link.go that    *)
(* hands it to a goroutine adds nothing to the order of events.  Some      *)
(* packets may be delivered more than once.  Time is not modelled: a       *)
(* watchdog may find its deadline passed at any moment.                    *)
(***************************************************************************)
EXTENDS ResourceMap

CONSTANTS
    WindowStart,    \* the window Accept sets: [size, min, max]
    MaxRetries,     \* ResourceMaxRetries
    MaxAdvRetries,  \* ResourceMaxAdvRetries
    NetBound,       \* packets under way at a time
    MaxRepeats      \* deliveries of a packet that has been delivered before

ASSUME ResourceAssumption ==
    /\ WindowStart \in [size : Nat, min : Nat, max : Nat]
    /\ 2 <= WindowStart.min
    /\ WindowStart.min <= WindowStart.size /\ WindowStart.size <= WindowStart.max
    /\ MaxRetries \in Nat /\ MaxAdvRetries \in Nat /\ NetBound \in Nat
    /\ MaxRepeats \in Nat

VARIABLES
    \* the sender's Resource
    sStatus, sent, minHeight, sRetries,
    sWatchdog,       \* the watchdog goroutine runs
    sCalls,          \* conclude callbacks started and not yet run
    sTold,           \* the statuses the callbacks have read
    \* the receiver's Resource; "none": no advertisement accepted yet
    rStatus, received, known, hashmapHeight, outstanding, waitingForHmu,
    window, rRetries,
    assembly,        \* assemblyLock, and whether the Assemble goroutine has run
    requests,        \* RequestNext goroutines started and not yet run
    rCalls, rTold,
    net,
    repeats,         \* of MaxRepeats, those still to come
    linkUp

sVars == <<sStatus, sent, minHeight, sRetries, sWatchdog, sCalls, sTold>>
mapVars == <<known, hashmapHeight>>
askVars == <<outstanding, waitingForHmu>>
rVars == <<rStatus, received, mapVars, askVars, window, rRetries, assembly,
           requests, rCalls, rTold>>
netVars == <<net, repeats>>
vars == <<sVars, rVars, netVars, linkUp>>

Adv == [type |-> "adv"]
Prf == [type |-> "prf"]
Req(parts, last) == [type |-> "req", parts |-> parts, last |-> last]
Part(i) == [type |-> "part", index |-> i]
Hmu(segment) == [type |-> "hmu", segment |-> segment]

\* A request that does not ask for more of the map.
NoMapHash == -1

SenderStatuses == {"queued", "advertised", "transferring", "awaitingProof", "complete", "failed"}
ReceiverStatuses == {"none", "transferring", "complete", "failed", "corrupt"}

Init ==
    /\ sStatus = "queued" /\ sent = {} /\ minHeight = 0 /\ sRetries = 0
    /\ sWatchdog = FALSE /\ sCalls = 0 /\ sTold = {}
    /\ rStatus = "none" /\ received = {} /\ known = {} /\ hashmapHeight = 0
    /\ outstanding = 0 /\ waitingForHmu = FALSE
    /\ window = WindowStart /\ rRetries = MaxRetries
    /\ assembly = "idle" /\ requests = 0 /\ rCalls = 0 /\ rTold = {}
    /\ net = {} /\ repeats = MaxRepeats /\ linkUp = TRUE
-----------------------------------------------------------------------------
(***************************************************************************)
(* The packets a handler has received leave the network.  packetFilter     *)
(* drops a second copy by its hash except for parts, requests and proofs:  *)
(* one of these may be delivered again.                                    *)
(***************************************************************************)
Passes(packet) == packet.type \in {"part", "req", "prf"}

Receive(taken, packets) ==
    \/ net' = (net \ taken) \cup packets /\ UNCHANGED repeats
    \/ /\ \E m \in taken : Passes(m)
       /\ repeats > 0 /\ repeats' = repeats - 1
       /\ net' = net \cup packets

(***************************************************************************)
(* Packet.Send on the link: an error once the link is closed, otherwise    *)
(* the packets go out and any of them may be lost.                         *)
(***************************************************************************)
Transmit(taken, packets) ==
    \E kept \in SUBSET (IF linkUp THEN packets ELSE {}) :
        /\ Receive(taken, kept)
        /\ Cardinality(net') <= NetBound

Discard(packet) == Receive({packet}, {})
-----------------------------------------------------------------------------
(* The sender. *)

(***************************************************************************)
(* The resource is listed and in state ADVERTISED before the packet is     *)
(* sent; the watchdog starts only if that succeeds.                        *)
(***************************************************************************)
Advertise ==
    /\ sStatus = "queued"
    /\ sStatus' = "advertised" /\ sRetries' = MaxAdvRetries
    /\ sWatchdog' = linkUp
    /\ Transmit({}, {Adv})
    /\ UNCHANGED <<sent, minHeight, sCalls, sTold, rVars, linkUp>>

\* Mutation: the sender answers with the segment after the one asked for.
SequencedAhead(m) ==
    LET partIndex == PartIndex(m.last, minHeight)
    IN  [ok |-> Answerable(partIndex + HashmapMaxLen), segment |-> partIndex \div HashmapMaxLen + 1,
         height |-> NewMinHeight(partIndex)]

(***************************************************************************)
(* The sender's answer to HASHMAP_IS_EXHAUSTED.                            *)
(***************************************************************************)
Sequenced(m) ==
    LET partIndex == PartIndex(m.last, minHeight)
    IN  [ok |-> Answerable(partIndex), segment |-> partIndex \div HashmapMaxLen,
         height |-> NewMinHeight(partIndex)]

(***************************************************************************)
(* Any request restarts the transfer unless it has failed, whatever state  *)
(* the sender is in.  An error of Send ends the handler early: before a    *)
(* part is marked as sent, or with only the height updated.                *)
(***************************************************************************)
Request(m) ==
    /\ m \in net /\ m.type = "req"
    /\ sStatus # "failed"
    /\ sRetries' = MaxRetries
    /\ LET more == m.last # NoMapHash
           answer == Sequenced(m)
           refused == more /\ ~answer.ok
       IN  IF linkUp
           THEN /\ sent' = sent \cup m.parts
                /\ minHeight' = IF more THEN answer.height ELSE minHeight
                /\ sStatus' = IF refused THEN "failed"
                              ELSE IF sent' = Parts THEN "awaitingProof" ELSE "transferring"
                /\ Transmit({m}, {Part(i) : i \in m.parts}
                                 \cup IF more /\ answer.ok THEN {Hmu(answer.segment)} ELSE {})
           ELSE /\ sent' = sent
                /\ minHeight' = IF more /\ m.parts = {} THEN answer.height ELSE minHeight
                /\ sStatus' = IF refused /\ m.parts = {} THEN "failed" ELSE "transferring"
                /\ Discard(m)
    /\ UNCHANGED <<sWatchdog, sCalls, sTold, rVars, linkUp>>

RequestRefused(m) ==
    /\ m \in net /\ m.type = "req"
    /\ sStatus = "failed"
    /\ Discard(m)
    /\ UNCHANGED <<sVars, rVars, linkUp>>

\* Mutation: the sender takes the last part it sent for the proof.
ValidateProofEarly ==
    /\ sStatus = "awaitingProof"
    /\ sStatus' = "complete" /\ sCalls' = sCalls + 1
    /\ UNCHANGED <<sent, minHeight, sRetries, sWatchdog, sTold, rVars, netVars, linkUp>>

(***************************************************************************)
(* The receiver's proof matches: both ends hold the same data.             *)
(***************************************************************************)
ValidateProof ==
    /\ Prf \in net
    /\ Discard(Prf)
    /\ IF sStatus \in {"failed", "complete"}
       THEN UNCHANGED <<sStatus, sCalls>>
       ELSE sStatus' = "complete" /\ sCalls' = sCalls + 1
    /\ UNCHANGED <<sent, minHeight, sRetries, sWatchdog, sTold, rVars, linkUp>>

(***************************************************************************)
(* The watchdog of the sender finds the deadline of its state passed.      *)
(* cancelLocked marks the resource and does nothing else.                  *)
(***************************************************************************)
SenderGivesUp == sStatus' = "failed" /\ sWatchdog' = FALSE /\ UNCHANGED <<sRetries, netVars>>

AdvertiseAgain ==
    /\ sWatchdog /\ sStatus = "advertised"
    /\ IF sRetries > 0 /\ linkUp
       THEN /\ sRetries' = sRetries - 1
            /\ Transmit({}, {Adv})
            /\ UNCHANGED <<sStatus, sWatchdog>>
       ELSE SenderGivesUp
    /\ UNCHANGED <<sent, minHeight, sCalls, sTold, rVars, linkUp>>

TransferTimeout ==
    /\ sWatchdog /\ sStatus = "transferring"
    /\ SenderGivesUp
    /\ UNCHANGED <<sent, minHeight, sCalls, sTold, rVars, linkUp>>

(***************************************************************************)
(* CacheRequest, which this port leaves without effect, stands where the   *)
(* proof would be asked for: a proof that was lost does not come again.    *)
(***************************************************************************)
AskForProof ==
    /\ sWatchdog /\ sStatus = "awaitingProof"
    /\ IF sRetries > 0
       THEN sRetries' = sRetries - 1 /\ UNCHANGED <<sStatus, sWatchdog, netVars>>
       ELSE SenderGivesUp
    /\ UNCHANGED <<sent, minHeight, sCalls, sTold, rVars, linkUp>>

SenderWatchdogEnds ==
    /\ sWatchdog /\ sStatus \in {"complete", "failed"}
    /\ sWatchdog' = FALSE
    /\ UNCHANGED <<sStatus, sent, minHeight, sRetries, sCalls, sTold, rVars, netVars, linkUp>>

SenderCancel ==
    /\ sStatus \in {"advertised", "transferring", "awaitingProof"}
    /\ sStatus' = "failed" /\ sWatchdog' = FALSE /\ sCalls' = sCalls + 1
    /\ UNCHANGED <<sent, minHeight, sRetries, sTold, rVars, netVars, linkUp>>

SenderCallback ==
    /\ sCalls > 0
    /\ sCalls' = sCalls - 1 /\ sTold' = sTold \cup {sStatus}
    /\ UNCHANGED <<sStatus, sent, minHeight, sRetries, sWatchdog, rVars, netVars, linkUp>>
-----------------------------------------------------------------------------
(* The receiver. *)

(***************************************************************************)
(* requestNextLockedAt, with the values its caller has just set.  At most  *)
(* one window of parts is asked for, up to the first whose map hash is not *)
(* known; then the last known map hash is quoted to get the next segment.  *)
(***************************************************************************)
RequestNext(taken, waiting, kn, height, size) ==
    IF received = Parts \/ waiting
    THEN /\ Receive(taken, {})
         /\ waitingForHmu' = waiting /\ UNCHANGED outstanding
    ELSE LET wanted == Wanted(received, kn, size)
             exhausted == Exhausted(received, kn, size)
         IN  /\ outstanding' = Cardinality(wanted)
             /\ IF exhausted /\ ~(height - 1 \in kn)
                THEN Receive(taken, {}) /\ waitingForHmu' = FALSE
                ELSE /\ waitingForHmu' = (exhausted /\ linkUp)
                     /\ Transmit(taken, {Req(wanted, IF exhausted THEN height - 1 ELSE NoMapHash)})

(***************************************************************************)
(* Accept takes the first advertisement; the same one again finds the      *)
(* resource in the list of the link.  (Cancel takes the resource off the   *)
(* list, so an advertisement after it begins another transfer, with state  *)
(* of its own that this module does not follow.)                           *)
(***************************************************************************)
Accept ==
    /\ Adv \in net /\ rStatus = "none"
    /\ rStatus' = "transferring"
    /\ known' = HashmapSegment(0) /\ hashmapHeight' = Cardinality(HashmapSegment(0))
    /\ RequestNext({Adv}, FALSE, HashmapSegment(0), Cardinality(HashmapSegment(0)), window.size)
    /\ UNCHANGED <<sVars, received, window, rRetries, assembly, requests, rCalls, rTold, linkUp>>

AcceptRepeated ==
    /\ Adv \in net /\ rStatus # "none"
    /\ Discard(Adv)
    /\ UNCHANGED <<sVars, rVars, linkUp>>

HmuIgnored == rStatus = "failed" \/ ~waitingForHmu

(***************************************************************************)
(* An update nobody waits for is dropped.  One that comes is applied       *)
(* whatever its segment, and the next parts are asked for at once.         *)
(***************************************************************************)
HashmapUpdate(m) ==
    /\ m \in net /\ m.type = "hmu"
    /\ IF HmuIgnored
       THEN Discard(m) /\ UNCHANGED rVars
       ELSE LET added == HashmapSegment(m.segment) \ known
            IN  /\ rStatus' = "transferring" /\ rRetries' = MaxRetries
                /\ known' = known \cup added
                /\ hashmapHeight' = hashmapHeight + Cardinality(added)
                /\ RequestNext({m}, FALSE, known', hashmapHeight', window.size)
                /\ UNCHANGED <<received, window, assembly, requests, rCalls, rTold>>
    /\ UNCHANGED <<sVars, linkUp>>

StatusAfterPart ==
    IF rStatus \in {"complete", "corrupt"} THEN rStatus ELSE "transferring"

\* Mutation: outstandingParts is decremented without looking.
LeftUnchecked(filled) == IF filled THEN outstanding - 1 ELSE outstanding

LeftAfterPart(filled) ==
    IF filled /\ outstanding > 0 THEN outstanding - 1 ELSE outstanding

\* Mutation: the round ends with the part before its last one.
RoundAlmostComplete(left) == left = 1

RoundComplete(left) == left = 0

(***************************************************************************)
(* A part is taken if it is missing and lies in the searched range.  The   *)
(* last part of all starts Assemble, once; the last outstanding part of a  *)
(* round lets the window grow and starts RequestNext.                      *)
(***************************************************************************)
ReceivePart(i) ==
    /\ Part(i) \in net /\ rStatus # "none"
    /\ Discard(Part(i))
    /\ IF rStatus = "failed"
       THEN UNCHANGED rVars
       ELSE LET filled == i \in (SearchRange(received, window.size) \cap known) \ received
                left == LeftAfterPart(filled)
                assemble == received' = Parts /\ assembly = "idle"
                ask == ~assemble /\ filled /\ RoundComplete(left)
            IN  /\ rStatus' = StatusAfterPart
                /\ received' = IF filled THEN received \cup {i} ELSE received
                /\ outstanding' = left
                /\ assembly' = IF assemble THEN "pending" ELSE assembly
                /\ window' = IF ask THEN Grow(window) ELSE window
                /\ requests' = IF ask THEN requests + 1 ELSE requests
                /\ UNCHANGED <<mapVars, waitingForHmu, rRetries, rCalls, rTold>>
    /\ UNCHANGED <<sVars, linkUp>>

RunRequestNext ==
    /\ requests > 0
    /\ requests' = requests - 1
    /\ IF rStatus = "failed"
       THEN UNCHANGED <<askVars, netVars>>
       ELSE RequestNext({}, waitingForHmu, known, hashmapHeight, window.size)
    /\ UNCHANGED <<sVars, rStatus, received, mapVars, window, rRetries, assembly, rCalls, rTold, linkUp>>

(***************************************************************************)
(* Assemble does not look at the status it overwrites.  It fails silently  *)
(* when decryption or decompression does, and marks the resource corrupt   *)
(* when the data is not what was advertised or too large, in which case    *)
(* the link is torn down too.                                              *)
(***************************************************************************)
Assemble ==
    /\ assembly = "pending"
    /\ assembly' = "done"
    /\ \/ /\ rStatus' = "complete" /\ rCalls' = rCalls + 1
          /\ Transmit({}, {Prf})
          /\ UNCHANGED linkUp
       \/ /\ rStatus' \in {"failed", "corrupt"}
          /\ linkUp' \in IF rStatus' = "corrupt" THEN {linkUp, FALSE} ELSE {linkUp}
          /\ UNCHANGED <<rCalls, netVars>>
    /\ UNCHANGED <<sVars, received, mapVars, askVars, window, rRetries, requests, rTold>>

\* Mutation: the watchdog does not count its retries.
AskForever ==
    /\ rStatus = "transferring" /\ rRetries > 0
    /\ window' = Shrink(window)
    /\ RequestNext({}, FALSE, known, hashmapHeight, window'.size)
    /\ UNCHANGED <<sVars, rStatus, received, mapVars, rRetries, assembly, requests, rCalls, rTold, linkUp>>

(***************************************************************************)
(* The watchdog of the receiver finds the part timeout passed.             *)
(***************************************************************************)
AskAgain ==
    /\ rStatus = "transferring" /\ rRetries > 0
    /\ rRetries' = rRetries - 1
    /\ window' = Shrink(window)
    /\ RequestNext({}, FALSE, known, hashmapHeight, window'.size)
    /\ UNCHANGED <<sVars, rStatus, received, mapVars, assembly, requests, rCalls, rTold, linkUp>>

ReceiverGivesUp ==
    /\ rStatus = "transferring" /\ rRetries = 0
    /\ rStatus' = "failed"
    /\ UNCHANGED <<sVars, received, mapVars, askVars, window, rRetries, assembly, requests, rCalls, rTold, netVars, linkUp>>

ReceiverCancel ==
    /\ rStatus \in {"transferring", "corrupt"}
    /\ IF rStatus = "corrupt"
       THEN linkUp' = FALSE /\ UNCHANGED <<rStatus, rCalls>>
       ELSE rStatus' = "failed" /\ rCalls' = rCalls + 1 /\ UNCHANGED linkUp
    /\ UNCHANGED <<sVars, received, mapVars, askVars, window, rRetries, assembly, requests, rTold, netVars>>

ReceiverCallback ==
    /\ rCalls > 0
    /\ rCalls' = rCalls - 1 /\ rTold' = rTold \cup {rStatus}
    /\ UNCHANGED <<sVars, rStatus, received, mapVars, askVars, window, rRetries, assembly, requests, netVars, linkUp>>
-----------------------------------------------------------------------------
LinkCloses == linkUp /\ linkUp' = FALSE /\ UNCHANGED <<sVars, rVars, netVars>>

SenderNext ==
    \/ Advertise \/ ValidateProof \/ AdvertiseAgain \/ TransferTimeout \/ AskForProof
    \/ SenderWatchdogEnds \/ SenderCancel \/ SenderCallback
    \/ \E m \in net : Request(m) \/ RequestRefused(m)

ReceiverNext ==
    \/ Accept \/ AcceptRepeated \/ RunRequestNext \/ Assemble \/ AskAgain
    \/ ReceiverGivesUp \/ ReceiverCancel \/ ReceiverCallback
    \/ \E m \in net : HashmapUpdate(m)
    \/ \E i \in Parts : ReceivePart(i)

Next == SenderNext \/ ReceiverNext \/ LinkCloses

Spec == Init /\ [][Next]_vars

(***************************************************************************)
(* Goroutines that were started run, and the watchdogs are loops whose     *)
(* deadlines pass.  The network owes nothing.                              *)
(***************************************************************************)
FairSpec ==
    /\ Spec
    /\ WF_vars(RunRequestNext) /\ WF_vars(Assemble)
    /\ WF_vars(AskAgain \/ ReceiverGivesUp)
    /\ WF_vars(AdvertiseAgain \/ TransferTimeout \/ AskForProof \/ SenderWatchdogEnds)
-----------------------------------------------------------------------------
Packets ==
    {Adv, Prf} \cup {Part(i) : i \in Parts} \cup {Hmu(s) : s \in Segments}
    \cup {Req(p, l) : p \in SUBSET Parts, l \in Parts \cup {NoMapHash}}

\* The type invariant.
TypeOK ==
    /\ sStatus \in SenderStatuses /\ sent \subseteq Parts /\ minHeight \in Nat
    /\ sRetries \in Nat /\ sWatchdog \in BOOLEAN
    /\ sCalls \in Nat /\ sTold \subseteq SenderStatuses
    /\ rStatus \in ReceiverStatuses /\ received \subseteq Parts /\ known \subseteq Parts
    /\ hashmapHeight \in Nat /\ outstanding \in Nat /\ waitingForHmu \in BOOLEAN
    /\ window \in [size : Nat, min : Nat, max : Nat] /\ rRetries \in Nat
    /\ assembly \in {"idle", "pending", "done"} /\ requests \in Nat
    /\ rCalls \in Nat /\ rTold \subseteq ReceiverStatuses
    /\ net \subseteq Packets /\ repeats \in Nat /\ linkUp \in BOOLEAN

\* However updates are repeated or overtake each other, the receiver's map has no
\* gap and ends with a whole segment, so the map hash that requestNextLockedAt
\* quotes is one the sender can continue from; and no part is received whose map
\* hash is unknown.
MapHasNoGap ==
    /\ known = 0 .. hashmapHeight - 1
    /\ received \subseteq known
    /\ hashmapHeight % HashmapMaxLen = 0 \/ hashmapHeight = TotalParts

\* The part the receiver needs next is among those it compares an arriving part
\* with, whatever timeouts have done to the window.  The comparison begins one
\* position early, so this fails as soon as the window shrinks to one.
NextPartIsSearched ==
    received # Parts => FirstMissing(received) \in SearchRange(received, window.size)

\* While the link is up a transfer never waits for its watchdog alone: there is a
\* part outstanding, a hashmap update asked for, or a goroutine that will ask or
\* assemble.  It is about the gate in ReceivePart that sends one request per round.
NeverIdle ==
    linkUp /\ rStatus = "transferring" =>
        \/ outstanding > 0 \/ waitingForHmu \/ requests > 0
        \/ assembly = "pending"

\* A late part, a late hashmap update, a timeout or a cancel never takes a resource
\* back that Assemble has completed, so the conclude callback reads COMPLETE.
ReceiverCompleteIsFinal == [][rStatus = "complete" => rStatus' = "complete"]_vars

\* A hashmap request never fails the transfer as a sequencing error, however late
\* it is, when the map has at most three segments.
NoSequencingError ==
    [][\A m \in net : m.type = "req" /\ sStatus # "failed" => ~Request(m) \/ sStatus' # "failed"]_vars

\* The transfer is all or nothing: see ResourceTransfer.
Transfer == INSTANCE ResourceTransfer WITH
    handed <- IF rStatus = "complete" THEN received ELSE {},
    confirmed <- "complete" \in sTold

ImplementsTransfer == Transfer!Spec

\* A receiver that accepted a transfer comes to an end of it, whatever is lost.
ReceiverSettles == rStatus = "transferring" ~> rStatus # "transferring"

\* What the comment of WatchdogJob calls a terminal state (status >= ASSEMBLING)
\* is not left again by the sender.
SenderCompleteIsFinal == [][sStatus = "complete" => sStatus' = "complete"]_vars

\* A missing part within the window that begins at the first missing position is
\* taken when it arrives, as the comment in ReceivePart has it.
WindowIsSearched ==
    [][\A i \in RequestRange(received, window.size) \ received :
          i \in known /\ rStatus = "transferring" /\ ReceivePart(i) => i \in received']_vars
=============================================================================
