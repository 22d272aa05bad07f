-------------------------------- MODULE Link --------------------------------
(***************************************************************************)
(* The life of one link, rns/link.go, at both of its ends, with the lists  *)
(* of links the two transports keep (rns/transport.go).                    *)
(*                                                                         *)
(* At each end three goroutines meet: the inbound drainer, which runs the  *)
(* packet handlers one after the other; the link's watchdog; and the       *)
(* application, which establishes the link and tears it down.  A step is   *)
(* one critical section of the link lock or the transport lock; a packet   *)
(* that a goroutine writes next, without taking a decision in between,     *)
(* goes with it.                                                           *)
(*                                                                         *)
(* net[e] is the set of kinds of packets under way to e.  A packet may be  *)
(* overtaken or never arrive; packetFilter lets none but keepalives in     *)
(* twice, so one that arrives is taken out.  Clocks are reduced to         *)
(* quiet[e]: nothing has been received for the stale time of the link.     *)
(* Payload is not told apart from keepalives: to the life of a link both   *)
(* are traffic.                                                            *)
(***************************************************************************)
EXTENDS Naturals

Ends == {"ini", "dst"}
Peer(e) == IF e = "ini" THEN "dst" ELSE "ini"

\* "echo" is the initiator's own keepalive come back over a shared medium.
Kinds == {"request", "proof", "rtt", "keepalive", "echo", "close"}

VARIABLES
    status,        \* Link.status; "none": the destination side does not exist yet
    reason,        \* Link.teardownReason
    table,         \* the list of the transport that holds the link
    watchdog,      \* where the watchdog goroutine stands
    stopWatchdog,  \* watchdogStop is closed
    drainer,       \* the handler the inbound drainer is in
    app,           \* the call the application is in
    quiet, net,
    established,   \* LinkEstablished has been called
    closedCalls    \* calls of LinkClosed

linkVars == <<status, reason, stopWatchdog, closedCalls, quiet>>
vars == <<linkVars, table, watchdog, drainer, app, net, established>>

Init ==
    /\ status = [ini |-> "pending", dst |-> "none"]
    /\ reason = [e \in Ends |-> "none"]
    /\ table = [e \in Ends |-> "none"]
    /\ watchdog = [e \in Ends |-> "off"]
    /\ stopWatchdog = [e \in Ends |-> FALSE]
    /\ drainer = [e \in Ends |-> "idle"]
    /\ app = [ini |-> "new", dst |-> "idle"]
    /\ quiet = [e \in Ends |-> FALSE]
    /\ net = [e \in Ends |-> {}]
    /\ established = [e \in Ends |-> FALSE]
    /\ closedCalls = [e \in Ends |-> 0]
-----------------------------------------------------------------------------
(***************************************************************************)
(* Link.send refuses on a closed link, and a transport that does not hold  *)
(* the link drops what it receives for it.                                 *)
(***************************************************************************)
Transmit(e, packet) ==
    net' = IF status[e] = "closed" \/ (table[Peer(e)] = "none" /\ packet # "request") THEN net
           ELSE [net EXCEPT ![Peer(e)] = @ \cup {packet}]

\* The closing critical section.  The application of the destination side can only
\* have set its LinkClosed callback once it was told of the link.
CloseWith(e, why) ==
    /\ status' = [status EXCEPT ![e] = "closed"]
    /\ reason' = [reason EXCEPT ![e] = why]
    /\ stopWatchdog' = [stopWatchdog EXCEPT ![e] = TRUE]
    /\ closedCalls' = IF e = "ini" \/ established[e] THEN [closedCalls EXCEPT ![e] = @ + 1]
                      ELSE closedCalls
    /\ quiet' = [quiet EXCEPT ![e] = FALSE]

\* (mutation) the closed state is not looked at
TeardownAgain(e, why) == CloseWith(e, why)

\* Link.teardown.
DoTeardown(e, why) == IF status[e] = "closed" THEN UNCHANGED linkVars ELSE CloseWith(e, why)

OwnReason(e) == IF e = "ini" THEN "initiatorClosed" ELSE "destinationClosed"
-----------------------------------------------------------------------------
(***************************************************************************)
(* The application.                                                        *)
(***************************************************************************)
\* Establish up to RegisterLink, then its l.send.
Establish ==
    /\ app["ini"] = "new"
    /\ table' = [table EXCEPT !["ini"] = "pending"]
    /\ watchdog' = [watchdog EXCEPT !["ini"] = "running"]
    /\ app' = [app EXCEPT !["ini"] = "requesting"]
    /\ UNCHANGED <<linkVars, drainer, net, established>>

SendRequest ==
    /\ app["ini"] = "requesting"
    /\ Transmit("ini", "request")
    /\ app' = [app EXCEPT !["ini"] = "idle"]
    /\ UNCHANGED <<linkVars, table, watchdog, drainer, established>>

\* Link.Teardown reads the status, writes the close packet, then closes; it does
\* nothing on a closed link.
Teardown(e) ==
    /\ app[e] = "idle" /\ (e = "ini" \/ established[e])
    /\ status[e] # "closed"
    /\ IF status[e] = "pending" THEN UNCHANGED net ELSE Transmit(e, "close")
    /\ app' = [app EXCEPT ![e] = "closing"]
    /\ UNCHANGED <<linkVars, table, watchdog, drainer, established>>

\* (mutation) the packet is sent and the link left as it is
TeardownSendsOnly(e) ==
    /\ app[e] = "closing"
    /\ app' = [app EXCEPT ![e] = "idle"]
    /\ UNCHANGED <<linkVars, table, watchdog, drainer, net, established>>

TeardownCloses(e) ==
    /\ app[e] = "closing"
    /\ DoTeardown(e, OwnReason(e))
    /\ app' = [app EXCEPT ![e] = "idle"]
    /\ UNCHANGED <<table, watchdog, drainer, net, established>>
-----------------------------------------------------------------------------
(***************************************************************************)
(* The inbound drainer.  A link request makes the destination side: its    *)
(* keys are derived, it is registered, its watchdog started, and the       *)
(* proof sent.                                                             *)
(***************************************************************************)
ValidateRequest ==
    /\ "request" \in net["dst"] /\ drainer["dst"] = "idle"
    /\ net' = [net EXCEPT !["dst"] = @ \ {"request"}]
    /\ status' = [status EXCEPT !["dst"] = "handshake"]
    /\ table' = [table EXCEPT !["dst"] = "pending"]
    /\ watchdog' = [watchdog EXCEPT !["dst"] = "running"]
    /\ drainer' = [drainer EXCEPT !["dst"] = "proving"]
    /\ UNCHANGED <<reason, stopWatchdog, closedCalls, quiet, app, established>>

Prove ==
    /\ drainer["dst"] = "proving"
    /\ Transmit("dst", "proof")
    /\ drainer' = [drainer EXCEPT !["dst"] = "idle"]
    /\ UNCHANGED <<linkVars, table, watchdog, app, established>>

\* (mutation) the initiator's own keepalive counts as a sign of life
CountsEcho(e, packet) == status[e] # "closed"

\* Link.receive: what counts as traffic resets the clock and revives a stale link.
Counts(e, packet) == status[e] # "closed" /\ packet # "echo"

\* deliverLinkProof looks at the status before it passes a proof on.  The initiator has
\* no more to do about a keepalive.
Receive(e, packet) ==
    /\ packet \in net[e] \ {"request"}
    /\ drainer[e] = "idle" /\ table[e] # "none"
    /\ net' = [net EXCEPT ![e] = @ \ {packet}]
    /\ IF packet = "proof" /\ status[e] # "pending"
       THEN UNCHANGED <<status, quiet, drainer>>
       ELSE /\ drainer' = IF e = "ini" /\ packet \in {"keepalive", "echo"} THEN drainer
                          ELSE [drainer EXCEPT ![e] = packet]
            /\ quiet' = IF Counts(e, packet) THEN [quiet EXCEPT ![e] = FALSE] ELSE quiet
            /\ status' = IF Counts(e, packet) /\ status[e] = "stale"
                         THEN [status EXCEPT ![e] = "active"] ELSE status
    /\ UNCHANGED <<reason, stopWatchdog, closedCalls, table, watchdog, app, established>>

\* (mutation) the status is not looked at again under the lock
ValidateProofUnchecked ==
    /\ drainer["ini"] = "proof"
    /\ status' = [status EXCEPT !["ini"] = "active"]
    /\ drainer' = [drainer EXCEPT !["ini"] = "activate"]
    /\ UNCHANGED <<reason, stopWatchdog, closedCalls, quiet, table, watchdog, app, net, established>>

ValidateProof ==
    /\ drainer["ini"] = "proof"
    /\ IF status["ini"] = "pending"
       THEN /\ status' = [status EXCEPT !["ini"] = "active"]
            /\ drainer' = [drainer EXCEPT !["ini"] = "activate"]
       ELSE drainer' = [drainer EXCEPT !["ini"] = "idle"] /\ UNCHANGED status
    /\ UNCHANGED <<reason, stopWatchdog, closedCalls, quiet, table, watchdog, app, net, established>>

\* The keys are derived, and with them the status changed, before the signature of the
\* proof is checked.
RejectProof ==
    /\ drainer["ini"] = "proof" /\ status["ini"] = "pending"
    /\ status' = [status EXCEPT !["ini"] = "handshake"]
    /\ drainer' = [drainer EXCEPT !["ini"] = "idle"]
    /\ UNCHANGED <<reason, stopWatchdog, closedCalls, quiet, table, watchdog, app, net, established>>

\* (mutation) the list is chosen by what the status is by then
ActivateByStatus(e) ==
    /\ drainer[e] = "activate"
    /\ table' = IF table[e] = "pending" THEN [table EXCEPT ![e] = status[e]] ELSE table
    /\ drainer' = [drainer EXCEPT ![e] = IF e = "ini" THEN "sendrtt" ELSE "callback"]
    /\ UNCHANGED <<linkVars, watchdog, app, net, established>>

\* TransportSystem.ActivateLink; then ValidateProof goes on to the RTT packet and both
\* sides to the callback.
ActivateLink(e) ==
    /\ drainer[e] = "activate"
    /\ table' = IF table[e] = "pending" THEN [table EXCEPT ![e] = "active"] ELSE table
    /\ drainer' = [drainer EXCEPT ![e] = IF e = "ini" THEN "sendrtt" ELSE "callback"]
    /\ UNCHANGED <<linkVars, watchdog, app, net, established>>

SendRTT ==
    /\ drainer["ini"] = "sendrtt"
    /\ Transmit("ini", "rtt")
    /\ drainer' = [drainer EXCEPT !["ini"] = IF status["ini"] = "closed" THEN "idle" ELSE "callback"]
    /\ UNCHANGED <<linkVars, table, watchdog, app, established>>

CallEstablished(e) ==
    /\ drainer[e] = "callback"
    /\ established' = [established EXCEPT ![e] = TRUE]
    /\ drainer' = [drainer EXCEPT ![e] = "idle"]
    /\ UNCHANGED <<linkVars, table, watchdog, app, net>>

\* HandleRTT looks at the status, lets go of the lock to decrypt, and takes it again.
HandleRTT ==
    /\ drainer["dst"] = "rtt"
    /\ drainer' = [drainer EXCEPT !["dst"] = IF status["dst"] = "handshake" THEN "decrypting" ELSE "idle"]
    /\ UNCHANGED <<linkVars, table, watchdog, app, net, established>>

ActivateFromRTT ==
    /\ drainer["dst"] = "decrypting"
    /\ status' = [status EXCEPT !["dst"] = "active"]
    /\ drainer' = [drainer EXCEPT !["dst"] = "activate"]
    /\ UNCHANGED <<reason, stopWatchdog, closedCalls, quiet, table, watchdog, app, net, established>>

\* An RTT packet that does not decode tears the link down, from the drainer.
RejectRTT ==
    /\ drainer["dst"] = "decrypting"
    /\ Transmit("dst", "close")
    /\ drainer' = [drainer EXCEPT !["dst"] = "rejected"]
    /\ UNCHANGED <<linkVars, table, watchdog, app, established>>

CloseRejected ==
    /\ drainer["dst"] = "rejected"
    /\ DoTeardown("dst", OwnReason("dst"))
    /\ drainer' = [drainer EXCEPT !["dst"] = "idle"]
    /\ UNCHANGED <<table, watchdog, app, net, established>>

\* A close packet cannot be read by a closed link, nor before the keys are derived.
HandleClose(e) ==
    /\ drainer[e] = "close"
    /\ IF status[e] \in {"closed", "pending"} THEN UNCHANGED linkVars
       ELSE DoTeardown(e, OwnReason(Peer(e)))
    /\ drainer' = [drainer EXCEPT ![e] = "idle"]
    /\ UNCHANGED <<table, watchdog, app, net, established>>

\* The destination side answers a keepalive, unless it has sent something lately.
HandleKeepalive(answer) ==
    /\ drainer["dst"] = "keepalive"
    /\ IF answer THEN Transmit("dst", "keepalive") ELSE UNCHANGED net
    /\ drainer' = [drainer EXCEPT !["dst"] = "idle"]
    /\ UNCHANGED <<linkVars, table, watchdog, app, established>>
-----------------------------------------------------------------------------
(***************************************************************************)
(* The watchdog.                                                           *)
(***************************************************************************)
WatchdogTimeout(e) ==
    /\ watchdog[e] = "running"
    /\ status[e] \in {"pending", "handshake"}
    /\ CloseWith(e, "timeout")
    /\ UNCHANGED <<table, watchdog, drainer, app, net, established>>

\* sendKeepalive; over a shared medium the sender hears it too.
SendKeepalive(e) ==
    net' = [net EXCEPT ![Peer(e)] = IF table[Peer(e)] = "none" THEN @ ELSE @ \cup {"keepalive"},
                       ![e] = @ \cup {"echo"}]

\* An active link is marked stale once it is quiet; the initiator sends a keepalive
\* when one is due.
WatchdogActive(e, due) ==
    /\ watchdog[e] = "running"
    /\ status[e] = "active" /\ (due => e = "ini")
    /\ status' = IF quiet[e] THEN [status EXCEPT ![e] = "stale"] ELSE status
    /\ quiet' = [quiet EXCEPT ![e] = FALSE]
    /\ IF due THEN SendKeepalive(e) ELSE UNCHANGED net
    /\ UNCHANGED <<reason, stopWatchdog, closedCalls, table, watchdog, drainer, app, established>>

\* A stale link is given up: the lock is dropped to tell the peer, taken again to close.
WatchdogStale(e) ==
    /\ watchdog[e] = "running" /\ status[e] = "stale"
    /\ Transmit(e, "close")
    /\ watchdog' = [watchdog EXCEPT ![e] = "closing"]
    /\ UNCHANGED <<linkVars, table, drainer, app, established>>

WatchdogCloses(e) ==
    /\ watchdog[e] = "closing"
    /\ DoTeardown(e, "timeout")
    /\ watchdog' = [watchdog EXCEPT ![e] = "running"]
    /\ UNCHANGED <<table, drainer, app, net, established>>

\* watchdogJob returns when it sees the closed status or the closed channel.
WatchdogExit(e) ==
    /\ watchdog[e] = "running"
    /\ status[e] = "closed" \/ stopWatchdog[e]
    /\ watchdog' = [watchdog EXCEPT ![e] = "exited"]
    /\ UNCHANGED <<linkVars, table, drainer, app, net, established>>
-----------------------------------------------------------------------------
\* (mutation) only links that became active are looked at
PruneActiveOnly(e) ==
    /\ table[e] = "active" /\ status[e] = "closed"
    /\ table' = [table EXCEPT ![e] = "none"]
    /\ net' = [net EXCEPT ![e] = {}]
    /\ UNCHANGED <<linkVars, watchdog, drainer, app, established>>

\* (mutation) a link whose status is no longer pending has no business in the pending list
PruneUnlisted(e) ==
    /\ table[e] # "none" /\ (status[e] = "closed" \/ (table[e] = "pending" /\ status[e] = "active"))
    /\ table' = [table EXCEPT ![e] = "none"]
    /\ net' = [net EXCEPT ![e] = {}]
    /\ UNCHANGED <<linkVars, watchdog, drainer, app, established>>

\* processPendingLinks drops closed links from both lists; what is still under way to
\* such a link will find none.
Prune(e) ==
    /\ table[e] # "none" /\ status[e] = "closed"
    /\ table' = [table EXCEPT ![e] = "none"]
    /\ net' = [net EXCEPT ![e] = {}]
    /\ UNCHANGED <<linkVars, watchdog, drainer, app, established>>

\* Activation and every counted packet start the clock again.
TimePasses(e) ==
    /\ status[e] = "active" /\ ~quiet[e]
    /\ quiet' = [quiet EXCEPT ![e] = TRUE]
    /\ UNCHANGED <<status, reason, stopWatchdog, closedCalls, table, watchdog, drainer, app, net,
                   established>>

App(e) == Teardown(e) \/ TeardownCloses(e)

Handlers(e) == ActivateLink(e) \/ CallEstablished(e) \/ HandleClose(e)

InitiatorHandlers == ValidateProof \/ RejectProof \/ SendRTT

DestinationHandlers ==
    \/ Prove \/ HandleRTT \/ ActivateFromRTT \/ RejectRTT \/ CloseRejected
    \/ \E answer \in BOOLEAN : HandleKeepalive(answer)

Watchdog(e) ==
    \/ WatchdogTimeout(e) \/ WatchdogStale(e) \/ WatchdogCloses(e) \/ WatchdogExit(e)
    \/ \E due \in BOOLEAN : WatchdogActive(e, due)

Next ==
    \/ Establish \/ SendRequest \/ ValidateRequest
    \/ InitiatorHandlers \/ DestinationHandlers
    \/ \E e \in Ends : \/ App(e) \/ Handlers(e)
                       \/ Watchdog(e) \/ Prune(e) \/ TimePasses(e)
                       \/ \E packet \in Kinds : Receive(e, packet)

Spec == Init /\ [][Next]_vars

\* Goroutines run: a call of Teardown and a handler come to their end, the watchdog
\* keeps looking, the transport's job keeps pruning, and time passes.  That the
\* application calls, or that the network delivers, is left open.
FairSpec ==
    /\ Spec
    /\ WF_vars(InitiatorHandlers) /\ WF_vars(DestinationHandlers)
    /\ \A e \in Ends : /\ WF_vars(Handlers(e)) /\ WF_vars(Watchdog(e))
                       /\ WF_vars(TeardownCloses(e))
                       /\ WF_vars(Prune(e)) /\ WF_vars(TimePasses(e))
-----------------------------------------------------------------------------
(***************************************************************************)
(* Properties.                                                             *)
(***************************************************************************)
Statuses == {"none", "pending", "handshake", "active", "stale", "closed"}
Reasons == {"none", "timeout", "initiatorClosed", "destinationClosed"}
DrainerStates == Kinds \cup {"idle", "proving", "activate", "sendrtt", "callback", "decrypting",
                             "rejected"}

\* Every field of the two ends, their goroutines and the network has its type.
TypeOK ==
    /\ status \in [Ends -> Statuses] /\ reason \in [Ends -> Reasons]
    /\ table \in [Ends -> {"none", "pending", "active"}]
    /\ watchdog \in [Ends -> {"off", "running", "closing", "exited"}]
    /\ stopWatchdog \in [Ends -> BOOLEAN]
    /\ drainer \in [Ends -> DrainerStates]
    /\ app \in [Ends -> {"new", "requesting", "idle", "closing"}]
    /\ quiet \in [Ends -> BOOLEAN] /\ net \in [Ends -> SUBSET Kinds]
    /\ established \in [Ends -> BOOLEAN] /\ closedCalls \in [Ends -> Nat]

\* Once the initiator's link is closed no late proof or other packet, and no step of the
\* watchdog, brings it back: ValidateProof looks at the status again under the lock.
InitiatorStaysClosed == [][status["ini"] = "closed" => status'["ini"] = "closed"]_vars

\* However application, watchdog, close packets and a failed handshake race to close a
\* link, its LinkClosed callback is called at most once.
ClosedCalledOnce == \A e \in Ends : closedCalls[e] <= 1

\* An initiator's link in use is in the list ActivateLink moves it to, so FindLink finds
\* it: no prune between the two steps of ValidateProof loses it.
InitiatorTracked ==
    status["ini"] \in {"active", "stale"} /\ drainer["ini"] # "activate" => table["ini"] = "active"

\* The inductive invariants behind the two: what each handler may rely on.
TrackedInv ==
    /\ app["ini"] = "new" => /\ status["ini"] = "pending" /\ table["ini"] = "none"
                             /\ watchdog["ini"] = "off" /\ drainer["ini"] = "idle"
    /\ app["ini"] # "new" /\ status["ini"] # "closed" => table["ini"] # "none"
    /\ drainer["ini"] = "activate" => status["ini"] \in {"active", "stale", "closed"}
    /\ InitiatorTracked

\* A destination side is made once, and only told to its application when it can no
\* longer be activated.
CalledInv ==
    /\ app["ini"] \in {"new", "requesting"} => status["dst"] = "none" /\ net["dst"] = {}
    /\ "request" \in net["dst"] => status["dst"] = "none"
    /\ status["dst"] = "none" => /\ drainer["dst"] = "idle" /\ table["dst"] = "none"
                                 /\ watchdog["dst"] = "off" /\ ~established["dst"]
    /\ app["dst"] # "idle" => established["dst"]
    /\ status["dst"] = "handshake" => ~established["dst"]
    /\ drainer["dst"] = "decrypting" => ~established["dst"]
    /\ drainer["dst"] \in {"activate", "callback"} => status["dst"] # "handshake"
    /\ ~established["dst"] => closedCalls["dst"] = 0
    /\ \A e \in Ends : status[e] # "closed" => closedCalls[e] = 0
    /\ ClosedCalledOnce

\* Once the application of the destination side has been told of a link, a link that
\* is closed stays so: only HandleRTT, which decrypts without the lock, can revive one,
\* and by then it has not called LinkEstablished.
ToldStaysClosed ==
    [][status["dst"] = "closed" /\ established["dst"] => status'["dst"] = "closed"]_vars

\* The end has closed, or one of its goroutines has told the peer and is about to.
Closing(e) ==
    \/ status[e] = "closed" \/ app[e] = "closing" \/ watchdog[e] = "closing"
    \/ drainer[e] = "rejected"

\* An end that gives its peer's closing as the reason is right, whoever closed the link
\* there, in whatever order: Teardown, the watchdog or a failed handshake.
CloseIsHonest == \A e \in Ends : reason[e] = OwnReason(Peer(e)) => Closing(Peer(e))

\* What the other end may know of the closing of e.
Announced(e) ==
    "close" \in net[Peer(e)] \/ drainer[Peer(e)] = "close" \/ reason[Peer(e)] = OwnReason(e)

\* The inductive invariant behind it: the destination side announces no closing that a
\* handshake still going on could undo.
HonestInv ==
    /\ \A e \in Ends : Announced(e) => Closing(e)
    /\ drainer["dst"] = "decrypting" => status["dst"] \in {"handshake", "closed"} /\ ~Announced("dst")
    /\ status["dst"] \in {"none", "handshake"} /\ Announced("dst") => drainer["dst"] = "rejected"

\* If the destination side is gone for good the initiator notices and closes too, also
\* when the close packet is lost and it hears its own keepalives.
DeadPeerNoticed == <>[](status["dst"] = "closed") => <>(status["ini"] = "closed")

\* processPendingLinks rids the transport of every link that stays closed, also when
\* it is activated in the middle of being closed.
ClosedIsForgotten ==
    \A e \in Ends : <>[](status[e] = "closed") => <>[](table[e] = "none")

\* An end that takes its peer's word that the link is closed is right: the peer closes,
\* even if traffic revives it after it has written the close packet.
CloseIsMutual ==
    \A e \in Ends : reason[e] = OwnReason(Peer(e)) ~> status[Peer(e)] = "closed"

\* A closed link never revives, at either end.
ClosedIsFinal ==
    [][\A e \in Ends : status[e] = "closed" => status'[e] = "closed"]_vars

\* The watchdog does not give up a link whose traffic has resumed.
WatchdogSparesActive ==
    [][\A e \in Ends : status[e] = "active" /\ status'[e] = "closed" => reason'[e] # "timeout"]_vars
=============================================================================
