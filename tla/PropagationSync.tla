--------------------------- MODULE PropagationSync ---------------------------
(***************************************************************************)
(* An LXMF client that downloads its messages from a propagation node       *)
(* (lxmf/router.go): RequestMessagesFromPropagationNode asks for a list,    *)
(* messageListResponse asks for the copies it lacks and reports those it    *)
(* has, messageGetResponse hands each payload over and acknowledges them    *)
(* all, whereupon the node deletes them.                                    *)
(*                                                                          *)
(* Nothing keeps two of these exchanges apart: every call of the API starts *)
(* another one on the same link, and rns runs each response callback in a   *)
(* goroutine of its own.  Sessions names the ones that may run at a time.   *)
(* They share the two duplicate caches.                                     *)
(***************************************************************************)
EXTENDS PropagationNode

CONSTANTS
    Messages,       \* the messages the copies hold
    MessageIn,      \* MessageIn[c]: the message of copy c
    Undecryptable,  \* copies it cannot decrypt or unpack
    Ignored,        \* messages from a blackholed or ignored source
    Sessions,       \* exchanges that may run at the same time
    NoCopy,         \* no copy in a handler's hands
    MaxStops        \* bound on crashes and restarts of the client

ASSUME SyncAssumption ==
    /\ MessageIn \in [Copies -> Messages]
    /\ Undecryptable \subseteq Copies
    /\ Ignored \subseteq Messages
    /\ Copies \intersect Messages = {}
    /\ NoCopy \notin Copies
    /\ MaxStops \in Nat

VARIABLES
    processed,      \* locallyProcessedIDs: copies
    delivered,      \* locallyDeliveredIDs: copies and message hashes
    processedFile,  \* the files the two caches are saved to
    deliveredFile,
    calls,          \* calls[m]: times the delivery callback got message m
    abandoned,      \* messages in a handler's hands when the process stopped
    crashes,        \* how often it crashed,
    closes,         \* and how often it was closed and started again
    session,        \* the exchanges, see SessionType
    acks            \* purge requests sent and not handled; a lost one stays

cacheVars == <<processed, delivered, processedFile, deliveredFile>>
appVars == <<calls, abandoned, crashes, closes>>
vars == <<nodeVars, cacheVars, appVars, session, acks>>

(***************************************************************************)
(* An exchange: the request it waits for or what its callback is about to   *)
(* do; the copies it is about; those it will report to the node; the copy   *)
(* it holds.                                                                *)
(***************************************************************************)
Phases == {"idle", "listing", "listed", "getting", "working", "holding",
           "calling", "told", "saving"}
SessionType == [phase : Phases, todo : SUBSET (Copies \union Messages),
                haves : SUBSET Copies, hand : Copies \union {NoCopy}]

Exchange(phase, todo, haves, hand) ==
    [phase |-> phase, todo |-> todo, haves |-> haves, hand |-> hand]

Idle == Exchange("idle", {}, {}, NoCopy)

Init ==
    /\ NodeInit
    /\ processed = {} /\ processedFile = {}
    /\ delivered = {} /\ deliveredFile = {}
    /\ calls = [m \in Messages |-> 0]
    /\ abandoned = {}
    /\ crashes = 0 /\ closes = 0
    /\ session = [s \in Sessions |-> Idle]
    /\ acks = {}

Become(s, next) == session' = [session EXCEPT ![s] = next]

-----------------------------------------------------------------------------
(* An exchange, up to the payloads. *)

(* RequestMessagesFromPropagationNode on an active link sends the list      *)
(* request.  How the link comes about is left out.                          *)
Begin(s) ==
    /\ session[s].phase = "idle"
    /\ Become(s, Exchange("listing", {}, {}, NoCopy))
    /\ UNCHANGED <<nodeVars, cacheVars, appVars, acks>>

(***************************************************************************)
(* The link goes: it closes, or messageGetFailed or an error code of the    *)
(* node tears it down.  Requests without an answer fail, a list that        *)
(* arrived cannot be acted on, and a handler of payloads carries on.        *)
(***************************************************************************)
LinkLost ==
    /\ session' = [s \in Sessions |->
                     IF session[s].phase \in {"listing", "listed", "getting"}
                     THEN Idle ELSE session[s]]
    /\ UNCHANGED <<nodeVars, cacheVars, appVars, acks>>

(* messageGetRequest without wants and haves: the copies for this client. *)
NodeLists(s) ==
    /\ session[s].phase = "listing"
    /\ Become(s, Exchange("listed", entries, {}, NoCopy))
    /\ UNCHANGED <<nodeVars, cacheVars, appVars, acks>>

(***************************************************************************)
(* messageListResponse: copies delivered before are reported as had, unless *)
(* they are to stay on the node, and the others are asked for; the limit    *)
(* on their number is left to NodeServes.                                   *)
(***************************************************************************)
ListEmpty(s) ==
    /\ session[s].phase = "listed"
    /\ session[s].todo = {}
    /\ Become(s, Idle)
    /\ UNCHANGED <<nodeVars, cacheVars, appVars, acks>>

AskForMessages(s, retainSynced) ==
    /\ session[s].phase = "listed"
    /\ session[s].todo # {}
    /\ Become(s, Exchange("getting", session[s].todo \ delivered,
                          IF retainSynced THEN {}
                          ELSE session[s].todo \intersect delivered,
                          NoCopy))
    /\ UNCHANGED <<nodeVars, cacheVars, appVars, acks>>

\* Mutation: the node forgets what it hands out, not what is acknowledged.
NodeServesOnce(s, served, removed) ==
    /\ session[s].phase = "getting"
    /\ served \subseteq (entries \ session[s].haves) \intersect session[s].todo
    /\ Purge(session[s].haves \union served, removed)
    /\ Become(s, Exchange("working", served, {}, NoCopy))
    /\ UNCHANGED <<cacheVars, appVars, acks>>

(***************************************************************************)
(* messageGetRequest: purge the haves, then answer with the wanted copies   *)
(* within the limits on their number and size.                              *)
(***************************************************************************)
NodeServes(s, served, removed) ==
    /\ session[s].phase = "getting"
    /\ Purge(session[s].haves, removed)
    /\ served \subseteq (entries \ session[s].haves) \intersect session[s].todo
    /\ Become(s, Exchange("working", served, {}, NoCopy))
    /\ UNCHANGED <<cacheVars, appVars, acks>>

(* ... and for the acknowledgement, of which nothing is asked. *)
NodePurges(haves, removed) ==
    /\ haves \in acks
    /\ acks' = acks \ {haves}
    /\ Purge(haves, removed)
    /\ UNCHANGED <<cacheVars, appVars, session>>

-----------------------------------------------------------------------------
(* messageGetResponse, one payload after the other. *)

(***************************************************************************)
(* handlePropagatedInbound, first critical section: a processed copy is a   *)
(* duplicate; any other is marked processed, and held if it can be          *)
(* decrypted.                                                               *)
(***************************************************************************)
TakePayload(s, c) ==
    /\ session[s].phase = "working"
    /\ c \in session[s].todo
    /\ processed' = processed \union {c}
    /\ LET left == session[s].todo \ {c}
       IN Become(s, IF c \in Undecryptable \/ Unprocessed({c}, {}, processed) = {}
                    THEN Exchange("working", left, session[s].haves \union {c}, NoCopy)
                    ELSE Exchange("holding", left, session[s].haves, c))
    /\ UNCHANGED <<nodeVars, delivered, processedFile, deliveredFile, appVars,
                   acks>>

\* Mutation: the message hash is looked up but marked only with the copy.
MarkMessageLater(s) ==
    /\ session[s].phase = "holding"
    /\ Become(s, Exchange(IF MessageIn[session[s].hand] \in delivered
                               \/ MessageIn[session[s].hand] \in Ignored
                          THEN "told" ELSE "calling",
                          session[s].todo, session[s].haves, session[s].hand))
    /\ UNCHANGED <<nodeVars, cacheVars, appVars, acks>>

(***************************************************************************)
(* handleInboundMessage: a message from an ignored source is dropped, of    *)
(* any other the hash is looked up and marked at once.                      *)
(***************************************************************************)
MarkMessage(s) ==
    /\ session[s].phase = "holding"
    /\ LET m == MessageIn[session[s].hand]
       IN /\ delivered' = delivered \union ({m} \ Ignored)
          /\ Become(s, Exchange(IF m \in delivered \union Ignored THEN "told" ELSE "calling",
                                session[s].todo, session[s].haves, session[s].hand))
    /\ UNCHANGED <<nodeVars, processed, processedFile, deliveredFile, appVars,
                   acks>>

Callback(s) ==
    /\ session[s].phase = "calling"
    /\ calls' = [calls EXCEPT ![MessageIn[session[s].hand]] = @ + 1]
    /\ Become(s, Exchange("told", session[s].todo, session[s].haves, session[s].hand))
    /\ UNCHANGED <<nodeVars, cacheVars, abandoned, crashes, closes, acks>>

\* Mutation: the copy stays in hand after it is marked.
MarkCopyAndKeepIt(s) ==
    /\ session[s].phase = "told"
    /\ delivered' = delivered \union {session[s].hand}
    /\ Become(s, Exchange("working", session[s].todo,
                          session[s].haves \union {session[s].hand}, session[s].hand))
    /\ UNCHANGED <<nodeVars, processed, processedFile, deliveredFile, appVars,
                   acks>>

MarkCopy(s) ==
    /\ session[s].phase = "told"
    /\ delivered' = delivered \union {session[s].hand}
    /\ Become(s, Exchange("working", session[s].todo,
                          session[s].haves \union {session[s].hand}, NoCopy))
    /\ UNCHANGED <<nodeVars, processed, processedFile, deliveredFile, appVars,
                   acks>>

(***************************************************************************)
(* The end of messageGetResponse: every payload is acknowledged, the sync   *)
(* is complete, and the delivered IDs are copied under the lock ...  An     *)
(* acknowledgement the link no longer takes is one that gets lost.          *)
(***************************************************************************)
Reported(s) == session[s].haves

Complete(s) ==
    /\ session[s].phase = "working"
    /\ session[s].todo = {}
    /\ acks' = IF Reported(s) = {} THEN acks ELSE acks \union {Reported(s)}
    /\ Become(s, Exchange("saving", delivered, {}, NoCopy))
    /\ UNCHANGED <<nodeVars, cacheVars, appVars>>

(* ... and written to their file without it, unless there are none. *)
Save(s) ==
    /\ session[s].phase = "saving"
    /\ deliveredFile' = IF session[s].todo = {} THEN deliveredFile
                        ELSE session[s].todo
    /\ Become(s, Idle)
    /\ UNCHANGED <<nodeVars, processed, delivered, processedFile, appVars, acks>>

-----------------------------------------------------------------------------
(* The client process. *)

InHand(s) == IF session[s].phase \in {"holding", "calling"}
             THEN {MessageIn[session[s].hand]} ELSE {}
AllInHand == UNION {InHand(s) : s \in Sessions}

(* A new process: its caches come from the files, everything else is gone. *)
StartAgain ==
    /\ crashes + closes < MaxStops
    /\ processed' = processedFile'
    /\ delivered' = deliveredFile'
    /\ abandoned' = abandoned \union AllInHand
    /\ session' = [s \in Sessions |-> Idle]
    /\ UNCHANGED <<nodeVars, calls, acks>>

Crash ==
    /\ crashes' = crashes + 1
    /\ UNCHANGED <<processedFile, deliveredFile, closes>>
    /\ StartAgain

(***************************************************************************)
(* Close saves both caches and the process ends.  Close waits for the       *)
(* goroutines of deliveryPacket, not for those of messageGetResponse.       *)
(***************************************************************************)
SavedOr(ids, old) == IF ids = {} THEN old ELSE ids

CloseAndStart ==
    /\ processedFile' = SavedOr(processed, processedFile)
    /\ deliveredFile' = SavedOr(delivered, deliveredFile)
    /\ closes' = closes + 1
    /\ UNCHANGED crashes
    /\ StartAgain

ClientUnchanged ==
    UNCHANGED <<cacheVars, appVars, session, acks>>

Handler(s) ==
    \/ ListEmpty(s)
    \/ \E retainSynced \in BOOLEAN : AskForMessages(s, retainSynced)
    \/ \E c \in Copies : TakePayload(s, c)
    \/ MarkMessage(s)
    \/ Callback(s)
    \/ MarkCopy(s)
    \/ Complete(s)
    \/ Save(s)

Next ==
    \/ NodeNext /\ ClientUnchanged
    \/ \E s \in Sessions : Begin(s)
    \/ LinkLost
    \/ \E s \in Sessions : NodeLists(s)
    \/ \E s \in Sessions, served \in SUBSET Copies, removed \in BOOLEAN :
          NodeServes(s, served, removed)
    \/ \E haves \in acks, removed \in BOOLEAN : NodePurges(haves, removed)
    \/ \E s \in Sessions : Handler(s)
    \/ Crash
    \/ CloseAndStart

Spec == Init /\ [][Next]_vars

-----------------------------------------------------------------------------
IgnoredCopies == {c \in Copies : MessageIn[c] \in Ignored}

\* The type invariant: every variable keeps to the values the code can give it.
TypeOK ==
    /\ NodeTypeOK
    /\ processed \subseteq Copies /\ processedFile \subseteq Copies
    /\ delivered \subseteq Copies \union Messages
    /\ deliveredFile \subseteq Copies \union Messages
    /\ calls \in [Messages -> Nat]
    /\ abandoned \subseteq Messages
    /\ crashes + closes \in 0 .. MaxStops
    /\ session \in [Sessions -> SessionType]
    /\ \A s \in Sessions : session[s].phase \in {"holding", "calling", "told"}
                             <=> session[s].hand # NoCopy
    /\ acks \subseteq SUBSET Copies

(***************************************************************************)
(* A message the node accepted is not lost: it is still on the node, or was *)
(* handed to the application, or is in the hands of a handler, unless the   *)
(* node itself gave the copy up, it cannot be decrypted or is ignored, or   *)
(* the process stopped with the message in hand.  The node deletes what     *)
(* messageGetResponse and messageListResponse report                        *)
(* (lxmf/router.go:1580), and both report copies they never handed over:    *)
(* duplicates by transient ID and by message hash.                          *)
(***************************************************************************)
NothingIsLost ==
    \A c \in stored \ (dropped \union Undecryptable \union IgnoredCopies) :
        \/ c \in entries \union files
        \/ calls[MessageIn[c]] > 0
        \/ MessageIn[c] \in AllInHand \union abandoned

(***************************************************************************)
(* The application sees a message twice only if the client crashed: the     *)
(* check and mark of handleInboundMessage (lxmf/router.go:4623) holds for   *)
(* overlapping exchanges, for two copies of the message, across a Close,    *)
(* and however the saves of the delivered IDs overtake each other.          *)
(***************************************************************************)
RepeatedOnlyAfterCrash == \A m \in Messages : calls[m] <= 1 + crashes

(***************************************************************************)
(* The delivery callback is given nothing else: a message it got came in a  *)
(* copy the node had accepted and this client could decrypt, and not from   *)
(* an ignored source, whichever exchange fetched it and whatever caches a   *)
(* new process began with.                                                  *)
(***************************************************************************)
OnlyWhatWasStored ==
    \A m \in Messages : calls[m] > 0 =>
        /\ m \notin Ignored
        /\ \E c \in stored \ Undecryptable : MessageIn[c] = m

(***************************************************************************)
(* "Wait for in-flight delivery goroutines to finish before tearing down    *)
(* state; ... this drains the remaining set deterministically"              *)
(* (lxmf/router.go:4868): as long as the client is only ever closed, never  *)
(* killed, no message is lost.  Close does not wait for the goroutines of   *)
(* messageGetResponse and saves the copy they hold as processed.            *)
(***************************************************************************)
CloseLosesNothing ==
    crashes = 0 =>
        \A c \in stored \ (dropped \union Undecryptable \union IgnoredCopies) :
            \/ c \in entries \union files
            \/ calls[MessageIn[c]] > 0
            \/ MessageIn[c] \in AllInHand
=============================================================================
