------------------------------- MODULE Paths -------------------------------
(***************************************************************************)
(* How a network of transport nodes learns the way to one destination      *)
(* (transport.go): announces that flood from the node that hosts it, path  *)
(* requests that are answered or relayed, and the path responses that      *)
(* travel back.  Every table of a node is keyed by the destination, so one *)
(* destination is modelled.                                                *)
(*                                                                         *)
(* An interface of a node is its link to one neighbour.  A node handles    *)
(* its packets one at a time (inboundDrainer); its maintenance loop and    *)
(* its link timeouts run beside that.  A frame that was sent stays on the  *)
(* wire: it may be received late, again, after a newer one, or never.  So  *)
(* a frame that an interface's mode, its announce queue or an ingress      *)
(* limit withholds or delays needs no step of its own.                     *)
(***************************************************************************)
EXTENDS PathTable

CONSTANTS
    Home,           \* the node that hosts the destination
    Links,          \* the two-element sets of nodes that are neighbours
    Distance,       \* Distance[n]: links between n and Home
    Tags,           \* bound: the path requests that are made
    Requestor,      \* Requestor[t]: the node whose request carries tag t
    Fickle,         \* bound: the nodes that lose or give up a path, once
    NoEntry         \* no entry in the announce table

localRebroadcastsMax == 2
pathfinderRetries == 1

AnnounceEntries == [emission : Emissions, hops : 0..MaxHops,
                    retries : 0..pathfinderRetries,
                    heard : 0..localRebroadcastsMax]

ASSUME NetworkAssumption ==
    /\ Home \in Nodes
    /\ Links \subseteq SUBSET Nodes
    /\ Distance \in [Nodes -> Nat]
    /\ Distance[Home] = 0
    /\ \A n, m \in Nodes : {n, m} \in Links => Distance[n] <= Distance[m] + 1
    /\ Fickle \subseteq Nodes
    /\ Requestor \in [Tags -> Nodes \ {Home}]
    /\ NoEntry \notin AnnounceEntries

AnnounceEntry(e, hops, retries, heard) ==
    [emission |-> e, hops |-> hops, retries |-> retries, heard |-> heard]

VARIABLES
    path,           \* path[n]: pathTable
    queued,         \* queued[n]: announceTable
    asked,          \* asked[n]: pendingPathRequests, the interfaces that asked
    inflight,       \* inflight[n]: inflightPathRequests
    tags,           \* tags[n]: discoveryPRTagsSet and discoveryPRTagsPrev
    emitted,        \* the announces the destination emitted so far
    announces,      \* announce frames on the wire
    requests,       \* path request frames on the wire
    gaveUp          \* history: nodes whose path aged out or went unresponsive

vars == <<path, queued, asked, inflight, tags, emitted,
          announces, requests, gaveUp>>

Neighbours(n) == {m \in Nodes : {n, m} \in Links}

(***************************************************************************)
(* Frames.  What a node sends on is framed with its own identity as the    *)
(* transport, so the next hop of an announce is its sender; Home's own     *)
(* announces carry none, and then the next hop is the destination itself.  *)
(***************************************************************************)
Announce(from, to, e, hops, response, relayed) ==
    [from |-> from, to |-> to, emission |-> e, hops |-> hops,
     response |-> response, relayed |-> relayed]

Request(from, to, t) == [from |-> from, to |-> to, tag |-> t]

Transported(k) == k.from # Home

Init ==
    /\ path = [n \in Nodes |-> NoPath]
    /\ queued = [n \in Nodes |-> NoEntry]
    /\ asked = [n \in Nodes |-> {}]
    /\ inflight = [n \in Nodes |-> FALSE]
    /\ tags = [n \in Nodes |-> {}]
    /\ emitted = 0
    /\ announces = {}
    /\ requests = {}
    /\ gaveUp = {}

(***************************************************************************)
(* The destination announces itself.                                       *)
(***************************************************************************)
HomeAnnounces ==
    /\ emitted < MaxEmissions
    /\ emitted' = emitted + 1
    /\ announces' = announces \cup
           {Announce(Home, m, emitted + 1, 0, FALSE, FALSE) : m \in Neighbours(Home)}
    /\ UNCHANGED <<path, queued, asked, inflight, tags, requests, gaveUp>>

(***************************************************************************)
(* RequestPath: a request with a fresh tag and the node's own identity     *)
(* goes out on every interface.  The tag is not remembered by the node     *)
(* that made it.                                                           *)
(***************************************************************************)
RequestPath(t) ==
    /\ requests' = requests \cup
           {Request(Requestor[t], m, t) : m \in Neighbours(Requestor[t])}
    /\ UNCHANGED <<path, queued, asked, inflight, tags, emitted, announces, gaveUp>>

(***************************************************************************)
(* handlePathRequest and, when it does not consume the request,            *)
(* forwardPathRequest.                                                     *)
(***************************************************************************)
FirstSeen(n, r) ==
    /\ r.tag \notin tags[n]
    /\ tags' = [tags EXCEPT ![n] = @ \cup {r.tag}]

(* A request for this destination is in flight already. *)
BatchRequest(n, r) ==
    /\ FirstSeen(n, r)
    /\ inflight[n]
    /\ UNCHANGED <<path, queued, asked, inflight, emitted,
                   announces, requests, gaveUp>>

(* The destination is local: a new announce goes back as a path response. *)
AnswerLocally(n, r) ==
    /\ FirstSeen(n, r)
    /\ ~inflight[n]
    /\ n = Home
    /\ emitted < MaxEmissions
    /\ emitted' = emitted + 1
    /\ announces' = announces \cup {Announce(n, r.from, emitted + 1, 0, TRUE, FALSE)}
    /\ UNCHANGED <<path, queued, asked, inflight, requests, gaveUp>>

(* A path is known: the cached announce goes back, with this node as the   *)
(* next hop, unless the next hop is the requestor itself.                  *)
AnswerFromCache(n, r) ==
    /\ FirstSeen(n, r)
    /\ ~inflight[n]
    /\ n # Home
    /\ path[n] # NoPath
    /\ announces' =
           IF path[n].via = Requestor[r.tag] THEN announces
           ELSE announces \cup {Announce(n, r.from, path[n].emission,
                                         path[n].hops, TRUE, FALSE)}
    /\ UNCHANGED <<path, queued, asked, inflight, emitted, requests, gaveUp>>

(* No path is known: the sender is recorded and the request is relayed as  *)
(* it came, with the requestor's identity, on all other interfaces.        *)
RelayRequest(n, r) ==
    /\ FirstSeen(n, r)
    /\ ~inflight[n]
    /\ n # Home
    /\ path[n] = NoPath
    /\ inflight' = [inflight EXCEPT ![n] = TRUE]
    /\ asked' = [asked EXCEPT ![n] = @ \cup {r.from}]
    /\ requests' = requests \cup
           {Request(n, m, r.tag) : m \in Neighbours(n) \ {r.from}}
    /\ UNCHANGED <<path, queued, emitted, announces, gaveUp>>

(* The same, but the interface is limiting path requests: the request goes *)
(* no further and yet counts as being in flight.                           *)
LimitRequest(n, r) ==
    /\ FirstSeen(n, r)
    /\ ~inflight[n]
    /\ n # Home
    /\ path[n] = NoPath
    /\ inflight' = [inflight EXCEPT ![n] = TRUE]
    /\ UNCHANGED <<path, queued, asked, emitted, announces, requests, gaveUp>>

HandlePathRequest(n, r) ==
    \/ BatchRequest(n, r)
    \/ AnswerLocally(n, r)
    \/ AnswerFromCache(n, r)
    \/ RelayRequest(n, r)
    \/ LimitRequest(n, r)

(***************************************************************************)
(* handleAnnounce.  First, an entry q of the announce table that another   *)
(* node has rebroadcast often enough is done with, and so is one that was  *)
(* passed on further before our next try.  The clock decides whether it    *)
(* was before, so there may be two outcomes.  What was heard is counted up *)
(* to the limit it is compared with.                                       *)
(***************************************************************************)
Counted(heard) == IF heard < localRebroadcastsMax THEN heard + 1 ELSE heard

HeardOutcomes(q, k) ==
    IF q = NoEntry \/ ~Transported(k) THEN {q}
    ELSE IF k.hops = q.hops
    THEN IF q.retries > 0 /\ Counted(q.heard) >= localRebroadcastsMax
         THEN {NoEntry}
         ELSE {AnnounceEntry(q.emission, q.hops, q.retries, Counted(q.heard))}
    ELSE IF k.hops = q.hops + 1 /\ q.retries > 0
    THEN {q, NoEntry}
    ELSE {q}

Accepts(n, k) ==
    \/ path[n] = NoPath
    \/ ShouldReplace(path[n], n, k.emission, k.hops + 1, k.from)

\* Mutation: the hop count is installed as it was received.
PathAfterUncounted(n, k) ==
    IF path[n] = NoPath
    THEN NewPath(k.emission, k.hops, k.from, k.relayed)
    ELSE path[n]

PathAfter(n, k) ==
    IF path[n] = NoPath
    THEN NewPath(k.emission, k.hops + 1, k.from, k.relayed)
    ELSE IF Accepts(n, k)
    THEN Replaced(path[n], k.emission, k.hops + 1, k.from, k.relayed)
    ELSE path[n]

(* An accepted announce is queued to be rebroadcast, unless it is a path   *)
(* response or a nearer one is waiting.  It may also be left out, because  *)
(* the announce rate of its interface is exceeded.                         *)
QueueOutcomes(n, k) ==
    LET heard == HeardOutcomes(queued[n], k)
    IN  heard \cup
          (IF /\ Accepts(n, k)
              /\ ~k.response
              /\ \E q \in heard : q = NoEntry \/ k.hops + 1 <= q.hops
           THEN {AnnounceEntry(k.emission, k.hops + 1, 0, 0)}
           ELSE {})

\* Mutation: a path response is passed on to every neighbour.
RelayResponseToAll(n, k, served) ==
    /\ announces' = announces \cup
           (IF k.response
            THEN {Announce(n, m, k.emission, k.hops + 1, TRUE, TRUE)
                     : m \in Neighbours(n) \ {k.from}}
            ELSE {})
    /\ asked' = [asked EXCEPT ![n] = {}]

(* forwardPathResponseToRequesters, for the requesters whose interface is  *)
(* up; clearPendingPathRequesters forgets all of them once one was served. *)
RelayResponse(n, k, served) ==
    /\ served \subseteq (IF k.response THEN asked[n] \ {k.from} ELSE {})
    /\ announces' = announces \cup
           {Announce(n, m, k.emission, k.hops + 1, TRUE, TRUE) : m \in served}
    /\ asked' = IF served = {} THEN asked ELSE [asked EXCEPT ![n] = {}]

HandleAnnounce(n, k, q, served) ==
    /\ n # Home
    /\ k.hops < MaxHops
    /\ path' = [path EXCEPT ![n] = PathAfter(n, k)]
    /\ inflight' = [inflight EXCEPT ![n] = @ /\ path[n] # NoPath]
    /\ queued' = [queued EXCEPT ![n] = q]
    /\ RelayResponse(n, k, served)
    /\ UNCHANGED <<tags, emitted, requests, gaveUp>>

\* Mutation: the entry is kept after its last try.
RetryForever(q) == [q EXCEPT !.retries = @ + 1]

(***************************************************************************)
(* processAnnounceTable.  The entry is rebroadcast on every interface, or  *)
(* dropped when the identity of the destination was cleaned meanwhile.     *)
(***************************************************************************)
AfterRetry(q) ==
    IF q.retries + 1 >= localRebroadcastsMax \/ q.retries + 1 > pathfinderRetries
    THEN NoEntry
    ELSE AnnounceEntry(q.emission, q.hops, q.retries + 1, q.heard)

ProcessAnnounceTable(n) ==
    /\ queued[n] # NoEntry
    /\ queued' = [queued EXCEPT ![n] = AfterRetry(queued[n])]
    /\ announces' = announces \cup
           {Announce(n, m, queued[n].emission, queued[n].hops, FALSE, FALSE)
                : m \in Neighbours(n)}
    /\ UNCHANGED <<path, asked, inflight, tags, emitted, requests, gaveUp>>

AnnounceCleaned(n) ==
    /\ queued[n] # NoEntry
    /\ queued' = [queued EXCEPT ![n] = NoEntry]
    /\ UNCHANGED <<path, asked, inflight, tags, emitted,
                   announces, requests, gaveUp>>

(* cullPathRequests: a request is no longer in flight after a while.  Who  *)
(* asked is forgotten only with its interface, and interfaces stay here.   *)
CullPathRequests(n) ==
    /\ inflight[n]
    /\ inflight' = [inflight EXCEPT ![n] = FALSE]
    /\ UNCHANGED <<path, queued, asked, tags, emitted,
                   announces, requests, gaveUp>>

(***************************************************************************)
(* A path ages out, and is removed by cullExpiredPaths some time later.    *)
(* A path is marked unresponsive when a link request over it was never     *)
(* answered (processPendingLinks, cullStaleTransportTables).               *)
(***************************************************************************)
GivesUp(n) ==
    /\ path[n] # NoPath
    /\ n \in Fickle \ gaveUp
    /\ gaveUp' = gaveUp \cup {n}

PathExpires(n) ==
    /\ GivesUp(n)
    /\ path' = [path EXCEPT ![n] = Aged(path[n])]
    /\ UNCHANGED <<queued, asked, inflight, tags, emitted,
                   announces, requests>>

MarkPathUnresponsive(n) ==
    /\ GivesUp(n)
    /\ path' = [path EXCEPT ![n] = MarkedUnresponsive(path[n])]
    /\ UNCHANGED <<queued, asked, inflight, tags, emitted,
                   announces, requests>>

CullExpiredPaths(n) ==
    /\ path[n] # NoPath
    /\ path[n].expired
    /\ path' = [path EXCEPT ![n] = NoPath]
    /\ queued' = [queued EXCEPT ![n] = NoEntry]
    /\ UNCHANGED <<asked, inflight, tags, emitted,
                   announces, requests, gaveUp>>

Next ==
    \/ HomeAnnounces
    \/ \E t \in Tags : RequestPath(t)
    \/ \E r \in requests : HandlePathRequest(r.to, r)
    \/ \E k \in announces :
          \E q \in QueueOutcomes(k.to, k), served \in SUBSET asked[k.to] :
              HandleAnnounce(k.to, k, q, served)
    \/ \E n \in Nodes :
          \/ ProcessAnnounceTable(n)
          \/ AnnounceCleaned(n)
          \/ CullPathRequests(n)
          \/ PathExpires(n)
          \/ MarkPathUnresponsive(n)
          \/ CullExpiredPaths(n)

(* The maintenance loop of every node keeps ticking (announceTicker). *)
Spec == Init /\ [][Next]_vars /\ \A n \in Nodes : WF_vars(ProcessAnnounceTable(n))

-----------------------------------------------------------------------------

Frames == [from : Nodes, to : Nodes, emission : Emissions, hops : 0..MaxHops,
           response : BOOLEAN, relayed : BOOLEAN]

RequestFrames == [from : Nodes, to : Nodes, tag : Tags]

(* Type correctness of every table and every frame; a queued announce that *)
(* was tried pathfinderRetries times is gone.                              *)
TypeOK ==
    /\ path \in [Nodes -> PathEntries \cup {NoPath}]
    /\ queued \in [Nodes -> AnnounceEntries \cup {NoEntry}]
    /\ asked \in [Nodes -> SUBSET Nodes]
    /\ inflight \in [Nodes -> BOOLEAN]
    /\ tags \in [Nodes -> SUBSET Tags]
    /\ emitted \in 0..MaxEmissions
    /\ announces \subseteq Frames
    /\ requests \subseteq RequestFrames
    /\ gaveUp \subseteq Nodes

(***************************************************************************)
(* The announce of p's route, rank against rank: an announce is better     *)
(* when it was emitted later, or at the same time and is nearer.           *)
(***************************************************************************)
AtLeast(p, time, hops) ==
    \/ p.timebase > time
    \/ p.timebase = time /\ p.hops <= hops

(* The next hop of every path knows a better path: one of a later emission *)
(* or, of the same, a shorter one.  Two things excuse it: the next hop has *)
(* lost or given up its own path since, or the path came in a response     *)
(* that the next hop relayed for another node, which handleAnnounce may    *)
(* have refused to record there (transport.go, the PATH_RESPONSE branch of *)
(* processInboundPacket).                                                  *)
PathsDescend ==
    \A n \in Nodes :
        (path[n] # NoPath /\ ~path[n].relayed /\ path[n].via \notin gaveUp \cup {Home})
            => /\ path[path[n].via] # NoPath
               /\ AtLeast(path[path[n].via], EmittedAt[path[n].emission], path[n].hops - 1)

(* A path is only ever exchanged for a better one: however late, repeated  *)
(* or out of order the announces arrive, the timebase does not go back,    *)
(* and at the same timebase the way does not get longer, until the node    *)
(* gives its path up (the replacement rules of handleAnnounce).            *)
PathsOnlyImprove ==
    [][\A n \in Nodes \ gaveUp' : path[n] # NoPath =>
           path'[n] # NoPath /\ AtLeast(path'[n], path[n].timebase, path[n].hops)]_vars

(* A packet that follows the paths does not go round in circles: in a set  *)
(* of nodes whose next hops all stay inside it, some node gave up a path   *)
(* or took a relayed response (the replacement rules of handleAnnounce).   *)
LoopNeedsACause ==
    \A S \in SUBSET (Nodes \ {Home}) :
        (S # {} /\ \A n \in S : path[n] # NoPath /\ path[n].via \in S)
            => \E n \in S : n \in gaveUp \/ path[n].relayed

(* No path claims to be shorter than the way to the destination is: the    *)
(* hop count is raised on every link and lowered by none of the five ways  *)
(* an announce is sent (rebroadcast, local and cached answer, relayed      *)
(* response, the destination itself).                                      *)
HopsAtLeastDistance ==
    \A n \in Nodes : path[n] # NoPath => path[n].hops >= Distance[n]

(* Path responses are not flooded: one travels from a node to a neighbour  *)
(* only after a path request has travelled the other way (handlePathRequest*)
(* answers, forwardPathResponseToRequesters relays).                       *)
ResponsesWereAskedFor ==
    \A k \in announces : k.response =>
        \E r \in requests : r.from = k.to /\ r.to = k.from

(* The flood of an announce ends: once nothing new is emitted, asked or    *)
(* given up, every announce table empties and stays empty, although        *)
(* frames keep arriving again and again (processAnnounceTable and the      *)
(* replacement rules of handleAnnounce).                                   *)
FloodEnds == <>[](\A n \in Nodes : queued[n] = NoEntry)

(* What the code says of a cached answer: it is not sent to the next hop   *)
(* of the path it offers (transport.go, "Loop prevention").                *)
NoAnswerToNextHop ==
    [][\A k \in announces' \ announces :
          (k.response /\ ~k.relayed /\ k.from # Home) => k.to # path[k.from].via]_vars

(* What the code says of a relayed response: the instance has recorded the *)
(* path the requestor is about to be given ("Install the response before   *)
(* relaying it").                                                          *)
RelayedIsRecorded ==
    [][\A k \in announces' \ announces :
          k.relayed => /\ path'[k.from].emission = k.emission
                       /\ path'[k.from].hops = k.hops]_vars

=============================================================================
