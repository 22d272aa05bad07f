---------------------------- MODULE Paths_proofs ----------------------------
(***************************************************************************)
(* Proofs about Paths, for every network, every number of announces and    *)
(* requests, and every choice of interface gravities.                      *)
(***************************************************************************)
EXTENDS Paths, TLAPS, WellFoundedInduction

(***************************************************************************)
(* What is inductive.  Links: frames cross links, and who asked is a       *)
(* neighbour.  Far: no hop count anywhere is below the distance.  Asked:   *)
(* every response, and every recorded requester, goes back to a request.   *)
(***************************************************************************)
LinkInv ==
    /\ \A k \in announces : {k.from, k.to} \in Links
    /\ \A r \in requests : {r.from, r.to} \in Links
    /\ \A n \in Nodes : asked[n] \subseteq Neighbours(n)

FarInv ==
    /\ HopsAtLeastDistance
    /\ \A n \in Nodes : queued[n] # NoEntry => queued[n].hops >= Distance[n]
    /\ \A k \in announces : k.hops >= Distance[k.from]

AskedInv ==
    /\ ResponsesWereAskedFor
    /\ \A n \in Nodes : \A m \in asked[n] : \E r \in requests : r.from = m /\ r.to = n

(***************************************************************************)
(* Rank: what a node that never gave up a path has queued or sent is no    *)
(* better than the path it has.                                            *)
(***************************************************************************)
RankInv ==
    /\ PathsDescend
    /\ \A n \in Nodes \ gaveUp : path[n] # NoPath =>
          /\ path[n].timebase = EmittedAt[path[n].emission]
          /\ ~path[n].unresponsive
          /\ ~path[n].expired
    /\ \A n \in Nodes \ gaveUp : queued[n] # NoEntry =>
          /\ path[n] # NoPath
          /\ AtLeast(path[n], EmittedAt[queued[n].emission], queued[n].hops)
    /\ \A k \in announces : (~k.relayed /\ k.from \notin gaveUp \cup {Home}) =>
          /\ path[k.from] # NoPath
          /\ AtLeast(path[k.from], EmittedAt[k.emission], k.hops)

HomeInv == path[Home] = NoPath /\ queued[Home] = NoEntry

(* What the operators build has the type it should have. *)
LEMMA EntryTypes ==
    ASSUME NEW hops \in 0..MaxHops, NEW via \in Nodes, NEW e \in Emissions,
           NEW relayed \in BOOLEAN, NEW p \in PathEntries
    PROVE  /\ NewPath(e, hops, via, relayed) \in PathEntries
           /\ Replaced(p, e, hops, via, relayed) \in PathEntries
           /\ MarkedUnresponsive(p) \in PathEntries
           /\ Aged(p) \in PathEntries
BY PathAssumption DEF NewPath, Replaced, MarkedUnresponsive, Aged, PathEntry, PathEntries

\* The fields of a frame.
LEMMA FrameTypes ==
    ASSUME NEW n \in Nodes, NEW m \in Nodes, NEW e \in Emissions, NEW h \in 0..MaxHops,
           NEW response \in BOOLEAN, NEW relayed \in BOOLEAN
    PROVE  Announce(n, m, e, h, response, relayed) \in Frames
BY DEF Announce, Frames

\* The fields of a path request.
LEMMA RequestTypes ==
    ASSUME NEW n \in Nodes, NEW m \in Nodes, NEW t \in Tags
    PROVE  Request(n, m, t) \in RequestFrames
BY DEF Request, RequestFrames

\* What a node makes of an announce is a path.
LEMMA PathAfterType ==
    ASSUME TypeOK, NEW k \in announces, k.hops < MaxHops
    PROVE  PathAfter(k.to, k) \in PathEntries
<1>1. k \in Frames /\ k.to \in Nodes /\ k.from \in Nodes /\ k.emission \in Emissions
      /\ k.relayed \in BOOLEAN /\ k.hops + 1 \in 0..MaxHops
  BY PathAssumption DEF TypeOK, Frames
<1>2. path[k.to] \in PathEntries \cup {NoPath}
  BY <1>1 DEF TypeOK
<1>3. CASE path[k.to] = NoPath
  BY <1>1, <1>3, EntryTypes, PathAssumption DEF PathAfter, NewPath, PathEntry, PathEntries
<1>4. CASE path[k.to] # NoPath
  BY <1>1, <1>2, <1>4, EntryTypes DEF PathAfter
<1> QED  BY <1>3, <1>4

\* What it queues for rebroadcast is an entry.
LEMMA QueueTypes ==
    ASSUME TypeOK, NEW k \in announces, k.hops < MaxHops, NEW q \in QueueOutcomes(k.to, k)
    PROVE  q \in AnnounceEntries \cup {NoEntry}
<1>1. k \in Frames /\ k.to \in Nodes /\ k.emission \in Emissions
      /\ k.hops + 1 \in 0..MaxHops
  BY PathAssumption DEF TypeOK, Frames
<1>2. queued[k.to] \in AnnounceEntries \cup {NoEntry}
  BY <1>1 DEF TypeOK
<1>3. AnnounceEntry(k.emission, k.hops + 1, 0, 0) \in AnnounceEntries
  BY <1>1 DEF AnnounceEntry, AnnounceEntries, pathfinderRetries, localRebroadcastsMax
<1>4. HeardOutcomes(queued[k.to], k) \subseteq AnnounceEntries \cup {NoEntry}
  BY <1>2 DEF HeardOutcomes, Counted, AnnounceEntry, AnnounceEntries,
              pathfinderRetries, localRebroadcastsMax
<1> QED  BY <1>3, <1>4 DEF QueueOutcomes

(***************************************************************************)
(* A step is one of the actions; the proofs below go through this list.    *)
(***************************************************************************)
LEMMA Steps ==
    ASSUME Next
    PROVE  \/ HomeAnnounces
           \/ \E t \in Tags : RequestPath(t)
           \/ \E r \in requests : BatchRequest(r.to, r)
           \/ \E r \in requests : AnswerLocally(r.to, r)
           \/ \E r \in requests : AnswerFromCache(r.to, r)
           \/ \E r \in requests : RelayRequest(r.to, r)
           \/ \E r \in requests : LimitRequest(r.to, r)
           \/ \E k \in announces : \E q \in QueueOutcomes(k.to, k), served \in SUBSET asked[k.to] :
                  HandleAnnounce(k.to, k, q, served)
           \/ \E n \in Nodes : ProcessAnnounceTable(n)
           \/ \E n \in Nodes : AnnounceCleaned(n)
           \/ \E n \in Nodes : CullPathRequests(n)
           \/ \E n \in Nodes : PathExpires(n)
           \/ \E n \in Nodes : MarkPathUnresponsive(n)
           \/ \E n \in Nodes : CullExpiredPaths(n)
BY Zenon DEF Next, HandlePathRequest

(* The tables keep their types. *)
LEMMA TypesHold ==
    ASSUME TypeOK, [Next]_vars
    PROVE  TypeOK'
<1> USE PathAssumption, NetworkAssumption
<1>a. CASE UNCHANGED vars
  BY <1>a DEF TypeOK, vars
<1>1. CASE HomeAnnounces
  <2>1. emitted + 1 \in Emissions /\ emitted' \in 0..MaxEmissions /\ 0 \in 0..MaxHops
    BY <1>1 DEF HomeAnnounces, TypeOK, Emissions
  <2>2. announces' \subseteq Frames
    <3> DEFINE e == emitted + 1
    <3> HIDE DEF e
    <3>1. announces' = announces \cup
              {Announce(Home, m, e, 0, FALSE, FALSE) : m \in Neighbours(Home)}
      BY <1>1 DEF HomeAnnounces, e
    <3>2. \A m \in Nodes : Announce(Home, m, e, 0, FALSE, FALSE) \in Frames
      BY <2>1, FrameTypes, Zenon DEF e
    <3> QED  BY <3>1, <3>2, Zenon DEF TypeOK, Neighbours
  <2> QED  BY <1>1, <2>1, <2>2, Zenon DEF HomeAnnounces, TypeOK
<1>2. ASSUME NEW t \in Tags, RequestPath(t)  PROVE TypeOK'
  <2>1. Requestor[t] \in Nodes  OBVIOUS
  <2>2. \A m \in Nodes : Request(Requestor[t], m, t) \in RequestFrames
    BY <2>1, RequestTypes
  <2>3. requests' \subseteq RequestFrames
    BY <1>2, <2>2, Zenon DEF RequestPath, TypeOK, Neighbours
  <2> QED  BY <1>2, <2>3 DEF RequestPath, TypeOK
<1>3. ASSUME NEW r \in requests, BatchRequest(r.to, r)  PROVE TypeOK'
  BY <1>3 DEF BatchRequest, FirstSeen, TypeOK, RequestFrames
<1>4. ASSUME NEW r \in requests, AnswerLocally(r.to, r)  PROVE TypeOK'
  <2>0. emitted \in 0..MaxEmissions /\ emitted < MaxEmissions /\ emitted' = emitted + 1
    BY <1>4 DEF AnswerLocally, TypeOK
  <2>1. emitted + 1 \in Emissions /\ emitted' \in 0..MaxEmissions /\ 0 \in 0..MaxHops
    BY <2>0 DEF Emissions
  <2>3. r.to \in Nodes /\ r.from \in Nodes /\ r.tag \in Tags  BY DEF TypeOK, RequestFrames
  <2>2. Announce(r.to, r.from, emitted + 1, 0, TRUE, FALSE) \in Frames
    BY <2>1, <2>3, FrameTypes, Zenon
  <2> QED  BY <1>4, <2>1, <2>2, <2>3, Zenon DEF AnswerLocally, FirstSeen, TypeOK
<1>5. ASSUME NEW r \in requests, AnswerFromCache(r.to, r)  PROVE TypeOK'
  <2>1. r.to \in Nodes /\ r.from \in Nodes /\ r.tag \in Tags  BY DEF TypeOK, RequestFrames
  <2>2. path[r.to] \in PathEntries  BY <2>1, <1>5 DEF AnswerFromCache, TypeOK
  <2>3. path[r.to].emission \in Emissions /\ path[r.to].hops \in 0..MaxHops
    BY <2>2 DEF PathEntries
  <2>4. announces' \subseteq Frames
    <3> DEFINE k == Announce(r.to, r.from, path[r.to].emission, path[r.to].hops, TRUE, FALSE)
    <3>1. k \in Frames  BY <2>1, <2>3, FrameTypes, Zenon
    <3>2. announces' = announces \/ announces' = announces \cup {k}
      BY <1>5, Zenon DEF AnswerFromCache
    <3> HIDE DEF k
    <3> QED  BY <3>1, <3>2 DEF TypeOK
  <2> QED  BY <1>5, <2>1, <2>4, Zenon DEF AnswerFromCache, FirstSeen, TypeOK
<1>6. ASSUME NEW r \in requests, RelayRequest(r.to, r)  PROVE TypeOK'
  <2>1. r.to \in Nodes /\ r.from \in Nodes /\ r.tag \in Tags  BY DEF TypeOK, RequestFrames
  <2>2. \A m \in Nodes : Request(r.to, m, r.tag) \in RequestFrames
    BY <2>1, RequestTypes
  <2>3. requests' \subseteq RequestFrames
    BY <1>6, <2>2, ZenonT(60) DEF RelayRequest, TypeOK, Neighbours
  <2> QED  BY <1>6, <2>1, <2>3 DEF RelayRequest, FirstSeen, TypeOK
<1>7. ASSUME NEW r \in requests, LimitRequest(r.to, r)  PROVE TypeOK'
  BY <1>7 DEF LimitRequest, FirstSeen, TypeOK, RequestFrames
<1>8. ASSUME NEW k \in announces, NEW q \in QueueOutcomes(k.to, k),
             NEW served \in SUBSET asked[k.to], HandleAnnounce(k.to, k, q, served)
      PROVE  TypeOK'
  <2>1. k \in Frames /\ k.to \in Nodes /\ k.emission \in Emissions /\ k.hops + 1 \in 0..MaxHops
    BY <1>8 DEF TypeOK, Frames, HandleAnnounce
  <2>2. PathAfter(k.to, k) \in PathEntries  BY <1>8, PathAfterType DEF HandleAnnounce
  <2>3. q \in AnnounceEntries \cup {NoEntry}  BY <1>8, QueueTypes DEF HandleAnnounce
  <2>4. path' \in [Nodes -> PathEntries \cup {NoPath}]
    BY <1>8, <2>1, <2>2 DEF HandleAnnounce, TypeOK
  <2>5. queued' \in [Nodes -> AnnounceEntries \cup {NoEntry}]
    BY <1>8, <2>1, <2>3 DEF HandleAnnounce, TypeOK
  <2>6. inflight' \in [Nodes -> BOOLEAN]
    BY <1>8, <2>1 DEF HandleAnnounce, TypeOK
  <2>7. asked' \in [Nodes -> SUBSET Nodes]
    BY <1>8, <2>1 DEF HandleAnnounce, RelayResponse, TypeOK
  <2>8. announces' \subseteq Frames
    <3> DEFINE e == k.emission
               h == k.hops + 1
    <3> HIDE DEF e, h
    <3>1. announces' = announces \cup {Announce(k.to, m, e, h, TRUE, TRUE) : m \in served}
      BY <1>8 DEF HandleAnnounce, RelayResponse, e, h
    <3>2. \A m \in Nodes : Announce(k.to, m, e, h, TRUE, TRUE) \in Frames
      BY <2>1, FrameTypes, Zenon DEF e, h
    <3>3. served \subseteq Nodes  BY <2>1 DEF TypeOK
    <3> QED  BY <3>1, <3>2, <3>3, Zenon DEF TypeOK
  <2> QED  BY <1>8, <2>4, <2>5, <2>6, <2>7, <2>8 DEF HandleAnnounce, TypeOK
<1>9. ASSUME NEW n \in Nodes, ProcessAnnounceTable(n)  PROVE TypeOK'
  <2>1. queued[n] \in AnnounceEntries  BY <1>9 DEF ProcessAnnounceTable, TypeOK
  <2>2. AfterRetry(queued[n]) \in AnnounceEntries \cup {NoEntry}
    BY <2>1 DEF AfterRetry, AnnounceEntry, AnnounceEntries, pathfinderRetries,
                localRebroadcastsMax
  <2>3. queued[n].emission \in Emissions /\ queued[n].hops \in 0..MaxHops
    BY <2>1 DEF AnnounceEntries
  <2> DEFINE e == queued[n].emission
             h == queued[n].hops
  <2> HIDE DEF e, h
  <2>5. \A m \in Nodes : Announce(n, m, e, h, FALSE, FALSE) \in Frames
    BY <2>3 DEF e, h, Frames, Announce
  <2>6. announces' = announces \cup {Announce(n, m, e, h, FALSE, FALSE) : m \in Neighbours(n)}
    BY <1>9 DEF ProcessAnnounceTable, e, h
  <2>4. announces' \subseteq Frames
    BY <2>5, <2>6, Zenon DEF TypeOK, Neighbours
  <2> QED  BY <1>9, <2>2, <2>4, Zenon DEF ProcessAnnounceTable, TypeOK
<1>10. ASSUME NEW n \in Nodes, AnnounceCleaned(n)  PROVE TypeOK'
  BY <1>10 DEF AnnounceCleaned, TypeOK
<1>11. ASSUME NEW n \in Nodes, CullPathRequests(n)  PROVE TypeOK'
  BY <1>11 DEF CullPathRequests, TypeOK
<1>12. ASSUME NEW n \in Nodes, PathExpires(n)  PROVE TypeOK'
  <2>1. Aged(path[n]) \in PathEntries
    BY <1>12 DEF PathExpires, GivesUp, TypeOK, Aged, PathEntry, PathEntries
  <2> QED  BY <1>12, <2>1 DEF PathExpires, GivesUp, TypeOK
<1>13. ASSUME NEW n \in Nodes, MarkPathUnresponsive(n)  PROVE TypeOK'
  <2>1. MarkedUnresponsive(path[n]) \in PathEntries
    BY <1>13 DEF MarkPathUnresponsive, GivesUp, TypeOK, MarkedUnresponsive, PathEntry, PathEntries
  <2> QED  BY <1>13, <2>1 DEF MarkPathUnresponsive, GivesUp, TypeOK
<1>14. ASSUME NEW n \in Nodes, CullExpiredPaths(n)  PROVE TypeOK'
  BY <1>14 DEF CullExpiredPaths, TypeOK
<1> HIDE DEF TypeOK
<1> QED
  BY <1>a, <1>1, <1>2, <1>3, <1>4, <1>5, <1>6, <1>7, <1>8, <1>9, <1>10, <1>11,
     <1>12, <1>13, <1>14, Steps, Zenon


(* Home learns no path to itself and queues nothing. *)
LEMMA HomeHolds ==
    ASSUME TypeOK, HomeInv, [Next]_vars
    PROVE  HomeInv'
<1> USE NetworkAssumption DEF HomeInv
<1>a. CASE UNCHANGED vars  BY <1>a DEF vars
<1>1. CASE HomeAnnounces  BY <1>1 DEF HomeAnnounces
<1>2. ASSUME NEW t \in Tags, RequestPath(t)  PROVE HomeInv'
  BY <1>2 DEF RequestPath
<1>3. ASSUME NEW r \in requests, BatchRequest(r.to, r)  PROVE HomeInv'
  BY <1>3 DEF BatchRequest
<1>4. ASSUME NEW r \in requests, AnswerLocally(r.to, r)  PROVE HomeInv'
  BY <1>4 DEF AnswerLocally
<1>5. ASSUME NEW r \in requests, AnswerFromCache(r.to, r)  PROVE HomeInv'
  BY <1>5 DEF AnswerFromCache
<1>6. ASSUME NEW r \in requests, RelayRequest(r.to, r)  PROVE HomeInv'
  BY <1>6 DEF RelayRequest
<1>7. ASSUME NEW r \in requests, LimitRequest(r.to, r)  PROVE HomeInv'
  BY <1>7 DEF LimitRequest
<1>8. ASSUME NEW k \in announces, NEW q \in QueueOutcomes(k.to, k),
             NEW served \in SUBSET asked[k.to], HandleAnnounce(k.to, k, q, served)
      PROVE  HomeInv'
  BY <1>8 DEF HandleAnnounce, TypeOK
<1>9. ASSUME NEW n \in Nodes, ProcessAnnounceTable(n)  PROVE HomeInv'
  BY <1>9 DEF ProcessAnnounceTable, TypeOK
<1>10. ASSUME NEW n \in Nodes, AnnounceCleaned(n)  PROVE HomeInv'
  BY <1>10 DEF AnnounceCleaned, TypeOK
<1>11. ASSUME NEW n \in Nodes, CullPathRequests(n)  PROVE HomeInv'
  BY <1>11 DEF CullPathRequests
<1>12. ASSUME NEW n \in Nodes, PathExpires(n)  PROVE HomeInv'
  BY <1>12 DEF PathExpires, GivesUp, TypeOK
<1>13. ASSUME NEW n \in Nodes, MarkPathUnresponsive(n)  PROVE HomeInv'
  BY <1>13 DEF MarkPathUnresponsive, GivesUp, TypeOK
<1>14. ASSUME NEW n \in Nodes, CullExpiredPaths(n)  PROVE HomeInv'
  BY <1>14 DEF CullExpiredPaths, TypeOK
<1> HIDE DEF HomeInv
<1> QED
  BY <1>a, <1>1, <1>2, <1>3, <1>4, <1>5, <1>6, <1>7, <1>8, <1>9, <1>10, <1>11,
     <1>12, <1>13, <1>14, Steps, Zenon

(***************************************************************************)
(* What the frames a step sends have in common, whichever step it is.      *)
(***************************************************************************)
AskedBy(m, n) == \E r \in requests : r.from = m /\ r.to = n

Crosses(k) == k.to \in Neighbours(k.from) \/ k.to \in asked[k.from] \/ AskedBy(k.to, k.from)

Wanted(k) == k.response => k.to \in asked[k.from] \/ AskedBy(k.to, k.from)

Sent(k) ==
    \/ k.from = Home /\ k.hops = 0
    \/ /\ ~k.relayed
       /\ path[k.from] # NoPath
       /\ k.emission = path[k.from].emission /\ k.hops = path[k.from].hops
    \/ /\ ~k.relayed
       /\ queued[k.from] # NoEntry
       /\ k.emission = queued[k.from].emission /\ k.hops = queued[k.from].hops
    \/ k.relayed /\ \E k0 \in announces : k0.to = k.from /\ k.hops = k0.hops + 1

\* A new frame crosses a link, was wanted there, and says what its sender has.
LEMMA Sends ==
    ASSUME TypeOK, Next, NEW k \in announces'
    PROVE  k \in announces \/ (Crosses(k) /\ Wanted(k) /\ Sent(k))
<1> DEFINE Goal == k \in announces \/ (Crosses(k) /\ Wanted(k) /\ Sent(k))
<1> SUFFICES Goal  OBVIOUS
<1>1. CASE HomeAnnounces
  <2> DEFINE e == emitted + 1
  <2>1. announces' = announces \cup
            {Announce(Home, m, e, 0, FALSE, FALSE) : m \in Neighbours(Home)}
    BY <1>1 DEF HomeAnnounces
  <2> HIDE DEF e
  <2>2. SUFFICES ASSUME NEW m \in Neighbours(Home), k = Announce(Home, m, e, 0, FALSE, FALSE)
                 PROVE  Goal
    BY <2>1, Zenon
  <2>3. k.from = Home /\ k.to = m /\ k.hops = 0 /\ k.response = FALSE
    BY <2>2 DEF Announce
  <2> QED  BY <2>3 DEF Crosses, Wanted, Sent
<1>2. ASSUME NEW r \in requests, AnswerLocally(r.to, r)  PROVE Goal
  <2> DEFINE e == emitted + 1
  <2>1. k \in announces \/ k = Announce(r.to, r.from, e, 0, TRUE, FALSE)
    BY <1>2, Zenon DEF AnswerLocally
  <2>2. r.to = Home  BY <1>2 DEF AnswerLocally
  <2> HIDE DEF e
  <2>3. CASE k = Announce(r.to, r.from, e, 0, TRUE, FALSE)
    <3>1. k.from = Home /\ k.from = r.to /\ k.to = r.from /\ k.hops = 0
      BY <2>2, <2>3 DEF Announce
    <3> QED  BY <3>1 DEF Crosses, Wanted, Sent, AskedBy
  <2> QED  BY <2>1, <2>3, Zenon
<1>3. ASSUME NEW r \in requests, AnswerFromCache(r.to, r)  PROVE Goal
  <2> DEFINE e == path[r.to].emission
             h == path[r.to].hops
  <2>1. k \in announces \/ k = Announce(r.to, r.from, e, h, TRUE, FALSE)
    BY <1>3, Zenon DEF AnswerFromCache
  <2>2. path[r.to] # NoPath  BY <1>3 DEF AnswerFromCache
  <2>3. CASE k = Announce(r.to, r.from, e, h, TRUE, FALSE)
    <3>1. k.from = r.to /\ k.to = r.from /\ k.emission = e /\ k.hops = h /\ k.relayed = FALSE
      BY <2>3 DEF Announce
    <3> QED  BY <3>1, <2>2 DEF Crosses, Wanted, Sent, AskedBy
  <2> QED  BY <2>1, <2>3, Zenon
<1>4. ASSUME NEW k0 \in announces, NEW q \in QueueOutcomes(k0.to, k0),
             NEW served \in SUBSET asked[k0.to], HandleAnnounce(k0.to, k0, q, served)
      PROVE  Goal
  <2> DEFINE e == k0.emission
             h == k0.hops + 1
  <2>1. announces' = announces \cup {Announce(k0.to, m, e, h, TRUE, TRUE) : m \in served}
    BY <1>4 DEF HandleAnnounce, RelayResponse
  <2> HIDE DEF e, h
  <2>2. SUFFICES ASSUME NEW m \in served, k = Announce(k0.to, m, e, h, TRUE, TRUE)
                 PROVE  Goal
    BY <2>1, Zenon
  <2>3. k.from = k0.to /\ k.to = m /\ k.hops = h /\ k.relayed = TRUE
    BY <2>2 DEF Announce
  <2>4. k.to \in asked[k.from]  BY <2>3
  <2>5. Sent(k)  BY <2>3 DEF Sent, h
  <2> QED  BY <2>4, <2>5 DEF Crosses, Wanted
<1>5. ASSUME NEW n \in Nodes, ProcessAnnounceTable(n)  PROVE Goal
  <2> DEFINE e == queued[n].emission
             h == queued[n].hops
  <2>1. announces' = announces \cup {Announce(n, m, e, h, FALSE, FALSE) : m \in Neighbours(n)}
    BY <1>5 DEF ProcessAnnounceTable
  <2> HIDE DEF e, h
  <2>2. SUFFICES ASSUME NEW m \in Neighbours(n), k = Announce(n, m, e, h, FALSE, FALSE)
                 PROVE  Goal
    BY <2>1, Zenon
  <2>3. k.from = n /\ k.to = m /\ k.emission = e /\ k.hops = h
        /\ k.response = FALSE /\ k.relayed = FALSE
    BY <2>2 DEF Announce
  <2>4. queued[n] # NoEntry  BY <1>5 DEF ProcessAnnounceTable
  <2> QED  BY <2>3, <2>4 DEF Crosses, Wanted, Sent, e, h
<1>6. CASE announces' = announces
  BY <1>6
<1> HIDE DEF Goal
<1>7. (\E t \in Tags : RequestPath(t)) => announces' = announces
  BY DEF RequestPath
<1>8. (\E r \in requests : BatchRequest(r.to, r) \/ RelayRequest(r.to, r) \/ LimitRequest(r.to, r))
          => announces' = announces
  BY DEF BatchRequest, RelayRequest, LimitRequest
<1>9. (\E n \in Nodes : AnnounceCleaned(n) \/ CullPathRequests(n) \/ PathExpires(n)
                        \/ MarkPathUnresponsive(n) \/ CullExpiredPaths(n))
          => announces' = announces
  BY DEF AnnounceCleaned, CullPathRequests, PathExpires, MarkPathUnresponsive, CullExpiredPaths
<1> QED
  BY <1>1, <1>2, <1>3, <1>4, <1>5, <1>6, <1>7, <1>8, <1>9, Steps, Zenon

(***************************************************************************)
(* Requests cross links, and only a request gets its sender recorded.      *)
(***************************************************************************)
LEMMA Asks ==
    ASSUME TypeOK, Next
    PROVE  /\ announces \subseteq announces' /\ requests \subseteq requests'
           /\ \A r \in requests' : r \in requests \/ r.to \in Neighbours(r.from)
           /\ \A n \in Nodes : \A m \in asked'[n] : m \in asked[n] \/ AskedBy(m, n)
<1> DEFINE Goal == /\ announces \subseteq announces' /\ requests \subseteq requests'
                   /\ \A r \in requests' : r \in requests \/ r.to \in Neighbours(r.from)
                   /\ \A n \in Nodes : \A m \in asked'[n] : m \in asked[n] \/ AskedBy(m, n)
<1> SUFFICES Goal  OBVIOUS
<1>1. CASE HomeAnnounces
  BY <1>1, Zenon DEF HomeAnnounces
<1>2. ASSUME NEW t \in Tags, RequestPath(t)  PROVE Goal
  <2> DEFINE o == Requestor[t]
  <2>1. requests' = requests \cup {Request(o, m, t) : m \in Neighbours(o)}
    BY <1>2 DEF RequestPath
  <2> HIDE DEF o
  <2>2. \A m \in Neighbours(o) : Request(o, m, t).to \in Neighbours(Request(o, m, t).from)
    BY DEF Request
  <2>3. \A r \in requests' : r \in requests \/ r.to \in Neighbours(r.from)
    BY <2>1, <2>2, Zenon
  <2> QED  BY <1>2, <2>1, <2>3 DEF RequestPath
<1>3. ASSUME NEW r \in requests, BatchRequest(r.to, r)  PROVE Goal
  BY <1>3 DEF BatchRequest
<1>4. ASSUME NEW r \in requests, AnswerLocally(r.to, r)  PROVE Goal
  BY <1>4, Zenon DEF AnswerLocally
<1>5. ASSUME NEW r \in requests, AnswerFromCache(r.to, r)  PROVE Goal
  BY <1>5, Zenon DEF AnswerFromCache
<1>6. ASSUME NEW r \in requests, RelayRequest(r.to, r)  PROVE Goal
  <2> DEFINE o == r.to
             t == r.tag
  <2>1. requests' = requests \cup {Request(o, m, t) : m \in Neighbours(o) \ {r.from}}
    BY <1>6 DEF RelayRequest
  <2>2. \A n \in Nodes : \A m \in asked'[n] : m \in asked[n] \/ AskedBy(m, n)
    BY <1>6 DEF RelayRequest, TypeOK, AskedBy
  <2> HIDE DEF o, t
  <2>3. \A m \in Neighbours(o) : Request(o, m, t).to \in Neighbours(Request(o, m, t).from)
    BY DEF Request
  <2>4. \A r1 \in requests' : r1 \in requests \/ r1.to \in Neighbours(r1.from)
    BY <2>1, <2>3, Zenon
  <2> QED  BY <1>6, <2>1, <2>2, <2>4 DEF RelayRequest
<1>7. ASSUME NEW r \in requests, LimitRequest(r.to, r)  PROVE Goal
  BY <1>7 DEF LimitRequest
<1>8. ASSUME NEW k \in announces, NEW q \in QueueOutcomes(k.to, k),
             NEW served \in SUBSET asked[k.to], HandleAnnounce(k.to, k, q, served)
      PROVE  Goal
  <2>1. \A n \in Nodes : asked'[n] \subseteq asked[n]
    BY <1>8 DEF HandleAnnounce, RelayResponse, TypeOK
  <2>2. announces \subseteq announces' /\ requests' = requests
    BY <1>8, Zenon DEF HandleAnnounce, RelayResponse
  <2> QED  BY <2>1, <2>2
<1>9. ASSUME NEW n \in Nodes, ProcessAnnounceTable(n)  PROVE Goal
  BY <1>9, Zenon DEF ProcessAnnounceTable
<1>10. ASSUME NEW n \in Nodes, AnnounceCleaned(n)  PROVE Goal
  BY <1>10 DEF AnnounceCleaned
<1>11. ASSUME NEW n \in Nodes, CullPathRequests(n)  PROVE Goal
  BY <1>11 DEF CullPathRequests
<1>12. ASSUME NEW n \in Nodes, PathExpires(n)  PROVE Goal
  BY <1>12 DEF PathExpires
<1>13. ASSUME NEW n \in Nodes, MarkPathUnresponsive(n)  PROVE Goal
  BY <1>13 DEF MarkPathUnresponsive
<1>14. ASSUME NEW n \in Nodes, CullExpiredPaths(n)  PROVE Goal
  BY <1>14 DEF CullExpiredPaths
<1> HIDE DEF Goal
<1> QED
  BY <1>1, <1>2, <1>3, <1>4, <1>5, <1>6, <1>7, <1>8, <1>9, <1>10, <1>11,
     <1>12, <1>13, <1>14, Steps, Zenon

(***************************************************************************)
(* What a step may make of the path and of the queued announce of a node.  *)
(***************************************************************************)
Installs(n, k) ==
    /\ k \in announces /\ k.to = n /\ n # Home /\ k.hops < MaxHops
    /\ path'[n] = PathAfter(n, k)
    /\ gaveUp' = gaveUp

KeepsRoute(p, q) ==
    /\ p # NoPath
    /\ q.hops = p.hops /\ q.via = p.via /\ q.timebase = p.timebase
    /\ q.emission = p.emission /\ q.relayed = p.relayed

PathStep(n) ==
    \/ path'[n] = path[n]
    \/ \E k \in announces : Installs(n, k)
    \/ n \in gaveUp' /\ KeepsRoute(path[n], path'[n]) /\ path'[n] # NoPath
    \/ path[n] # NoPath /\ path[n].expired /\ path'[n] = NoPath

QueueStep(n) ==
    \/ queued'[n] = NoEntry
    \/ /\ queued[n] # NoEntry
       /\ queued'[n].emission = queued[n].emission /\ queued'[n].hops = queued[n].hops
       /\ path'[n] = NoPath => path[n] = NoPath
    \/ \E k \in announces : /\ Installs(n, k)
                            /\ Accepts(n, k)
                            /\ queued'[n].emission = k.emission
                            /\ queued'[n].hops = k.hops + 1

\* What an announce leaves in the queue of its receiver.
LEMMA QueueOutcome ==
    ASSUME TypeOK, NEW k \in announces, NEW q \in QueueOutcomes(k.to, k)
    PROVE  \/ q = NoEntry
           \/ /\ queued[k.to] # NoEntry
              /\ q.emission = queued[k.to].emission /\ q.hops = queued[k.to].hops
           \/ Accepts(k.to, k) /\ q.emission = k.emission /\ q.hops = k.hops + 1
<1> DEFINE q0 == queued[k.to]
           new == AnnounceEntry(k.emission, k.hops + 1, 0, 0)
<1>1. new.emission = k.emission /\ new.hops = k.hops + 1
  BY DEF AnnounceEntry
<1>2. \A h \in HeardOutcomes(q0, k) :
          h = NoEntry \/ (q0 # NoEntry /\ h.emission = q0.emission /\ h.hops = q0.hops)
  BY DEF HeardOutcomes, AnnounceEntry
<1>3. q \in HeardOutcomes(q0, k) \/ (q = new /\ Accepts(k.to, k))
  BY DEF QueueOutcomes
<1> HIDE DEF new
<1> QED  BY <1>1, <1>2, <1>3

\* What a step may do to the path and the queue of a node.
LEMMA Routes ==
    ASSUME TypeOK, Next
    PROVE  gaveUp \subseteq gaveUp' /\ \A n \in Nodes : PathStep(n) /\ QueueStep(n)
<1> DEFINE Goal == gaveUp \subseteq gaveUp' /\ \A n \in Nodes : PathStep(n) /\ QueueStep(n)
<1> SUFFICES Goal  OBVIOUS
<1>a. CASE path' = path /\ queued' = queued /\ gaveUp' = gaveUp
  BY <1>a DEF PathStep, QueueStep
<1>1. ASSUME NEW k \in announces, NEW q \in QueueOutcomes(k.to, k),
             NEW served \in SUBSET asked[k.to], HandleAnnounce(k.to, k, q, served)
      PROVE  Goal
  <2>1. /\ k.to \in Nodes /\ gaveUp' = gaveUp
        /\ \A n \in Nodes \ {k.to} : path'[n] = path[n] /\ queued'[n] = queued[n]
        /\ queued'[k.to] = q /\ path'[k.to] = PathAfter(k.to, k)
    BY <1>1 DEF HandleAnnounce, TypeOK, Frames
  <2>2. Installs(k.to, k)
    BY <1>1, <2>1 DEF Installs, HandleAnnounce
  <2>3. path'[k.to] # NoPath
    BY <1>1, <2>1, PathAfterType, PathAssumption DEF HandleAnnounce
  <2>4. PathStep(k.to)  BY <2>2 DEF PathStep
  <2>5. QueueStep(k.to)  BY <2>1, <2>2, <2>3, QueueOutcome DEF QueueStep
  <2>6. \A n \in Nodes \ {k.to} : PathStep(n) /\ QueueStep(n)
    BY <2>1 DEF PathStep, QueueStep
  <2> QED  BY <2>1, <2>4, <2>5, <2>6
<1>2. ASSUME NEW n \in Nodes, ProcessAnnounceTable(n)  PROVE Goal
  <2>1. /\ path' = path /\ gaveUp' = gaveUp /\ queued[n] # NoEntry
        /\ \A m \in Nodes \ {n} : queued'[m] = queued[m]
        /\ queued'[n] = AfterRetry(queued[n])
    BY <1>2 DEF ProcessAnnounceTable, TypeOK
  <2>2. \/ AfterRetry(queued[n]) = NoEntry
        \/ /\ AfterRetry(queued[n]).emission = queued[n].emission
           /\ AfterRetry(queued[n]).hops = queued[n].hops
    BY DEF AfterRetry, AnnounceEntry
  <2> QED  BY <2>1, <2>2 DEF PathStep, QueueStep
<1>3. ASSUME NEW n \in Nodes, AnnounceCleaned(n)  PROVE Goal
  <2>1. /\ path' = path /\ gaveUp' = gaveUp
        /\ \A m \in Nodes \ {n} : queued'[m] = queued[m]
        /\ queued'[n] = NoEntry
    BY <1>3 DEF AnnounceCleaned, TypeOK
  <2> QED  BY <2>1 DEF PathStep, QueueStep
<1>4. ASSUME NEW n \in Nodes, PathExpires(n)  PROVE Goal
  <2>1. /\ queued' = queued /\ gaveUp' = gaveUp \cup {n} /\ path[n] # NoPath
        /\ \A m \in Nodes \ {n} : path'[m] = path[m]
        /\ path'[n] = Aged(path[n])
    BY <1>4, Zenon DEF PathExpires, GivesUp, TypeOK
  <2>2. Aged(path[n]) \in PathEntries
    BY <2>1 DEF TypeOK, Aged, PathEntry, PathEntries
  <2>3. KeepsRoute(path[n], Aged(path[n]))
    BY <2>1 DEF KeepsRoute, Aged, PathEntry
  <2> QED  BY <2>1, <2>2, <2>3, PathAssumption DEF PathStep, QueueStep
<1>5. ASSUME NEW n \in Nodes, MarkPathUnresponsive(n)  PROVE Goal
  <2>1. /\ queued' = queued /\ gaveUp' = gaveUp \cup {n} /\ path[n] # NoPath
        /\ \A m \in Nodes \ {n} : path'[m] = path[m]
        /\ path'[n] = MarkedUnresponsive(path[n])
    BY <1>5, Zenon DEF MarkPathUnresponsive, GivesUp, TypeOK
  <2>2. MarkedUnresponsive(path[n]) \in PathEntries
    BY <2>1 DEF TypeOK, MarkedUnresponsive, PathEntry, PathEntries
  <2>3. KeepsRoute(path[n], MarkedUnresponsive(path[n]))
    BY <2>1 DEF KeepsRoute, MarkedUnresponsive, PathEntry
  <2> QED  BY <2>1, <2>2, <2>3, PathAssumption DEF PathStep, QueueStep
<1>6. ASSUME NEW n \in Nodes, CullExpiredPaths(n)  PROVE Goal
  <2>1. /\ gaveUp' = gaveUp /\ path[n] # NoPath /\ path[n].expired
        /\ \A m \in Nodes \ {n} : path'[m] = path[m] /\ queued'[m] = queued[m]
        /\ path'[n] = NoPath /\ queued'[n] = NoEntry
    BY <1>6 DEF CullExpiredPaths, TypeOK
  <2> QED  BY <2>1 DEF PathStep, QueueStep
<1> HIDE DEF Goal
<1>7. (HomeAnnounces \/ \E t \in Tags : RequestPath(t))
          => path' = path /\ queued' = queued /\ gaveUp' = gaveUp
  BY Zenon DEF HomeAnnounces, RequestPath
<1>8. (\E r \in requests : \/ BatchRequest(r.to, r) \/ AnswerLocally(r.to, r)
                           \/ AnswerFromCache(r.to, r) \/ RelayRequest(r.to, r)
                           \/ LimitRequest(r.to, r))
          => path' = path /\ queued' = queued /\ gaveUp' = gaveUp
  BY Zenon DEF BatchRequest, AnswerLocally, AnswerFromCache, RelayRequest, LimitRequest
<1>9. (\E n \in Nodes : CullPathRequests(n))
          => path' = path /\ queued' = queued /\ gaveUp' = gaveUp
  BY DEF CullPathRequests
<1> QED
  BY <1>a, <1>1, <1>2, <1>3, <1>4, <1>5, <1>6, <1>7, <1>8, <1>9, Steps, Zenon

(***************************************************************************)
(* What installing an announce leaves in the path table.                   *)
(***************************************************************************)
LEMMA Installed ==
    ASSUME TypeOK, NEW k \in announces, Installs(k.to, k)
    PROVE  \/ path[k.to] # NoPath /\ ~Accepts(k.to, k) /\ path'[k.to] = path[k.to]
           \/ /\ path'[k.to].hops = k.hops + 1
              /\ path'[k.to].via = k.from
              /\ path'[k.to].emission = k.emission
              /\ path'[k.to].relayed = k.relayed
              /\ path'[k.to].unresponsive = FALSE
              /\ path'[k.to].expired = FALSE
              /\ \/ path[k.to] = NoPath /\ path'[k.to].timebase = EmittedAt[k.emission]
                 \/ /\ path[k.to] # NoPath
                    /\ ShouldReplace(path[k.to], k.to, k.emission, k.hops + 1, k.from)
                    /\ path'[k.to].timebase =
                           IF EmittedAt[k.emission] > path[k.to].timebase
                           THEN EmittedAt[k.emission] ELSE path[k.to].timebase
<1>1. CASE path[k.to] = NoPath
  <2> DEFINE entry == PathEntry(k.hops + 1, k.from, {k.emission}, EmittedAt[k.emission],
                                k.emission, k.relayed, FALSE, FALSE)
  <2>1. path'[k.to] = entry
    BY <1>1, Zenon DEF Installs, PathAfter, NewPath
  <2>2. ASSUME NEW q, q = entry
        PROVE  /\ q.hops = k.hops + 1 /\ q.via = k.from /\ q.emission = k.emission
               /\ q.relayed = k.relayed /\ q.unresponsive = FALSE /\ q.expired = FALSE
               /\ q.timebase = EmittedAt[k.emission]
    BY <2>2, Zenon DEF PathEntry
  <2> HIDE DEF entry
  <2> QED  BY <1>1, <2>1, <2>2, Zenon
<1>2. CASE path[k.to] # NoPath /\ Accepts(k.to, k)
  <2> DEFINE timebase == IF EmittedAt[k.emission] > path[k.to].timebase
                         THEN EmittedAt[k.emission] ELSE path[k.to].timebase
             entry == PathEntry(k.hops + 1, k.from, path[k.to].blobs \cup {k.emission},
                                timebase, k.emission, k.relayed, FALSE, FALSE)
  <2>1. path'[k.to] = entry
    BY <1>2, Zenon DEF Installs, PathAfter, Replaced
  <2>2. ASSUME NEW q, q = entry
        PROVE  /\ q.hops = k.hops + 1 /\ q.via = k.from /\ q.emission = k.emission
               /\ q.relayed = k.relayed /\ q.unresponsive = FALSE /\ q.expired = FALSE
               /\ q.timebase = timebase
    <3> HIDE DEF timebase
    <3> QED  BY <2>2, Zenon DEF PathEntry
  <2> HIDE DEF entry
  <2> QED  BY <1>2, <2>1, <2>2, Zenon DEF Accepts
<1>3. CASE path[k.to] # NoPath /\ ~Accepts(k.to, k)
  BY <1>3, Zenon DEF Installs, PathAfter
<1> QED  BY <1>1, <1>2, <1>3, Zenon

(* A path in good order is replaced by a better one only. *)
LEMMA BetterReplaces ==
    ASSUME NEW p \in PathEntries, NEW n \in Nodes, NEW e \in Emissions,
           NEW h \in Nat, NEW m \in Nodes,
           ShouldReplace(p, n, e, h, m), ~p.unresponsive, ~p.expired
    PROVE  EmittedAt[e] > p.timebase \/ (EmittedAt[e] = p.timebase /\ h <= p.hops)
BY PathAssumption DEF ShouldReplace, PathEntries

-----------------------------------------------------------------------------
(***************************************************************************)
(* The invariants, one after the other.                                    *)
(***************************************************************************)
LEMMA LinksHold ==
    ASSUME TypeOK, LinkInv, Next, TypeOK'
    PROVE  LinkInv'
<1>1. \A r \in requests' : {r.from, r.to} \in Links
  BY Asks, Zenon DEF LinkInv, Neighbours
<1>2. \A m, n \in Nodes : AskedBy(m, n) => m \in Neighbours(n)
  <2> SUFFICES ASSUME NEW m \in Nodes, NEW n \in Nodes, NEW r \in requests,
                      r.from = m, r.to = n
               PROVE  m \in Neighbours(n)
    BY DEF AskedBy
  <2>1. {m, n} \in Links  BY DEF LinkInv
  <2>2. {m, n} = {n, m}  OBVIOUS
  <2> QED  BY <2>1, <2>2 DEF Neighbours
<1>3. \A n \in Nodes : asked'[n] \subseteq Neighbours(n)
  BY <1>2, Asks DEF LinkInv, TypeOK
<1>4. \A k \in announces' : {k.from, k.to} \in Links
  <2> SUFFICES ASSUME NEW k \in announces' PROVE {k.from, k.to} \in Links
    OBVIOUS
  <2>1. k.from \in Nodes /\ k.to \in Nodes  BY DEF TypeOK, Frames
  <2>2. k \in announces \/ Crosses(k)  BY Sends
  <2>3. Crosses(k) => k.to \in Neighbours(k.from)
    BY <1>2, <2>1 DEF Crosses, LinkInv
  <2> QED  BY <2>2, <2>3 DEF LinkInv, Neighbours
<1> QED  BY <1>1, <1>3, <1>4 DEF LinkInv, Neighbours

\* Responses keep going back to a request.
LEMMA AskedHold ==
    ASSUME TypeOK, AskedInv, Next, TypeOK'
    PROVE  AskedInv'
<1>1. requests \subseteq requests'  BY Asks
<1>2. \A n \in Nodes : \A m \in asked'[n] : \E r \in requests' : r.from = m /\ r.to = n
  BY <1>1, Asks DEF AskedInv, AskedBy
<1>3. ASSUME NEW k \in announces', k.response
      PROVE  \E r \in requests' : r.from = k.to /\ r.to = k.from
  <2>1. k.from \in Nodes  BY DEF TypeOK, Frames
  <2>2. k \in announces \/ Wanted(k)  BY Sends
  <2> QED  BY <1>1, <1>3, <2>1, <2>2 DEF AskedInv, ResponsesWereAskedFor, Wanted, AskedBy
<1> QED  BY <1>2, <1>3 DEF AskedInv, ResponsesWereAskedFor

\* No step makes a hop count smaller than the distance.
LEMMA FarHold ==
    ASSUME TypeOK, LinkInv, FarInv, Next, TypeOK'
    PROVE  FarInv'
<1>1. \A k \in announces : k.to \in Nodes /\ k.hops \in Nat /\ k.hops + 1 >= Distance[k.to]
  <2> SUFFICES ASSUME NEW k \in announces
               PROVE  k.to \in Nodes /\ k.hops \in Nat /\ k.hops + 1 >= Distance[k.to]
    OBVIOUS
  <2>1. k.from \in Nodes /\ k.to \in Nodes /\ k.hops \in Nat
    BY PathAssumption DEF TypeOK, Frames
  <2>2. {k.to, k.from} \in Links
    <3>1. {k.to, k.from} = {k.from, k.to}  OBVIOUS
    <3> QED  BY <3>1 DEF LinkInv
  <2>3. Distance[k.to] <= Distance[k.from] + 1
    BY <2>1, <2>2, NetworkAssumption
  <2>4. k.hops >= Distance[k.from]  BY DEF FarInv
  <2>5. Distance[k.to] \in Nat /\ Distance[k.from] \in Nat
    BY <2>1, NetworkAssumption
  <2> QED  BY <2>1, <2>3, <2>4, <2>5
<1>2. ASSUME NEW n \in Nodes, path'[n] # NoPath  PROVE path'[n].hops >= Distance[n]
  <2>1. PathStep(n)  BY Routes
  <2>2. CASE path'[n] = path[n]
    BY <1>2, <2>2 DEF FarInv, HopsAtLeastDistance
  <2>3. ASSUME NEW k \in announces, Installs(n, k)  PROVE path'[n].hops >= Distance[n]
    <3>1. k.to = n  BY <2>3 DEF Installs
    <3>2. path'[n] = path[n] \/ path'[n].hops = k.hops + 1
      BY <2>3, <3>1, Installed, Zenon
    <3> QED  BY <1>1, <1>2, <3>1, <3>2 DEF FarInv, HopsAtLeastDistance
  <2>4. CASE KeepsRoute(path[n], path'[n])
    BY <2>4 DEF KeepsRoute, FarInv, HopsAtLeastDistance
  <2> QED  BY <1>2, <2>1, <2>2, <2>3, <2>4 DEF PathStep
<1>3. ASSUME NEW n \in Nodes, queued'[n] # NoEntry  PROVE queued'[n].hops >= Distance[n]
  <2>1. QueueStep(n)  BY Routes
  <2> QED  BY <1>1, <1>3, <2>1 DEF QueueStep, Installs, FarInv
<1>4. ASSUME NEW k \in announces'  PROVE k.hops >= Distance[k.from]
  <2>1. k.from \in Nodes  BY DEF TypeOK, Frames
  <2>2. k \in announces \/ Sent(k)  BY Sends
  <2>3. CASE k \in announces  BY <2>3 DEF FarInv
  <2>4. CASE Sent(k)
    <3>1. CASE k.from = Home /\ k.hops = 0
      BY <3>1, NetworkAssumption
    <3>2. CASE path[k.from] # NoPath /\ k.hops = path[k.from].hops
      BY <2>1, <3>2 DEF FarInv, HopsAtLeastDistance
    <3>3. CASE queued[k.from] # NoEntry /\ k.hops = queued[k.from].hops
      BY <2>1, <3>3 DEF FarInv
    <3>4. CASE \E k0 \in announces : k0.to = k.from /\ k.hops = k0.hops + 1
      BY <1>1, <3>4, Zenon
    <3> QED
      BY <2>4, <3>1, <3>2, <3>3, <3>4, Zenon DEF Sent
  <2> QED  BY <2>2, <2>3, <2>4
<1> QED  BY <1>2, <1>3, <1>4 DEF FarInv, HopsAtLeastDistance

(* The path of a node that never gave one up only gets better. *)
Improves(n) ==
    path[n] # NoPath => /\ path'[n] # NoPath
                        /\ AtLeast(path'[n], path[n].timebase, path[n].hops)

InOrder(p) ==
    p.timebase = EmittedAt[p.emission] /\ ~p.unresponsive /\ ~p.expired

\* A node that takes an announce in has a path at least as good as before.
LEMMA Better ==
    ASSUME TypeOK, RankInv, NEW k \in announces, Installs(k.to, k), TypeOK',
           k.to \notin gaveUp
    PROVE  /\ Improves(k.to)
           /\ path'[k.to] # NoPath
           /\ InOrder(path'[k.to])
           /\ Accepts(k.to, k) => path'[k.to].emission = k.emission
                                  /\ path'[k.to].hops = k.hops + 1
<1> DEFINE n == k.to
           p == path[n]
           q == path'[n]
           e == k.emission
           h == k.hops + 1
<1>1. /\ n \in Nodes /\ e \in Emissions /\ h \in Nat /\ k.from \in Nodes
      /\ EmittedAt[e] \in Nat
  BY PathAssumption DEF TypeOK, Frames
<1>2. p \in PathEntries \cup {NoPath} /\ q \in PathEntries \cup {NoPath}
  BY <1>1 DEF TypeOK
<1>3. q # NoPath
  BY PathAfterType, PathAssumption DEF Installs
<1>4. p # NoPath => InOrder(p)
  BY <1>1 DEF RankInv, InOrder
<1>5. CASE p # NoPath /\ ~Accepts(n, k) /\ q = p
  <2>1. p.timebase \in Nat /\ p.hops \in Nat
    BY <1>2, <1>5, PathAssumption, SMTT(60) DEF PathEntries
  <2> QED  BY <1>3, <1>4, <1>5, <2>1 DEF Improves, AtLeast
<1>6. CASE p = NoPath /\ q.hops = h /\ q.emission = e /\ q.unresponsive = FALSE
           /\ q.expired = FALSE /\ q.timebase = EmittedAt[e]
  BY <1>3, <1>6, Zenon DEF Improves, InOrder
<1>7. CASE p # NoPath /\ q.hops = h /\ q.emission = e /\ q.unresponsive = FALSE
           /\ q.expired = FALSE /\ ShouldReplace(p, n, e, h, k.from)
           /\ q.timebase = IF EmittedAt[e] > p.timebase THEN EmittedAt[e] ELSE p.timebase
  <2>1. p \in PathEntries /\ p.timebase \in Nat /\ p.hops \in Nat
    BY <1>2, <1>7, PathAssumption, SMTT(60) DEF PathEntries
  <2>2. EmittedAt[e] > p.timebase \/ (EmittedAt[e] = p.timebase /\ h <= p.hops)
    BY <1>1, <1>4, <1>7, <2>1, BetterReplaces DEF InOrder
  <2>3. q.timebase = EmittedAt[e]
    BY <1>1, <1>7, <2>1, <2>2, Zenon
  <2> QED  BY <1>1, <1>3, <1>7, <2>1, <2>2, <2>3 DEF Improves, InOrder, AtLeast
<1> HIDE DEF n, p, q, e, h
<1>8. \/ p # NoPath /\ ~Accepts(n, k) /\ q = p
      \/ /\ q.hops = h /\ q.emission = e /\ q.unresponsive = FALSE /\ q.expired = FALSE
         /\ \/ p = NoPath /\ q.timebase = EmittedAt[e]
            \/ /\ p # NoPath /\ ShouldReplace(p, n, e, h, k.from)
               /\ q.timebase = IF EmittedAt[e] > p.timebase
                               THEN EmittedAt[e] ELSE p.timebase
  BY Installed, Zenon DEF n, p, q, e, h
<1> QED  BY <1>5, <1>6, <1>7, <1>8, Zenon DEF n, p, q, e, h

\* A node that gave nothing up has a path at least as good after any step.
LEMMA PathsImprove ==
    ASSUME TypeOK, RankInv, Next, TypeOK', NEW n \in Nodes, n \notin gaveUp'
    PROVE  Improves(n) /\ (path'[n] # NoPath => InOrder(path'[n]))
<1>1. n \notin gaveUp  BY Routes
<1>2. path[n] # NoPath => InOrder(path[n])
  BY <1>1 DEF RankInv, InOrder
<1>3. CASE path'[n] = path[n]
  <2>1. path[n] # NoPath => path[n].timebase \in Nat /\ path[n].hops \in Nat
    BY PathAssumption DEF TypeOK, PathEntries
  <2> QED  BY <1>2, <1>3, <2>1 DEF Improves, AtLeast
<1>4. ASSUME NEW k \in announces, Installs(n, k)
      PROVE  Improves(n) /\ (path'[n] # NoPath => InOrder(path'[n]))
  <2>1. k.to = n  BY <1>4 DEF Installs
  <2> QED  BY <1>1, <1>4, <2>1, Better
<1>5. PathStep(n)  BY Routes
<1> QED  BY <1>2, <1>3, <1>4, <1>5 DEF PathStep, InOrder

(* Being at least as good is kept by getting better. *)
LEMMA StaysAtLeast ==
    ASSUME TypeOK, TypeOK', NEW n \in Nodes, Improves(n), path[n] # NoPath,
           NEW t \in Nat, NEW h \in Int, AtLeast(path[n], t, h)
    PROVE  path'[n] # NoPath /\ AtLeast(path'[n], t, h)
<1>1. path'[n] # NoPath  BY DEF Improves
<1>2. /\ path[n].timebase \in Nat /\ path[n].hops \in Nat
      /\ path'[n].timebase \in Nat /\ path'[n].hops \in Nat
  BY <1>1, PathAssumption DEF TypeOK, PathEntries
<1> QED  BY <1>1, <1>2 DEF Improves, AtLeast

\* No step makes what a node offered better than what it has.
LEMMA RankHold ==
    ASSUME TypeOK, HomeInv, RankInv, Next, TypeOK'
    PROVE  RankInv'
<1>1. gaveUp \subseteq gaveUp'  BY Routes
<1>2. ASSUME NEW n \in Nodes \ gaveUp', path'[n] # NoPath  PROVE InOrder(path'[n])
  BY <1>2, PathsImprove
<1>3. ASSUME NEW n \in Nodes \ gaveUp', queued'[n] # NoEntry
      PROVE  path'[n] # NoPath /\ AtLeast(path'[n], EmittedAt[queued'[n].emission], queued'[n].hops)
  <2>1. QueueStep(n)  BY Routes, Zenon
  <2>2. CASE queued[n] # NoEntry /\ queued'[n].emission = queued[n].emission
             /\ queued'[n].hops = queued[n].hops
    <3>1. path[n] # NoPath /\ AtLeast(path[n], EmittedAt[queued[n].emission], queued[n].hops)
      BY <1>1, <2>2 DEF RankInv
    <3>2. EmittedAt[queued[n].emission] \in Nat /\ queued[n].hops \in Int
      BY <2>2, PathAssumption DEF TypeOK, AnnounceEntries
    <3>3. Improves(n)  BY <1>3, PathsImprove
    <3> QED  BY <2>2, <3>1, <3>2, <3>3, StaysAtLeast
  <2>3. ASSUME NEW k \in announces, Installs(n, k), Accepts(n, k),
               queued'[n].emission = k.emission, queued'[n].hops = k.hops + 1
        PROVE  path'[n] # NoPath
               /\ AtLeast(path'[n], EmittedAt[queued'[n].emission], queued'[n].hops)
    <3>1. k.to = n /\ n \notin gaveUp  BY <1>1, <2>3 DEF Installs
    <3>2. /\ path'[n] # NoPath /\ path'[n].timebase = EmittedAt[k.emission]
          /\ path'[n].hops = k.hops + 1
      BY <2>3, <3>1, Better DEF InOrder
    <3>3. path'[n].hops \in Nat
      BY <3>2, PathAssumption DEF TypeOK, PathEntries
    <3> QED  BY <2>3, <3>2, <3>3, SMTT(60) DEF AtLeast
  <2> QED  BY <1>3, <2>1, <2>2, <2>3 DEF QueueStep
<1>4. ASSUME NEW k \in announces, ~k.relayed, k.from \notin gaveUp' \cup {Home}
      PROVE  path'[k.from] # NoPath /\ AtLeast(path'[k.from], EmittedAt[k.emission], k.hops)
  <2>1. k.from \in Nodes /\ EmittedAt[k.emission] \in Nat /\ k.hops \in Int
    BY PathAssumption DEF TypeOK, Frames
  <2>2. path[k.from] # NoPath /\ AtLeast(path[k.from], EmittedAt[k.emission], k.hops)
    BY <1>1, <1>4 DEF RankInv
  <2>3. Improves(k.from)  BY <1>4, <2>1, PathsImprove
  <2> QED  BY <2>1, <2>2, <2>3, StaysAtLeast
<1>5. ASSUME NEW k \in announces', ~k.relayed, k.from \notin gaveUp' \cup {Home}
      PROVE  path'[k.from] # NoPath /\ AtLeast(path'[k.from], EmittedAt[k.emission], k.hops)
  <2>1. k.from \in Nodes /\ EmittedAt[k.emission] \in Nat /\ k.hops \in Int
    BY PathAssumption DEF TypeOK, Frames
  <2>2. k \in announces \/ Sent(k)  BY Sends
  <2>3. CASE Sent(k)
    <3>1. path[k.from] # NoPath /\ AtLeast(path[k.from], EmittedAt[k.emission], k.hops)
      <4>1. CASE path[k.from] # NoPath /\ k.emission = path[k.from].emission
                 /\ k.hops = path[k.from].hops
        BY <1>1, <1>5, <2>1, <4>1, SMTT(60) DEF RankInv, AtLeast
      <4>2. CASE queued[k.from] # NoEntry /\ k.emission = queued[k.from].emission
                 /\ k.hops = queued[k.from].hops
        BY <1>1, <1>5, <2>1, <4>2 DEF RankInv
      <4> QED  BY <1>5, <2>3, <4>1, <4>2 DEF Sent
    <3>2. Improves(k.from)  BY <1>5, <2>1, PathsImprove
    <3> QED  BY <2>1, <3>1, <3>2, StaysAtLeast
  <2> QED  BY <1>4, <1>5, <2>2, <2>3
<1>6. ASSUME NEW n \in Nodes, path'[n] # NoPath, ~path'[n].relayed,
             path'[n].via \notin gaveUp' \cup {Home}
      PROVE  /\ path'[path'[n].via] # NoPath
             /\ AtLeast(path'[path'[n].via], EmittedAt[path'[n].emission], path'[n].hops - 1)
  <2> DEFINE Goal == /\ path'[path'[n].via] # NoPath
                     /\ AtLeast(path'[path'[n].via], EmittedAt[path'[n].emission],
                                path'[n].hops - 1)
  <2> SUFFICES Goal  OBVIOUS
  <2>1. CASE path[n] # NoPath /\ path'[n].via = path[n].via /\ path'[n].hops = path[n].hops
             /\ path'[n].emission = path[n].emission /\ path'[n].relayed = path[n].relayed
    <3> DEFINE m == path[n].via
    <3>1. m \in Nodes /\ EmittedAt[path[n].emission] \in Nat /\ path[n].hops - 1 \in Int
      <4>1. path[n] \in PathEntries
        BY <2>1, Zenon DEF TypeOK
      <4> QED
        BY <4>1, PathAssumption DEF PathEntries
    <3>2. path[m] # NoPath /\ AtLeast(path[m], EmittedAt[path[n].emission], path[n].hops - 1)
      BY <1>1, <1>6, <2>1 DEF RankInv, PathsDescend
    <3>3. Improves(m)  BY <1>6, <2>1, <3>1, PathsImprove
    <3>4. path'[m] # NoPath
          /\ AtLeast(path'[m], EmittedAt[path[n].emission], path[n].hops - 1)
      BY <3>1, <3>2, <3>3, StaysAtLeast
    <3> QED  BY <2>1, <3>4
  <2>2. ASSUME NEW k \in announces, Installs(n, k), path'[n] # path[n]  PROVE Goal
    <3>1. k.to = n  BY <2>2 DEF Installs
    <3>2. /\ path'[n].via = k.from /\ path'[n].hops = k.hops + 1
          /\ path'[n].emission = k.emission /\ path'[n].relayed = k.relayed
      BY <2>2, <3>1, Installed, Zenon
    <3>3. path'[k.from] # NoPath /\ AtLeast(path'[k.from], EmittedAt[k.emission], k.hops)
      BY <1>4, <1>6, <3>2
    <3>4. k.hops = path'[n].hops - 1
      BY <3>2, PathAssumption DEF TypeOK, Frames
    <3> QED  BY <3>2, <3>3, <3>4
  <2>3. PathStep(n)  BY Routes
  <2> HIDE DEF Goal
  <2>4. path'[n] = path[n] => Goal  BY <1>6, <2>1
  <2>5. KeepsRoute(path[n], path'[n]) => Goal  BY <2>1 DEF KeepsRoute
  <2> QED  BY <1>6, <2>2, <2>3, <2>4, <2>5 DEF PathStep
<1>7. PathsDescend'  BY <1>6, Zenon DEF PathsDescend
<1> QED  BY <1>2, <1>3, <1>5, <1>7 DEF RankInv, InOrder

-----------------------------------------------------------------------------
(***************************************************************************)
(* The inductive invariant.                                                *)
(***************************************************************************)
IInv == TypeOK /\ HomeInv /\ LinkInv /\ FarInv /\ AskedInv /\ RankInv

LEMMA InitIInv == Init => IInv
<1> SUFFICES ASSUME Init PROVE IInv  OBVIOUS
<1>1. TypeOK
  BY PathAssumption DEF Init, TypeOK
<1>2. HomeInv /\ \A n \in Nodes : path[n] = NoPath /\ queued[n] = NoEntry /\ asked[n] = {}
  BY NetworkAssumption DEF Init, HomeInv
<1>3. announces = {} /\ requests = {}  BY DEF Init
<1> QED
  BY <1>1, <1>2, <1>3 DEF IInv, LinkInv, FarInv, HopsAtLeastDistance, AskedInv,
     ResponsesWereAskedFor, RankInv, PathsDescend

LEMMA NextIInv == IInv /\ [Next]_vars => IInv'
<1> SUFFICES ASSUME IInv, [Next]_vars PROVE IInv'  OBVIOUS
<1>1. CASE UNCHANGED vars
  <2>1. TypeOK' /\ HomeInv' /\ LinkInv'
    BY <1>1 DEF IInv, TypeOK, HomeInv, LinkInv, vars
  <2>2. FarInv' /\ AskedInv'
    BY <1>1, Zenon DEF IInv, FarInv, HopsAtLeastDistance, AskedInv, ResponsesWereAskedFor, vars
  <2>3. RankInv'
    BY <1>1 DEF IInv, RankInv, PathsDescend, vars
  <2> QED  BY <2>1, <2>2, <2>3 DEF IInv
<1>2. CASE Next
  <2>1. TypeOK'  BY TypesHold DEF IInv
  <2>2. HomeInv'  BY HomeHolds DEF IInv
  <2> QED
    BY <1>2, <2>1, <2>2, LinksHold, FarHold, AskedHold, RankHold DEF IInv
<1> QED  BY <1>1, <1>2

(* Every table and every frame keeps its type, and all the strengthenings  *)
(* hold throughout.                                                        *)
THEOREM PathInvariant == Spec => []IInv
BY InitIInv, NextIInv, PTL DEF Spec

(* The tables and the frames of every network, of every announce and of    *)
(* every request keep their types: in particular no frame carries more     *)
(* hops than MaxHops, and no entry of an announce table outlives its       *)
(* retries (handleAnnounce, processAnnounceTable).                         *)
THEOREM PathsTypeCorrect == Spec => []TypeOK
<1>1. IInv => TypeOK  BY DEF IInv
<1> QED  BY <1>1, PathInvariant, PTL

(* In every network a path is exchanged only for one that is at least as   *)
(* good, until its node gives it up (the replacement rules of              *)
(* handleAnnounce).                                                        *)
THEOREM PathsGetBetter == Spec => PathsOnlyImprove
<1> DEFINE NoWorse ==
        \A n \in Nodes \ gaveUp' : path[n] # NoPath =>
            path'[n] # NoPath /\ AtLeast(path'[n], path[n].timebase, path[n].hops)
<1>1. IInv /\ IInv' /\ Next => NoWorse
  BY PathsImprove DEF IInv, Improves
<1>2. IInv /\ IInv' /\ [Next]_vars => [NoWorse]_vars
  BY <1>1
<1> QED  BY <1>2, PathInvariant, PTL DEF Spec, PathsOnlyImprove

(* In every network the next hop of a path knows a better path, unless it  *)
(* gave one up or relayed a response it did not record (the replacement    *)
(* rules of handleAnnounce).                                               *)
THEOREM Descend == Spec => []PathsDescend
<1>1. IInv => PathsDescend  BY DEF IInv, RankInv
<1> QED  BY <1>1, PathInvariant, PTL

(* In every network no path claims to be shorter than the way is, however  *)
(* late, repeated or out of order the frames arrive.                       *)
THEOREM HopsAreHonest == Spec => []HopsAtLeastDistance
<1>1. IInv => HopsAtLeastDistance  BY DEF IInv, FarInv
<1> QED  BY <1>1, PathInvariant, PTL

(* In every network a path response crosses a link only against a request  *)
(* that crossed it before (handlePathRequest and                           *)
(* forwardPathResponseToRequesters).                                       *)
THEOREM AnswersWereAsked == Spec => []ResponsesWereAskedFor
<1>1. IInv => ResponsesWereAskedFor  BY DEF IInv, AskedInv
<1> QED  BY <1>1, PathInvariant, PTL

-----------------------------------------------------------------------------
(***************************************************************************)
(* A set of numbers has a least one.  The loop argument takes, in a set of *)
(* nodes closed under next hops, a node whose path has the latest timebase *)
(* and among those the fewest hops: its next hop would have to be better.  *)
(***************************************************************************)
LEMMA Least ==
    ASSUME NEW T \in SUBSET Nat, T # {}
    PROVE  \E x \in T : \A y \in T : x <= y
<1> DEFINE R == OpToRel(<, Nat)
<1>1. IsWellFoundedOn(R, Nat)
  BY NatLessThanWellFounded, Zenon
<1>2. R = {ss \in Nat \X Nat : ss[1] < ss[2]}
  BY DEF OpToRel
<1>3. \A x, y \in Nat : <<y, x>> \in R <=> y < x
  BY <1>2, Zenon
<1> HIDE DEF R
<1>4. PICK x \in T : \A y \in T : ~(<<y, x>> \in R)
  BY <1>1, WFMin, Zenon
<1>5. \A y \in T : ~(y < x)
  BY <1>3, <1>4, Zenon
<1> QED  BY <1>5

\* Along a loop every next hop would have a better path than the node before it.
LEMMA LoopHasACause == IInv => LoopNeedsACause
<1> SUFFICES ASSUME IInv, NEW S \in SUBSET (Nodes \ {Home}), S # {},
                    \A n \in S : path[n] # NoPath /\ path[n].via \in S,
                    \A n \in S : n \notin gaveUp /\ ~path[n].relayed
             PROVE  FALSE
  BY DEF LoopNeedsACause
<1>1. \A n \in S : /\ path[n].timebase \in 0..LatestTime /\ path[n].hops \in Nat
                   /\ path[n].timebase = EmittedAt[path[n].emission]
  <2> SUFFICES ASSUME NEW n \in S
               PROVE  /\ path[n].timebase \in 0..LatestTime /\ path[n].hops \in Nat
                      /\ path[n].timebase = EmittedAt[path[n].emission]
    OBVIOUS
  <2>1. path[n] \in PathEntries  BY DEF IInv, TypeOK
  <2>2. path[n].timebase = EmittedAt[path[n].emission]  BY DEF IInv, RankInv
  <2> QED  BY <2>1, <2>2, PathAssumption DEF PathEntries
<1>2. \A n \in S : AtLeast(path[path[n].via], path[n].timebase, path[n].hops - 1)
  BY <1>1, Zenon DEF IInv, RankInv, PathsDescend
<1> DEFINE Age(n) == LatestTime - path[n].timebase
<1>3. PICK n1 \in S : \A n \in S : path[n].timebase <= path[n1].timebase
  <2> DEFINE T == {Age(n) : n \in S}
  <2>1. T \in SUBSET Nat /\ T # {}
    BY <1>1, PathAssumption
  <2>2. PICK x \in T : \A y \in T : x <= y
    <3> HIDE DEF T
    <3> QED  BY <2>1, Least
  <2>3. PICK n1 \in S : x = Age(n1)  BY <2>2
  <2>4. \A n \in S : Age(n1) <= Age(n)  BY <2>2, <2>3
  <2>5. LatestTime \in Nat  BY PathAssumption
  <2>6. \A n \in S : path[n].timebase <= path[n1].timebase
    BY <1>1, <2>4, <2>5
  <2> QED  BY <2>6
<1> DEFINE L == {n \in S : path[n].timebase = path[n1].timebase}
<1>4. PICK n2 \in L : \A n \in L : path[n2].hops <= path[n].hops
  <2> DEFINE T == {path[n].hops : n \in L}
  <2>1. T \in SUBSET Nat /\ T # {}
    BY <1>1, <1>3
  <2>2. PICK x \in T : \A y \in T : x <= y
    <3> HIDE DEF T
    <3> QED  BY <2>1, Least
  <2> QED  BY <2>2
<1>5. path[n2].via \in S /\ AtLeast(path[path[n2].via], path[n2].timebase, path[n2].hops - 1)
  BY <1>2
<1>6. path[path[n2].via].timebase <= path[n2].timebase
  BY <1>3, <1>4, <1>5
<1>7. path[path[n2].via].timebase = path[n2].timebase
      /\ path[path[n2].via].hops <= path[n2].hops - 1
  BY <1>1, <1>5, <1>6 DEF AtLeast
<1>8. path[n2].hops <= path[path[n2].via].hops
  BY <1>4, <1>5, <1>7
<1> QED  BY <1>1, <1>5, <1>7, <1>8, SMTT(60)

(* In every network a loop of next hops has a cause: a node in it gave up  *)
(* a path or took a relayed response (the replacement rules of             *)
(* handleAnnounce).                                                        *)
THEOREM LoopsNeedACause == Spec => []LoopNeedsACause
BY LoopHasACause, PathInvariant, PTL

=============================================================================
