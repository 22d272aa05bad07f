----------------------------- MODULE PathTable -----------------------------
(***************************************************************************)
(* One entry of a transport node's path table, and the rule by which a     *)
(* received announce replaces it (transport.go, handleAnnounce).           *)
(*                                                                         *)
(* An announce is identified by its emission, a number in                  *)
(* 1..MaxEmissions: its random blob.  EmittedAt gives the timestamp inside *)
(* the blob, in seconds, so two emissions may carry the same one.  The     *)
(* list of remembered blobs is kept as a set: it is cut to maxRandomBlobs  *)
(* only when it grows longer than that, which MaxEmissions excludes.  For  *)
(* the same reason the timebase, which the code computes as the greatest   *)
(* timestamp in the list, is carried along in the entry.                   *)
(***************************************************************************)
EXTENDS Integers

CONSTANTS
    Nodes,          \* the transport nodes
    MaxEmissions,   \* bound: how many announces the destination emits
    LatestTime,     \* the last timestamp a blob has room for, in five bytes
    EmittedAt,      \* the timestamp each emission carries
    Gravity,        \* Gravity[n][m]: gravity of n's interface to m
    MaxHops,        \* PathfinderM
    NoPath          \* no entry in the path table

maxRandomBlobs == 64

Emissions == 1..MaxEmissions

(***************************************************************************)
(* A PathEntry.  emission is the cached announce (Packet); relayed is      *)
(* history: the announce was a path response passed on for somebody else.  *)
(***************************************************************************)
PathEntries == [hops : 0..MaxHops, via : Nodes, blobs : SUBSET Emissions,
                timebase : Nat, emission : Emissions, relayed : BOOLEAN,
                unresponsive : BOOLEAN, expired : BOOLEAN]

ASSUME PathAssumption ==
    /\ MaxEmissions \in 1..maxRandomBlobs
    /\ LatestTime \in Nat
    /\ EmittedAt \in [Emissions -> 0..LatestTime]
    /\ Gravity \in [Nodes -> [Nodes -> Nat]]
    /\ MaxHops \in Nat
    /\ NoPath \notin PathEntries

PathEntry(hops, via, blobs, timebase, emission, relayed, unresponsive, expired) ==
    [hops |-> hops, via |-> via, blobs |-> blobs, timebase |-> timebase,
     emission |-> emission, relayed |-> relayed,
     unresponsive |-> unresponsive, expired |-> expired]

NewPath(e, hops, via, relayed) ==
    PathEntry(hops, via, {e}, EmittedAt[e], e, relayed, FALSE, FALSE)

(***************************************************************************)
(* Whether the announce e, counted hops away and received by n from m,     *)
(* replaces n's entry p.                                                   *)
(***************************************************************************)
\* Mutation: an interface of equal gravity is enough to replace the path.
ReplacesOnEqualGravity(p, n, e, hops, m) ==
    /\ hops <= p.hops
    /\ \/ e \notin p.blobs /\ EmittedAt[e] > p.timebase
       \/ EmittedAt[e] = p.timebase /\ Gravity[n][m] >= Gravity[n][p.via]

\* Mutation: the emission times are not compared.
ReplacesWhenUnseen(p, n, e, hops, m) ==
    \/ e \notin p.blobs
    \/ hops <= p.hops /\ EmittedAt[e] = p.timebase /\ Gravity[n][m] > Gravity[n][p.via]

ShouldReplace(p, n, e, hops, m) ==
    LET newBlob == e \notin p.blobs
        newer   == EmittedAt[e] > p.timebase
        same    == EmittedAt[e] = p.timebase
    IN  \/ /\ hops <= p.hops
           /\ \/ newBlob /\ newer
              \/ same /\ (p.unresponsive \/ Gravity[n][m] > Gravity[n][p.via])
        \/ /\ hops > p.hops
           /\ \/ p.expired /\ newBlob
              \/ ~p.expired /\ newBlob /\ newer
              \/ ~p.expired /\ same /\ p.unresponsive

(***************************************************************************)
(* The entry after the replacement: the route is the announce's, the blob  *)
(* is remembered with the earlier ones.                                    *)
(***************************************************************************)
Replaced(p, e, hops, via, relayed) ==
    PathEntry(hops, via, p.blobs \cup {e},
              IF EmittedAt[e] > p.timebase THEN EmittedAt[e] ELSE p.timebase,
              e, relayed, FALSE, FALSE)

MarkedUnresponsive(p) ==
    PathEntry(p.hops, p.via, p.blobs, p.timebase, p.emission, p.relayed, TRUE, p.expired)

Aged(p) ==
    PathEntry(p.hops, p.via, p.blobs, p.timebase, p.emission, p.relayed, p.unresponsive, TRUE)

=============================================================================
