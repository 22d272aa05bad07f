---------------------------- MODULE ResourceMap ----------------------------
(***************************************************************************)
(* The arithmetic of a resource transfer, rns/resource.go: which parts the *)
(* receiver may ask for, which segment of the hash map the sender answers  *)
(* with, and the size of the window.                                       *)
(*                                                                         *)
(* Part i is identified with its map hash.  So the map hashes of one       *)
(* transfer are taken to be distinct: they are four bytes of a hash, and   *)
(* the sender does not look whether two of them agree.                     *)
(***************************************************************************)
EXTENDS Integers, FiniteSets

CONSTANTS
    TotalParts,         \* totalParts
    HashmapMaxLen,      \* map hashes in one advertisement or hashmap update
    ResourceWindowMax,  \* the constant of the sender's bookkeeping
    WindowFlexibility   \* ResourceWindowFlexibility

ASSUME MapAssumption ==
    /\ TotalParts \in Nat \ {0}
    /\ HashmapMaxLen \in Nat \ {0}
    /\ ResourceWindowMax \in Nat
    /\ HashmapMaxLen <= ResourceWindowMax
    /\ WindowFlexibility \in Nat \ {0}

Lesser(a, b) == IF a < b THEN a ELSE b
Greater(a, b) == IF a > b THEN a ELSE b

Parts == 0 .. TotalParts - 1
CollisionGuardSize == 2 * ResourceWindowMax + HashmapMaxLen
Segments == 0 .. (TotalParts - 1) \div HashmapMaxLen

(***************************************************************************)
(* The map hashes of one segment; a segment past the end is empty.         *)
(***************************************************************************)
HashmapSegment(segment) ==
    segment * HashmapMaxLen .. Lesser((segment + 1) * HashmapMaxLen, TotalParts) - 1

(***************************************************************************)
(* consecutiveCompletedHeight + 1: the first position not yet received.    *)
(***************************************************************************)
FirstMissing(received) ==
    CHOOSE i \in 0 .. TotalParts : i \notin received /\ 0 .. i - 1 \subseteq received

(***************************************************************************)
(* The positions RequestNext looks at, and the first of them whose map     *)
(* hash is unknown, where the scan stops.                                  *)
(***************************************************************************)
RequestRange(received, size) ==
    FirstMissing(received) .. Lesser(FirstMissing(received) + size, TotalParts) - 1

Exhausted(received, known, size) ==
    ~(RequestRange(received, size) \subseteq received \cup known)

Wanted(received, known, size) ==
    {i \in RequestRange(received, size) \ received :
        \A j \in RequestRange(received, size) \ received : j <= i => j \in known}

(***************************************************************************)
(* The positions ReceivePart compares a part with.  They begin at the last *)
(* received position, not at the first missing one.                        *)
(***************************************************************************)
SearchRange(received, size) ==
    LET start == Greater(FirstMissing(received) - 1, 0)
    IN  start .. Lesser(start + size, TotalParts) - 1

(***************************************************************************)
(* hmuSegmentForMapHash: the part index one past the map hash the receiver *)
(* quotes, or the end of the scan when it is not found.  The index is the  *)
(* boundary the next segment starts at unless the sequencing check fails.  *)
(***************************************************************************)
PartIndex(last, minHeight) ==
    LET end == Lesser(minHeight + CollisionGuardSize, TotalParts)
    IN  IF last \in minHeight .. end - 1 THEN last + 1 ELSE end

\* Mutation: the sender searches from the last map hash it was asked about.
NewMinHeightTight(partIndex) == Greater(partIndex - 1, 0)

NewMinHeight(partIndex) == Greater(partIndex - 1 - ResourceWindowMax, 0)

Answerable(partIndex) ==
    partIndex % HashmapMaxLen = 0 /\ partIndex < TotalParts

(***************************************************************************)
(* The receiver's window [size, min, max]: it grows when a round of parts  *)
(* is complete and shrinks when the watchdog has to ask again.             *)
(***************************************************************************)
Grow(w) ==
    IF w.size < w.max
    THEN [w EXCEPT !.size = @ + 1,
                   !.min = IF w.size + 1 - @ > WindowFlexibility - 1 THEN @ + 1 ELSE @]
    ELSE w

\* Mutation: the watchdog lowers the maximum without looking at the minimum.
ShrinkWithoutFloor(w) ==
    [w EXCEPT !.size = Greater(@ - 1, 0), !.max = Greater(@ - 2, 0)]

Shrink(w) ==
    IF w.size > w.min
    THEN LET lowered == IF w.max > w.min THEN w.max - 1 ELSE w.max
             further == w.max > w.min /\ lowered - (w.size - 1) > WindowFlexibility - 1
         IN  [w EXCEPT !.size = @ - 1, !.max = IF further THEN lowered - 1 ELSE lowered]
    ELSE w
=============================================================================
