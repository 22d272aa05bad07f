------------------------------ MODULE MCPaths ------------------------------
(***************************************************************************)
(* Instances of Paths: a triangle, which has a longer way beside the       *)
(* shorter one, and a star, whose centre relays for two other nodes.       *)
(***************************************************************************)
EXTENDS Paths

CONSTANTS home, a, b, c, t1, t2

TriangleNodes == {home, a, b}
TriangleLinks == {{home, a}, {home, b}, {a, b}}
TriangleDistance == [n \in Nodes |-> IF n = home THEN 0 ELSE 1]

StarNodes == {home, a, b, c}
StarLinks == {{home, a}, {a, b}, {a, c}}
StarDistance == [n \in Nodes |-> IF n = home THEN 0 ELSE IF n = a THEN 1 ELSE 2]

Heavy(n, m) == IF n # home /\ m = b THEN 1 ELSE 0
MCGravity == [n \in Nodes |-> [m \in Nodes |-> Heavy(n, m)]]

BothFromB == [t \in Tags |-> b]
FromC == [t \in Tags |-> c]

DistinctTimes == [e \in 1..MaxEmissions |-> e]

=============================================================================
