-------------------------- MODULE MCPropagationSync --------------------------
EXTENDS PropagationSync, TLC

CONSTANTS a1, a2, own, ma, mb, s1, s2

\* Two copies of one message, and one for the node itself.
TwoOfOne == [c \in Copies |-> IF c \in {a1, a2} THEN ma ELSE mb]
Symmetry == Permutations({a1, a2}) \union Permutations(Sessions)
=============================================================================
