-------------------------- MODULE ResourceTransfer --------------------------
(***************************************************************************)
(* What rns/resource.go promises the two applications: the receiver gets   *)
(* all the parts or nothing, at most once, and the sender is told of a     *)
(* completed transfer only after the receiver has it.                      *)
(***************************************************************************)
CONSTANT Parts

VARIABLES handed,      \* the parts handed to the receiving application
          confirmed    \* the sending application has been told of it

Init == handed = {} /\ confirmed = FALSE

Deliver == handed = {} /\ handed' = Parts /\ UNCHANGED confirmed

Confirm == handed = Parts /\ confirmed' = TRUE /\ UNCHANGED handed

Next == Deliver \/ Confirm

Spec == Init /\ [][Next]_<<handed, confirmed>>
=============================================================================
