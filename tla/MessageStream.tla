--------------------------- MODULE MessageStream ---------------------------
(***************************************************************************)
(* What rns/channel.go promises the two applications: messages come out in *)
(* the order they went in, without gaps or repetitions, until the          *)
(* receiving end is closed.                                                *)
(***************************************************************************)
EXTENDS Naturals, Sequences

VARIABLES sent,        \* number of messages submitted
          delivered,   \* messages handed over, by number
          open         \* the receiving end is open

Init == sent = 0 /\ delivered = <<>> /\ open = TRUE

Submit == sent' = sent + 1 /\ UNCHANGED <<delivered, open>>

Deliver ==
    /\ open /\ Len(delivered) < sent
    /\ delivered' = Append(delivered, Len(delivered) + 1)
    /\ UNCHANGED <<sent, open>>

Close == open /\ open' = FALSE /\ UNCHANGED <<sent, delivered>>

Next == Submit \/ Deliver \/ Close

Spec == Init /\ [][Next]_<<sent, delivered, open>>
=============================================================================
