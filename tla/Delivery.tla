------------------------------ MODULE Delivery ------------------------------
(***************************************************************************)
(* What the program takes a connection for: messages are handed over one   *)
(* by one in the order they were sent, none left out and none changed,     *)
(* until the receiving process stops.  The n-th message is the number n.   *)
(* When the sender is gone the last message may be handed over once more.  *)
(***************************************************************************)
EXTENDS Naturals, Sequences

VARIABLES
    sent,       \* how many messages were sent
    gone,       \* the sender is gone
    handed,     \* the messages handed over
    over        \* the receiver has stopped

vars == <<sent, gone, handed, over>>

Latest == IF handed = << >> THEN 0 ELSE handed[Len(handed)]

Init == sent = 0 /\ gone = FALSE /\ handed = << >> /\ over = FALSE

Send ==
    /\ ~gone
    /\ sent' = sent + 1
    /\ UNCHANGED <<gone, handed, over>>

Go ==
    /\ gone' = TRUE
    /\ UNCHANGED <<sent, handed, over>>

Deliver ==
    /\ ~over /\ Latest < sent
    /\ handed' = Append(handed, Latest + 1)
    /\ UNCHANGED <<sent, gone, over>>

Repeat ==
    /\ ~over /\ gone /\ handed # << >>
    /\ handed' = Append(handed, Latest)
    /\ UNCHANGED <<sent, gone, over>>

Stop ==
    /\ over' = TRUE
    /\ UNCHANGED <<sent, gone, handed>>

Next == Send \/ Go \/ Deliver \/ Repeat \/ Stop

Spec == Init /\ [][Next]_vars

=============================================================================
