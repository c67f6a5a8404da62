------------------------------ MODULE Delivery ------------------------------
(***************************************************************************)
(* What a subscriber promises its handler: one message at a time, each as  *)
(* it was published, in the order of the broker, none twice and none left  *)
(* out; what the loss of a connection cuts off is a tail of what was on    *)
(* the way.  NONE on the way stands for what is not a message.             *)
(***************************************************************************)
EXTENDS Naturals, Sequences

CONSTANTS Message, NONE

VARIABLES
  inbox,    \* what is on the way
  current   \* the message being handled

dvars == <<inbox, current>>

Init == inbox = <<>> /\ current = NONE

Arrive(m) == inbox' = Append(inbox, m) /\ UNCHANGED current

\* the next message is handled, or what is none passed over
Begin ==
  /\ current = NONE
  /\ inbox # <<>>
  /\ current' = Head(inbox)
  /\ inbox' = Tail(inbox)

End == current # NONE /\ current' = NONE /\ UNCHANGED inbox

Lose == \E k \in 0 .. Len(inbox) : inbox' = SubSeq(inbox, 1, k) /\ UNCHANGED current

Next == (\E m \in Message \cup {NONE} : Arrive(m)) \/ Begin \/ End \/ Lose

Spec == Init /\ [][Next]_dvars

=============================================================================
