------------------------------ MODULE Accounts ------------------------------
(***************************************************************************)
(* What registration promises: an account is opened for a phone number     *)
(* only once somebody proved to receive what is sent to it, a phone number *)
(* and an email belong to one account at a time, and an account keeps its  *)
(* phone number.                                                           *)
(***************************************************************************)
CONSTANTS Phone, User, Email, NULL

VARIABLES
  proved,   \* the phone numbers somebody has proved to receive messages of
  account   \* the phone number and email of each user, NULL for none

avars == <<proved, account>>

Init ==
  /\ proved = {}
  /\ account = [u \in User |-> [phone |-> NULL, email |-> NULL]]

Prove(p) ==
  /\ proved' = proved \cup {p}
  /\ UNCHANGED account

Open(u, p) ==
  /\ p \in proved
  /\ account[u].phone = NULL
  /\ \A v \in User : account[v].phone # p
  /\ account' = [account EXCEPT ![u] = [phone |-> p, email |-> NULL]]
  /\ UNCHANGED proved

Link(u, e) ==
  /\ account[u].phone # NULL
  /\ \A v \in User \ {u} : account[v].email # e
  /\ account' = [account EXCEPT ![u] = [@ EXCEPT !.email = e]]
  /\ UNCHANGED proved

Next ==
  \/ \E p \in Phone : Prove(p) \/ \E u \in User : Open(u, p)
  \/ \E u \in User, e \in Email : Link(u, e)

Spec == Init /\ [][Next]_avars

=============================================================================
