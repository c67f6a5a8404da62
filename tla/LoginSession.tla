---------------------------- MODULE LoginSession ----------------------------
(***************************************************************************)
(* What refresh tokens promise: a login opens a session that is carried by *)
(* one token at a time, passes from token to token, and once ended is over *)
(* for good.                                                               *)
(***************************************************************************)
CONSTANTS Token, NULL

VARIABLES
  opened,   \* the sessions there have been, each named by its first token
  carrier   \* the token that carries a session, NULL before and after

svars == <<opened, carrier>>

Init ==
  /\ opened = {}
  /\ carrier = [s \in Token |-> NULL]

Open(s) ==
  /\ s \notin opened
  /\ opened' = opened \cup {s}
  /\ carrier' = [carrier EXCEPT ![s] = s]

Pass(s, t) ==
  /\ carrier[s] # NULL
  /\ \A u \in Token : carrier[u] # t
  /\ carrier' = [carrier EXCEPT ![s] = t]
  /\ UNCHANGED opened

\* one session, or every session of a user at once
End(S) ==
  /\ \A s \in S : carrier[s] # NULL
  /\ carrier' = [s \in Token |-> IF s \in S THEN NULL ELSE carrier[s]]
  /\ UNCHANGED opened

Next ==
  \/ \E s \in Token : Open(s) \/ \E t \in Token : Pass(s, t)
  \/ \E S \in SUBSET Token : End(S)

Spec == Init /\ [][Next]_svars

=============================================================================
