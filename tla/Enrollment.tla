----------------------------- MODULE Enrollment -----------------------------
(***************************************************************************)
(* What pairing promises of one session, whatever requests race for it: it *)
(* opens, is bound to one user or closed, a bound session is given one     *)
(* credential at most, and a removed one never returns.                    *)
(***************************************************************************)
CONSTANTS Session, User, Secret, NULL

VARIABLES
  phase,       \* none, open, bound, closed or removed
  owner,       \* the user a session was bound to
  credential   \* what the agent of a bound session authenticates with

evars == <<phase, owner, credential>>

Init ==
  /\ phase = [s \in Session |-> "none"]
  /\ owner = [s \in Session |-> NULL]
  /\ credential = [s \in Session |-> NULL]

Open(s) ==
  /\ phase[s] = "none"
  /\ phase' = [phase EXCEPT ![s] = "open"]
  /\ UNCHANGED <<owner, credential>>

Bind(s, u) ==
  /\ phase[s] = "open"
  /\ phase' = [phase EXCEPT ![s] = "bound"]
  /\ owner' = [owner EXCEPT ![s] = u]
  /\ UNCHANGED credential

Close(s) ==
  /\ phase[s] = "open"
  /\ phase' = [phase EXCEPT ![s] = "closed"]
  /\ UNCHANGED <<owner, credential>>

Issue(s, x) ==
  /\ phase[s] = "bound"
  /\ credential[s] = NULL
  /\ credential' = [credential EXCEPT ![s] = x]
  /\ UNCHANGED <<phase, owner>>

Remove(s) ==
  /\ phase[s] = "bound"
  /\ phase' = [phase EXCEPT ![s] = "removed"]
  /\ credential' = [credential EXCEPT ![s] = NULL]
  /\ UNCHANGED owner

Next ==
  \E s \in Session :
    \/ Open(s) \/ Close(s) \/ Remove(s)
    \/ \E u \in User : Bind(s, u)
    \/ \E x \in Secret : Issue(s, x)

Spec == Init /\ [][Next]_evars

=============================================================================
