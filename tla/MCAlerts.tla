------------------------------ MODULE MCAlerts ------------------------------
(* Alerts for TLC: agents, users, tokens, rows and slots are interchangeable. *)
EXTENDS Alerts, TLC

Symmetry ==
  Permutations(Agent) \cup Permutations(User) \cup Permutations(Token)
    \cup Permutations(Alert) \cup Permutations(Register)
=============================================================================
