----------------------------- MODULE MCPairing ------------------------------
(* Pairing for TLC: the sets are model values, interchangeable in each set. *)
EXTENDS Pairing, TLC

Symmetry ==
  Permutations(Session) \cup Permutations(Agent) \cup Permutations(Code)
    \cup Permutations(User) \cup Permutations(Secret)
    \cup Permutations(Confirmer) \cup Permutations(Poller) \cup Permutations(Caller)
=============================================================================
