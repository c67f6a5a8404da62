--------------------------- MODULE MCRegistration ---------------------------
(* Registration for TLC: phone numbers, users, emails and slots are         *)
(* interchangeable.                                                         *)
EXTENDS Registration, TLC

Symmetry ==
  Permutations(Phone) \cup Permutations(User)
    \cup Permutations(Email) \cup Permutations(Request)
=============================================================================
