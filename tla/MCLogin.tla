------------------------------- MODULE MCLogin -------------------------------
(* Small instances of Login for TLC. *)
EXTENDS Login, TLC

Symmetry ==
  Permutations(Browsers) \cup Permutations(Users) \cup Permutations(Names)
    \cup Permutations(Callbacks)
=============================================================================
