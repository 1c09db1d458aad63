------------------------------ MODULE MCRaffle ------------------------------
(* Small instances of Raffle for TLC. *)
EXTENDS Raffle, TLC

\* Members and goroutines are interchangeable, and so are events with the
\* same access to the form.  Raffles are not: an idle request is parked on
\* AnyRaffle.
Symmetry ==
  Permutations(Members) \cup Permutations(Runners) \cup Permutations(Editors)
    \cup Permutations(FormIDs) \cup Permutations(Events \ FormIDs)
=============================================================================
