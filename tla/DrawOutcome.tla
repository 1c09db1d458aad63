---------------------------- MODULE DrawOutcome ----------------------------
(***************************************************************************)
(* What a raffle draw may return, whatever order the events are fetched in *)
(* and whatever the random numbers are: as many distinct members of the    *)
(* pool as there are prizes, or the whole pool when it is smaller; or      *)
(* nothing at all, when an event cannot be fetched.                        *)
(***************************************************************************)
EXTENDS Integers, FiniteSets

VARIABLES
  pool,    \* members eligible in some event of the raffle
  prizes,  \* raffle.WinnerCount
  outcome  \* {} until the draw is over, then the set of its only result

Smaller(a, b) == IF a < b THEN a ELSE b

Outcomes ==
  {W \in SUBSET pool : Cardinality(W) = Smaller(prizes, Cardinality(pool))}

Init == outcome = {}

Next ==
  /\ outcome = {}
  /\ \E W \in Outcomes : outcome' = {W}
  /\ UNCHANGED <<pool, prizes>>

Spec == Init /\ [][Next]_<<pool, prizes, outcome>>
=============================================================================
