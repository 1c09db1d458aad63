SPECIFICATION Spec
CONSTANTS
  Raffles = {r1}
  Members = {m1, m2, m3}
  Events = {e1, e2}
  FormIDs = {e1, e2}
  WinnerCounts = {1}
  MaxEvents = 2
  Runners = {q1, q2}
  Editors = {d1, d2}
SYMMETRY Symmetry
INVARIANTS RaffleInv CurrentWithinCount
PROPERTIES ConfirmedStays ImplementsLedger
