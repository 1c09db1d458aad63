SPECIFICATION Spec
CONSTANTS
  Raffles = {r1}
  Members = {m1, m2}
  Events = {e1, e2, e3, e4}
  FormIDs = {e1}
  WinnerCounts = {1, 2}
  MaxEvents = 2
  Runners = {q1}
  Editors = {d1, d2}
SYMMETRY Symmetry
INVARIANTS SoloInv CollisionIsLateConfirm EventsBounded
PROPERTIES RerunReplacesWinners
