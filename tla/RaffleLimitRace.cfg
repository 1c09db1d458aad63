SPECIFICATION Spec
CONSTANTS
  Raffles = {r1}
  Members = {m1}
  Events = {e1, e2, e3}
  FormIDs = {}
  WinnerCounts = {1}
  MaxEvents = 2
  Runners = {q1}
  Editors = {d1, d2}
INVARIANT EventsWithinLimit
