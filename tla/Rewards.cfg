SPECIFICATION Spec
CONSTANTS
  o1 = o1
  o2 = o2
  v1 = v1
  c1 = c1
  c2 = c2
  Operators = {o1, o2}
  Shared = {o2}
  Visitors = {v1}
  Codes = {c1, c2}
  Forms <- Pasted
  MaxRewards = 2
  MaxRows = 2
  MaxVisits = 1
  MaxFaults = 1
CHECK_DEADLOCK FALSE
INVARIANTS CodesInv NotOfferedAgain UsedWasShown
