SPECIFICATION Spec
CONSTANTS
  e1 = e1
  e2 = e2
  e3 = e3
  stuck = stuck
  Events = {e1, e2, e3}
  Jobs = {j1}
  Archives <- TwoPages
  MemberPages = 1
  Broken = {}
  TokenTimesOut = TRUE
  GraphQLErrors = FALSE
  MaxFaults = 2
INVARIANT CompletedIsImported
CHECK_DEADLOCK FALSE
