SPECIFICATION Spec
CONSTANTS
  e1 = e1
  e2 = e2
  e3 = e3
  stuck = stuck
  Events = {e1, e2, e3, stuck}
  Jobs = {j1, j2}
  Archives <- SmallArchives
  MemberPages = 2
  Broken = {stuck}
  TokenTimesOut = TRUE
  GraphQLErrors = TRUE
  MaxFaults = 2
INVARIANTS SavedStateInv NothingForgotten ImportedEventIsComplete CompletedIsAccounted
PROPERTY HealthyJobEnds
CHECK_DEADLOCK FALSE
