SPECIFICATION DrawSpec
CONSTANTS
  RaffleEvents = {e1, e2}
  Attendees = {m1, m2}
  PrizeCounts <- Counts
INVARIANT DrawInv
PROPERTIES ImplementsOutcome DrawEnds
CHECK_DEADLOCK FALSE
