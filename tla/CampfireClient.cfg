SPECIFICATION Spec
CONSTANTS
  Tokens = {t1, t2}
  Lives = {1, 4}
  MinLife = 2
  Soon = 4
  CleanupEvery = 2
  Callers = {g1}
  Deadline = 5
  RetryPause = 1
  Backoff = 2
  MaxRetries = 2
  MaxFaults = 1
INVARIANTS ClientInv AliveWhenSent Announced TurnEnds StampInTime
