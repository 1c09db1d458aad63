CONSTANTS
  o = o
  m1 = m1
  m2 = m2
  nobody = nobody
  e1 = e1
  e2 = e2
  e3 = e3
  x = x
  i = i
  Members = {o, m1, m2, nobody}
  Organizer = o
  Nobody = nobody
  Events = {e1, e2, e3}
  Listed <- MCListed
  RSVPs <- MCRSVPs
  Before <- MCBefore
  Ended = {e1, e2}
  Unsupported = {e3}
  Exports = {x}
  Imports = {i}
  Asked <- MCAsked
  BatchSize = 2
  MaxFaults = 1
SPECIFICATION Spec
INVARIANTS BatchStored ExportComplete FinishedComplete
PROPERTY NamesKept
CHECK_DEADLOCK FALSE
