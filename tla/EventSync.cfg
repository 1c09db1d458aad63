SPECIFICATION Spec
CONSTANTS
  stays = stays
  leaves = leaves
  Events = {e1, e2}
  Requests = {q1}
  Unlisted = {e1}
  Failing = {e2}
  Members = {stays, leaves}
  Answered <- OneLeaves
  MaxVersion = 2
  MaxFaults = 1
INVARIANT SyncInv
PROPERTIES OnlyGoneDeleted Settles
