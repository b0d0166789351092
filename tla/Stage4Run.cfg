SPECIFICATION FairSpec
CONSTANTS
  c1 = c1
  c2 = c2
  Order <- TwoCases
  Versions = {v1, v2}
  Absent = Absent
  Partial = Partial
  Foreign = Foreign
  RepairLimit = 1
  Durable = TRUE
  MaxTroubles = 2
  MaxRuns = 2
INVARIANTS JournalMatchesRow ContextSeesAccepted ReplaySurvives
PROPERTIES AcceptedIsPublished LoopSettles RunEnds
\* Nobody has to start a run again.
CHECK_DEADLOCK FALSE
