SPECIFICATION Spec
CONSTANTS
  c1 = c1
  c2 = c2
  Order <- TwoCases
  Versions = {v1}
  Absent = Absent
  Partial = Partial
  Foreign = Foreign
  RepairLimit = 1
  Durable = TRUE
  MaxTroubles = 1
  MaxRuns = 2
PROPERTY ActivatedFilesKept
\* Nobody has to start a run again.
CHECK_DEADLOCK FALSE
