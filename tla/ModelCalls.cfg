SPECIFICATION Spec
CONSTANTS
  NItems = 2
  MaxLives = 2
INVARIANTS TypeOK RepairQuotesLast RecordedAreKept RetriesAreJustified
PROPERTIES StageEnds
