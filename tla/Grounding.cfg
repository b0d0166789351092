SPECIFICATION MCSpec
CONSTANTS
  Requirements = {1, 2}
  Entities = {1, 2, 3}
  Relationships = {1, 2}
INVARIANTS PruningIsClosed PruningIsExact RefusedForCause
