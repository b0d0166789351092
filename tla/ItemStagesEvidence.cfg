SPECIFICATION Spec
CONSTANTS
  q1 = q1
  q2 = q2
  Requirements <- TwoRequirements
  Sources = {x, y}
  StoryKeys = {a, b}
  ScenarioKeys = {c}
  None = None
  MaxCandidates = 1
  MaxStarts = 3
  MaxResets = 0
SYMMETRY Symmetry
INVARIANT EvidenceIsOwn
\* Nobody has to start a stage again.
CHECK_DEADLOCK FALSE
