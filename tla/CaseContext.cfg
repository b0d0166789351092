SPECIFICATION Spec
CONSTANTS
  r1 = r1  r2 = r2  r3 = r3  r4 = r4
  b1 = b1  b2 = b2  v2 = v2
  q1 = q1  q2 = q2  y1 = y1  y2 = y2  c1 = c1  c2 = c2
  m1 = m1  m2 = m2  n1 = n1  n2 = n2  n3 = n3  f1 = f1
  Records = {r1, r2, r3, r4}
  Variants = {Default, Unnamed, v2}
  NoVariant = NoVariant
  Default = Default
  Unnamed = Unnamed
  Documents <- MCDocuments
  Explicit = NoVariant
  Scenarios <- MCScenarios
  StoryArtifacts <- MCStoryArtifacts
  Requirements = {q1, q2}
  Evidence <- MCEvidence
  Chunks = {c1, c2}
  Absent = Absent
  Symbols = {m1, m2, n1, n2, n3}
  Found = {m1, m2}
  Adjacent <- MCAdjacent
  Unlike = {n3}
  TestLibs <- MCTestLibs
  Unparsable = Unparsable
  Sizes = {1, 2}
  TokenBudget = 3
  MaxSymbols = 2
  MaxRuns = 2
  MaxChanges = 1
INVARIANTS DeliveredAsFrozen RefusalIsExplained BudgetIsFair
