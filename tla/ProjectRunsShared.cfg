SPECIFICATION Spec
CONSTANTS
  r1 = r1
  r2 = r2
  a = a
  b = b
  m1 = m1
  m2 = m2
  Runs = {r1, r2}
  Nobody = Nobody
  Chunks = {a, b}
  Document <- MCDocument
  Models = {m1, m2}
  ModelOf <- MCModelOf
  Facts = {f}
  Targets = {r2, Nobody}
  MaxResets = 1

PROPERTIES OtherRunsKept
CHECK_DEADLOCK FALSE
