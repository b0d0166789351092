SPECIFICATION Spec
CONSTANTS
  Procs = {p1, p2}
  Runs = {r1, r2}
  k1 = k1
  k2 = k2
  Order <- TwoKeys
  Inputs = {i1, i2}
  Outputs = {o1, o2}
  MinId = 1
  MaxId = 3
  Unset = Unset
  MaxStarts = 2
  MaxResets = 1
SYMMETRY Symmetry
INVARIANTS TypeOK NumbersAreFresh RunsAgreeOnInputs AssociatedAsFrozen ArtifactCoversRun
PROPERTY RegistrySpec
\* Nobody has to start another invocation.
CHECK_DEADLOCK FALSE
