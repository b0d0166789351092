SPECIFICATION Spec
CONSTANTS
  test = test
  shared = shared
  init = init
  x = x
  y = y
  dTests = dTests
  dModule = dModule
  TestPaths = {test}
  InitPaths = {init}
  SharedPaths = {shared}
  Contents = {x, y}
  Absent = Absent
  Dirs = {dTests, dModule}
  Above <- MCAbove
  MaxEntries = 2
  MaxAttempts = 2
  MaxEdits = 1
  MaxFailures = 1
INVARIANTS
  OnlyAccountedBytes
  PreimagesKept
PROPERTIES
  RollbackRestores
  RollbackSweeps
  UserBytesKept
  AllOrNothing
SYMMETRY ContentSymmetry
