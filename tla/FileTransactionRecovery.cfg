SPECIFICATION Spec
CONSTANTS
  test = test
  shared = shared
  init = init
  x = x
  y = y
  dTests = dTests
  dModule = dModule
  TestPaths = {test}
  InitPaths = {}
  SharedPaths = {}
  Contents = {x, y}
  Absent = Absent
  Dirs = {dTests, dModule}
  Above <- MCAbove
  MaxEntries = 2
  MaxAttempts = 2
  MaxEdits = 0
  MaxFailures = 1
INVARIANT RecoverableAtEveryBoundary
