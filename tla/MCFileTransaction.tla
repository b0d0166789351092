------------------------- MODULE MCFileTransaction -------------------------
(* One test file below two directories that may be missing, the initializer *)
(* of its directory, and one shared module elsewhere.                       *)
EXTENDS FileTransaction, TLC

CONSTANTS test, shared, init, x, y, dTests, dModule

MCAbove ==
  [z \in Paths \cup Dirs |->
     CASE z \in {test, init} -> {dTests, dModule}
       [] z = dModule -> {dTests}
       [] OTHER -> {}]

ContentSymmetry == Permutations({x, y})
=============================================================================
