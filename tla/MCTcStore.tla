----------------------------- MODULE MCTcStore -----------------------------
(* Instances of TcStore for TLC: two scenarios, two invocations. *)
EXTENDS TcStore, TLC
CONSTANTS k1, k2
TwoKeys == <<k1, k2>>
Symmetry == Permutations(Procs) \cup Permutations(Runs) \cup Permutations(Inputs) \cup Permutations(Outputs)
=============================================================================
