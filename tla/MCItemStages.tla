---------------------------- MODULE MCItemStages ----------------------------
(* Instances of ItemStages for TLC: two requirements. *)
EXTENDS ItemStages, TLC
CONSTANTS q1, q2
TwoRequirements == <<q1, q2>>
Symmetry == Permutations(Sources) \cup Permutations(StoryKeys)
=============================================================================
