--------------------------- MODULE MCProjectRuns ---------------------------
(* Instances of ProjectRuns for TLC: two documents that share their first   *)
(* chunk, ingested with different embedding models of one dimension.        *)
EXTENDS ProjectRuns, TLC
CONSTANTS r1, r2, a, b, m1, m2
MCDocument == r1 :> <<a, b>> @@ r2 :> <<a>>
MCModelOf == r1 :> m1 @@ r2 :> m2
=============================================================================
