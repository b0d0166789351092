---------------------------- MODULE MCModelCalls ----------------------------
(* Two items and two processes of one run directory. *)
EXTENDS ModelCalls
=============================================================================
