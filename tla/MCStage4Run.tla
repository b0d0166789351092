---------------------------- MODULE MCStage4Run ----------------------------
(* Instances of Stage4Run for TLC: two scenarios in a frozen order. *)
EXTENDS Stage4Run
CONSTANTS c1, c2
TwoCases == <<c1, c2>>
=============================================================================
