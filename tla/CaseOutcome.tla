---------------------------- MODULE CaseOutcome ----------------------------
(***************************************************************************)
(* What direct_file_transaction.py promises about the files of one case:   *)
(* all or nothing.  leftovers are the paths that hold bytes nobody but the *)
(* case wrote.  They come and go while the case is open; a kept case keeps *)
(* exactly what it had, an undone case leaves none, and only an undone     *)
(* case is retried.  The user may adopt a leftover by an edit at any time. *)
(***************************************************************************)
CONSTANT Paths
VARIABLES outcome, leftovers

Init == outcome = "open" /\ leftovers = {}

Work == outcome = "open" /\ leftovers' \in SUBSET Paths /\ UNCHANGED outcome
Keep == outcome = "open" /\ outcome' = "kept" /\ UNCHANGED leftovers
Undo == outcome = "open" /\ leftovers = {} /\ outcome' = "undone" /\ UNCHANGED leftovers
Retry == outcome = "undone" /\ outcome' = "open" /\ UNCHANGED leftovers
Adopt == leftovers' \in SUBSET leftovers /\ UNCHANGED outcome

Next == Work \/ Keep \/ Undo \/ Retry \/ Adopt

Spec == Init /\ [][Next]_<<outcome, leftovers>>

UndoneLeavesNothing == outcome = "undone" => leftovers = {}
=============================================================================
