---------------------------- MODULE MCCaseContext ----------------------------
(* Documents, artifacts and a snapshot for TLC, each chosen for one thing that can happen. *)
EXTENDS CaseContext, TLC
CONSTANTS r1, r2, r3, r4, b1, b2, v2, q1, q2, y1, y2, c1, c2, m1, m2, n1, n2, n3, f1

\* r1 is named by every binding, r2 a step, r3 mentioned by r1, r4 by r3.
Row(s, v, p, ok) == [scope |-> s, variant |-> v, priority |-> p, approved |-> ok,
                     records |-> {r1}, action |-> {}, steps |-> {r2}]
Refs == r1 :> {r3} @@ r2 :> {} @@ r3 :> {r4} @@ r4 :> {r1}
Status(special, value) == [r \in Records |-> IF r = special THEN value ELSE "APPROVED"]
Doc(status, bindings) == [status |-> status, refs |-> Refs, bindings |-> bindings]
Fine == Status(r1, "APPROVED")
One == b1 :> Row("case", Default, 0, TRUE)
With(row) == One @@ b2 :> row
MCDocuments ==
  {Doc(Status(r, "unapproved"), One) : r \in Records} \cup
  {Doc(Status(r3, "missing"), One), Doc(Fine, One), Doc(Fine, b1 :> Row("case", Default, 0, FALSE)),
   Doc(Fine, b1 :> Row("profile", Default, 0, TRUE)), Doc(Fine, With(Row("case", Default, 0, TRUE))),
   Doc(Fine, With(Row("case", Default, 1, TRUE))), Doc(Fine, With(Row("case", v2, 0, TRUE))),
   Doc(Fine, b1 :> Row("case", Unnamed, 0, TRUE)), Doc(Fine, With(Row("case", Unnamed, 0, TRUE)))}

Scenario(text, S) == [text |-> text, stories |-> S, requirements |-> {q1}, chunks |-> {}]
MCScenarios == {Scenario(1, {y1}), Scenario(2, {y1, y2})}
Story(q) == [requirements |-> {q}, chunks |-> {}]
MCStoryArtifacts == {y1 :> Story(q1), y1 :> Story(q1) @@ y2 :> Story(q2)}
MCTestLibs == {{f1}, Unparsable}
MCEvidence == q1 :> {c1} @@ q2 :> {c2}
MCAdjacent == [s \in Symbols |-> IF s = m1 THEN {m2, n1, n2} ELSE IF s = m2 THEN {n3} ELSE {}]
=============================================================================
