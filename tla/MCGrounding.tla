---------------------------- MODULE MCGrounding ----------------------------
(***************************************************************************)
(* Entities are numbers.  Without loss: a relationship runs from the       *)
(* smaller end to the greater, what the answer does not contain has one    *)
(* value, and only the first of two requirements names entities itself.    *)
(***************************************************************************)
EXTENDS Grounding

MCInit ==
  /\ source \in [Relationships -> Entities] /\ target \in [Relationships -> Entities]
  /\ \A r \in Relationships : source[r] < target[r]
  /\ answer \in Refs /\ answer.entity_refs[2] = {} /\ References(answer)
  /\ \A r \in Relationships \ answer.relationships : source[r] = 1 /\ target[r] = 2
  /\ Init
  /\ \A e \in Entities \ answer.entities : evidence[e] = "grounded"
  /\ \A r \in Relationships \ answer.relationships : sees[r] = {}

MCSpec == MCInit /\ [][Next]_vars
=============================================================================
