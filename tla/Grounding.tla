------------------------------ MODULE Grounding ------------------------------
(***************************************************************************)
(* What RequirementDiscoveryAgent.discover makes of one parsed answer of   *)
(* the model (agents/requirement_discovery_agent.py): instead of failing   *)
(* the chunk it drops what the evidence does not show, in two passes that  *)
(* each rebuild the response under the rules of its schema, then rewrites  *)
(* quotes of source rows, and only then validates.  Text is abstracted to  *)
(* what is visible in it: whether a quote names an entity, and how the     *)
(* source rows of the chunk are quoted.                                    *)
(***************************************************************************)
EXTENDS FiniteSets, Naturals

CONSTANTS Requirements, Entities, Relationships   \* refs that an answer may use

Refs == [entities : SUBSET Entities, relationships : SUBSET Relationships,
         entity_refs : [Requirements -> SUBSET Entities],
         relationship_refs : [Requirements -> SUBSET Relationships]]

\* Evidence of an entity: all, some or none of its quotes name it.
Evidence == {"grounded", "mixed", "ungrounded"}
\* How the requirements that stand for source rows quote them, at worst: the text of
\* the row, the row with its id in front, or neither.
RowQuotes == {"text", "prefixed", "other"}

VARIABLES
  answer,        \* the refs of the answer as the model gave them
  source, target, sees,   \* of a relationship: its ends, and which its quote names
  evidence,      \* of an entity; pruning keeps the quotes that name it
  quoted,        \* the answer's row quotes, looked at when they are repaired
  flawed,        \* anything else that validate_response objects to
  response, dropped, pc

given == <<answer, source, target, sees>>
text == <<quoted, flawed>>
vars == <<given, evidence, text, response, dropped, pc>>

Ends(R) == {source[r] : r \in R} \cup {target[r] : r \in R}
Named(refs) == UNION {refs[q] : q \in Requirements}

\* RequirementDiscoveryChunkResponse.validate_references
References(x) ==
  /\ Requirements = {} => x.entities = {} /\ x.relationships = {}
  /\ Named(x.entity_refs) \subseteq x.entities
  /\ \A r \in x.relationships : source[r] \in x.entities /\ target[r] \in x.entities
  /\ \A r \in x.relationships : source[r] # target[r]
  /\ x.entities = Named(x.entity_refs) \cup Ends(x.relationships)
  /\ x.relationships = Named(x.relationship_refs)

\* What the adapter returns has passed the schema.
Init ==
  /\ source \in [Relationships -> Entities] /\ target \in [Relationships -> Entities]
  /\ answer \in Refs /\ References(answer)
  /\ sees \in [Relationships -> SUBSET {"source", "target"}]
  /\ evidence \in [Entities -> Evidence]
  /\ quoted = "text" /\ flawed = FALSE
  /\ response = answer /\ dropped = {} /\ pc = "entities"
-----------------------------------------------------------------------------
Goto(where) == pc' = where

\* A model is built: pydantic validates it, and a ValidationError leaves discover.
Construct(x, next) ==
  IF References(x) THEN response' = x /\ Goto(next)
  ELSE UNCHANGED response /\ Goto("invalid")

\* Mutant: an entity with one quote that names it keeps its other quotes.
DropEntitiesOnly ==
  /\ pc = "entities" /\ Goto("cascade")
  /\ dropped' = {e \in answer.entities : evidence[e] = "ungrounded"}
  /\ UNCHANGED <<given, evidence, text, response>>

\* _prune_ungrounded_entities: quotes, and entities left without one.
DropUngrounded ==
  /\ pc = "entities" /\ Goto("cascade")
  /\ dropped' = {e \in answer.entities : evidence[e] = "ungrounded"}
  /\ evidence' = [e \in Entities |-> IF evidence[e] = "mixed" THEN "grounded" ELSE evidence[e]]
  /\ UNCHANGED <<given, text, response>>

\* Relationships between entities that are still there, and who mentions an entity.
Connected == {r \in answer.relationships : source[r] \notin dropped /\ target[r] \notin dropped}
Referenced == (Named(answer.entity_refs) \ dropped) \cup Ends(Connected)
Orphans == (answer.entities \ dropped) \ Referenced

\* Mutant: requirements keep references to dropped relationships.
CascadedEntitiesOnly ==
  [entities |-> answer.entities \ dropped, relationships |-> Connected,
   entity_refs |-> [q \in Requirements |-> answer.entity_refs[q] \ dropped],
   relationship_refs |-> answer.relationship_refs]

Cascaded ==
  [entities |-> answer.entities \ dropped, relationships |-> Connected,
   entity_refs |-> [q \in Requirements |-> answer.entity_refs[q] \ dropped],
   relationship_refs |-> [q \in Requirements |-> answer.relationship_refs[q] \cap Connected]]

\* One round of the loop to a fixpoint.
Cascade ==
  /\ pc = "cascade"
  /\ IF Orphans # {} THEN dropped' = dropped \cup Orphans /\ UNCHANGED <<pc, response>>
     ELSE UNCHANGED dropped /\ Construct(Cascaded, "relationships")
  /\ UNCHANGED <<given, evidence, text>>

\* Mutant: one visible end is enough.
OneEndVisible == {r \in response.relationships : sees[r] # {}}
\* The quote of a relationship names both its ends.
Visible == {r \in response.relationships : sees[r] = {"source", "target"}}

\* _prune_ungrounded_relationships
Pruned ==
  [entities |-> response.entities \cap (Named(response.entity_refs) \cup Ends(Visible)),
   relationships |-> Visible, entity_refs |-> response.entity_refs,
   relationship_refs |-> [q \in Requirements |-> response.relationship_refs[q] \cap Visible]]

PruneRelationships ==
  /\ pc = "relationships"
  /\ IF Visible = response.relationships THEN UNCHANGED response /\ Goto("quotes")
     ELSE Construct(Pruned, "quotes")
  /\ UNCHANGED <<given, evidence, text, dropped>>

\* _repair_source_evidence: a quote that is the whole row becomes the row's text.
RepairSourceEvidence ==
  /\ pc = "quotes" /\ Goto("validate")
  /\ \E q \in RowQuotes : quoted' = IF q = "prefixed" THEN "text" ELSE q
  /\ UNCHANGED <<given, evidence, flawed, response, dropped>>

Owners(x, r) == {q \in Requirements : r \in x.relationship_refs[q]}
Grounded ==
  /\ \A e \in response.entities : evidence[e] = "grounded"
  /\ \A r \in response.relationships : sees[r] = {"source", "target"}

\* validate_response; flaw: every check the passes above leave alone: the chunk's id,
\* coverage of its rows, a text, a marker or a quote that is not in the chunk, a
\* relationship named twice by its requirement or quoted apart from its evidence.
Valid(flaw) ==
  /\ ~flaw /\ Grounded /\ quoted = "text"
  /\ \A r \in response.relationships : Cardinality(Owners(response, r)) = 1
Validate ==
  /\ pc = "validate"
  /\ \E flaw \in BOOLEAN : flawed' = flaw /\ Goto(IF Valid(flaw) THEN "returned" ELSE "refused")
  /\ UNCHANGED <<given, evidence, quoted, response, dropped>>

Over == pc \in {"returned", "refused", "invalid"} /\ UNCHANGED vars

Next == DropUngrounded \/ Cascade \/ PruneRelationships \/ RepairSourceEvidence \/ Validate \/ Over
Spec == Init /\ [][Next]_vars
-----------------------------------------------------------------------------
\* Dropping cascades so far that the schema accepts what is left: neither pass ever
\* fails in the constructor, which discover does not catch.
PruningIsClosed == pc # "invalid"

\* The two passes together keep exactly this: relationships whose quote names both
\* ends and whose ends are shown by quotes of their own, and entities shown by a quote
\* that a requirement or such a relationship mentions.  No order of the drops shows.
Shown(e) == evidence[e] # "ungrounded"
Kept == {r \in answer.relationships :
           Shown(source[r]) /\ Shown(target[r]) /\ sees[r] = {"source", "target"}}
PruningIsExact ==
  pc \in {"quotes", "validate", "returned", "refused"} =>
    /\ response.relationships = Kept
    /\ response.entities =
         {e \in answer.entities : Shown(e) /\ e \in Named(answer.entity_refs) \cup Ends(Kept)}
    /\ \A q \in Requirements :
         /\ response.entity_refs[q] = {e \in answer.entity_refs[q] : Shown(e)}
         /\ response.relationship_refs[q] = answer.relationship_refs[q] \cap Kept

\* A chunk is refused only for what no drop or rewrite could mend: another flaw, a
\* row whose text is quoted in neither form, or a relationship of several requirements.
RefusedForCause ==
  pc = "refused" =>
    \/ flawed
    \/ quoted = "other"
    \/ \E r \in Kept : Cardinality(Owners(answer, r)) # 1

=============================================================================
