-------------------------- MODULE GroundingProofs --------------------------
(***************************************************************************)
(* Theorems about Grounding, for answers of any size: whatever the         *)
(* evidence, the passes leave a response that its schema accepts, and      *)
(* exactly the entities and relationships that evidence shows.             *)
(***************************************************************************)
EXTENDS Grounding, TLAPS

Given ==
  /\ answer \in Refs /\ References(answer)
  /\ source \in [Relationships -> Entities] /\ target \in [Relationships -> Entities]
  /\ sees \in [Relationships -> SUBSET {"source", "target"}]

\* Relationships between two shown entities, and what the first pass ends with.
Sound == {r \in answer.relationships : Shown(source[r]) /\ Shown(target[r])}
After(R) ==
  [entities |-> {e \in answer.entities :
                   Shown(e) /\ e \in Named(answer.entity_refs) \cup Ends(R)},
   relationships |-> R,
   entity_refs |-> [q \in Requirements |-> {e \in answer.entity_refs[q] : Shown(e)}],
   relationship_refs |-> [q \in Requirements |-> answer.relationship_refs[q] \cap R]]

\* What has been dropped is not shown, or nothing that stays mentions it.
Dropped ==
  /\ dropped \subseteq answer.entities
  /\ \A e \in answer.entities : ~Shown(e) => e \in dropped
  /\ \A e \in dropped : Shown(e) => e \notin Named(answer.entity_refs) \cup Ends(Sound)

Phases ==
  \/ pc = "entities" /\ dropped = {} /\ response = answer
  \/ pc = "cascade" /\ Dropped /\ response = answer
  \/ pc = "relationships" /\ dropped \subseteq answer.entities /\ response = After(Sound)
  \/ /\ pc \in {"quotes", "validate", "returned", "refused"}
     /\ dropped \subseteq answer.entities /\ response = After(Kept)

Pass == Given /\ evidence \in [Entities -> Evidence] /\ Phases

\* Members of the sets that the rules speak of.
LEMMA NamedMember ==
  ASSUME NEW refs, NEW e PROVE e \in Named(refs) <=> \E q \in Requirements : e \in refs[q]
  BY DEF Named

LEMMA EndsMember ==
  ASSUME NEW R, NEW e
  PROVE  e \in Ends(R) <=> \E r \in R : e = source[r] \/ e = target[r]
  BY DEF Ends

\* What the schema says of an answer, read element by element.
LEMMA AnswerRules ==
  ASSUME Given
  PROVE  /\ answer.entities \subseteq Entities /\ answer.relationships \subseteq Relationships
         /\ \A q \in Requirements : answer.entity_refs[q] \subseteq answer.entities
         /\ \A q \in Requirements : answer.relationship_refs[q] \subseteq answer.relationships
         /\ \A r \in answer.relationships :
              /\ source[r] \in answer.entities /\ target[r] \in answer.entities
              /\ source[r] # target[r]
              /\ \E q \in Requirements : r \in answer.relationship_refs[q]
         /\ Requirements = {} => answer.entities = {} /\ answer.relationships = {}
  BY NamedMember DEF Given, Refs, References

\* The response after a pass obeys the schema, whichever sound relationships it keeps.
LEMMA AfterIsClosed ==
  ASSUME Given, NEW R, R \subseteq Sound
  PROVE  References(After(R)) /\ After(R) \in Refs
<1> DEFINE x == After(R)
<1>0. /\ x.entities = {e \in answer.entities :
                         Shown(e) /\ e \in Named(answer.entity_refs) \cup Ends(R)}
      /\ x.relationships = R
      /\ x.entity_refs = [q \in Requirements |-> {e \in answer.entity_refs[q] : Shown(e)}]
      /\ x.relationship_refs = [q \in Requirements |-> answer.relationship_refs[q] \cap R]
  BY DEF After
<1>1. \A r \in R : /\ r \in answer.relationships /\ source[r] # target[r]
                   /\ source[r] \in x.entities /\ target[r] \in x.entities
  BY <1>0, AnswerRules, EndsMember DEF Sound
<1>2. \A e : e \in Named(x.entity_refs) <=> e \in Named(answer.entity_refs) /\ Shown(e)
  BY <1>0, NamedMember
<1>3. x.entities = Named(x.entity_refs) \cup Ends(R)
  <2>1. Named(x.entity_refs) \subseteq x.entities
    BY <1>0, <1>2, AnswerRules, NamedMember
  <2>2. Ends(R) \subseteq x.entities
    BY <1>1, EndsMember
  <2>3. x.entities \subseteq Named(x.entity_refs) \cup Ends(R)
    BY <1>0, <1>2
  <2> QED
    BY <2>1, <2>2, <2>3
<1>4. R = Named(x.relationship_refs)
  <2>1. \A r : r \in Named(x.relationship_refs) <=>
                \E q \in Requirements : r \in answer.relationship_refs[q] \cap R
    BY <1>0, NamedMember
  <2>2. \A r \in R : \E q \in Requirements : r \in answer.relationship_refs[q]
    BY AnswerRules DEF Sound
  <2> QED
    BY <2>1, <2>2
<1>5. Requirements = {} => x.entities = {} /\ R = {}
  BY <1>0, AnswerRules DEF Sound
<1>6. References(x)
  BY <1>0, <1>1, <1>3, <1>4, <1>5 DEF References
<1>7. x \in Refs
  <2>1. x.entities \subseteq Entities /\ R \subseteq Relationships
    BY <1>0, <1>1, AnswerRules
  <2>2. \A q \in Requirements : /\ {e \in answer.entity_refs[q] : Shown(e)} \subseteq Entities
                                /\ answer.relationship_refs[q] \cap R \subseteq Relationships
    BY AnswerRules
  <2> QED
    BY <2>1, <2>2 DEF After, Refs
<1> QED
  BY <1>6, <1>7

LEMMA PassInit == Init => Pass
  BY DEF Init, Pass, Phases, Given

\* A round of the cascade drops only what no sound relationship or requirement mentions.
LEMMA OrphansAreLoose ==
  ASSUME Given, Dropped
  PROVE  /\ Connected = Sound
         /\ \A e \in Orphans : e \in answer.entities /\ Shown(e) /\
                               e \notin Named(answer.entity_refs) \cup Ends(Sound)
<1>1. \A r \in answer.relationships : source[r] \in answer.entities /\ target[r] \in answer.entities
  BY AnswerRules
<1>2. Sound \subseteq Connected
  BY <1>1, EndsMember DEF Sound, Connected, Dropped
<1>3. Connected \subseteq Sound
  BY <1>1 DEF Sound, Connected, Dropped
<1>4. Connected = Sound
  BY <1>2, <1>3
<1>5. \A e \in Orphans : e \in answer.entities /\ Shown(e)
  BY DEF Orphans, Dropped
<1>6. \A e \in Orphans : e \notin Named(answer.entity_refs) \cup Ends(Sound)
  BY <1>4 DEF Orphans, Referenced
<1> QED
  BY <1>4, <1>5, <1>6

\* Once nothing is left to drop, what the first pass builds is the sound part.
LEMMA CascadedIsSound ==
  ASSUME Given, Dropped, Orphans = {}
  PROVE  Cascaded = After(Sound)
<1>1. Connected = Sound
  BY OrphansAreLoose
<1>2. \A e \in answer.entities : e \notin dropped <=>
         Shown(e) /\ e \in Named(answer.entity_refs) \cup Ends(Sound)
  BY <1>1 DEF Orphans, Referenced, Dropped
<1>3. answer.entities \ dropped =
        {e \in answer.entities : Shown(e) /\ e \in Named(answer.entity_refs) \cup Ends(Sound)}
  BY <1>2
<1>4. \A q \in Requirements :
         answer.entity_refs[q] \ dropped = {e \in answer.entity_refs[q] : Shown(e)}
  BY <1>2, AnswerRules, NamedMember
<1> QED
  BY <1>1, <1>3, <1>4 DEF Cascaded, After

\* The second pass keeps of the sound relationships those whose quote names both ends.
LEMMA PrunedIsKept ==
  ASSUME Given, response = After(Sound)
  PROVE  Visible = Kept /\ Pruned = After(Kept)
<1>1. Visible = Kept
  BY DEF Visible, Kept, Sound, After
<1>2. Kept \subseteq Sound
  BY DEF Kept, Sound
<1>3. \A e : e \in Named(response.entity_refs) <=> e \in Named(answer.entity_refs) /\ Shown(e)
  BY NamedMember DEF After
<1>4. \A e : e \in Ends(Kept) => e \in Ends(Sound)
  BY <1>2, EndsMember
<1>5. response.entities \cap (Named(response.entity_refs) \cup Ends(Kept)) =
        {e \in answer.entities : Shown(e) /\ e \in Named(answer.entity_refs) \cup Ends(Kept)}
  BY <1>3, <1>4 DEF After
<1>6. \A q \in Requirements :
         response.relationship_refs[q] \cap Kept = answer.relationship_refs[q] \cap Kept
  BY <1>2 DEF After
<1>7. Pruned = After(Kept)
  BY <1>1, <1>3, <1>5, <1>6 DEF Pruned, After
<1> QED
  BY <1>1, <1>7

\* The definitions of the passes depend on evidence only through what is shown.
LEMMA PassNext == Pass /\ [Next]_vars => Pass'
<1> SUFFICES ASSUME Pass, [Next]_vars PROVE Pass'
  OBVIOUS
<1> USE DEF Pass
<1>g. UNCHANGED given => Given'
  BY DEF given, Given, References, Named, Ends
<1>e. UNCHANGED <<given, evidence>> => UNCHANGED <<Sound, Kept, After(Sound), After(Kept)>>
  BY DEF given, Sound, Kept, After, Shown, Named, Ends
<1>1. CASE DropUngrounded
  <2>1. given' = given /\ response' = response /\ pc' = "cascade"
    BY <1>1 DEF DropUngrounded, Goto
  <2>2. response = answer
    BY <1>1 DEF DropUngrounded, Phases
  <2>3. evidence' \in [Entities -> Evidence]
    BY <1>1 DEF DropUngrounded, Evidence
  <2>4. \A e \in answer.entities : e \in dropped' <=> ~Shown(e)'
    BY <1>1, AnswerRules DEF DropUngrounded, Shown
  <2>5. dropped' \subseteq answer.entities
    BY <1>1 DEF DropUngrounded
  <2>6. Dropped'
    BY <2>1, <2>4, <2>5 DEF Dropped, given
  <2> QED
    BY <2>1, <2>2, <2>3, <2>6, <1>g DEF Phases, given
<1>2. CASE Cascade
  <2>0. Dropped /\ response = answer /\ UNCHANGED <<given, evidence>>
    BY <1>2 DEF Cascade, Phases
  <2>1. CASE Orphans # {}
    <3>1. dropped' = dropped \cup Orphans /\ pc' = "cascade" /\ response' = response
      BY <1>2, <2>1, <2>0 DEF Cascade
    <3>2. /\ dropped' \subseteq answer.entities
          /\ \A e \in answer.entities : ~Shown(e) => e \in dropped'
          /\ \A e \in dropped' : Shown(e) => e \notin Named(answer.entity_refs) \cup Ends(Sound)
      BY <3>1, <2>0, OrphansAreLoose DEF Dropped
    <3>3. Dropped'
      BY <3>2, <2>0, <1>e DEF Dropped, given, Shown, Named, Ends
    <3> QED
      BY <3>1, <3>3, <2>0, <1>g DEF Phases, given
  <2>2. CASE Orphans = {}
    <3>1. Cascaded = After(Sound) /\ References(Cascaded)
      BY <2>0, <2>2, CascadedIsSound, AfterIsClosed
    <3>2. response' = After(Sound) /\ pc' = "relationships" /\ dropped' = dropped
      BY <1>2, <2>2, <3>1 DEF Cascade, Construct, Goto
    <3> QED
      BY <3>2, <2>0, <1>g, <1>e DEF Phases, Dropped, given
  <2> QED
    BY <2>1, <2>2
<1>3. CASE PruneRelationships
  <2>0. /\ response = After(Sound) /\ dropped \subseteq answer.entities
        /\ UNCHANGED <<given, evidence, dropped>>
    BY <1>3 DEF PruneRelationships, Phases
  <2>1. Visible = Kept /\ Pruned = After(Kept) /\ References(Pruned)
    <3>1. Kept \subseteq Sound
      BY DEF Kept, Sound
    <3> QED
      BY <2>0, <3>1, PrunedIsKept, AfterIsClosed
  <2>2. Visible = response.relationships => response = After(Kept)
    BY <2>0, <2>1 DEF After
  <2>3. response' = After(Kept) /\ pc' = "quotes"
    BY <1>3, <2>1, <2>2 DEF PruneRelationships, Construct, Goto
  <2> QED
    BY <2>3, <2>0, <1>g, <1>e DEF Phases, given
<1>4. CASE RepairSourceEvidence \/ Validate
  <2>1. /\ pc' \in {"validate", "returned", "refused"}
        /\ response = After(Kept) /\ dropped \subseteq answer.entities
        /\ UNCHANGED <<given, evidence, dropped, response>>
    BY <1>4 DEF RepairSourceEvidence, Validate, Phases, Goto
  <2> QED
    BY <2>1, <1>g, <1>e DEF Phases, given
<1>5. CASE Over \/ UNCHANGED vars
  <2>1. UNCHANGED vars
    BY <1>5 DEF Over
  <2>2. UNCHANGED <<given, evidence, dropped, response, pc>>
    BY <2>1 DEF vars
  <2>3. Dropped => Dropped'
    BY <2>2, <1>e DEF Dropped, given, Shown, Named, Ends
  <2> QED
    BY <2>2, <2>3, <1>g, <1>e DEF Phases, given
<1> QED
  BY <1>1, <1>2, <1>3, <1>4, <1>5 DEF Next

LEMMA PassHolds == Spec => []Pass
  BY PassInit, PassNext, PTL DEF Spec

\* No pass fails in the schema's constructor, whatever the answer and its evidence.
THEOREM ConstructorNeverFails == Spec => []PruningIsClosed
<1>1. Pass => PruningIsClosed
  BY DEF Pass, Phases, PruningIsClosed
<1> QED
  BY <1>1, PassHolds, PTL

\* The passes keep exactly what the evidence shows, whatever the answer.
THEOREM EvidenceDecides == Spec => []PruningIsExact
<1>1. Pass => PruningIsExact
  BY DEF Pass, Phases, PruningIsExact, After
<1> QED
  BY <1>1, PassHolds, PTL

\* No quote is left that fails to name its entity, and rows are quoted as they can be.
Repaired ==
  /\ pc # "entities" => \A e \in Entities : evidence[e] # "mixed"
  /\ pc = "validate" => quoted \in {"text", "other"}
  /\ RefusedForCause

LEMMA RepairedInit == Init => Repaired
  BY DEF Init, Repaired, RefusedForCause

\* What both passes leave is grounded, and each of its relationships has its owners.
LEMMA KeptIsGrounded ==
  ASSUME Pass, Repaired, pc = "validate"
  PROVE  Grounded /\ response.relationships = Kept
         /\ \A r \in Kept : Owners(response, r) = Owners(answer, r)
<1>1. response = After(Kept)
  BY DEF Pass, Phases
<1>2. \A e \in response.entities : evidence[e] = "grounded"
  <2>1. \A e \in response.entities : e \in Entities /\ Shown(e)
    BY <1>1, AnswerRules DEF After, Pass
  <2>2. \A e \in Entities : evidence[e] \in {"grounded", "mixed", "ungrounded"}
    BY DEF Pass, Evidence
  <2> QED
    BY <2>1, <2>2 DEF Repaired, Shown
<1>3. response.relationships = Kept
  BY <1>1 DEF After
<1>4. \A r \in Kept : sees[r] = {"source", "target"}
  BY DEF Kept
<1>5. \A r \in Kept, q \in Requirements :
         r \in response.relationship_refs[q] <=> r \in answer.relationship_refs[q]
  BY <1>1 DEF After
<1> QED
  BY <1>2, <1>3, <1>4, <1>5 DEF Grounded, Owners

LEMMA RepairedNext == Pass /\ Repaired /\ [Next]_vars => Repaired'
<1> SUFFICES ASSUME Pass, Repaired, [Next]_vars PROVE Repaired'
  OBVIOUS
<1>1. CASE DropUngrounded
  <2>1. evidence \in [Entities -> Evidence]
    BY DEF Pass
  <2>2. \A e \in Entities : evidence'[e] # "mixed"
    BY <1>1, <2>1 DEF DropUngrounded
  <2>3. pc' = "cascade"
    BY <1>1 DEF DropUngrounded, Goto
  <2> QED
    BY <2>2, <2>3 DEF Repaired, RefusedForCause
<1>2. CASE Cascade \/ PruneRelationships
  <2>1. /\ pc # "entities" /\ UNCHANGED evidence
        /\ pc' \in {"cascade", "relationships", "quotes", "invalid"}
    BY <1>2 DEF Cascade, PruneRelationships, Construct, Goto
  <2> QED
    BY <2>1 DEF Repaired, RefusedForCause
<1>3. CASE RepairSourceEvidence
  <2>1. quoted' \in {"text", "other"}
    BY <1>3 DEF RepairSourceEvidence, RowQuotes
  <2>2. pc # "entities" /\ pc' = "validate" /\ UNCHANGED evidence
    BY <1>3 DEF RepairSourceEvidence, Goto
  <2> QED
    BY <2>1, <2>2 DEF Repaired, RefusedForCause
<1>4. CASE Validate
  <2>1. /\ pc = "validate" /\ pc' \in {"returned", "refused"}
        /\ UNCHANGED <<given, evidence, quoted, response, dropped>>
        /\ pc' = "refused" => ~Valid(flawed')
    BY <1>4 DEF Validate, Goto
  <2>2. ~Valid(flawed') => \/ flawed' \/ quoted # "text"
                           \/ \E r \in Kept : Cardinality(Owners(answer, r)) # 1
    BY <2>1, KeptIsGrounded DEF Valid
  <2>3. UNCHANGED <<Kept, answer>> /\ \A r : Owners(answer, r)' = Owners(answer, r)
    BY <2>1 DEF given, Kept, Shown, Owners
  <2>4. RefusedForCause'
    BY <2>1, <2>2, <2>3 DEF Repaired, RefusedForCause
  <2> QED
    BY <2>1, <2>4 DEF Repaired
<1>5. CASE Over \/ UNCHANGED vars
  <2>1. UNCHANGED vars
    BY <1>5 DEF Over
  <2>2. UNCHANGED <<Kept, answer>> /\ \A r : Owners(answer, r)' = Owners(answer, r)
    BY <2>1 DEF vars, given, Kept, Shown, Owners
  <2> QED
    BY <2>1, <2>2 DEF vars, given, text, Repaired, RefusedForCause
<1> QED
  BY <1>1, <1>2, <1>3, <1>4, <1>5 DEF Next

\* A chunk is refused only for what pruning and rewriting could not mend.
THEOREM RefusalsHaveCause == Spec => []RefusedForCause
<1>1. Repaired => RefusedForCause
  BY DEF Repaired
<1> QED
  BY <1>1, PassHolds, RepairedInit, RepairedNext, PTL DEF Spec
=============================================================================
