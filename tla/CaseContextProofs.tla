-------------------------- MODULE CaseContextProofs --------------------------
(***************************************************************************)
(* Theorems about CaseContext, for any documents, artifacts and snapshot,  *)
(* any number of invocations and of changes from outside.                  *)
(***************************************************************************)
EXTENDS CaseContext, FiniteSetTheorems, TLAPS

\* Where an invocation has a manifest, has chosen a binding, has its records, reads code.
Frozen == {"prepare", "scenario", "stories", "requirements", "binding", "records", "evidence",
           "search", "matched", "neighbors", "budget", "ready"}
HasBinding == {"records", "evidence", "search", "matched", "neighbors", "budget", "ready"}
Reading == {"matched", "neighbors", "budget", "ready"}

\* The manifest is of a document that passed its gates.
Sealed ==
  /\ frozen.document \in Documents /\ Ready(frozen.document)
  /\ frozen.variant = Selected(frozen.document, Explicit) /\ frozen.variant # NoVariant

\* Records that a binding leads to, so far.
Led(b) ==
  /\ Top(frozen.document, frozen.variant) = {b}
  /\ Roots(frozen.document, b) \subseteq records
  /\ Approved(frozen.document, records)
  /\ \A S \in SUBSET Records :
       Roots(frozen.document, b) \subseteq S /\ Closed(frozen.document, S) => records \subseteq S

DataInv ==
  /\ document \in Documents
  /\ frozen # Absent \/ pc \in Frozen => Sealed
  /\ pc \in HasBinding => \E b : Led(b)
  /\ pc \in HasBinding \ {"records"} => Closed(frozen.document, records)

CodeInv ==
  /\ pc \notin Reading \cup {"refused"} => shown = {} /\ neighbors = {} /\ matched = {}
  /\ pc \in Reading =>
       /\ unread \subseteq matched \cup neighbors /\ matched \cap neighbors = {}
       /\ shown = {<<s, FALSE>> : s \in (matched \cup neighbors) \ unread}
  /\ pc = "matched" => neighbors = {}
  /\ pc \in {"budget", "ready"} => unread = {}

ScenarioInv ==
  ~overtaken =>
    /\ pc \in Frozen => scenario = frozen.scenario
    /\ pc \in Frozen \ {"prepare", "scenario"} => lineage.scenario = frozen.scenario

\* As long as nothing has been changed, the stores are as Stages 1 to 3 left them.
WorldInv ==
  /\ "lineage" \notin upset =>
       /\ Whole(scenario, stories, requirements)
       /\ pc \in Frozen \ {"prepare", "scenario"} => lineage.scenario = scenario
       /\ pc \in Frozen \ {"prepare", "scenario", "stories"} => lineage.stories = stories
  /\ upset \cap {"lineage", "chunks"} = {} => EvidenceIds(scenario, stories) \subseteq chunks
  /\ "framework" \notin upset => edited = {}

\* Gates of the document: what they say of one binding, and of the variant.
LEMMA ReadyRules ==
  ASSUME NEW d \in Documents, Ready(d), NEW b \in DOMAIN d.bindings
  PROVE  /\ Approved(d, d.bindings[b].records) /\ Approved(d, d.bindings[b].action)
         /\ d.bindings[b].records \subseteq Records /\ d.bindings[b].steps \subseteq Records
         /\ d.bindings[b].variant \in Variants /\ d.bindings[b].priority \in Int
  BY WorldAssumption DEF Ready, ReferencesHold, Approved, IsDocument, Rows

LEMMA SelectedIsAvailable ==
  ASSUME NEW d \in Documents, Selected(d, Explicit) # NoVariant
  PROVE  \/ \E b : b \in Applicable(d, Selected(d, Explicit))
         \/ Misnamed(d, Selected(d, Explicit))
<1> DEFINE v == Selected(d, Explicit)
<1>1. v \in Available(d)
  <2>1. CASE Explicit # NoVariant  BY <2>1 DEF Selected
  <2>2. CASE Explicit = NoVariant
    <3>1. Cardinality(Available(d)) = 1 /\ v = CHOOSE x \in Variants : x \in Available(d)
      BY <2>2 DEF Selected
    <3>2. Bound(d, {"case"}) # {}
      <4>1. SUFFICES ASSUME Bound(d, {"case"}) = {} PROVE FALSE  OBVIOUS
      <4>2. Available(d) = {}  BY <4>1 DEF Available
      <4> QED  BY <3>1, <4>2, FS_EmptySet
    <3>3. \E x \in Variants : x \in Available(d)
      BY <3>2, WorldAssumption, VariantAssumption DEF Available, Named, Bound, IsDocument, Rows
    <3> QED  BY <3>1, <3>3
  <2> QED  BY <2>1, <2>2
<1>2. PICK b \in Bound(d, {"case"}) : v = Named(d.bindings[b].variant)
  BY <1>1 DEF Available
<1>3. d.bindings[b].variant = v \/ (d.bindings[b].variant = Unnamed /\ v = Default)
  BY <1>2 DEF Named
<1> QED  BY <1>2, <1>3 DEF Applicable, Misnamed

\* What has one element of highest priority has an applicable one.
LEMMA TopApplies == \A d, v : Top(d, v) \subseteq Applicable(d, v)
  BY DEF Top

\* Of finitely many applicable bindings, some have the highest priority.
LEMMA TopExists ==
  ASSUME NEW d \in Documents, NEW v, Applicable(d, v) # {}
  PROVE  IsFiniteSet(Top(d, v)) /\ Top(d, v) # {} /\ Top(d, v) \subseteq DOMAIN d.bindings
<1> DEFINE A == Applicable(d, v)
           Above(b) == {o \in A : d.bindings[o].priority > d.bindings[b].priority}
           F == {Above(b) : b \in A}
<1>1. IsFiniteSet(DOMAIN d.bindings) /\ A \subseteq DOMAIN d.bindings /\ Top(d, v) \subseteq A
  BY WorldAssumption DEF IsDocument, Applicable, Bound, Top
<1>2. \A b \in A : d.bindings[b].priority \in Int
  BY <1>1, WorldAssumption DEF IsDocument, Rows
<1>3. IsFiniteSet(A) /\ IsFiniteSet(Top(d, v))
  BY <1>1, FS_Subset
<1>4. F \subseteq FiniteSubsetsOf(A) /\ F # {}
  <2>1. FiniteSubsetsOf(A) = SUBSET A  BY <1>3, FS_FiniteSubsetsOfFinite
  <2>2. \A b \in A : Above(b) \subseteq A  OBVIOUS
  <2>3. F \subseteq SUBSET A  BY <2>2
  <2>4. F # {}  OBVIOUS
  <2> QED  BY <2>1, <2>3, <2>4
<1>5. PICK x \in F : \A y \in F : ~ (<<y, x>> \in StrictSubsetOrdering(A))
  BY <1>4, FS_StrictSubsetOrderingWellFounded, WFMin
<1>6. PICK b \in A : x = Above(b)  BY <1>5
<1>7. ASSUME NEW o \in Above(b) PROVE FALSE
  <2>1. Above(o) \subseteq Above(b) /\ o \in Above(b) /\ o \notin Above(o) /\ o \in A
    BY <1>2, <1>7
  <2>2. <<Above(o), Above(b)>> \in StrictSubsetOrdering(A)
    BY <2>1 DEF StrictSubsetOrdering
  <2> QED  BY <1>5, <1>6, <2>1, <2>2
<1>8. b \in Top(d, v)
  BY <1>2, <1>6, <1>7 DEF Top
<1> QED  BY <1>1, <1>3, <1>8
-----------------------------------------------------------------------------
\* Steps that leave what the data invariant is about, but may go on or end.
LEMMA DataKept ==
  ASSUME DataInv, document' \in Documents, UNCHANGED <<frozen, records>>,
         \/ pc' = pc
         \/ pc' \in {"start", "freeze", "refused"}
         \/ pc \in HasBinding \ {"records"} /\ pc' \in HasBinding \ {"records"}
         \/ pc \in Frozen /\ pc' \in Frozen \ HasBinding
  PROVE  DataInv'
<1>1. Sealed' <=> Sealed  BY DEF Sealed
<1>2. \A b : Led(b)' <=> Led(b)  BY DEF Led
<1>3. Closed(frozen.document, records)' <=> Closed(frozen.document, records)  OBVIOUS
<1>4. /\ pc' \in Frozen => pc \in Frozen
      /\ pc' \in HasBinding => pc \in HasBinding
      /\ pc' \in HasBinding \ {"records"} => pc \in HasBinding \ {"records"}
  BY DEF Frozen, HasBinding
<1> QED  BY <1>1, <1>2, <1>3, <1>4 DEF DataInv

LEMMA DataStep ==
  ASSUME DataInv, [Next]_vars
  PROVE  DataInv'
<1>1. CASE FreezeInputs
  <2>1. CASE Freezable
    <3>1. pc' = "prepare" /\ frozen' = Manifest /\ document' = document
      BY <1>1, <2>1 DEF FreezeInputs, Goto
    <3>2. Sealed'
      BY <2>1, <3>1 DEF Sealed, Manifest, Freezable, DataInv
    <3> QED  BY <3>1, <3>2 DEF DataInv, Frozen, HasBinding
  <2>2. CASE ~Freezable
    BY <1>1, <2>2, DataKept DEF FreezeInputs, Refuse, read, DataInv
  <2> QED  BY <2>1, <2>2
<1>2. CASE SelectBinding
  <2>1. CASE pc' = "refused"
    <3>1. UNCHANGED <<document, frozen>>  BY <1>2 DEF SelectBinding, world
    <3> QED  BY <2>1, <3>1 DEF DataInv, Sealed, Frozen, HasBinding
  <2>2. CASE pc' # "refused"
    <3>1. UNCHANGED <<document, frozen>> /\ pc = "binding" /\ Sealed
      BY <1>2 DEF SelectBinding, world, DataInv, Frozen
    <3>2. Cardinality(Top(frozen.document, frozen.variant)) = 1
      BY <1>2, <2>2 DEF SelectBinding, Refuse
    <3>3. PICK b \in Top(frozen.document, frozen.variant) :
            /\ records' = Roots(frozen.document, b) /\ Approved(frozen.document, records')
            /\ pc' = "records"
      BY <1>2, <2>2, <3>2 DEF SelectBinding, Refuse, Goto
    <3>4. IsFiniteSet(Top(frozen.document, frozen.variant))
      BY <3>1, <3>3, TopApplies, TopExists DEF Sealed
    <3>5. Top(frozen.document, frozen.variant) = {b}
      BY <3>2, <3>3, <3>4, FS_Singleton
    <3>6. Led(b)'
      BY <3>1, <3>3, <3>5 DEF Led
    <3>7. Sealed'
      BY <3>1 DEF Sealed
    <3> QED  BY <3>1, <3>3, <3>6, <3>7 DEF DataInv, HasBinding
  <2> QED  BY <2>1, <2>2
<1>3. CASE FollowReferences
  <2> DEFINE next == Mentioned(frozen.document, records) \ records
  <2>1. /\ UNCHANGED <<document, frozen>> /\ pc = "records" /\ Sealed /\ Sealed'
    BY <1>3 DEF FollowReferences, world, DataInv, Frozen, Sealed
  <2>2. CASE next = {}
    <3>1. Closed(frozen.document, records)
      BY <2>2 DEF Closed
    <3>2. records' = records /\ pc' = "evidence"
      BY <1>3, <2>2 DEF FollowReferences, Goto
    <3>3. (\E b : Led(b))'
      BY <2>1, <3>2 DEF DataInv, HasBinding, Led
    <3> QED  BY <2>1, <3>1, <3>2, <3>3 DEF DataInv, HasBinding
  <2>3. CASE next # {} /\ Approved(frozen.document, next)
    <3>1. records' = records \cup next /\ pc' = "records"
      BY <1>3, <2>3 DEF FollowReferences, Goto
    <3>2. PICK b : Led(b)
      BY <2>1 DEF DataInv, HasBinding
    <3>3. \A S \in SUBSET Records :
            Roots(frozen.document, b) \subseteq S /\ Closed(frozen.document, S)
              => records \cup next \subseteq S
      BY <3>2 DEF Led, Closed, Mentioned
    <3>4. Approved(frozen.document, records \cup next)
      BY <2>3, <3>2 DEF Approved, Led
    <3>5. Led(b)'
      BY <2>1, <3>1, <3>2, <3>3, <3>4 DEF Led
    <3> QED  BY <2>1, <3>1, <3>5 DEF DataInv, HasBinding
  <2>4. CASE next # {} /\ ~Approved(frozen.document, next)
    <3>1. pc' = "refused"
      BY <1>3, <2>4 DEF FollowReferences, Refuse
    <3> QED  BY <2>1, <3>1 DEF DataInv, HasBinding, Frozen
  <2> QED  BY <2>2, <2>3, <2>4
<1>4. CASE ValidateEnvironment \/ Prepare
  <2>1. UNCHANGED <<document, frozen, records>> /\ pc' \in {"freeze", "refused", "scenario"}
        /\ (pc' = "scenario" => pc = "prepare")
    BY <1>4 DEF ValidateEnvironment, Prepare, Goto, Refuse, world, read
  <2> QED  BY <2>1, DataKept DEF DataInv, Frozen, HasBinding
<1>5. CASE LoadScenarios \/ LoadStories \/ LoadRequirements
  <2>1. UNCHANGED <<document, frozen, records>> /\ pc \in {"scenario", "stories", "requirements"}
        /\ pc' \in {"stories", "requirements", "binding", "refused"}
    BY <1>5 DEF LoadScenarios, LoadStories, LoadRequirements, Goto, Refuse, world, read
  <2> QED  BY <2>1, DataKept DEF DataInv, Frozen, HasBinding
<1>6. CASE FetchChunks \/ SearchSymbols \/ ReadSource \/ GetNeighbors \/ ListTestLib
           \/ Weigh \/ Deliver
  <2>1. /\ UNCHANGED <<document, frozen, records>>
        /\ pc \in {"evidence", "search", "matched", "neighbors", "budget"}
        /\ pc' \in {pc, "search", "matched", "neighbors", "budget", "ready", "refused"}
    BY <1>6 DEF FetchChunks, SearchSymbols, ReadSource, GetNeighbors, ListTestLib, Weigh, Deliver,
                Goto, Refuse, world, read
  <2> QED  BY <2>1, DataKept DEF DataInv, HasBinding
<1>7. CASE Restart
  <2>1. UNCHANGED <<document, frozen>> /\ pc' = "start"
    BY <1>7 DEF Restart, world
  <2> QED  BY <2>1 DEF DataInv, Sealed, Frozen, HasBinding
<1>8. CASE World
  <2>1. document' \in Documents /\ UNCHANGED <<frozen, records, pc>>
    BY <1>8 DEF World, PublishScenarios, PublishStories, ResetChunks, ResetArtifacts, EditFramework,
                EditTestLib, EditDocument, Invocation, read, DataInv
  <2> QED  BY <2>1, DataKept
<1>9. CASE Over \/ UNCHANGED vars
  BY <1>9, DataKept DEF Over, vars, world, read, DataInv
<1> QED  BY <1>1, <1>2, <1>3, <1>4, <1>5, <1>6, <1>7, <1>8, <1>9 DEF Next, Begin, Retrieve
-----------------------------------------------------------------------------
LEMMA CodeStep ==
  ASSUME CodeInv, [Next]_vars
  PROVE  CodeInv'
<1>1. CASE Begin \/ LoadScenarios \/ LoadStories \/ LoadRequirements \/ SelectBinding
           \/ FollowReferences \/ FetchChunks
  <2>1. /\ pc \notin Reading \cup {"refused"} /\ pc' \notin Reading
        /\ UNCHANGED <<shown, neighbors, matched>>
    BY <1>1 DEF Begin, ValidateEnvironment, FreezeInputs, Prepare, LoadScenarios, LoadStories,
                LoadRequirements, SelectBinding, FollowReferences, FetchChunks, Goto, Refuse, read,
                Reading
  <2> QED  BY <2>1 DEF CodeInv, Reading
<1>2. CASE SearchSymbols
  <2>1. /\ pc = "search" /\ pc' = "matched" /\ unread' = matched'
        /\ UNCHANGED <<shown, neighbors>> /\ shown = {} /\ neighbors = {}
    BY <1>2 DEF SearchSymbols, Goto, CodeInv, Reading
  <2> QED  BY <2>1 DEF CodeInv, Reading
<1>3. CASE ReadSource
  <2>1. PICK s \in unread :
          /\ unread' = unread \ {s}
          /\ IF s \in edited \cup Unlike THEN Refuse("source") /\ UNCHANGED shown
             ELSE shown' = shown \cup {<<s, s \in edited>>} /\ UNCHANGED <<pc, cause>>
    BY <1>3 DEF ReadSource
  <2>2. pc \in {"matched", "neighbors"} /\ UNCHANGED <<matched, neighbors>>
    BY <1>3 DEF ReadSource
  <2>3. CASE s \in edited \cup Unlike
    BY <2>1, <2>2, <2>3 DEF CodeInv, Refuse, Reading
  <2>4. CASE s \notin edited \cup Unlike
    <3>1. pc' = pc /\ shown' = shown \cup {<<s, FALSE>>}
      <4>1. pc' = pc /\ shown' = shown \cup {<<s, s \in edited>>}
        BY <2>1, <2>4
      <4>2. (s \in edited) = FALSE
        BY <2>4
      <4> QED  BY <4>1, <4>2, Zenon
    <3>2. shown = {<<t, FALSE>> : t \in (matched \cup neighbors) \ unread}
      BY <2>2 DEF CodeInv, Reading
    <3>3. unread \subseteq matched \cup neighbors /\ matched \cap neighbors = {}
      BY <2>2 DEF CodeInv, Reading
    <3>4. (matched \cup neighbors) \ unread' = ((matched \cup neighbors) \ unread) \cup {s}
      BY <2>1, <3>3
    <3>5. shown' = {<<t, FALSE>> : t \in (matched \cup neighbors) \ unread'}
      BY <3>1, <3>2, <3>4
    <3>6. unread' \subseteq matched \cup neighbors
      BY <2>1, <3>3
    <3>7. pc' = "matched" => neighbors = {}
      BY <2>2, <3>1 DEF CodeInv
    <3> QED  BY <2>2, <3>1, <3>3, <3>5, <3>6, <3>7 DEF CodeInv, Reading
  <2> QED  BY <2>3, <2>4
<1>4. CASE GetNeighbors
  <2>1. /\ pc = "matched" /\ unread = {} /\ pc' = "neighbors" /\ unread' = neighbors'
        /\ UNCHANGED <<shown, matched>> /\ neighbors = {}
        /\ shown = {<<s, FALSE>> : s \in (matched \cup neighbors) \ unread}
    BY <1>4 DEF GetNeighbors, Goto, CodeInv, Reading
  <2>2. neighbors' \cap matched = {}
    <3>1. \A X : Capped(X \ matched) \subseteq SUBSET (X \ matched)  BY DEF Capped
    <3> DEFINE adjacent == UNION {Reached(s) : s \in matched}
    <3>2. neighbors' \in Capped(adjacent \ matched)  BY <1>4 DEF GetNeighbors
    <3> HIDE DEF adjacent
    <3> QED  BY <3>1, <3>2
  <2>3. (matched \cup neighbors') \ unread' = (matched \cup neighbors) \ unread
    BY <2>1, <2>2
  <2> QED  BY <2>1, <2>2, <2>3 DEF CodeInv, Reading
<1>5. CASE ListTestLib \/ Weigh \/ Deliver
  <2>1. /\ pc \in {"neighbors", "budget"} /\ pc' \in {"budget", "ready", "refused"}
        /\ UNCHANGED <<shown, matched, neighbors, unread>>
        /\ (pc = "neighbors" => unread = {})
    BY <1>5 DEF ListTestLib, Weigh, Deliver, Goto, Refuse, read
  <2> QED  BY <2>1 DEF CodeInv, Reading
<1>6. CASE Restart
  BY <1>6 DEF Restart, CodeInv, Reading
<1>7. CASE World \/ Over \/ UNCHANGED vars
  <2>1. UNCHANGED <<pc, shown, matched, neighbors, unread>>
    BY <1>7 DEF World, PublishScenarios, PublishStories, ResetChunks, ResetArtifacts, EditFramework,
                EditTestLib, EditDocument, Invocation, read, Over, vars
  <2> QED  BY <2>1 DEF CodeInv
<1> QED  BY <1>1, <1>2, <1>3, <1>4, <1>5, <1>6, <1>7 DEF Next, Retrieve

LEMMA ScenarioStep ==
  ASSUME ScenarioInv, [Next]_vars
  PROVE  ScenarioInv'
<1>1. CASE FreezeInputs
  <2>1. CASE Freezable
    <3>1. pc' = "prepare" /\ frozen' = Manifest /\ scenario' = scenario
      BY <1>1, <2>1 DEF FreezeInputs, Goto
    <3>2. frozen'.scenario = scenario'
      BY <3>1 DEF Manifest
    <3> QED  BY <3>1, <3>2 DEF ScenarioInv
  <2>2. CASE ~Freezable
    BY <1>1, <2>2 DEF FreezeInputs, Refuse, ScenarioInv, Frozen
  <2> QED  BY <2>1, <2>2
<1>2. CASE LoadScenarios
  <2>1. /\ pc = "scenario" /\ pc' = "stories" /\ UNCHANGED <<scenario, frozen, overtaken>>
        /\ lineage'.scenario = scenario
    BY <1>2 DEF LoadScenarios, Goto, world, history
  <2> QED  BY <2>1 DEF ScenarioInv, Frozen
<1>3. CASE LoadStories
  <2>1. /\ pc = "stories" /\ pc' = "requirements" /\ UNCHANGED <<scenario, frozen, overtaken>>
        /\ lineage'.scenario = lineage.scenario
    BY <1>3 DEF LoadStories, Goto, world, history
  <2> QED  BY <2>1 DEF ScenarioInv, Frozen
<1>4. CASE ValidateEnvironment \/ Prepare \/ LoadRequirements \/ SelectBinding
           \/ FollowReferences \/ FetchChunks \/ SearchSymbols \/ ReadSource \/ GetNeighbors
           \/ ListTestLib \/ Weigh \/ Deliver
  <2>1. UNCHANGED <<scenario, frozen, overtaken, lineage>>
    BY <1>4 DEF ValidateEnvironment, Prepare, LoadRequirements, SelectBinding, FollowReferences,
                FetchChunks, SearchSymbols, ReadSource, GetNeighbors, ListTestLib, Weigh, Deliver,
                world, read, history
  <2>2. \/ pc' \in {"freeze", "refused"}
        \/ pc = "prepare" /\ pc' = "scenario"
        \/ pc \in Frozen \ {"prepare", "scenario"}
    <3>1. CASE ValidateEnvironment \/ Prepare
      <4>1. pc' \in {"freeze", "refused", "scenario"} /\ (pc' = "scenario" => pc = "prepare")
        BY <3>1 DEF ValidateEnvironment, Prepare, Goto, Refuse
      <4> QED  BY <4>1
    <3>2. CASE LoadRequirements \/ SelectBinding \/ FollowReferences \/ FetchChunks
      BY <3>2 DEF LoadRequirements, SelectBinding, FollowReferences, FetchChunks, Frozen
    <3>3. CASE SearchSymbols \/ ReadSource \/ GetNeighbors \/ ListTestLib \/ Weigh \/ Deliver
      BY <3>3 DEF SearchSymbols, ReadSource, GetNeighbors, ListTestLib, Weigh, Deliver, Frozen
    <3> QED  BY <1>4, <3>1, <3>2, <3>3
  <2> QED  BY <2>1, <2>2 DEF ScenarioInv, Frozen
<1>5. CASE Restart
  BY <1>5 DEF Restart, ScenarioInv, Frozen
<1>6. CASE PublishScenarios \/ ResetArtifacts
  BY <1>6 DEF PublishScenarios, ResetArtifacts, ScenarioInv
<1>7. CASE PublishStories \/ ResetChunks \/ EditFramework \/ EditTestLib \/ EditDocument
           \/ Over \/ UNCHANGED vars
  <2>1. UNCHANGED <<pc, scenario, frozen, overtaken, lineage>>
    BY <1>7 DEF PublishStories, ResetChunks, EditFramework, EditTestLib, EditDocument, Invocation,
                read, Over, vars, world, history
  <2> QED  BY <2>1 DEF ScenarioInv
<1> QED  BY <1>1, <1>2, <1>3, <1>4, <1>5, <1>6, <1>7 DEF Next, Begin, Retrieve, World
-----------------------------------------------------------------------------
LEMMA WorldStep ==
  ASSUME WorldInv, [Next]_vars
  PROVE  WorldInv'
<1>1. CASE LoadScenarios \/ LoadStories
  <2>1. /\ UNCHANGED <<scenario, stories, requirements, chunks, edited, upset>>
        /\ \/ pc = "scenario" /\ pc' = "stories" /\ lineage'.scenario = scenario
           \/ /\ pc = "stories" /\ pc' = "requirements"
              /\ lineage'.scenario = lineage.scenario /\ lineage'.stories = stories
    BY <1>1 DEF LoadScenarios, LoadStories, Goto, world, history
  <2> QED  BY <2>1 DEF WorldInv, Frozen
<1>2. CASE FreezeInputs \/ Prepare \/ ValidateEnvironment
  <2>1. UNCHANGED <<scenario, stories, requirements, chunks, upset, lineage>>
    BY <1>2 DEF FreezeInputs, Prepare, ValidateEnvironment, world, read, history
  <2>2. edited = {} => edited' = {}
    <3>1. CASE FreezeInputs  BY <3>1 DEF FreezeInputs
    <3>2. CASE Prepare  BY <3>2 DEF Prepare
    <3>3. CASE ValidateEnvironment  BY <3>3 DEF ValidateEnvironment, world
    <3> QED  BY <1>2, <3>1, <3>2, <3>3
  <2>3. pc' \in {"freeze", "prepare", "scenario", "refused"}
    BY <1>2 DEF FreezeInputs, Prepare, ValidateEnvironment, Goto, Refuse
  <2> QED  BY <2>1, <2>2, <2>3 DEF WorldInv, Frozen
<1>3. CASE LoadRequirements \/ SelectBinding \/ FollowReferences \/ FetchChunks \/ SearchSymbols
           \/ ReadSource \/ GetNeighbors \/ ListTestLib \/ Weigh \/ Deliver
  <2>1. UNCHANGED <<scenario, stories, requirements, chunks, edited, upset, lineage>>
    BY <1>3 DEF LoadRequirements, SelectBinding, FollowReferences, FetchChunks, SearchSymbols,
                ReadSource, GetNeighbors, ListTestLib, Weigh, Deliver, world, read, history
  <2>2. pc \in Frozen \ {"prepare", "scenario", "stories"}
    BY <1>3 DEF LoadRequirements, SelectBinding, FollowReferences, FetchChunks, SearchSymbols,
                ReadSource, GetNeighbors, ListTestLib, Weigh, Deliver, Frozen
  <2> QED  BY <2>1, <2>2 DEF WorldInv
<1>4. CASE Restart
  BY <1>4 DEF Restart, world, history, WorldInv, Frozen
<1>5. CASE PublishScenarios \/ PublishStories \/ ResetArtifacts
  <2>1. "lineage" \in upset' /\ edited' = edited /\ upset \subseteq upset'
    BY <1>5 DEF PublishScenarios, PublishStories, ResetArtifacts, Change
  <2> QED  BY <2>1 DEF WorldInv
<1>6. CASE ResetChunks
  <2>1. /\ upset' = upset \cup {"chunks"}
        /\ UNCHANGED <<scenario, stories, requirements, edited, pc, lineage>>
    BY <1>6 DEF ResetChunks, Change, Invocation, read
  <2> QED  BY <2>1 DEF WorldInv
<1>7. CASE EditFramework \/ EditTestLib
  <2>1. /\ upset' = upset \cup {"framework"}
        /\ UNCHANGED <<scenario, stories, requirements, chunks, pc, lineage>>
    BY <1>7 DEF EditFramework, EditTestLib, Change, Invocation, read
  <2> QED  BY <2>1 DEF WorldInv
<1>8. CASE EditDocument \/ Over \/ UNCHANGED vars
  <2>1. upset' = upset /\ UNCHANGED <<scenario, stories, requirements, chunks, edited, pc, lineage>>
    BY <1>8 DEF EditDocument, Change, Invocation, Over, vars, world, read, history
  <2> QED  BY <2>1 DEF WorldInv
<1> QED  BY <1>1, <1>2, <1>3, <1>4, <1>5, <1>6, <1>7, <1>8 DEF Next, Begin, Retrieve, World

\* What the gates let through, and the retrieval refuses, is what they do not look at.
LEMMA UnapprovedIsOverlooked ==
  ASSUME NEW d \in Documents, Ready(d), NEW S, ~Approved(d, S),
         \A r \in S : r \in Records /\ d.status[r] # "missing"
  PROVE  Overlooked(d) # {}
<1>1. PICK r \in S : d.status[r] # "APPROVED"
  BY DEF Approved
<1>2. d.status[r] = "unapproved" /\ r \in Records
  BY <1>1, WorldAssumption DEF IsDocument, Statuses
<1>3. \A b \in DOMAIN d.bindings : r \notin d.bindings[b].records \cup d.bindings[b].action
  BY <1>1, ReadyRules DEF Approved
<1> QED  BY <1>2, <1>3 DEF Overlooked

LEMMA CauseStep ==
  ASSUME DataInv, CodeInv, WorldInv, RefusalIsExplained, [Next]_vars
  PROVE  RefusalIsExplained'
<1>1. CASE FreezeInputs \/ Prepare
  <2>1. pc' # "refused" \/ cause' = "manifest"
    BY <1>1 DEF FreezeInputs, Prepare, Goto, Refuse
  <2> QED  BY <2>1 DEF RefusalIsExplained
<1>2. CASE LoadRequirements
  <2>1. /\ pc = "requirements" /\ upset' = upset
        /\ \/ pc' = "binding"
           \/ cause' = "lineage" /\ ~Whole(lineage.scenario, lineage.stories, requirements)
    BY <1>2 DEF LoadRequirements, Goto, Refuse, history
  <2> QED  BY <2>1 DEF RefusalIsExplained, WorldInv, Frozen
<1>3. CASE FetchChunks
  <2>1. /\ pc = "evidence" /\ upset' = upset
        /\ \/ pc' = "search"
           \/ cause' = "evidence" /\ ~(EvidenceIds(lineage.scenario, lineage.stories) \subseteq chunks)
    BY <1>3 DEF FetchChunks, Fetched, Goto, Refuse, history
  <2> QED  BY <2>1 DEF RefusalIsExplained, WorldInv, Frozen
<1>4. CASE SelectBinding
  <2> DEFINE top == Top(frozen.document, frozen.variant)
  <2>1. Sealed /\ pc = "binding" /\ frozen' = frozen
    BY <1>4 DEF SelectBinding, DataInv, Frozen
  <2>2. \/ IsFiniteSet(top) /\ top # {} /\ top \subseteq DOMAIN frozen.document.bindings
        \/ Misnamed(frozen.document, frozen.variant)
    <3>1. frozen.document \in Documents
      BY <2>1 DEF Sealed
    <3>2. CASE Applicable(frozen.document, frozen.variant) # {}
      BY <3>1, <3>2, TopExists
    <3>3. CASE Applicable(frozen.document, frozen.variant) = {}
      BY <2>1, <3>3, SelectedIsAvailable DEF Sealed
    <3> QED  BY <3>2, <3>3
  <2>3. CASE Cardinality(top) # 1
    <3>1. pc' = "refused" /\ cause' = "binding"
      BY <1>4, <2>3 DEF SelectBinding, Refuse
    <3>2. Cardinality(top) > 1 \/ Misnamed(frozen.document, frozen.variant)
      BY <2>2, <2>3, FS_CardinalityType, FS_EmptySet
    <3> QED  BY <2>1, <3>1, <3>2 DEF RefusalIsExplained
  <2>4. CASE Cardinality(top) = 1
    <3>1. PICK b \in top :
            IF Approved(frozen.document, Roots(frozen.document, b)) THEN pc' = "records"
            ELSE cause' = "records"
      BY <1>4, <2>4 DEF SelectBinding, Goto, Refuse
    <3>2. CASE Approved(frozen.document, Roots(frozen.document, b))
      BY <3>1, <3>2 DEF RefusalIsExplained
    <3>3. CASE ~Approved(frozen.document, Roots(frozen.document, b))
      <4>1. frozen.document \in Documents /\ Ready(frozen.document)
            /\ b \in DOMAIN frozen.document.bindings
        BY <2>1, <3>1, TopApplies, TopExists DEF Sealed
      <4>2. \A r \in Roots(frozen.document, b) :
              r \in Records /\ frozen.document.status[r] # "missing"
        BY <4>1, ReadyRules, WorldAssumption DEF Roots, Approved, IsDocument
      <4>3. Overlooked(frozen.document) # {}
        BY <3>3, <4>1, <4>2, UnapprovedIsOverlooked
      <4> QED  BY <2>1, <3>1, <3>3, <4>3 DEF RefusalIsExplained
    <3> QED  BY <3>2, <3>3
  <2> QED  BY <2>3, <2>4
<1>5. CASE FollowReferences
  <2> DEFINE next == Mentioned(frozen.document, records) \ records
  <2>1. Sealed /\ pc = "records" /\ frozen' = frozen
    BY <1>5 DEF FollowReferences, DataInv, Frozen
  <2>2. \/ pc' \in {"evidence", "records"}
        \/ cause' = "records" /\ ~Approved(frozen.document, next)
    BY <1>5 DEF FollowReferences, Goto, Refuse
  <2>3. CASE cause' = "records" /\ ~Approved(frozen.document, next)
    <3>1. PICK b : Led(b)
      BY <2>1 DEF DataInv, HasBinding
    <3>2. records \subseteq Records
      <4>1. b \in DOMAIN frozen.document.bindings
        BY <2>1, <3>1, TopApplies, TopExists DEF Led, Sealed
      <4>2. Roots(frozen.document, b) \subseteq Records
        BY <2>1, <4>1, ReadyRules DEF Sealed, Roots
      <4>3. Closed(frozen.document, Records)
        BY <2>1, WorldAssumption DEF Sealed, Closed, Mentioned, IsDocument
      <4> QED  BY <3>1, <4>2, <4>3 DEF Led
    <3>3. \A r \in next : r \in Records /\ frozen.document.status[r] # "missing"
      BY <2>1, <3>2, WorldAssumption DEF Mentioned, IsDocument, Sealed
    <3>4. Overlooked(frozen.document) # {}
      <4> HIDE DEF next
      <4> QED  BY <2>1, <2>3, <3>3, UnapprovedIsOverlooked DEF Sealed
    <3> QED  BY <2>1, <2>3, <3>4 DEF RefusalIsExplained
  <2> QED  BY <2>2, <2>3 DEF RefusalIsExplained
<1>6. CASE ReadSource
  <2>1. PICK s \in unread :
          IF s \in edited \cup Unlike THEN cause' = "source" ELSE pc' = pc
    BY <1>6 DEF ReadSource, Refuse
  <2>2. pc \in {"matched", "neighbors"} /\ UNCHANGED <<matched, neighbors, upset>>
    BY <1>6 DEF ReadSource, history
  <2>3. s \in matched \cup neighbors
    BY <2>2 DEF CodeInv, Reading
  <2> QED  BY <2>1, <2>2, <2>3 DEF RefusalIsExplained, WorldInv
<1>7. CASE ValidateEnvironment \/ LoadScenarios \/ LoadStories \/ SearchSymbols \/ GetNeighbors
           \/ Weigh \/ Deliver \/ Restart
  <2>1. pc' # "refused"
    BY <1>7 DEF ValidateEnvironment, LoadScenarios, LoadStories, SearchSymbols, GetNeighbors,
                Weigh, Deliver, Restart, Goto
  <2> QED  BY <2>1 DEF RefusalIsExplained
<1>8. CASE World \/ Over \/ UNCHANGED vars
  <2>1. /\ upset \subseteq upset' /\ UNCHANGED <<frozen, pc, cause, matched, neighbors>>
        /\ library' = library \/ "framework" \in upset'
    BY <1>8 DEF World, PublishScenarios, PublishStories, ResetChunks, ResetArtifacts, EditFramework,
                EditTestLib, EditDocument, Change, Invocation, read, Over, vars, world, history
  <2> QED  BY <2>1 DEF RefusalIsExplained
<1>9. CASE ListTestLib
  <2>1. pc' = "budget" \/ (cause' = "test_lib" /\ library' = Unparsable)
    BY <1>9 DEF ListTestLib, Goto, Refuse, world
  <2> QED  BY <2>1 DEF RefusalIsExplained
<1> QED
  BY <1>1, <1>2, <1>3, <1>4, <1>5, <1>6, <1>7, <1>8, <1>9 DEF Next, Begin, Retrieve
-----------------------------------------------------------------------------
IInv == DataInv /\ CodeInv /\ ScenarioInv /\ WorldInv /\ RefusalIsExplained

LEMMA InitHolds ==
  ASSUME Init
  PROVE  IInv
<1>1. DataInv  BY DEF Init, DataInv, Frozen, HasBinding
<1>2. CodeInv  BY DEF Init, CodeInv, Reading
<1>3. ScenarioInv  BY DEF Init, ScenarioInv, Frozen
<1>4. WorldInv  BY DEF Init, WorldInv, Frozen
<1> QED  BY <1>1, <1>2, <1>3, <1>4 DEF IInv, Init, RefusalIsExplained

THEOREM Inductive == Spec => []IInv
<1>1. Init => IInv  BY InitHolds
<1>2. IInv /\ [Next]_vars => IInv'
  BY DataStep, CodeStep, ScenarioStep, WorldStep, CauseStep DEF IInv
<1> QED  BY <1>1, <1>2, PTL DEF Spec

\* A refused invocation (of _retrieve_context, or of the gates before it) has one of the
\* causes that the code cannot avoid, or overlooks when it freezes.
THEOREM RefusalsAreExplained == Spec => []RefusalIsExplained
<1>1. IInv => RefusalIsExplained  BY DEF IInv
<1> QED  BY <1>1, Inductive, PTL

\* A delivered context is that of the frozen manifest, whatever the stores, the framework
\* and the document have become while scenario_codegen_context was reading.
THEOREM DeliveryIsOfManifest == Spec => []DeliveredAsFrozen
<1>1. ASSUME IInv, pc = "ready" PROVE DataIsExact
  <2>1. PICK b : Led(b)  BY <1>1 DEF IInv, DataInv, HasBinding
  <2>2. b \in Top(frozen.document, frozen.variant)  BY <2>1 DEF Led
  <2>3. Closed(frozen.document, records)  BY <1>1 DEF IInv, DataInv, HasBinding
  <2> QED  BY <2>1, <2>2, <2>3 DEF DataIsExact, Led
<1>2. ASSUME IInv, pc = "ready" PROVE shown = {<<s, FALSE>> : s \in matched \cup neighbors}
  <2>1. (matched \cup neighbors) \ unread = matched \cup neighbors
    BY <1>2 DEF IInv, CodeInv
  <2> QED  BY <1>2, <2>1 DEF IInv, CodeInv, Reading
<1>3. ASSUME IInv, pc = "ready" PROVE ~overtaken => lineage.scenario = frozen.scenario
  BY <1>3 DEF IInv, ScenarioInv, Frozen
<1>4. IInv => DeliveredAsFrozen  BY <1>1, <1>2, <1>3 DEF DeliveredAsFrozen
<1> QED  BY <1>4, Inductive, PTL
-----------------------------------------------------------------------------
(***************************************************************************)
(* The token budget.  Candidates are weighed group after group, so that    *)
(* when one is left out, everything taken is of its own group or of an     *)
(* earlier one, and what is taken later only adds to it.                   *)
(***************************************************************************)

Groups == {"matched_symbols", "test_lib_symbols", "evidence_chunks", "neighbor_symbols"}
IsItem(x) == x = <<x[1], x[2], x[3]>> /\ x[1] \in Groups /\ x[3] \in Nat

BudgetTypes ==
  /\ used \in Nat /\ remaining \in Nat /\ IsFiniteSet(taken)
  /\ \A x \in taken \cup dropped : IsItem(x)
  /\ \A c \in pending : c = <<c[1], c[2]>> /\ c[1] \in Groups

\* What has been weighed is not weighed again, and what is left comes after it.
InOrder ==
  \A x \in taken : /\ \A c \in pending : Rank(x[1]) <= Rank(c[1])
                   /\ <<x[1], x[2]>> \notin pending

BudgetInv ==
  /\ BudgetTypes /\ InOrder /\ BudgetIsFair
  /\ pc \notin {"budget", "ready", "refused"} => taken = {} /\ dropped = {} /\ used = 0

LEMMA Ranks == \A g \in Groups : Rank(g) \in Nat
  BY DEF Groups, Rank

LEMMA TokensOfOne ==
  ASSUME NEW y, NEW n \in Nat
  PROVE  IsFiniteSet({y} \X (1 .. n)) /\ Cardinality({y} \X (1 .. n)) = n
<1> DEFINE I == 1 .. n
<1>1. IsFiniteSet(I) /\ Cardinality(I) = n
  BY FS_Interval
<1>2. IsFiniteSet({y}) /\ Cardinality({y}) = 1
  BY FS_Singleton
<1> HIDE DEF I
<1>3. IsFiniteSet({y} \X I) /\ Cardinality({y} \X I) = Cardinality({y}) * Cardinality(I)
  BY <1>1, <1>2, FS_Product
<1> QED
  BY <1>1, <1>2, <1>3 DEF I

\* The tokens of finitely many items are finitely many.
LEMMA TokensFinite ==
  ASSUME NEW S, IsFiniteSet(S), \A y \in S : IsItem(y)
  PROVE  IsFiniteSet(UNION {Tokens(y) : y \in S})
<1> DEFINE f == [y \in S |-> Tokens(y)]
           R == {Tokens(y) : y \in S}
<1>1. f \in Surjection(S, R)
  BY DEF Surjection
<1>2. \A Q \in R : IsFiniteSet(Q)
  <2>1. \A y \in S : IsFiniteSet(Tokens(y))
    BY TokensOfOne DEF Tokens, IsItem
  <2> QED
    BY <2>1
<1> HIDE DEF f, R
<1>3. IsFiniteSet(UNION R)
  BY <1>1, <1>2, FS_Surjection, FS_UNION
<1> QED
  BY <1>3 DEF R

\* The tokens of one more item add up.
LEMMA OneMore ==
  ASSUME NEW S, IsFiniteSet(S), \A y \in S : IsItem(y), NEW x, IsItem(x), x \notin S
  PROVE  Size(S \cup {x}) = Size(S) + x[3] /\ Size(S) \in Nat
<1> DEFINE T == UNION {Tokens(y) : y \in S}
           X == Tokens(x)
<1>1. IsFiniteSet(T) /\ Cardinality(T) \in Nat
  BY TokensFinite, FS_CardinalityType
<1>2. IsFiniteSet(X) /\ Cardinality(X) = x[3] /\ x[3] \in Nat
  BY TokensOfOne DEF Tokens, IsItem
<1>3. Size(S) = Cardinality(T) /\ Size(S \cup {x}) = Cardinality(T \cup X)
  <2>1. UNION {Tokens(y) : y \in S \cup {x}} = T \cup X
    OBVIOUS
  <2> QED
    BY <2>1 DEF Size
<1>4. T \cap X = {}
  BY DEF Tokens
<1> HIDE DEF T, X
<1>5. Cardinality(T \cup X) = Cardinality(T) + Cardinality(X) - Cardinality(T \cap X)
  BY <1>1, <1>2, FS_Union
<1>6. Cardinality(T \cap X) = 0
  BY <1>4, FS_EmptySet
<1> QED
  BY <1>1, <1>2, <1>3, <1>5, <1>6

\* More items have no fewer tokens.
LEMMA NoFewer ==
  ASSUME NEW S, IsFiniteSet(S), \A y \in S : IsItem(y), NEW R, R \subseteq S
  PROVE  Size(R) <= Size(S) /\ Size(R) \in Nat /\ Size(S) \in Nat
<1> DEFINE T(Q) == UNION {Tokens(y) : y \in Q}
<1>1. IsFiniteSet(T(S))
  BY TokensFinite
<1>2. T(R) \subseteq T(S)
  OBVIOUS
<1>3. Size(R) = Cardinality(T(R)) /\ Size(S) = Cardinality(T(S))
  BY DEF Size
<1> HIDE DEF T
<1> QED
  BY <1>1, <1>2, <1>3, FS_Subset, FS_CardinalityType

LEMMA NoneTaken == Size({}) = 0 /\ CodeIn({}) = {} /\ Cardinality({}) = 0
<1>1. UNION {Tokens(y) : y \in {}} = {} /\ CodeIn({}) = {}
  BY DEF CodeIn
<1> QED
  BY <1>1, FS_EmptySet DEF Size

\* Where an invocation has nothing taken yet.
LEMMA NothingTaken ==
  ASSUME NEW r \in Nat, taken' = {}, dropped' = {}, used' = 0, remaining' = r,
         \A c \in pending' : c = <<c[1], c[2]>> /\ c[1] \in Groups
  PROVE  BudgetInv'
<1>1. BudgetTypes' /\ InOrder'
  BY FS_EmptySet DEF BudgetTypes, InOrder
<1>2. Size(taken') = 0 /\ Cardinality(CodeIn(taken')) = 0
  BY NoneTaken
<1>3. BudgetIsFair'
  BY <1>2, BudgetAssumption DEF BudgetIsFair
<1> QED
  BY <1>1, <1>3 DEF BudgetInv

\* Nor fewer symbols.
LEMMA CodeBound ==
  ASSUME NEW S, IsFiniteSet(S), NEW R, R \subseteq S
  PROVE  /\ Cardinality(CodeIn(R)) <= Cardinality(CodeIn(S))
         /\ Cardinality(CodeIn(R)) \in Nat /\ Cardinality(CodeIn(S)) \in Nat
<1>1. CodeIn(R) \subseteq CodeIn(S) /\ CodeIn(S) \subseteq S
  BY DEF CodeIn
<1> QED
  BY <1>1, FS_Subset, FS_CardinalityType

\* Why x is out, when S is what is taken of its own and earlier groups.
Excuse(x, S) == \/ Size(S) + x[3] > remaining
                \/ IsSymbol(x) /\ Cardinality(CodeIn(S)) = MaxSymbols

LEMMA WeighKeepsBudget ==
  ASSUME BudgetInv, Weigh
  PROVE  BudgetInv'
<1>1. PICK c \in First, size \in Sizes :
        /\ pending' = pending \ {c}
        /\ IF Fits(c, size) THEN /\ taken' = taken \cup {<<c[1], c[2], size>>} /\ used' = used + size
                                 /\ dropped' = dropped
           ELSE /\ dropped' = dropped \cup {<<c[1], c[2], size>>}
                /\ taken' = taken /\ used' = used
  BY DEF Weigh
<1> DEFINE x == <<c[1], c[2], size>>
<1>2. /\ remaining' = remaining /\ pc' = "budget" /\ size \in Nat
      /\ c \in pending /\ \A d \in pending : Rank(c[1]) <= Rank(d[1])
  BY <1>1, BudgetAssumption DEF Weigh, Goto, First
<1>3. BudgetTypes /\ InOrder /\ BudgetIsFair
  BY DEF BudgetInv
<1>4. /\ c = <<c[1], c[2]>> /\ c[1] \in Groups /\ IsItem(x)
      /\ x[1] = c[1] /\ x[3] = size /\ <<x[1], x[2]>> = c
  BY <1>2, <1>3 DEF BudgetTypes, IsItem
<1>5. x \notin taken
  BY <1>2, <1>3, <1>4 DEF InOrder
<1>6. IsFiniteSet(taken) /\ (\A y \in taken : IsItem(y)) /\ used \in Nat /\ remaining \in Nat
  BY <1>3 DEF BudgetTypes
<1>7. \A y \in dropped : Excuse(y, UpTo(y[1])) /\ IsItem(y)
  BY <1>3 DEF BudgetIsFair, BudgetTypes, Excuse
<1>8. CASE ~Fits(c, size)
  <2>1. dropped' = dropped \cup {x} /\ taken' = taken /\ used' = used
    BY <1>1, <1>8
  <2>2. BudgetTypes'
    BY <1>1, <1>2, <1>3, <1>4, <2>1 DEF BudgetTypes
  <2>3. InOrder'
    BY <1>1, <1>3, <2>1 DEF InOrder
  <2>4. UpTo(x[1]) = taken
    BY <1>2, <1>3, <1>4 DEF UpTo, InOrder
  <2>5. Excuse(x, taken)
    <3>1. used = Size(taken) /\ Cardinality(CodeIn(taken)) <= MaxSymbols
      BY <1>3 DEF BudgetIsFair
    <3>2. Cardinality(CodeIn(taken)) \in Nat
      BY <1>6, CodeBound
    <3>3. IsSymbol(x) <=> IsSymbol(c)
      BY <1>4 DEF IsSymbol
    <3> QED
      BY <1>2, <1>4, <1>6, <1>8, <3>1, <3>2, <3>3, BudgetAssumption DEF Fits, Excuse
  <2>6. \A y \in dropped' : Excuse(y, UpTo(y[1]))
    BY <1>7, <2>1, <2>4, <2>5
  <2>7. \A y \in dropped' : Excuse(y, UpTo(y[1]))'
    BY <1>2, <2>1, <2>6 DEF Excuse, UpTo
  <2>8. BudgetIsFair'
    BY <1>2, <1>3, <2>1, <2>7 DEF BudgetIsFair, Excuse
  <2> QED
    BY <1>2, <2>2, <2>3, <2>8 DEF BudgetInv
<1>9. CASE Fits(c, size)
  <2>1. taken' = taken \cup {x} /\ used' = used + size /\ used + size <= remaining /\ dropped' = dropped
    BY <1>1, <1>9 DEF Fits
  <2>2. IsFiniteSet(taken') /\ \A y \in taken' : IsItem(y)
    BY <1>4, <1>6, <2>1, FS_AddElement
  <2>3. BudgetTypes'
    BY <1>1, <1>2, <1>3, <2>1, <2>2 DEF BudgetTypes
  <2>4. InOrder'
    BY <1>1, <1>2, <1>3, <1>4, <2>1 DEF InOrder
  <2>5. used' = Size(taken')
    BY <1>3, <1>4, <1>5, <1>6, <2>1, OneMore DEF BudgetIsFair
  <2>6. Cardinality(CodeIn(taken')) <= MaxSymbols
    <3>1. IsSymbol(x) <=> IsSymbol(c)
      BY <1>4 DEF IsSymbol
    <3>2. CodeIn(taken') = IF IsSymbol(c) THEN CodeIn(taken) \cup {x} ELSE CodeIn(taken)
      BY <2>1, <3>1 DEF CodeIn
    <3>3. /\ IsFiniteSet(CodeIn(taken)) /\ Cardinality(CodeIn(taken)) \in Nat
          /\ Cardinality(CodeIn(taken)) <= MaxSymbols
      <4>1. CodeIn(taken) \subseteq taken
        BY DEF CodeIn
      <4> QED
        BY <1>3, <1>6, <4>1, FS_Subset, FS_CardinalityType DEF BudgetIsFair
    <3>4. CASE IsSymbol(c)
      <4>1. Cardinality(CodeIn(taken)) < MaxSymbols
        BY <1>9, <3>4 DEF Fits
      <4>2. Cardinality(CodeIn(taken) \cup {x}) = Cardinality(CodeIn(taken)) + 1
        <5>1. x \notin CodeIn(taken)
          BY <1>5 DEF CodeIn
        <5> QED
          BY <3>3, <5>1, FS_AddElement
      <4> QED
        BY <3>2, <3>3, <3>4, <4>1, <4>2, BudgetAssumption
    <3> QED
      BY <3>2, <3>3, <3>4
  <2>7. ASSUME NEW y \in dropped' PROVE Excuse(y, UpTo(y[1]))'
    <3> DEFINE before == UpTo(y[1])
               after == {z \in taken' : Rank(z[1]) <= Rank(y[1])}
    <3>1. before \subseteq after /\ after \subseteq taken'
      BY <2>1 DEF UpTo
    <3>2. IsFiniteSet(after) /\ \A z \in after : IsItem(z)
      BY <2>2, <3>1, FS_Subset
    <3>3. Excuse(y, before) /\ y[3] \in Nat
      BY <1>7, <2>1 DEF IsItem
    <3> HIDE DEF before, after
    <3>4. Size(before) <= Size(after) /\ Size(before) \in Nat /\ Size(after) \in Nat
      BY <3>1, <3>2, NoFewer
    <3>5. /\ Cardinality(CodeIn(before)) <= Cardinality(CodeIn(after))
          /\ Cardinality(CodeIn(before)) \in Nat /\ Cardinality(CodeIn(after)) \in Nat
      BY <3>1, <3>2, CodeBound
    <3>6. Cardinality(CodeIn(after)) <= MaxSymbols
      <4>1. /\ Cardinality(CodeIn(after)) <= Cardinality(CodeIn(taken'))
            /\ Cardinality(CodeIn(taken')) \in Nat
        BY <2>2, <3>1, CodeBound
      <4> QED
        BY <2>6, <3>5, <4>1, BudgetAssumption
    <3>7. Excuse(y, after)
      BY <1>6, <3>3, <3>4, <3>5, <3>6, BudgetAssumption DEF Excuse
    <3> QED
      BY <1>2, <3>7 DEF Excuse, UpTo, after
  <2>8. BudgetIsFair'
    BY <1>2, <2>1, <2>5, <2>6, <2>7 DEF BudgetIsFair, Excuse
  <2> QED
    BY <1>2, <2>3, <2>4, <2>8 DEF BudgetInv
<1> QED
  BY <1>8, <1>9

LEMMA Candidacy == \A c \in Candidates : c = <<c[1], c[2]>> /\ c[1] \in Groups
  BY DEF Candidates, LiveFunctions, Groups

LEMMA BudgetRests ==
  ASSUME BudgetInv, UNCHANGED budget,
         pc' \notin {"budget", "ready", "refused"} => pc \notin {"budget", "ready", "refused"}
  PROVE  BudgetInv'
<1>1. UNCHANGED <<pending, taken, dropped, used, remaining>>
  BY DEF budget
<1>2. BudgetTypes' /\ InOrder'
  BY <1>1 DEF BudgetInv, BudgetTypes, InOrder
<1>3. BudgetIsFair'
  BY <1>1 DEF BudgetInv, BudgetIsFair, UpTo
<1> QED
  BY <1>1, <1>2, <1>3 DEF BudgetInv

LEMMA BudgetStep == BudgetInv /\ [Next]_vars => BudgetInv'
<1> SUFFICES ASSUME BudgetInv, [Next]_vars PROVE BudgetInv'
  OBVIOUS
<1>1. CASE Weigh
  BY <1>1, WeighKeepsBudget
<1>2. CASE ListTestLib
  <2>1. taken' = {} /\ dropped' = {} /\ used' = 0
    BY <1>2 DEF ListTestLib, BudgetInv
  <2>2. CASE library = Unparsable
    <3>1. UNCHANGED budget /\ pc' = "refused"
      BY <1>2, <2>2 DEF ListTestLib, Refuse, budget
    <3> QED
      BY <3>1, BudgetRests
  <2>3. CASE library # Unparsable
    <3>1. PICK mandatory \in 0..(TokenBudget + 1) :
            remaining' = IF mandatory < TokenBudget THEN TokenBudget - mandatory ELSE 0
      BY <1>2, <2>3 DEF ListTestLib
    <3>2. remaining' \in Nat
      BY <3>1, BudgetAssumption
    <3>3. pending' = Candidates
      BY <1>2, <2>3 DEF ListTestLib
    <3> QED
      BY <2>1, <3>2, <3>3, NothingTaken, Candidacy
  <2> QED
    BY <2>2, <2>3
<1>3. CASE Restart
  <2>1. taken' = {} /\ dropped' = {} /\ used' = 0 /\ remaining' = 0 /\ pending' = {}
    BY <1>3 DEF Restart
  <2> QED
    BY <2>1, NothingTaken
<1>4. CASE Begin \/ LoadScenarios \/ LoadStories \/ LoadRequirements \/ SelectBinding
           \/ FollowReferences \/ FetchChunks \/ SearchSymbols \/ ReadSource \/ GetNeighbors
  <2>1. UNCHANGED budget /\ pc \notin {"budget", "ready", "refused"}
    BY <1>4 DEF Begin, ValidateEnvironment, FreezeInputs, Prepare, LoadScenarios, LoadStories,
                LoadRequirements, SelectBinding, FollowReferences, FetchChunks, SearchSymbols,
                ReadSource, GetNeighbors
  <2> QED
    BY <2>1, BudgetRests
<1>5. CASE Deliver
  <2>1. UNCHANGED budget /\ pc' = "ready"
    BY <1>5 DEF Deliver, Goto
  <2> QED
    BY <2>1, BudgetRests
<1>6. CASE World \/ Over \/ UNCHANGED vars
  <2>1. UNCHANGED budget /\ pc' = pc
    BY <1>6 DEF World, PublishScenarios, PublishStories, ResetChunks, ResetArtifacts,
                EditFramework, EditTestLib, EditDocument, Invocation, Over, vars
  <2> QED
    BY <2>1, BudgetRests
<1> QED
  BY <1>1, <1>2, <1>3, <1>4, <1>5, <1>6 DEF Next, Retrieve

\* _apply_budget never takes more tokens than the mandatory part has left, nor more
\* symbols than the cap, and leaves out only what does not fit with what is taken of its
\* own and earlier groups, however many candidates there are and whatever they weigh.
THEOREM BudgetFairAlways == Spec => []BudgetIsFair
<1>1. Init => BudgetInv
  <2>1. SUFFICES ASSUME Init PROVE BudgetInv
    OBVIOUS
  <2>2. taken = {} /\ dropped = {} /\ used = 0 /\ remaining = 0 /\ pending = {}
    BY <2>1 DEF Init
  <2>3. BudgetTypes /\ InOrder
    BY <2>2, FS_EmptySet DEF BudgetTypes, InOrder
  <2>4. BudgetIsFair
    BY <2>2, NoneTaken, BudgetAssumption DEF BudgetIsFair
  <2> QED
    BY <2>2, <2>3, <2>4 DEF BudgetInv
<1>2. BudgetInv => BudgetIsFair
  BY DEF BudgetInv
<1> QED
  BY <1>1, <1>2, BudgetStep, PTL DEF Spec
=============================================================================
