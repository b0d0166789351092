----------------------------- MODULE CaseContext -----------------------------
(***************************************************************************)
(* From the inputs that a Stage-4 run freezes to the context of one of its *)
(* cases (workflows/codegen_run_graph.py, CodegenContextRetriever): what   *)
(* is read when, what makes retrieval refuse, and what the token budget    *)
(* leaves out.  Every store is read in a step of its own, and Stages 2 and *)
(* 3, a reset, an editor of the framework and one of the document work in  *)
(* between.  A refusal ends the invocation; the next one freezes again.    *)
(***************************************************************************)
EXTENDS TestData

CONSTANTS
  Documents, Explicit,          \* contents of the document; variant_selection of the case
  Scenarios, StoryArtifacts,    \* what Stages 3 and 2 may have published
  Requirements, Evidence,       \* Evidence: the chunks that a requirement quotes
  Chunks, Absent,
  Symbols, Found, Adjacent,     \* the indexed snapshot: search hits and neighbours
  Unlike,                       \* symbols whose text retrieval reads otherwise than the indexer
  TestLibs, Unparsable,         \* what test_lib may hold: functions, or a file that is no Python
  Sizes, TokenBudget, MaxSymbols,
  MaxRuns, MaxChanges           \* bounds: invocations, changes from outside

VARIABLES
  document, scenario, stories, requirements, chunks, library,   \* the world
  edited,                              \* symbols, or test_lib, edited since they were indexed
  frozen,                              \* the manifest, with what its checksums stand for
  seen,                                \* what was edited when the baseline was hashed
  pc, cause, lineage, records, matched, neighbors, unread, shown,   \* the invocation
  pending, taken, dropped, used, remaining,                         \* _apply_budget
  upset, overtaken, changes, runs      \* history, and counters of the bounds

world == <<document, scenario, stories, requirements, chunks, library, edited>>
read == <<lineage, records, matched, neighbors, unread, shown>>
budget == <<pending, taken, dropped, used, remaining>>
history == <<upset, overtaken, changes>>
vars == <<world, frozen, seen, pc, cause, read, budget, history, runs>>

ASSUME WorldAssumption ==
  /\ \A d \in Documents : IsDocument(d)
  /\ Explicit \in (Variants \ {Unnamed}) \cup {NoVariant}    \* Stage4Request names it
  /\ Absent \notin Scenarios
ASSUME BudgetAssumption == TokenBudget \in Nat /\ MaxSymbols \in Nat /\ Sizes \subseteq Nat

NoLineage == [scenario |-> Absent, stories |-> Absent]
IdsOf(f) == IF f = Absent THEN {} ELSE DOMAIN f

\* Ids of requirements and chunks behind a scenario and its stories.
Parents(s, st) == s.requirements \cup UNION {st[y].requirements : y \in s.stories}
EvidenceIds(s, st) ==
  UNION ({s.chunks} \cup {st[y].chunks : y \in s.stories} \cup {Evidence[q] : q \in Parents(s, st)})
Whole(s, st, reqs) ==
  /\ s # Absent /\ st # Absent
  /\ s.stories \subseteq IdsOf(st) /\ Parents(s, st) \subseteq reqs

\* Stages 1 to 3 have finished: the gates of Stages 2 and 3 hold of what they published.
Init ==
  /\ document \in Documents /\ scenario \in Scenarios /\ stories \in StoryArtifacts
  /\ requirements = Requirements /\ chunks = Chunks /\ library \in TestLibs
  /\ Whole(scenario, stories, requirements) /\ EvidenceIds(scenario, stories) \subseteq chunks
  /\ edited = {} /\ frozen = Absent /\ seen = {} /\ pc = "start" /\ cause = "none"
  /\ lineage = NoLineage /\ records = {} /\ matched = {} /\ neighbors = {}
  /\ unread = {} /\ shown = {}
  /\ pending = {} /\ taken = {} /\ dropped = {} /\ used = 0 /\ remaining = 0
  /\ upset = {} /\ overtaken = FALSE /\ changes = 0 /\ runs = 1
-----------------------------------------------------------------------------
Goto(next) == pc' = next /\ UNCHANGED cause
Refuse(why) == pc' = "refused" /\ cause' = why

Manifest == [scenario |-> scenario, document |-> document, variant |-> Selected(document, Explicit)]

ValidateEnvironment ==
  /\ pc = "start" /\ Goto("freeze") /\ seen' = edited
  /\ UNCHANGED <<world, frozen, read, budget, history, runs>>

\* freeze_inputs: the first invocation makes the manifest, the others must make the same.
Freezable ==
  /\ scenario # Absent /\ Ready(document) /\ Selected(document, Explicit) # NoVariant
  /\ frozen # Absent => frozen = Manifest
FreezeInputs ==
  /\ pc = "freeze"
  /\ IF Freezable
     THEN /\ frozen' = Manifest /\ overtaken' = FALSE /\ Goto("prepare")
          /\ IF frozen = Absent THEN edited' = edited \ seen /\ seen' = {}
             ELSE UNCHANGED <<edited, seen>>
     ELSE Refuse("manifest") /\ UNCHANGED <<frozen, overtaken, edited, seen>>
  /\ UNCHANGED <<document, scenario, stories, requirements, chunks, library, read, budget, upset,
                 changes, runs>>

\* prepare_framework_and_test_data: an active snapshot of the hashed framework serves, or
\* the framework is indexed as it is now, which a file that does not parse is no obstacle
\* to; flawed: what else an invocation can fail of.
Prepare ==
  /\ pc = "prepare"
  /\ \E flawed \in BOOLEAN :
       IF flawed \/ seen # {} THEN Refuse("manifest") /\ UNCHANGED edited
       ELSE Goto("scenario") /\ \E left \in {{}, edited} : edited' = left
  /\ UNCHANGED <<document, scenario, stories, requirements, chunks, library, frozen, seen, read,
                 budget, history, runs>>

\* _lineage_context loads three artifacts, one after the other.
LoadScenarios ==
  /\ pc = "scenario" /\ Goto("stories")
  /\ lineage' = [scenario |-> scenario, stories |-> lineage.stories]
  /\ UNCHANGED <<world, frozen, seen, records, matched, neighbors, unread, shown, budget, history, runs>>
LoadStories ==
  /\ pc = "stories" /\ Goto("requirements")
  /\ lineage' = [scenario |-> lineage.scenario, stories |-> stories]
  /\ UNCHANGED <<world, frozen, seen, records, matched, neighbors, unread, shown, budget, history, runs>>
LoadRequirements ==
  /\ pc = "requirements"
  /\ IF Whole(lineage.scenario, lineage.stories, requirements) THEN Goto("binding")
     ELSE Refuse("lineage")
  /\ UNCHANGED <<world, frozen, seen, read, budget, history, runs>>

\* _select_binding, and the records and steps that the binding names itself.
SelectBinding ==
  /\ pc = "binding"
  /\ IF Cardinality(Top(frozen.document, frozen.variant)) # 1
     THEN Refuse("binding") /\ UNCHANGED records
     ELSE \E b \in Top(frozen.document, frozen.variant) :
       /\ records' = Roots(frozen.document, b)
       /\ IF Approved(frozen.document, records') THEN Goto("records") ELSE Refuse("records")
  /\ UNCHANGED <<world, frozen, seen, lineage, matched, neighbors, unread, shown, budget, history, runs>>

\* A round of the loop to a fixpoint over references in payloads.
FollowReferences ==
  /\ pc = "records"
  /\ LET next == Mentioned(frozen.document, records) \ records IN
       IF next = {} THEN UNCHANGED records /\ Goto("evidence")
       ELSE IF Approved(frozen.document, next) THEN records' = records \cup next /\ Goto("records")
       ELSE UNCHANGED records /\ Refuse("records")
  /\ UNCHANGED <<world, frozen, seen, lineage, matched, neighbors, unread, shown, budget, history, runs>>

\* Neo4jStore.fetch_chunks returns those it has.
Fetched(ids) == ids \cap chunks
FetchChunks ==
  /\ pc = "evidence"
  /\ LET ids == EvidenceIds(lineage.scenario, lineage.stories) IN
       IF Fetched(ids) = ids THEN Goto("search")
       ELSE Refuse("evidence")
  /\ UNCHANGED <<world, frozen, seen, read, budget, history, runs>>

\* At most MaxSymbols of the hits, in the order the graph database returns them.
Capped(S) == {C \in SUBSET S : Cardinality(C) = IF Cardinality(S) < MaxSymbols THEN Cardinality(S)
                                                ELSE MaxSymbols}
\* Of the snapshot: the hits of a search, and what edges from a symbol reach.
Hits == Found
Reached(s) == Adjacent[s]
SearchSymbols ==
  /\ pc = "search" /\ Goto("matched")
  /\ matched' \in Capped(Hits) /\ unread' = matched'
  /\ UNCHANGED <<world, frozen, seen, lineage, records, neighbors, shown, budget, history, runs>>
GetNeighbors ==
  /\ pc = "matched" /\ unread = {} /\ Goto("neighbors")
  /\ neighbors' \in Capped((UNION {Reached(s) : s \in matched}) \ matched) /\ unread' = neighbors'
  /\ UNCHANGED <<world, frozen, seen, lineage, records, matched, shown, budget, history, runs>>

\* Mutant: the text is taken as it is.
ReadUnchecked ==
  /\ pc \in {"matched", "neighbors"}
  /\ \E s \in unread :
       /\ unread' = unread \ {s}
       /\ shown' = shown \cup {<<s, s \in edited>>} /\ UNCHANGED <<pc, cause>>
  /\ UNCHANGED <<world, frozen, seen, lineage, records, matched, neighbors, budget, history, runs>>
\* _source_context: the lines of the file must have the hash of the index.
ReadSource ==
  /\ pc \in {"matched", "neighbors"}
  /\ \E s \in unread :
       /\ unread' = unread \ {s}
       /\ IF s \in edited \cup Unlike THEN Refuse("source") /\ UNCHANGED shown
          ELSE shown' = shown \cup {<<s, s \in edited>>} /\ UNCHANGED <<pc, cause>>
  /\ UNCHANGED <<world, frozen, seen, lineage, records, matched, neighbors, budget, history, runs>>

\* The candidates, and what the mandatory part leaves of the budget.  The files of test_lib
\* are parsed as they are now.
LiveFunctions == {<<"test_lib_symbols", f>> : f \in library}
Candidates ==
  {<<"matched_symbols", s>> : s \in matched} \cup LiveFunctions
    \cup {<<"evidence_chunks", c>> : c \in EvidenceIds(lineage.scenario, lineage.stories)}
    \cup {<<"neighbor_symbols", s>> : s \in neighbors}
ListTestLib ==
  /\ pc = "neighbors" /\ unread = {}
  /\ IF library = Unparsable THEN Refuse("test_lib") /\ UNCHANGED <<pending, remaining>>
     ELSE /\ Goto("budget") /\ pending' = Candidates
          /\ \E mandatory \in 0..(TokenBudget + 1) :
               remaining' = IF mandatory < TokenBudget THEN TokenBudget - mandatory ELSE 0
  /\ UNCHANGED <<world, frozen, seen, read, taken, dropped, used, history, runs>>

\* Tiers 2 to 4, tier 2 in the order of the names of its groups.
Rank(group) == CASE group = "matched_symbols" -> 1 [] group = "test_lib_symbols" -> 2
                 [] group = "evidence_chunks" -> 3 [] group = "neighbor_symbols" -> 4
IsSymbol(x) == x[1] # "evidence_chunks"
CodeIn(S) == {x \in S : IsSymbol(x)}
Fits(c, size) ==
  /\ used + size <= remaining
  /\ IsSymbol(c) => Cardinality(CodeIn(taken)) < MaxSymbols
\* Mutant: groups compete whatever their tier.
AnyNext == pending
First == {c \in pending : \A d \in pending : Rank(c[1]) <= Rank(d[1])}

\* _apply_budget, one candidate; sizes are what the text happens to have.
Weigh ==
  /\ pc = "budget" /\ Goto("budget")
  /\ \E c \in First, size \in Sizes :
       /\ pending' = pending \ {c}
       /\ IF Fits(c, size) THEN taken' = taken \cup {<<c[1], c[2], size>>} /\ used' = used + size
                                /\ UNCHANGED dropped
          ELSE dropped' = dropped \cup {<<c[1], c[2], size>>} /\ UNCHANGED <<taken, used>>
  /\ UNCHANGED <<world, frozen, seen, read, remaining, history, runs>>
Deliver ==
  /\ pc = "budget" /\ pending = {} /\ Goto("ready")
  /\ UNCHANGED <<world, frozen, seen, read, budget, history, runs>>

\* The invocation has ended, with a refusal or a crash, and the run is started again.
Restart ==
  /\ pc \notin {"ready", "start"} /\ runs < MaxRuns /\ runs' = runs + 1
  /\ pc' = "start" /\ cause' = "none" /\ seen' = {}
  /\ lineage' = NoLineage /\ records' = {} /\ matched' = {} /\ neighbors' = {}
  /\ unread' = {} /\ shown' = {}
  /\ pending' = {} /\ taken' = {} /\ dropped' = {} /\ used' = 0 /\ remaining' = 0
  /\ UNCHANGED <<world, frozen, history>>
Over == pc \in {"ready", "refused"} /\ UNCHANGED vars
-----------------------------------------------------------------------------
\* What happens beside the invocation, at most MaxChanges times.
Change(what) == changes < MaxChanges /\ changes' = changes + 1 /\ upset' = upset \cup what
Invocation == <<frozen, seen, pc, cause, read, budget, runs>>

PublishScenarios ==
  /\ Change({"lineage"}) /\ scenario' \in Scenarios /\ overtaken' = TRUE
  /\ UNCHANGED <<document, stories, requirements, chunks, library, edited, Invocation>>
PublishStories ==
  /\ Change({"lineage"}) /\ stories' \in StoryArtifacts
  /\ UNCHANGED <<document, scenario, requirements, chunks, library, edited, overtaken, Invocation>>
\* A Stage-1 reset deletes chunks before it deletes artifacts.
ResetChunks ==
  /\ Change({"chunks"}) /\ chunks' = {}
  /\ UNCHANGED <<document, scenario, stories, requirements, library, edited, overtaken, Invocation>>
ResetArtifacts ==
  /\ Change({"lineage"}) /\ scenario' = Absent /\ stories' = Absent /\ requirements' = {}
  /\ overtaken' = TRUE
  /\ UNCHANGED <<document, chunks, library, edited, Invocation>>
EditFramework ==
  /\ Change({"framework"}) /\ \E s \in Symbols : edited' = edited \cup {s}
  /\ UNCHANGED <<document, scenario, stories, requirements, chunks, library, overtaken, Invocation>>
EditTestLib ==
  /\ Change({"framework"}) /\ library' \in TestLibs \ {library}
  /\ edited' = edited \cup {"test_lib"}
  /\ UNCHANGED <<document, scenario, stories, requirements, chunks, overtaken, Invocation>>
EditDocument ==
  /\ Change({}) /\ document' \in Documents
  /\ UNCHANGED <<scenario, stories, requirements, chunks, library, edited, overtaken, Invocation>>

Retrieve ==
  \/ LoadScenarios \/ LoadStories \/ LoadRequirements \/ SelectBinding \/ FollowReferences
  \/ FetchChunks \/ SearchSymbols \/ ReadSource \/ GetNeighbors \/ ListTestLib \/ Weigh \/ Deliver
World ==
  \/ PublishScenarios \/ PublishStories \/ ResetChunks \/ ResetArtifacts \/ EditFramework
  \/ EditTestLib \/ EditDocument
Begin == ValidateEnvironment \/ FreezeInputs \/ Prepare
Next == Begin \/ Retrieve \/ Restart \/ Over \/ World
Spec == Init /\ [][Next]_vars
-----------------------------------------------------------------------------
\* What the frozen binding, of which there is one, leads to through payloads: no record
\* more and none fewer, and each of them approved.
DataIsExact ==
  \E b \in Top(frozen.document, frozen.variant) :
    /\ Top(frozen.document, frozen.variant) = {b}
    /\ Roots(frozen.document, b) \subseteq records
    /\ Closed(frozen.document, records) /\ Approved(frozen.document, records)
    /\ \A S \in SUBSET Records :
         Roots(frozen.document, b) \subseteq S /\ Closed(frozen.document, S) => records \subseteq S

\* A context that is delivered is that of the manifest, whatever has changed since: the
\* data is that of the frozen document, code is shown as it was indexed, and the
\* scenario is the frozen one unless Stage 3 has published another since the freeze.
DeliveredAsFrozen ==
  pc = "ready" =>
    /\ DataIsExact
    /\ shown = {<<s, FALSE>> : s \in matched \cup neighbors}
    /\ ~overtaken => lineage.scenario = frozen.scenario

\* What a frozen run can still be refused for: something has changed since, or what the
\* freeze does not look at, which no later invocation can mend: two bindings of one
\* priority, a variant that was frozen for a binding that does not carry it, an unapproved
\* record that no binding names, text the indexer reads otherwise, a test_lib file that
\* is no Python.
Misnamed(d, v) ==
  /\ v = Default /\ Applicable(d, v) = {}
  /\ \E b \in Bound(d, {"case"}) : d.bindings[b].variant = Unnamed
Overlooked(d) ==
  {r \in Records : /\ d.status[r] = "unapproved"
                   /\ \A b \in DOMAIN d.bindings :
                        r \notin d.bindings[b].records \cup d.bindings[b].action}
RefusalIsExplained ==
  pc = "refused" =>
    /\ cause = "lineage" => "lineage" \in upset
    /\ cause = "evidence" => upset \cap {"lineage", "chunks"} # {}
    /\ cause = "source" => "framework" \in upset \/ (matched \cup neighbors) \cap Unlike # {}
    /\ cause = "test_lib" => "framework" \in upset \/ library = Unparsable
    /\ cause = "binding" => \/ Cardinality(Top(frozen.document, frozen.variant)) > 1
                            \/ Misnamed(frozen.document, frozen.variant)
    /\ cause = "records" => Overlooked(frozen.document) # {}

\* The budget is kept, and nothing is left out for the sake of something of a later tier:
\* with what is taken of its own and earlier groups it would exceed the budget or the cap.
Tokens(x) == {x} \X (1 .. x[3])
Size(S) == Cardinality(UNION {Tokens(x) : x \in S})
UpTo(group) == {x \in taken : Rank(x[1]) <= Rank(group)}
BudgetIsFair ==
  /\ used = Size(taken) /\ used <= remaining /\ Cardinality(CodeIn(taken)) <= MaxSymbols
  /\ \A x \in dropped : \/ Size(UpTo(x[1])) + x[3] > remaining
                        \/ IsSymbol(x) /\ Cardinality(CodeIn(UpTo(x[1]))) = MaxSymbols
=============================================================================
