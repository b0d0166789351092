# Verification project for multi_agentic_graph_rag

TLA+ models, TLC runs and TLAPS proofs for the staged pipeline in
`src/multi_agentic_graph_rag`: ingestion and requirement discovery (Stage 1),
user stories (Stage 2), test scenarios (Stage 3) and the generation of executable
test cases into a framework directory (Stage 4).  Paths below are relative to
that directory.  `PROJECT.json` lists every component, run, mutant, hazard and
theorem, and maps every definition to the lines it models.

Contents: 1 the system - 2 how the project was built - 3 the modules - 4 the runs - 5 the proofs -
6 what is not modelled.

## 1. The system

The program is a command-line tool.  A command is one process; what two commands
share is PostgreSQL, Neo4j, Chroma, a directory of artifacts per run, and for
Stage 4 the framework directory that the generated tests are written into.
LangGraph checkpoints every node of a workflow under a thread id derived from the
run, in PostgreSQL (or in memory, when the durable checkpointer is off).

| Component | State it keeps | Operations | Talks to | What is hard | What makes it correct |
|---|---|---|---|---|---|
| File transaction of a case (`services/direct_file_transaction.py`) | `journal.json`, preimages, archived attempts; files and directories of the framework | begin, write, rollback, seal, restart | case graph | a crash or a full disk at any write boundary, a person who edits the same files | all or nothing; what a person wrote is never lost; a sealed case is final |
| Case graph (`workflows/codegen_apply_graph.py`) | checkpoint of the case | reserve, retrieve, generate, open, apply, validate, repair, publish, verify, persist, seal, rollback, block | journal, snapshots, PostgreSQL, models | three stores without a common transaction; re-entry after a crash at any node | what is accepted is published and stays; what is not is undone |
| Run graph (`workflows/codegen_run_graph.py`) | frozen manifest, run status, results | freeze, prepare the framework, loop over the scenarios, finish | case graph, indexer | a run that is invoked again after edits and partial results | the loop goes on from settled cases; COMPLETED means whole |
| Snapshot graph (`db/code_graph_store.py`, `services/framework_indexer.py`) | snapshots: building, ready, failed, active | begin, verify, activate, fail, find | case and run graph | identities are hashes of content: two publications may be one snapshot | one active snapshot per repository; what an accepted case names stays |
| Stage-4 store (`db/codegen_postgres.py`) | sequence of TC numbers, reservations, case rows, associations, manifests, blockers, `test_cases.json` | allocate, save, associate, freeze, publish, reset | every Stage-4 invocation | two invocations at once, lost races, capacity of the sequence | a number is permanent and unique; accepted rows never change; the artifact names every scenario |
| Stage 2 (`workflows/user_story_graph.py`) and Stage 3 (`test_scenario_graph.py`) | channels of the item loop, artifacts, rows, files, status | load, loop (retrieve, generate, record), build, persist, write, exit gate | PostgreSQL, files, models | the checkpoint of an interrupted loop is taken over; the stages and a reset overlap; files and tables disagree | items get their own evidence and answers; ids are permanent; completed means published |
| Artifact store (`db/postgres.py`) | requirements, stories, scenarios, master artifacts, runs, readiness, leases | persist, load, record, delete a stage's rows | all stages, reset | rows are shared by the runs of a project | what an artifact names is there |
| Stage 1.1 (`workflows/ingestion_graph.py`) and 1.2 (`requirement_discovery_graph.py`) | chunks, embeddings, graph projection, readiness, lease | ingest, embed, read back, discover, project, prune | Neo4j, Chroma, PostgreSQL | three stores, chunks shared by runs, a lease that covers one stage only | ready means the artifact's facts are in the graph; ids are permanent |
| Discovery agent (`agents/requirement_discovery_agent.py`) | the answer about a chunk | prune entities, prune relationships, repair quotes, validate | Stage 1.2, model adapter | passes that undo each other's premises | what is left is what the evidence shows, and the schema accepts it |
| Agents and model adapters (`agents/`, `llm_models/`, `services/retry.py`, `services/llm_patch_producer.py`) | counters of attempts and calls, recorded responses | generate, repair, retry, record | providers | two layers of retries that count apart | a budget per item; a repair quotes the last error; no record is lost |
| Freeze and context of a case (`codegen_run_graph.py`, `services/codegen_context_retriever.py`, `test_data_*.py`, `scenario_data_binder.py`) | the frozen manifest; what a retrieval has read | freeze, load the lineage, select a binding, resolve records, search, read source, fill the budget | PostgreSQL, Neo4j, framework, test-data document | reads long after the freeze, of stores that others write | the context is that of the manifest; a refusal has a reason |
| Reset (`services/project_reset.py`) | - | reset of a run's stage, of Stage 4, of a project | all stores | several stores, one after the other, while stages run; interruption in between | a reset that ends leaves nothing of its run, and nothing else is gone |
| Retrieval, parsing, chunking, code validation, planning, configuration | none | pure functions and calls | - | - | - |

**Interactions.**  Stage 1 writes requirements; Stage 2 reads them and writes
stories; Stage 3 reads the stories (the file, or the table if the file is gone)
and writes scenarios; Stage 4 freezes the scenarios with the versions of the
framework, and for each of them in order calls the model, writes files through
the journal, publishes a snapshot of the framework, records the case and seals
the journal.  The snapshot of an accepted case is the context of the next.

**Hard behaviours**, and the properties that are about them, are in
`PROJECT.json` under `hazards`: each has the line where it bites.  Four have no
property, and say why.

## 2. How the project was built

In this order, the most important behaviour first.

1. `CaseOutcome` (abstract) and `FileTransaction`: everything else in Stage 4
   relies on all-or-nothing.  Proved.
2. `SnapshotGraph` and `Stage4Run`: the run and case graphs over journal, graph
   and rows, with liveness.  Safety proved.
3. `TcRegistry` (abstract) and `TcStore`: concurrent invocations over the Stage-4
   tables.  Proved.
4. `ItemStages`: the loops of Stages 2 and 3 with their checkpoints.  Proved.
5. `ProjectRuns`: several ingest commands of one project and the resets, over the
   four stores of Stage 1.  Proved.
6. `Grounding`: what discovery makes of one answer.  Proved.
7. `ModelCalls`: the layers of retries of all stages.  Safety proved.
8. `TestData` and `CaseContext`: from the freeze of Stage 4's inputs to the
   context of a case.  Proved.

What could come next: the run a reused requirement row belongs to (in
`ProjectRuns`), shared `test_lib` files in `Stage4Run`, and a composition of
`ItemStages` with the freeze of `CaseContext`, which now starts from any artifacts
that passed the gates of Stages 2 and 3.

## 3. The modules

| Module | Models | Proofs | Instance for TLC |
|---|---|---|---|
| `CaseOutcome` | the promise of the file transaction (abstract) | - | - |
| `FileTransaction` | `services/direct_file_transaction.py` | `FileTransactionProofs` | `MCFileTransaction` |
| `SnapshotGraph` | the writes of `db/code_graph_store.py` as operators | through `Stage4RunProofs` | through `Stage4Run` |
| `Stage4Run` | `workflows/codegen_run_graph.py`, `codegen_apply_graph.py` | `Stage4RunProofs` | `MCStage4Run` |
| `TcRegistry` | the promise of TC identities and accepted rows (abstract) | - | - |
| `TcStore` | `db/codegen_postgres.py` as invocations use it | `TcStoreProofs` | `MCTcStore` |
| `ItemStages` | `workflows/user_story_graph.py`, `test_scenario_graph.py` | `ItemStagesProofs` | `MCItemStages` |
| `ProjectRuns` | `workflows/ingestion_graph.py`, `requirement_discovery_graph.py`, `services/project_reset.py` over `db/neo4j_store.py`, `db/chroma_store.py`, `db/postgres.py` | `ProjectRunsProofs` | `MCProjectRuns` |
| `Grounding` | `agents/requirement_discovery_agent.py`, `RequirementDiscoveryChunkResponse` of `domain/schemas.py` | `GroundingProofs` | `MCGrounding` |
| `ModelCalls` | `llm_models/azure_openai.py`, `gemini.py`, the agents' loops, `services/retry.py`, `services/llm_patch_producer.py` | `ModelCallsProofs` | `MCModelCalls` |
| `TestData` | the gates of `services/test_data_validator.py` and `test_data_ingestion.py`, `scenario_data_binder.py`, as operators | through `CaseContextProofs` | through `CaseContext` |
| `CaseContext` | freeze and preparation in `workflows/codegen_run_graph.py`, `services/codegen_context_retriever.py` | `CaseContextProofs` | `MCCaseContext` |

In all of them an action is what happens between two durable steps, so that
`Crash` may fall at each of them: a crash keeps the durable variables and resets
those of the process.  History variables (`user`, `touched`, `crashed`, `overlapped`) are
read by properties and never by a guard.  Definitions marked *mutant* are not part
of any specification: each is a plausible mistake, and the run named in
`PROJECT.json` must find the property violated when it takes the place of the
definition below it.

### FileTransaction

`fs` and `dirs` are the framework directory, `litter` the directories in which a
crash left a temporary file; `disk` is `journal.json`, `preimages` and `archives`
the other files of the journal directory; `pc`, `mem`, `pos`, `sweep` and `error`
are the process.  `Write` is `write_bytes`: a replay, a drift, a refusal or a
new intent, which `PersistIntent`, `MakeDir`, `Replace` and `VerifyWrite` carry
out; `Rollback` walks the entries backwards (`UndoSkip`, `UndoDrift`, `UndoOwned`
and `Restore`), sweeps the directories (`RemoveDir`) and `CloseRollback` records
it; `Seal`, `Restart` and `Begin` are the remaining calls, `Abandon` a caller that
gives up after an exception.  Every write of the journal may fail (`Fault`), which
leaves `mem` one entry ahead of `disk`.

Abstractions: a hash is the content it is the hash of; a preimage's file name is
its attempt and position; of the path policy only the three kinds are kept that
differ in behaviour (create-only, create-only but kept when it is there,
replaceable); `Above` gives the directories that matter for the sweep; the second look
of `rollback` at a file it has just restored or deleted is left out (`Restore`).

`CaseOutcome` sees the durable journal as *open*, *kept* or *undone* and counts
as leftovers the paths that hold bytes nobody but the case wrote.

### SnapshotGraph and Stage4Run

`SnapshotGraph` has no state: a graph is the set of snapshot identities in each
status, an identity the pair of a repository id (the token of the path, for an
indexed framework, or the project's name, for a published one) and the content.

`Stage4Run` is one run id, invoked again and again by one process at a time.
`Start` to `IndexFails` and `FinishRun` are the run graph, `Reserve...` to
`ReplayNotVisible` the nodes of the case graph, in the order of their edges.
`fs`, `journal`, `meta`, `kg`, `projected`, `tc`, `attempt`, `published`,
`blockers`, `manifest` and `run` are what survives a process; `building` is the
one channel of a case's checkpoint that a later invocation reads.

Abstractions, and why they are sound here:
- the files of a case are one value, and `Undo` is one step: `FileTransaction`
  proves that an interrupted rollback can only leave an open journal, and that
  a finished one restored everything (the exception, a path written twice, is
  the finding of `rollback_reentry`);
- files shared by cases (test_lib) are left out; of two cases only the
  framework's content as a whole is shared, which is what snapshots see;
- a plan, its model calls and the validation are choices of their outcome; pins,
  test data and the rest of the input fingerprint are constant;
- a snapshot's content is the framework at the time its checksum was taken;
- `PublishBuilding` sets `building` when the publication begins, the code when it
  returns: a later invocation reads it of an accepted case only, where both have happened;
- the journal of a case that is not accepted is never SEALED when it is opened
  (`SealedAfterAcceptance`), so `open_file_transaction` on one is not modelled.

### TcRegistry and TcStore

Any number of invocations (`Procs`) of any runs, each a thread of control over
its own connection.  `BuildManifest` and `SaveManifest` are `_freeze_inputs`;
`AllocateFound` to `InsertLost` are `allocate_or_get_tc_id`; `Get` to `Unreserve`
the nodes of the case graph that touch the tables; `CollectCases`,
`CollectBlockers` and `Publish` are `write_test_cases_artifact`; `ResetRows` and
`ResetFiles` are `reset_stage4_project`.  `nextval` is a step of its own because
PostgreSQL does not undo it.

Abstractions: an insert and its commit are one step (a uniqueness conflict waits
for the other transaction to end); the read of the winner belongs to `InsertLost`;
only the PostgreSQL mode, not the local JSON mirror; whether the files of an
accepted case still match is a choice; generation is a choice of an output.
`TcRegistry` is what the tables promise: numbers are assigned once, keys and
numbers are one to one, accepted records are never changed.

### ItemStages

Stages 2 and 3 of one run, each at most one process, in any overlap with each
other and with a stage reset.  They are one algorithm with other items, so that
one set of actions with a parameter `s` stands for both: `Start`, the loading of
the items (`LoadRequirements`; `LoadFile`, `LoadMaster`, `Restore` and
`CheckStories`), the loop (`Retrieve`, `Generate`, `RecordResult`),
`BuildArtifact`, `Persist`, `Write`, `ExitGate`, `Complete` and `Fail`.

`saved[s]` is what the checkpoint hands to the next invocation: LangGraph starts
from the channels of the thread's last checkpoint and overwrites only those its
input names, which are the index and the lists but not `current_context` and
`current_response`.  `Response` and `Candidate` record for which item an answer
was given and which item's evidence it was given from; `Build` is the grouping by
(source, canonical key) with the reuse of ids.

Abstractions: a story has one acceptance criterion, named like the story; texts
are their canonical keys; readiness, the manifest check and the progress files
are left out; `user-stories.json` may be removed between invocations
(`LoseFile`), since the code has a fallback for it.

### ProjectRuns

Any number of ingest commands of one project, each of which is Stage 1.1 and then
Stage 1.2, and one reset at a time (`project_maintenance_lease`).  `chunk`,
`mention`, `relation` and `entity` are Neo4j, `vector` is Chroma, `published`,
`master`, `row` and `readiness` are PostgreSQL, `manifest` and `artifact` the files
of the runs, `lease` the advisory lock of discovery.  `Ingest` to
`PublishManifest` are the nodes of Stage 1.1, `SetBuilding` to `ExitGate` those of
Stage 1.2, `DeleteRunReadChunks` to `ResetFiles` the statements of a reset in their
order; `DiscoveryFails`, `Crash` and `ResetInterrupted` may fall between any two.

A chunk is known by its content, so documents that overlap write the same chunk,
and it carries the run that wrote it last: that is what a reset goes by.  A fact is
a requirement together with the entity it is about; an answer to a chunk is one
fact or none.  Whether two texts are one requirement is the equality of facts.
History variables tell which commands have overlapped: `crossed` (two Stage 1.1),
`contended` (two Stage 1.2), `intruded` (a reset and an ingest), `wiped`.

`ResetClears` speaks of what names a run: chunks, vectors, rows and files, also after
resets that were interrupted anywhere.  An entity names no run, and the reset of a run
finds its orphans only while the run has chunks; the property says just that, and that
the reset of the project leaves nothing.  What stays is listed in section 4.

Abstractions: two statements that only the holder of the lease interleaves with
are one step (`Prune`, `UpsertEdges`); so are the release of the lease and the failed
readiness of a discovery that raises (`DiscoveryFails`); a text that was first found as
generated and later in a source has two ids in the code and is two facts here
(`services/requirement_builder.py:104-106`); the row of the run, its progress files and the
per-chunk checkpoints are left out (an ingest always has a fresh run id); readiness
is one row with its build run.

### Grounding

One answer of the model about one chunk, from the parsed response to its return or
refusal.  `DropUngrounded`, `Cascade` and `PruneRelationships` are the two pruning
methods with the loop of the first; `Construct` is the constructor of the response
model, whose validator is `References`, and which `discover` does not catch;
`RepairSourceEvidence` and `Validate` are what follows.

Text is abstracted to what is visible in it: of an entity whether all, some or none
of its quotes name it, of a relationship which of its ends its quote names, of the
requirements that stand for rows of a table how they quote them.  Everything else
that validation looks at is one choice, `flawed`: also a relationship that its
requirement names twice or whose quote lies outside the requirement's evidence, which
no pruning looks at either.

### ModelCalls

One stage (`kind`) with one provider and its settings, all items in order, and up to
`MaxLives` processes of one run directory.  `GenerateStructured`, `RequestCompletion`,
`RepairPrompt`, `Malformed` and `Parsed` are the adapter; `Invalid`, `Accept`,
`RetryCall` and `StageFails` the agent around it; `NotReady` the adapter's own checks.
`prompt` names the replies whose errors the next request quotes, by each layer.

Abstractions: an error is one of the classes that `is_transient` and the adapters
tell apart; a completion is malformed, unsound or sound; the settings are fixed for a
run.  `recorded` is of the living process: the counter of calls starts again with a
process, which may then overwrite files of an earlier one, and does.

### TestData and CaseContext

`TestData` has no state: the gates that a document passes when it is frozen, and the
binding and records that retrieval selects from it later.  `CaseContext` is one case
and one run id: `ValidateEnvironment`, `FreezeInputs` and `Prepare` are the run
graph's nodes up to the loop, `LoadScenarios` to `ListTestLib` the reads of
`scenario_codegen_context` in their order, `Weigh` one candidate of `_apply_budget`.
Beside it, Stages 2 and 3 of the run publish, a reset deletes, and editors change
the framework, its `test_lib` and the document.  `frozen` is the manifest with what its checksums
stand for; `seen` what had been edited when the baseline was hashed.

Abstractions: the order in which the graph database returns hits, and the sizes of
the candidates, are choices; a file that is gone counts as edited; `Unlike` are the
symbols of which the indexer keeps another text than retrieval cuts out of the file;
the other gates of the run are one choice, `flawed`; a refusal ends the invocation
and the run may be started again (`Restart`).  The functions of `test_lib` (`library`) are
parsed from the live files and compared with no hash, so the property about shown code
does not speak of them; a file that cannot be read or is no Python ends the invocation
(cause `test_lib`); the indexer replaces what it cannot decode
(`services/graphify_adapter.py:178`) and so need not have refused it.

A binding may have the empty variant (`Unnamed`).  `_resolve_variant_selection` freezes
it under the name `Default` (`Named`), `resolve_binding` compares the raw variants: the
frozen variant need not be that of any binding.  `Misnamed` is that state, and
`RefusalIsExplained` names it beside the tie of two bindings.

## 4. The runs

Every property of a passing run has a mutant of the code that violates it.
Violation runs check one statement of a comment, a test or the README that the
code does not keep; `PROJECT.json` quotes them.

| Run | Instance | Distinct states | Shows |
|---|---|---|---|
| `file_transaction` | a test file under two directories, its initializer, a shared module, two contents; 2 entries, 2 attempts, 1 edit, 1 crash or I/O error | 2 797 072 | `OnlyAccountedBytes`, `PreimagesKept`, `RollbackRestores`, `RollbackSweeps`, `UserBytesKept`, and that it implements `CaseOutcome` (`AllOrNothing`) |
| `stage4_run` | two scenarios, two versions, one repair; 2 invocations, 2 troubles (crash, handled exception or edit) | 521 262 | `JournalMatchesRow` (`TypeOK`, `NothingUnowned`, `AcceptedStays`, `SealedAfterAcceptance`), `ContextSeesAccepted`, `ReplaySurvives`, `AcceptedIsPublished`, `LoopSettles` (`LeavesCaseSettled`, `CompletedRunIsWhole`), and `RunEnds` under fairness |
| `tc_store` | two invocations, two runs, two scenarios, two inputs and outputs, three numbers; 1 reset | 777 169 | `TypeOK` with the capacity of the sequence, `NumbersAreFresh`, `RunsAgreeOnInputs`, `AssociatedAsFrozen`, `ArtifactCoversRun`, and that it implements `TcRegistry` (`RegistrySpec`) |
| `item_stages` | two requirements of one or two sources, two story keys, one scenario key; 3 invocations, 1 reset | 2 206 915 | `MisplacedOnlyFirst`, `CompletedIsPublished`, `ScenarioOfItsStory`, `ArtifactsHaveRows`, `IdentityKept` |
| `project_runs` | two ingests whose documents share a chunk, two embedding models, one fact; resets of one run or of the project, 1 that ends, any number that is interrupted | 3 359 257 | `RequirementIdsStable`, `OneEmbeddingModel`, `SemanticsHaveChunks`, `ReadyIsProjected`, `LeaseIsHeld`, `ResetClears` |
| `model_calls` | four stages, two providers, two items, two processes | 1 391 638 | `TypeOK` with the budget of requests, `RepairQuotesLast`, `RecordedAreKept`, `RetriesAreJustified` (`OneAnswerPerChunk`, `GivesUpLate`), and `StageEnds` under fairness |
| `grounding` | every answer over three entities, two relationships and two requirements | 996 499 | `PruningIsClosed`, `PruningIsExact`, `RefusedForCause` |
| `case_context` | 13 documents, two versions of the scenario and of the stories, two contents of `test_lib` of which one is no Python, two hits and three neighbours, 3 tokens, 2 symbols; 2 invocations, 1 change from outside | 1 187 204 | `DeliveredAsFrozen`, `RefusalIsExplained`, `BudgetIsFair` |
| `rollback_reentry` | as `file_transaction`, one path, no edits | - | a rollback interrupted after it undid a path written twice reports drift for ever |
| `resume_after_kg` | as `stage4_run`, one version, 1 trouble | - | a crash after `verify_kg` ends in a rollback of files that the active snapshot describes |
| `stale_evidence` | as `item_stages`, no reset | - | a retry generates the first requirement's stories from another requirement's evidence |
| `shared_chunk_reset` | as `project_runs` | - | the reset of a run deletes a chunk that another run's manifest names |

**Why the bounds are enough to be interesting.**  Two entries are the fewest with
which one path is written twice and the rollback has an order; two attempts the
fewest that share the journal directory.  Two scenarios are the fewest with which
the acceptance of one changes what the other sees; two invocations the fewest with
a retry, and with two troubles the second one may be interrupted too.  Three
numbers for two keys let a lost race leave a gap and a second one exhaust the
sequence.  Two requirements are the fewest with a first item and another one;
three invocations let Stage 3 follow a repeated Stage 2.  Two ingests that share a
chunk are the fewest with a chunk that changes hands, a longer document the fewest
chunks with an order; a reset may be interrupted as often as it likes, so that the
one that ends meets every remainder.  Two items show that counters start anew, two
processes that files outlive them.  Three entities are the fewest with a chain in
which one drop orphans another; the restrictions of `MCGrounding` (relationships run
upwards, what an answer lacks has one value) lose nothing, as the names carry no
meaning.  The thirteen documents differ each in one thing that a gate could miss; two of them
have an approved binding with an empty variant, alone or beside one named default.  The
bounds are
`MaxEntries`, `MaxAttempts`, `MaxEdits`, `MaxFailures`; `RepairLimit` (a parameter
of the code), `MaxTroubles`, `MaxRuns`; `MaxId` (a parameter), `MaxStarts`,
`MaxResets`; `MaxCandidates`, `MaxStarts`, `MaxResets`.  `MaxResets` and
`Targets`; `MaxLives`; `MaxRuns` and `MaxChanges`.  Each occurs in the guard
of the action it bounds.  The theorems hold for every value of them.

Symmetry is used for contents, for processes, runs, inputs and outputs, and for
sources and story keys, in runs without liveness properties only.

**Fairness.**  There are two liveness properties, `RunEnds` and `StageEnds`.  In
`Stage4Run`, `FairSpec` is weak fairness
of `Step`, the steps of an invocation that runs: the process executes as long as
it is not killed and each node ends: repairs are bounded by `max_repair_attempts`,
validation commands have a timeout, and a model or database call is taken to return
or to raise (the code leaves that to the client libraries).  In `ModelCalls` it is
weak fairness of `Step` as well: the clients of the providers answer or time out.
Starting a run, crashing and editing are not fair: nobody has to.  For the same
reason the instances of `Stage4Run`, `TcStore`, `ItemStages` and `ProjectRuns` say
`CHECK_DEADLOCK FALSE`: with all invocations used up nothing has to happen.

**Conditional properties.**  No lock keeps a reset away from a running invocation.
Where a property cannot hold then, it says `~overlapped`: `overlapped` becomes
true when a reset meets an active invocation or the other way round (in
`ItemStages` also when Stages 2 and 3 overlap) and stays so; in `ProjectRuns` the
four history variables do the same.  `ReplaySurvives` says `~crashed` for the reason
given below, and `edits = 0`.  `NumbersAreFresh`, `RegistrySpec`,
`MisplacedOnlyFirst`, `ArtifactsHaveRows`, `IdentityKept`, `RequirementIdsStable` and
`LeaseIsHeld` hold without it.

**Known disagreements without a run of their own.**  These were found with the same
models, as actions that can be seen to be reachable, and are kept here because the
code still has them.

- `restart()` writes the archive of the old attempt before it persists the new one; a
  crash in between leaves a journal that every later `restart()` refuses with "journal
  attempt archive already exists" (`services/direct_file_transaction.py:578`; the
  docstring at :6-8 promises recovery "at every write boundary").
  `FileTransaction`: `Crash` at pc `restarting`, then error `archive_exists`.
- `run_scenario` reads `building_snapshot_id` from the checkpoint of an earlier
  invocation, so that the replay of an accepted case raises once a later case has
  been activated (`workflows/codegen_apply_graph.py:1334`; the comment at :1338-1340
  says the parent "must continue from the active snapshot it supplied").
  `Stage4Run`: `ReplayNotVisible`.  `ReplaySurvives` says when this cannot happen: no
  edit and no crash.  A single crash is enough, over three invocations: the first blocks
  a scenario and accepts the next one; the second gets past `verify_kg` with the blocked
  one, whose snapshot becomes the active one, and dies before `persist_case`; the third
  rolls those files back, and then refuses the accepted case, although the framework is
  what it was accepted in.  The attempt to prove the property without `~crashed` showed
  this; the instance of the run, with two invocations, is too small for it.
- `begin_snapshot` upserts a READY snapshot of the same content into BUILDING
  (`db/code_graph_store.py:92`; the docstring at :4-6 says that "A failed publication
  therefore never replaces the prior READY snapshot").  `SnapshotGraph`: `Begun`.
- The idempotency record of `publish_kg` has the files of a case as its input and a
  snapshot of the whole framework as its result, and so conflicts when another case
  was accepted in between (`workflows/codegen_apply_graph.py:550`; the repository's
  `README.md:41-42` says "external writes are idempotent").  `Stage4Run`: `Conflict`.
- The exit gate of Stage 3 refuses a scenario that the builder merged across two
  stories (`workflows/test_scenario_graph.py:293`; `tests/test_canonicalization.py:140`
  expects the merge).  `ItemStages`: `Build` and `Traceable`.
- A Stage-1 reset that is interrupted after it deleted the run's chunks, and before the
  entities they leave without an edge, leaves these for ever: the next reset of the run
  finds no chunk and returns (`db/neo4j_store.py:661`), although `workflow.md:306` lists
  "this run's Neo4j projection" as cleared.  The same happens when another run has taken
  over all its chunks.  `ProjectRuns`: `ResetInterrupted` before `DeleteRunOrphans`;
  `ResetClears` without its premise `reset.ids # {}` is violated.
- A binding with an empty variant is frozen as "default"
  (`workflows/codegen_run_graph.py:582`) and then matches no binding
  (`services/scenario_data_binder.py:47`), so that every invocation of the run ends with
  BLOCKED_MISSING_DATA; the docstring at :570 promises to "Resolve one deterministic,
  approved data variant for every frozen scenario".  `CaseContext`: `Misnamed`;
  `RefusalIsExplained` without it is violated.

## 5. The proofs

The theorems hold for every value of the constants under `ConstantsAssumption` of
the module (sets are disjoint where the code tells their members apart, bounds are
naturals; `ProjectRuns` has `RunsAssumption`, with documents that are not empty and
hold no chunk twice: a chunk id is made of its offsets, `domain/identifiers.py:33`, and the
validator of `ChunkManifest` refuses doubles, `domain/schemas.py:203-205`; `FileTransaction` also has `TreeAssumption`, that directories form a finite
tree), which TLC evaluates in the module's passing run.

`FileTransactionProofs`: `TypeCorrect`, `BytesAccounted`, `PreimagesSurvive`,
`RollbackExact`, `UserKept`, `Swept` and `Refinement` (every behaviour implements `CaseOutcome`).  The
properties speak of the durable journal, but what a step writes depends on the one
in memory.  The inductive invariant `IInv` therefore says how far the memory may be
ahead (`Ahead`: one entry whose persist is under way or failed, or an attempt that
never got to disk), what the program counter implies (`Control`), that what an entry
replaced was the user's or an earlier entry's (`Originals`), that the preimages of
the journal in memory are on disk (`MemPreimages`), and what the rollback has
already passed (`Undone`, `UndoneExactly`).  `PersistStep` is the heart: the moment
at which the memory's entry becomes durable.  `RollbackRestores` is an action
property of `CloseRollback` and follows from `UndoneExactly` at position zero.
`UserBytesKept` needs that a path still is what it was compared with when it is
replaced (`Compared`); `RollbackSweeps` that the sweep goes up the tree, so that
removing a directory empties none that was swept before (`Sweeping`).

`Stage4RunProofs`: `StoriesMatch`, `ContextIsCurrent`, `AcceptedArePublished`,
`LoopLeavesSettled` and `ReplaysSurvive`.  The invariant has two halves.  `Inv` is about files and rows: what
each position of the process says of the case in hand (`Place`, `Stands`), the three
parts of `JournalMatchesRow` taken case by case (`Told`), and that the accepted results
are of accepted and sealed cases (`Settled`).  That an accepted row is final
(`AcceptedRowKept`) and so is its seal (`SealedKept`) are lemmas about every step.
`Pub` is about snapshots: the statuses exclude each other (`WellFormed`), an active
snapshot of the project holds every accepted case that nobody edited (`Current`), the
snapshot a position works with does too and is active (`Positioned`), row and node agree
(`Recorded`).  `Current` is why a replay may hand on the snapshot of an earlier case:
it is visible only if no later case was accepted in another.  `ReplaysSurvive` adds
`ReplayInv`: while no process has died and nobody edited, only accepted files and those
of the case in hand are in the framework (`Clean`, as every other end of a case rolls
back, `RolledBack`), so that an accepted snapshot holds accepted files only; and one
that is no longer active lacks a file that has been accepted since (`Superseded`), with
which the framework cannot be what it was (`Remembered`).

`TcStoreProofs`: `TypeCorrect`, `NumbersUnique`, `InputsAgree`, `AssociationsHold`,
`ArtifactWhole` and `Refinement` (the tables implement `TcRegistry`).  `IInv` adds
to the properties what a process holds at each step (`Seated`, `Memory`), that
drawn numbers lie below the sequence and are drawn once (`Numbers`), that rows are
one to one (`OneToOne`), that the run of an association has frozen its inputs
(`Backed`), and that the scenarios a process has passed are settled (`Progress`,
`Listed`, `Covered`).  `ArtifactCoversRun` needs `Progress`, because the artifact
is written by whichever invocation comes last, from reads made earlier:
what is settled for a run stays settled until a reset.

`ItemStagesProofs`: `RowsPresent` is inductive with the domains of the tables,
because the foreign keys are checked in the transaction that stores the artifact
and a reset deletes from a stage on.  `OnlyFirstMisplaced` needs `Loop`: from the
second item on, what the channels hold is the current item's own (`CurrentOwn`),
which `RecordResult` re-establishes by clearing both channels; a lemma per node
shows it for the channels the node returns.  The other three theorems rest on what
`Build` returns (`Built`): one element per partition (`FirstsAreApart`, by the rank of
a position among the first ones, `Ranked`), and its id the existing one or a fresh one.
`CompletedPublished` and `ScenarioHasItsStory` need that what the exit gate saw is there
when the run is recorded as completed (`PublishInv`: a single process, `Alone`, and what
it has passed, `Passed`), and that a scenario that passes the gate names no story but its
own (`GateAttributes`).  `IdsKept` needs that what is about to be stored agrees with what
is stored (`IdInv`), through every reset and failure in between.

`ProjectRunsProofs`: `TypeCorrect`, `LeaseHeldByLeased` and `PermanentIds`.  An id is
permanent because artifacts are read and written under one lease: the invariant says
that what the holder has read is all that is stored, except what a concurrent reset
has deleted since, and that only one run can be between the two.  Four more theorems
are about commands that do not overlap, each by an invariant that only claims something
until they have.  `OneModel` (`ModelInv`): every stored vector has the model of the one
run that ingests.  `EdgesHaveChunks` and `FinishedReset` (`ResetInv`): no ingest runs
beside a reset, the chunks a run has passed are there (`Written`), and `ResetDone` says
of each statement of a reset what is gone for good, however often resets were
interrupted (`DoneStays`); a reset that found no chunk has nothing to promise about
entities (`NoIdsYet`).  `ReadyHasGraph` (`ReadyInv`): the one discovery keeps the edges of what it
found in the chunks behind it (`Gathered`), since a later chunk prunes its own edges
only; here it matters that no document holds a chunk twice.

`GroundingProofs`: `ConstructorNeverFails`, `EvidenceDecides` and `RefusalsHaveCause`,
for answers of any size.  The loop of `Cascade` is described by what it has dropped so
far: no evidence shows it, or nothing that stays mentions it (`Dropped`); `Phases`
states the answer after each pass as a function of the answer before it.

`ModelCallsProofs`: `TypeCorrect` (with the budget), `ChunksAskedOnce`,
`NoEarlyFailure` and both together as `RetriesJustified`, `RepairsAreCurrent`,
`RecordsAreKept`.  The count of replies is tied to the two counters of attempts
(`Counted`); a recorded file is safe because its name has a call, or an attempt of
this call, that is over (`Taken`).

`CaseContextProofs`: `DeliveryIsOfManifest`, `RefusalsAreExplained` and `BudgetFairAlways`,
for any documents, references and interleaving.  The invariant is split by what it
speaks of: the world (what has not been upset still is as Stages 1 to 3 left it), the
data (records found so far are mentioned from the roots and approved), the code shown,
and the budget.  A binding refusal is a tie or `Misnamed` because the freeze leaves at
least one available variant, and `Named` changes the empty one only.  A sum of tokens is the number of tokens (`Tokens`, `Size`), so that what
a candidate adds to a set follows from the theorems about cardinality (`OneMore`), and
who is preferred from the order in which candidates are weighed (`InOrder`).

Only model-checked: liveness (`RunEnds`, `StageEnds`), which the prover does not do
under fairness.  Every other property of a passing run is stated by a theorem.  That the
two recursive definitions the models once had, the positions of the partitions (`Firsts`)
and the sum of the budget (`Size`), are written with ranks and cardinalities is for the
proofs: what a recursive definition computes for every input takes an induction over data
that the prover has no rule for.

## 6. What is not modelled

- The local JSON stores (a mode for development), `delete_snapshot`, a concurrent
  `index-framework`, context manifests and the legacy `test_cases` table.
- The content of code and documents: symbols, edges, parsing, planning, prompts,
  rank fusion, static validation of generated code.  A model takes their verdict as a
  choice.
- Embedding calls: the workflows embed one text at a time, so that the batching of the
  adapters is never exercised.
- `services/capability_mapper.py`, `context_assembler.py`, `context_sufficiency.py`,
  `readiness_gate.py` and `workflows/test_code_generation_graph.py`: pure decisions of a
  dry-run planner that no other workflow calls.
- `services/patch_executor.py` and `worktree_manager.py`: no workflow imports them.
- Configuration, logging and the command line, which have no state of their own.
- Which run a reused requirement, story or scenario row belongs to; `ProjectRuns` shows
  the same question for chunks.
