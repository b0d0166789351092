----------------------------- MODULE Stage4Run -----------------------------
(***************************************************************************)
(* One Stage-4 run: the parent graph (workflows/codegen_run_graph.py) that *)
(* freezes its inputs and takes the scenarios in order, and the graph of   *)
(* one test case (workflows/codegen_apply_graph.py) over what survives the *)
(* process: the framework, the case's file journal, the snapshot graph,    *)
(* the rows of PostgreSQL and the LangGraph checkpoint.  One action is     *)
(* what happens up to the next durable write.  The files of a case are one *)
(* value and a rollback is one step: FileTransaction shows why they may be.*)
(***************************************************************************)
EXTENDS Naturals, Sequences, FiniteSets

CONSTANTS
  Order,        \* the frozen scenarios, in order
  Versions,     \* what a model may generate for a case
  Absent, Partial, Foreign,  \* no files, some of them, what no model wrote
  RepairLimit,  \* max_repair_attempts
  Durable,      \* the checkpointer is PostgreSQL, not InMemorySaver
  MaxTroubles,  \* bound: crashes, handled exceptions and edits, together
  MaxRuns       \* bound: invocations of the run

Cases == {Order[i] : i \in DOMAIN Order}
Bytes == Versions \cup {Absent, Partial, Foreign}
Framework == [base : 0 .. MaxTroubles, file : [Cases -> Bytes]]

INSTANCE SnapshotGraph WITH Repos <- {"path", "project"}, Contents <- Framework

NoId == <<"none">>
Nothing == [base |-> 0, file |-> [c \in Cases |-> Absent]]
CaseStatus == {"NONE", "RESERVED", "BLOCKED", "ACCEPTED"}
JournalStatus == {"NONE", "OPEN", "SEALED", "ROLLED_BACK"}
RunStatus == {"NONE", "RUNNING", "COMPLETED", "PARTIAL_FAILED"}
Outcomes == {"ACCEPTED", "BLOCKED", "REVISION_REQUIRED"}
Pcs == {"down", "freeze", "prepare", "index", "reserve", "generate", "open", "apply",
        "validate", "repair", "rollback", "blocker", "publish", "publishing", "verify",
        "ready", "persist", "accept", "seal", "sealed", "replayed"}

Record == [status : CaseStatus, version : Bytes, snapshot : Ids \cup {NoId}]
NoRecord == [status |-> "NONE", version |-> Absent, snapshot |-> NoId]

ASSUME ConstantsAssumption ==
  /\ Order \in Seq(Cases) /\ Order # <<>>
  /\ \A i, j \in DOMAIN Order : Order[i] = Order[j] => i = j
  /\ Versions \cap {Absent, Partial, Foreign} = {}
  /\ Cardinality({Absent, Partial, Foreign}) = 3
  /\ RepairLimit \in Nat \ {0} /\ Durable \in BOOLEAN
  /\ MaxTroubles \in Nat /\ MaxRuns \in Nat

VARIABLES
  fs,        \* the framework
  journal,   \* of each case: status, and whether it has entries
  meta,      \* stage4_file_journals: the status last mirrored to PostgreSQL
  kg,        \* the snapshot graph
  projected, \* the TestCase nodes of the graph: a record or NoRecord
  tc,        \* stage4_test_cases
  attempt,   \* stage4_kg_publication_attempts: the status
  published, \* idempotency records of publish_kg: <<version, snapshot>>
  blockers,  \* cases with a row in codegen_blockers
  manifest,  \* baseline checksum of the frozen manifest, if there is one
  run,       \* codegen_runs: the status
  building,  \* the building_snapshot_id channel of each case's checkpoint
  pc, seen, resumed, cur, snap, results, bundle, repairs,  \* the process
  touched,   \* history: cases whose files were edited
  crashed,   \* history: a process died, or ended in an exception no node handles
  edits, faults, runs  \* counters of the bounds

framework == <<fs, journal, meta, touched, edits>>
graph == <<kg, projected, attempt, published>>
rows == <<tc, blockers, manifest, run>>
proc == <<seen, resumed, cur, snap, results, bundle, repairs>>
bounds == <<crashed, faults, runs>>
vars == <<framework, graph, rows, building, pc, proc, bounds>>

case == Order[cur]
file == fs.file[case]

Init ==
  /\ fs = Nothing
  /\ journal = [c \in Cases |-> [status |-> "NONE", entries |-> FALSE]]
  /\ meta = [c \in Cases |-> "NONE"]
  /\ kg = NoSnapshots
  /\ projected = [c \in Cases |-> NoRecord]
  /\ tc = [c \in Cases |-> NoRecord]
  /\ attempt = [c \in Cases |-> "NONE"]
  /\ published = [c \in Cases |-> {}]
  /\ blockers = {} /\ manifest = {} /\ run = "NONE"
  /\ building = [c \in Cases |-> NoId]
  /\ pc = "down" /\ seen = Nothing /\ resumed = FALSE /\ cur = 1 /\ snap = NoId
  /\ results = <<>> /\ bundle = Absent /\ repairs = 0
  /\ touched = {} /\ crashed = FALSE /\ edits = 0 /\ faults = 0 /\ runs = 0
-----------------------------------------------------------------------------
\* The process ends: its memory is gone, and the checkpoint if it was in memory.
Stop ==
  /\ pc' = "down" /\ seen' = Nothing /\ resumed' = FALSE /\ cur' = 1 /\ snap' = NoId
  /\ results' = <<>> /\ bundle' = Absent /\ repairs' = 0
  /\ building' = IF Durable THEN building ELSE [c \in Cases |-> NoId]

Goto(next) == pc' = next /\ UNCHANGED <<proc, building>>

\* The result of a case in the serial loop: the next one, from snapshot s.
Advance(outcome, s) ==
  /\ results' = Append(results, outcome) /\ cur' = cur + 1 /\ snap' = s
  /\ bundle' = Absent /\ repairs' = 0 /\ pc' = "reserve"
  /\ UNCHANGED <<seen, resumed, building>>

Trouble == faults + edits < MaxTroubles /\ faults' = faults + 1 /\ UNCHANGED runs
Fault == Trouble /\ UNCHANGED crashed
Dies == Trouble /\ crashed' = TRUE /\ Stop

\* begin, and save_file_journal_metadata of what the journal is now.
Journaled(status, entries) ==
  /\ journal' = [journal EXCEPT ![case] = [status |-> status, entries |-> entries]]
  /\ meta' = [meta EXCEPT ![case] = status]

\* rollback: a file that is neither as written nor as found is drift.
Drifted == journal[case].entries /\ file = Foreign
Undo ==
  /\ ~Drifted
  /\ Journaled("ROLLED_BACK", journal[case].entries)
  /\ fs' = [fs EXCEPT !.file[case] = IF journal[case].entries THEN Absent ELSE file]
  /\ UNCHANGED <<touched, edits>>

\* _rollback_open; drift raises in turn, and leaves the journal open.
RollbackOpen == IF journal[case].status = "OPEN" /\ ~Drifted THEN Undo ELSE UNCHANGED framework
-----------------------------------------------------------------------------
\* The parent graph.

Start ==
  /\ pc = "down" /\ pc' = "freeze" /\ seen' = fs
  /\ runs < MaxRuns /\ runs' = runs + 1
  /\ UNCHANGED <<framework, graph, rows, building, resumed, cur, snap, results, bundle, repairs, crashed, faults>>

\* freeze_inputs: the first baseline stays the baseline.
FreezeInputs ==
  /\ pc = "freeze" /\ pc' = "prepare"
  /\ manifest' = IF manifest = {} THEN {seen} ELSE manifest
  /\ resumed' = (manifest # {})
  /\ UNCHANGED <<framework, graph, tc, blockers, run, building, seen, cur, snap, results, bundle, repairs, bounds>>

Running(id) ==
  /\ run' = "RUNNING" /\ snap' = id /\ pc' = "reserve"
  /\ UNCHANGED <<tc, blockers, manifest, building, seen, resumed, cur, results, bundle, repairs>>

ActiveFor(content) == FindReady(kg, content) \cap kg.active

PrepareFromActive ==
  /\ pc = "prepare" /\ \E id \in ActiveFor(seen) : Running(id)
  /\ UNCHANGED <<framework, graph, bounds>>

\* InputManifestChanged: a resumed run on content no active snapshot represents.
PrepareRefused ==
  /\ pc = "prepare" /\ ActiveFor(seen) = {} /\ resumed /\ manifest # {seen}
  /\ Stop
  /\ UNCHANGED <<framework, graph, rows, bounds>>

PrepareByIndex ==
  /\ pc = "prepare" /\ ActiveFor(seen) = {} /\ ~(resumed /\ manifest # {seen})
  /\ pc' = "index" /\ snap' = <<"path", fs>>
  /\ kg' = Begun(kg, <<"path", fs>>)
  /\ UNCHANGED <<framework, projected, attempt, published, rows, building, seen, resumed, cur,
                 results, bundle, repairs, bounds>>

IndexActivate ==
  /\ pc = "index" /\ Running(snap) /\ kg' = Activated(kg, snap)
  /\ UNCHANGED <<framework, projected, attempt, published, bounds>>

IndexFails ==
  /\ pc = "index" /\ Fault /\ Stop /\ kg' = MarkedFailed(kg, snap)
  /\ UNCHANGED <<framework, projected, attempt, published, rows>>

\* mutant: one accepted case is enough
FinishRunAny ==
  /\ pc = "reserve" /\ cur > Len(Order)
  /\ run' = IF "ACCEPTED" \in {results[i] : i \in DOMAIN results} THEN "COMPLETED" ELSE "PARTIAL_FAILED"
  /\ Stop
  /\ UNCHANGED <<framework, graph, tc, blockers, manifest, bounds>>

\* validate_run_exit and write_final_artifacts.
FinishRun ==
  /\ pc = "reserve" /\ cur > Len(Order)
  /\ run' = IF \A i \in DOMAIN results : results[i] = "ACCEPTED" THEN "COMPLETED" ELSE "PARTIAL_FAILED"
  /\ Stop
  /\ UNCHANGED <<framework, graph, tc, blockers, manifest, bounds>>
-----------------------------------------------------------------------------
\* The graph of one case, entered at reserve_tc_id in every invocation.

Reserving == pc = "reserve" /\ cur <= Len(Order)
AcceptedMatches == tc[case].status = "ACCEPTED" /\ file = tc[case].version

ReserveRevision ==
  /\ Reserving /\ tc[case].status = "ACCEPTED" /\ ~AcceptedMatches
  /\ blockers' = blockers \cup {case}
  /\ Advance("REVISION_REQUIRED", snap)
  /\ UNCHANGED <<framework, graph, tc, manifest, run, bounds>>

\* The accepted fast path seals a journal that a crash left open.
ReserveAccepted ==
  /\ Reserving /\ AcceptedMatches /\ Goto("replayed")
  /\ IF journal[case].status = "OPEN"
     THEN Journaled("SEALED", TRUE) /\ UNCHANGED <<fs, touched, edits>>
     ELSE UNCHANGED framework
  /\ UNCHANGED <<graph, rows, bounds>>

ReserveFresh ==
  /\ Reserving /\ tc[case].status # "ACCEPTED" /\ Goto("generate")
  /\ tc' = [tc EXCEPT ![case] = [NoRecord EXCEPT !.status = "RESERVED"]]
  /\ UNCHANGED <<framework, graph, blockers, manifest, run, bounds>>

\* retrieve_context, generate_plan and generate_bundle: reads and the model.
Generate ==
  /\ pc = "generate" /\ bundle' \in Versions /\ pc' = "open"
  /\ UNCHANGED <<framework, graph, rows, building, seen, resumed, cur, snap, results, repairs, bounds>>

\* open_file_transaction on the journal of an interrupted attempt.
OpenReconcile ==
  /\ pc = "open" /\ journal[case].status = "OPEN" /\ journal[case].entries
  /\ Undo /\ Goto("open")
  /\ UNCHANGED <<graph, rows, bounds>>

OpenDrift ==
  /\ pc = "open" /\ journal[case].status = "OPEN" /\ Drifted
  /\ Stop
  /\ UNCHANGED <<framework, graph, rows, bounds>>

\* mutant: an open journal with entries is begun anew
OpenFreshBlind ==
  /\ pc = "open" /\ journal[case].status # "SEALED"
  /\ Journaled("OPEN", FALSE) /\ Goto("apply")
  /\ UNCHANGED <<fs, touched, edits, graph, rows, bounds>>

OpenFresh ==
  /\ pc = "open"
  /\ \/ journal[case].status \in {"NONE", "ROLLED_BACK"}
     \/ journal[case].status = "OPEN" /\ ~journal[case].entries
  /\ Journaled("OPEN", FALSE) /\ Goto("apply")
  /\ UNCHANGED <<fs, touched, edits, graph, rows, bounds>>

\* Files that are not there yet, or that this journal wrote.
Writable == IF journal[case].entries THEN file \in Versions ELSE file = Absent

ApplyBundle ==
  /\ pc = "apply" /\ Writable /\ Goto("validate")
  /\ fs' = [fs EXCEPT !.file[case] = bundle]
  /\ Journaled("OPEN", TRUE)
  /\ UNCHANGED <<touched, edits, graph, rows, bounds>>

ApplyInterrupted ==
  /\ pc = "apply" /\ Writable /\ Dies
  /\ fs' = [fs EXCEPT !.file[case] = Partial]
  /\ journal' = [journal EXCEPT ![case].entries = TRUE]
  /\ UNCHANGED <<meta, touched, edits, graph, rows>>

\* An exception while writing, or a path policy or drift error: rolled back.
ApplyFails ==
  /\ pc = "apply" /\ Stop /\ RollbackOpen
  /\ IF Writable THEN Fault ELSE UNCHANGED bounds
  /\ UNCHANGED <<graph, rows>>

ValidateOk ==
  /\ pc = "validate" /\ file = bundle /\ Goto("publish")
  /\ UNCHANGED <<framework, graph, rows, bounds>>

ValidateNotOk ==
  /\ pc = "validate" /\ Goto(IF repairs < RepairLimit THEN "repair" ELSE "rollback")
  /\ UNCHANGED <<framework, graph, rows, bounds>>

\* mutant: repairs are not counted
RepairUncounted ==
  /\ pc = "repair"
  /\ \/ bundle' \in Versions /\ pc' = "apply"
     \/ bundle' = bundle /\ pc' = IF repairs < RepairLimit THEN "repair" ELSE "rollback"
  /\ UNCHANGED <<framework, graph, rows, building, seen, resumed, cur, snap, results, repairs, bounds>>

\* The model's repair, with a bundle the policy takes or refuses.
Repair ==
  /\ pc = "repair" /\ repairs' = repairs + 1
  /\ \/ bundle' \in Versions /\ pc' = "apply"
     \/ bundle' = bundle /\ pc' = IF repairs' < RepairLimit THEN "repair" ELSE "rollback"
  /\ UNCHANGED <<framework, graph, rows, building, seen, resumed, cur, snap, results, bounds>>

RepairRaises ==
  /\ pc = "repair" /\ Fault /\ Stop /\ RollbackOpen
  /\ UNCHANGED <<graph, rows>>

RollbackCase ==
  /\ pc = "rollback" /\ Undo /\ Goto("blocker")
  /\ UNCHANGED <<graph, rows, bounds>>

RollbackDrift ==
  /\ pc = "rollback" /\ Drifted /\ Stop
  /\ UNCHANGED <<framework, graph, rows, bounds>>

RecordBlocker ==
  /\ pc = "blocker"
  /\ blockers' = blockers \cup {case}
  /\ tc' = IF tc[case].status = "ACCEPTED" THEN tc ELSE [tc EXCEPT ![case].status = "BLOCKED"]
  /\ Advance("BLOCKED", snap)
  /\ UNCHANGED <<framework, graph, manifest, run, bounds>>
-----------------------------------------------------------------------------
\* Publication, verification and acceptance of the validated files.

proposed == <<"project", fs>>

\* publish_framework_building; a changed file that is not there is an error.  The code
\* sets building when the publication returns; a later invocation reads it of an accepted
\* case only, for which one has returned.
PublishBuilding ==
  /\ pc = "publish" /\ file # Absent /\ pc' = "publishing"
  /\ kg' = Begun(kg, proposed)
  /\ building' = [building EXCEPT ![case] = proposed]
  /\ UNCHANGED <<framework, projected, attempt, published, rows, proc, bounds>>

\* save_idempotency_record: the key is the run, the case and its files.
Conflict == \E entry \in published[case] : entry[1] = bundle /\ entry[2] # building[case]

PublishSaved ==
  /\ pc = "publishing" /\ ~Conflict /\ Goto("verify")
  /\ attempt' = [attempt EXCEPT ![case] = "BUILDING"]
  /\ published' = [published EXCEPT ![case] = @ \cup {<<bundle, building[case]>>}]
  /\ UNCHANGED <<framework, kg, projected, rows, bounds>>

\* The handler of publish_kg and verify_kg, for the snapshot in g.
Unpublish(g) ==
  /\ kg' = g
  /\ attempt' = [attempt EXCEPT ![case] = "FAILED"]
  /\ RollbackOpen /\ Stop
  /\ UNCHANGED <<projected, published, rows>>

PublishFails ==
  \/ /\ pc = "publish" /\ Unpublish(kg)
     /\ IF file = Absent THEN UNCHANGED bounds ELSE Fault
  \/ /\ pc = "publishing" /\ Unpublish(MarkedFailed(kg, building[case]))
     /\ IF Conflict THEN UNCHANGED bounds ELSE Fault

\* verify_snapshot: the snapshot holds the file that was validated.
Verified == ContentOf(building[case]).file[case] = bundle

\* mutant: verified, but not activated
VerifyOnly ==
  /\ pc = "verify" /\ Verified /\ Goto("ready")
  /\ UNCHANGED <<framework, graph, rows, bounds>>

VerifyActivate ==
  /\ pc = "verify" /\ Verified /\ Goto("ready")
  /\ kg' = Activated(kg, building[case])
  /\ UNCHANGED <<framework, projected, attempt, published, rows, bounds>>

VerifyFails ==
  /\ pc = "verify" /\ Unpublish(MarkedFailed(kg, building[case]))
  /\ IF Verified THEN Fault ELSE UNCHANGED bounds

VerifySaved ==
  /\ pc = "ready" /\ Goto("persist")
  /\ attempt' = [attempt EXCEPT ![case] = "READY"]
  /\ UNCHANGED <<framework, kg, projected, published, rows, bounds>>

accepted == [status |-> "ACCEPTED", version |-> bundle, snapshot |-> building[case]]

\* persist_case: the projection, and then the authoritative row.
ProjectCase ==
  /\ pc = "persist" /\ Goto("accept")
  /\ projected' = [projected EXCEPT ![case] = accepted]
  /\ UNCHANGED <<framework, kg, attempt, published, rows, bounds>>

AcceptCase ==
  /\ pc = "accept" /\ Goto("seal")
  /\ tc' = [tc EXCEPT ![case] = accepted]
  /\ UNCHANGED <<framework, graph, blockers, manifest, run, bounds>>

SealTransaction ==
  /\ pc = "seal" /\ file = bundle /\ Goto("sealed")
  /\ journal' = [journal EXCEPT ![case].status = "SEALED"]
  /\ UNCHANGED <<fs, meta, touched, edits, graph, rows, bounds>>

SealMismatch ==
  /\ pc = "seal" /\ file # bundle /\ Stop
  /\ UNCHANGED <<framework, graph, rows, bounds>>

\* mutant: the loop goes on from the snapshot it had
SealSavedSameSnapshot ==
  /\ pc = "sealed"
  /\ meta' = [meta EXCEPT ![case] = "SEALED"]
  /\ Advance("ACCEPTED", snap)
  /\ UNCHANGED <<fs, journal, touched, edits, graph, rows, bounds>>

SealSaved ==
  /\ pc = "sealed"
  /\ meta' = [meta EXCEPT ![case] = "SEALED"]
  /\ Advance("ACCEPTED", tc[case].snapshot)
  /\ UNCHANGED <<fs, journal, touched, edits, graph, rows, bounds>>

\* run_scenario after an accepted replay.  The building_snapshot_id it looks at
\* is the channel of the checkpoint, which an earlier invocation may have set.
Visible == tc[case].snapshot \in kg.active
NotVisible == ~Visible /\ building[case] # NoId

ReplayAdvances ==
  /\ pc = "replayed" /\ ~NotVisible
  /\ Advance("ACCEPTED", IF Visible THEN tc[case].snapshot ELSE snap)
  /\ UNCHANGED <<framework, graph, rows, bounds>>

ReplayNotVisible ==
  /\ pc = "replayed" /\ NotVisible /\ Stop
  /\ UNCHANGED <<framework, graph, rows, bounds>>
-----------------------------------------------------------------------------
Step ==
  \/ FreezeInputs \/ PrepareFromActive \/ PrepareRefused \/ PrepareByIndex
  \/ IndexActivate \/ IndexFails \/ FinishRun
  \/ ReserveRevision \/ ReserveAccepted \/ ReserveFresh \/ Generate
  \/ OpenReconcile \/ OpenDrift \/ OpenFresh
  \/ ApplyBundle \/ ApplyInterrupted \/ ApplyFails \/ ValidateOk \/ ValidateNotOk
  \/ Repair \/ RepairRaises \/ RollbackCase \/ RollbackDrift \/ RecordBlocker
  \/ PublishBuilding \/ PublishSaved \/ PublishFails
  \/ VerifyActivate \/ VerifyFails \/ VerifySaved
  \/ ProjectCase \/ AcceptCase \/ SealTransaction \/ SealMismatch \/ SealSaved
  \/ ReplayAdvances \/ ReplayNotVisible

\* The process dies, or an exception that no node handles ends it.
Crash ==
  /\ pc # "down" /\ Dies
  /\ UNCHANGED <<framework, graph, rows>>

\* A person edits the framework, or the files of a case.
Edit ==
  /\ faults + edits < MaxTroubles /\ edits' = edits + 1
  /\ \/ fs' = [fs EXCEPT !.base = edits + 1] /\ UNCHANGED touched
     \/ \E c \in Cases, b \in {Foreign, Absent} :
          /\ fs.file[c] # b /\ fs' = [fs EXCEPT !.file[c] = b]
          /\ touched' = touched \cup {c}
  /\ UNCHANGED <<journal, meta, graph, rows, building, pc, proc, bounds>>

\* index-framework from the command line, between runs.
IndexFramework ==
  /\ pc = "down" /\ <<"path", fs>> \notin kg.active
  /\ kg' = Activated(Begun(kg, <<"path", fs>>), <<"path", fs>>)
  /\ UNCHANGED <<framework, projected, attempt, published, rows, building, pc, proc, bounds>>

Next == Start \/ Step \/ Crash \/ Edit \/ IndexFramework
Spec == Init /\ [][Next]_vars

\* A started run is executed; nothing makes anyone start one.
FairSpec == Spec /\ WF_vars(Step)
-----------------------------------------------------------------------------
TypeOK ==
  /\ fs \in Framework
  /\ journal \in [Cases -> [status : JournalStatus, entries : BOOLEAN]]
  /\ meta \in [Cases -> JournalStatus]
  /\ kg \in Graph
  /\ projected \in [Cases -> Record] /\ tc \in [Cases -> Record]
  /\ attempt \in [Cases -> {"NONE", "BUILDING", "READY", "FAILED"}]
  /\ \A c \in Cases : published[c] \subseteq Versions \X Ids
  /\ blockers \subseteq Cases /\ manifest \subseteq Framework /\ run \in RunStatus
  /\ building \in [Cases -> Ids \cup {NoId}]
  /\ pc \in Pcs /\ seen \in Framework /\ resumed \in BOOLEAN
  /\ cur \in 1 .. Len(Order) + 1 /\ snap \in Ids \cup {NoId}
  /\ results \in Seq(Outcomes) /\ bundle \in Bytes /\ repairs \in 0 .. RepairLimit
  /\ touched \subseteq Cases /\ crashed \in BOOLEAN
  /\ {edits, faults} \subseteq 0 .. MaxTroubles /\ runs \in 0 .. MaxRuns

Generated(c) == fs.file[c] \in Versions \cup {Partial}

(* What a model wrote for a case is either accepted or undoable: only an    *)
(* open journal with entries stands for it, whatever crashed (the order of  *)
(* open_file_transaction, apply_bundle, persist_case and seal_transaction). *)
NothingUnowned ==
  \A c \in Cases : Generated(c) /\ tc[c].status # "ACCEPTED" =>
    journal[c] = [status |-> "OPEN", entries |-> TRUE]

(* No rollback of any invocation takes back what was accepted: unless a     *)
(* person edited them the files are those of the record, and its journal is *)
(* never ROLLED_BACK (the accepted fast path of reserve_tc_id).             *)
AcceptedStays ==
  \A c \in Cases : tc[c].status = "ACCEPTED" =>
    /\ journal[c].entries /\ journal[c].status \in {"OPEN", "SEALED"}
    /\ c \notin touched => fs.file[c] = tc[c].version

(* A journal is sealed only once the row is ACCEPTED, and the mirror in     *)
(* PostgreSQL never says SEALED before the journal does.                    *)
SealedAfterAcceptance ==
  \A c \in Cases :
    /\ journal[c].status = "SEALED" => tc[c].status = "ACCEPTED"
    /\ meta[c] = "SEALED" => journal[c].status = "SEALED"

(* Types; and the files, the journal, its mirror and the row of a case tell *)
(* one story, so that whichever of them the next invocation looks at first, *)
(* it undoes what was not accepted and nothing else.                        *)
JournalMatchesRow == TypeOK /\ NothingUnowned /\ AcceptedStays /\ SealedAfterAcceptance

(* A case becomes ACCEPTED only when its snapshot is READY and active and   *)
(* holds its files and those of every case accepted before it, and when its *)
(* TestCase node says the same (the order of publish_kg, verify_kg and      *)
(* persist_case); the record and the node agree from then on.               *)
AcceptedIsPublished ==
  [][\A c \in Cases : tc'[c].status = "ACCEPTED" =>
       /\ projected'[c] = tc'[c]
       /\ tc[c].status # "ACCEPTED" =>
            /\ tc'[c].snapshot \in kg.ready \cap kg.active
            /\ \A d \in Cases \ touched : tc'[d].status = "ACCEPTED" =>
                 ContentOf(tc'[c].snapshot).file[d] = tc'[d].version]_vars

(* The context of a case is retrieved from an active READY snapshot that    *)
(* holds every case accepted before it (the snapshot run_scenario_loop      *)
(* hands on, and the replay of accepted cases by run_scenario).             *)
ContextSeesAccepted ==
  pc = "generate" =>
    /\ snap \in kg.ready \cap kg.active
    /\ \A c \in Cases \ touched : tc[c].status = "ACCEPTED" =>
         ContentOf(snap).file[c] = tc[c].version

(* The serial loop leaves a case only when it is settled: accepted and      *)
(* sealed, blocked and restored, or an accepted case that has to be revised *)
(* (the README: "only then advances to the next scenario").                 *)
LeavesCaseSettled ==
  [][cur' = cur + 1 =>
       CASE results'[cur] = "ACCEPTED" ->
              tc[case].status = "ACCEPTED" /\ journal[case].status = "SEALED"
         [] results'[cur] = "BLOCKED" ->
              /\ tc'[case].status = "BLOCKED" /\ journal[case].status = "ROLLED_BACK"
              /\ ~Generated(case)
         [] OTHER -> tc[case].status = "ACCEPTED"]_vars

(* A run is COMPLETED only when every scenario of the manifest is accepted, *)
(* sealed and in one READY snapshot (validate_run_exit).                    *)
CompletedRunIsWhole ==
  [][run' = "COMPLETED" /\ run # "COMPLETED" =>
       \A c \in Cases \ touched :
         /\ tc[c].status = "ACCEPTED" /\ journal[c].status = "SEALED"
         /\ snap \in kg.ready /\ ContentOf(snap).file[c] = tc[c].version]_vars

(* The serial loop settles every case before it leaves it, and the run with *)
(* the last of them.                                                        *)
LoopSettles == LeavesCaseSettled /\ CompletedRunIsWhole

(* An accepted case is replayed, whatever became of later cases and runs,   *)
(* as long as no process died, nobody edited the framework and it is the    *)
(* one the case was accepted in: its snapshot is the active one then        *)
(* (run_scenario refuses a replay that it does not find visible).           *)
ReplaySurvives ==
  pc = "replayed" /\ edits = 0 /\ ~crashed /\ fs = ContentOf(tc[case].snapshot) => ~NotVisible

(* Every invocation ends: the repair loop is bounded, and no state of the   *)
(* rows, the journal and the graph stops a node from going on or raising.   *)
RunEnds == pc # "down" ~> pc = "down"

(* From the handler of verify_kg: once the graph represents the files that  *)
(* are still there the journal is kept open, "so durable resume can finish  *)
(* coordination/persistence".  So no step of the program takes them away.   *)
ActivatedFilesKept ==
  [][\A c \in Cases :
       /\ Generated(c) /\ attempt[c] = "READY"
       /\ building[c] \in kg.active /\ ContentOf(building[c]) = fs
       /\ fs'.file[c] # fs.file[c]
       => edits' # edits]_vars
=============================================================================
