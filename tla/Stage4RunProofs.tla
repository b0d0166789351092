-------------------------- MODULE Stage4RunProofs --------------------------
(***************************************************************************)
(* Theorems about Stage4Run, for any scenarios, versions and bounds: the   *)
(* files, the journal and the row of a case tell one story; an accepted    *)
(* case is published, and replayed for as long as no process dies; the     *)
(* loop leaves a case settled and the run whole.                           *)
(***************************************************************************)
EXTENDS Stage4Run, FiniteSetTheorems, TLAPS

CasePcs == Pcs \ {"down", "freeze", "prepare", "index", "reserve"}

(* The process stands at a scenario of the manifest, with one result for    *)
(* each scenario before it.                                                 *)
Place ==
  /\ pc \in CasePcs => cur <= Len(Order)
  /\ Len(results) + 1 = cur
  /\ pc \in {"down", "freeze", "prepare", "index"} => cur = 1
  /\ pc = "repair" => repairs < RepairLimit
  /\ pc \in CasePcs \ {"generate", "replayed"} => bundle \in Versions
  /\ pc = "index" => snap \in Ids
  /\ pc \in {"publishing", "verify", "ready", "persist", "accept", "seal", "sealed"} =>
       building[case] \in Ids

Typed == TypeOK /\ Place

LEMMA Constants ==
  /\ Len(Order) \in Nat /\ Len(Order) >= 1 /\ DOMAIN Order = 1 .. Len(Order)
  /\ \A i \in 1 .. Len(Order) : Order[i] \in Cases
  /\ \A i, j \in 1 .. Len(Order) : Order[i] = Order[j] => i = j
  /\ Absent \notin Versions /\ Partial \notin Versions /\ Foreign \notin Versions
  /\ RepairLimit \in Nat /\ RepairLimit >= 1 /\ Durable \in BOOLEAN
  /\ MaxTroubles \in Nat /\ MaxRuns \in Nat
<1>1. Order \in Seq(Cases) /\ Order # <<>>
  BY ConstantsAssumption
<1>2. Len(Order) \in Nat /\ Len(Order) >= 1 /\ DOMAIN Order = 1 .. Len(Order)
  BY <1>1
<1> QED
  BY <1>2, ConstantsAssumption DEF Cases

LEMMA Distinct == Absent # Partial /\ Absent # Foreign /\ Partial # Foreign
<1>1. \A a, b : Cardinality({a, b}) <= 2
  <2> TAKE a, b
  <2>1. IsFiniteSet({a}) /\ Cardinality({a}) = 1
    BY FS_Singleton
  <2>2. Cardinality({a} \cup {b}) = IF b \in {a} THEN 1 ELSE 2
    BY <2>1, FS_AddElement
  <2> QED
    BY <2>2
<1>2. Cardinality({Absent, Partial, Foreign}) = 3
  BY ConstantsAssumption
<1>3. ASSUME Absent = Partial \/ Absent = Foreign \/ Partial = Foreign PROVE FALSE
  <2>1. \/ {Absent, Partial, Foreign} = {Absent, Foreign}
        \/ {Absent, Partial, Foreign} = {Absent, Partial}
    BY <1>3
  <2>2. Cardinality({Absent, Foreign}) <= 2 /\ Cardinality({Absent, Partial}) <= 2
    BY <1>1
  <2> QED
    BY <1>2, <2>1, <2>2
<1> QED
  BY <1>3

LEMMA Case ==
  ASSUME Typed, cur <= Len(Order) PROVE case \in Cases /\ cur \in 1 .. Len(Order)
  BY Constants DEF Typed, TypeOK, case

-----------------------------------------------------------------------------
(* The operators of the snapshot graph.                                     *)

LEMMA GraphTypes ==
  ASSUME NEW g \in Graph, NEW id \in Ids
  PROVE  Begun(g, id) \in Graph /\ Activated(g, id) \in Graph /\ MarkedFailed(g, id) \in Graph
  BY DEF Graph, Begun, Activated, SameRepo, MarkedFailed

LEMMA Identities ==
  ASSUME NEW repo \in {"path", "project"}, NEW content \in Framework
  PROVE  /\ <<repo, content>> \in Ids
         /\ RepoOf(<<repo, content>>) = repo /\ ContentOf(<<repo, content>>) = content
  BY DEF Ids, RepoOf, ContentOf

LEMMA FileOfFramework == ASSUME NEW f \in Framework PROVE f.file \in [Cases -> Bytes]
  BY DEF Framework

LEMMA WrittenFile ==
  ASSUME NEW f \in Framework, NEW c \in Cases, NEW b \in Bytes
  PROVE  /\ [f EXCEPT !.file[c] = b] \in Framework
         /\ [f EXCEPT !.file[c] = b].file = [f.file EXCEPT ![c] = b]
  BY DEF Framework

LEMMA WrittenBase ==
  ASSUME NEW f \in Framework, NEW n \in 0 .. MaxTroubles
  PROVE  [f EXCEPT !.base = n] \in Framework /\ [f EXCEPT !.base = n].file = f.file
  BY DEF Framework

LEMMA NothingTyped == Nothing \in Framework /\ \A c \in Cases : Nothing.file[c] = Absent
  BY Constants DEF Nothing, Framework, Bytes

(* TypeOK, by what the steps write together.                                *)
FilesOK ==
  /\ fs \in Framework
  /\ journal \in [Cases -> [status : JournalStatus, entries : BOOLEAN]]
  /\ meta \in [Cases -> JournalStatus]
  /\ touched \subseteq Cases /\ edits \in 0 .. MaxTroubles

GraphOK ==
  /\ kg \in Graph
  /\ projected \in [Cases -> Record]
  /\ attempt \in [Cases -> {"NONE", "BUILDING", "READY", "FAILED"}]
  /\ \A c \in Cases : published[c] \subseteq Versions \X Ids

RowsOK ==
  /\ tc \in [Cases -> Record]
  /\ blockers \subseteq Cases /\ manifest \subseteq Framework /\ run \in RunStatus

ProcessOK ==
  /\ building \in [Cases -> Ids \cup {NoId}]
  /\ pc \in Pcs /\ seen \in Framework /\ resumed \in BOOLEAN
  /\ cur \in 1 .. Len(Order) + 1 /\ snap \in Ids \cup {NoId}
  /\ results \in Seq(Outcomes) /\ bundle \in Bytes /\ repairs \in 0 .. RepairLimit
  /\ crashed \in BOOLEAN /\ faults \in 0 .. MaxTroubles /\ runs \in 0 .. MaxRuns

LEMMA TypeParts == TypeOK <=> FilesOK /\ GraphOK /\ RowsOK /\ ProcessOK
  BY DEF TypeOK, FilesOK, GraphOK, RowsOK, ProcessOK

(* What the process is when it has stopped, or gone on to the next case.    *)
LEMMA Stopped ==
  ASSUME Typed, Stop, crashed' \in BOOLEAN, faults' \in 0 .. MaxTroubles, runs' = runs
  PROVE  ProcessOK' /\ Place'
<1>1. building' \in [Cases -> Ids \cup {NoId}]
  BY DEF Typed, TypeOK, Stop
<1>2. results' = <<>> /\ Len(results') = 0 /\ results' \in Seq(Outcomes)
  BY DEF Stop
<1>3. pc' = "down" /\ pc' \in Pcs /\ pc' \notin CasePcs
  BY DEF Stop, Pcs, CasePcs
<1>4. cur' \in 1 .. Len(Order) + 1 /\ repairs' \in 0 .. RepairLimit /\ bundle' \in Bytes
  BY Constants DEF Stop, Bytes
<1>5. ProcessOK'
  BY <1>1, <1>2, <1>3, <1>4, NothingTyped DEF ProcessOK, Stop, Typed, TypeOK
<1>6. Place'
  BY <1>2, <1>3 DEF Place, Stop
<1> QED
  BY <1>5, <1>6

LEMMA Advanced ==
  ASSUME Typed, cur <= Len(Order), NEW outcome \in Outcomes, NEW s \in Ids \cup {NoId},
         Advance(outcome, s), UNCHANGED bounds
  PROVE  ProcessOK' /\ Place' /\ results' = Append(results, outcome) /\ results'[cur] = outcome
<1>0. Len(results) \in Nat /\ results \in Seq(Outcomes) /\ Len(results) + 1 = cur
  BY DEF Typed, TypeOK, Place
<1>1. /\ results' = Append(results, outcome) /\ results' \in Seq(Outcomes)
      /\ Len(results') = Len(results) + 1 /\ results'[cur] = outcome
  BY <1>0 DEF Advance
<1>2. pc' = "reserve" /\ pc' \in Pcs /\ pc' \notin CasePcs
  BY DEF Advance, Pcs, CasePcs
<1>3. cur' \in 1 .. Len(Order) + 1 /\ repairs' \in 0 .. RepairLimit /\ bundle' \in Bytes
  BY Constants, Case DEF Advance, Bytes
<1>4. ProcessOK'
  BY <1>1, <1>2, <1>3 DEF ProcessOK, Advance, Typed, TypeOK, bounds
<1>5. Place'
  BY <1>0, <1>1, <1>2 DEF Place, Advance
<1> QED
  BY <1>1, <1>4, <1>5

(* A step to another position of the same case.                             *)
LEMMA Moved ==
  ASSUME Typed, NEW next, Goto(next), pc \in Pcs \ {"down", "freeze", "prepare", "index"},
         cur <= Len(Order), next \in CasePcs,
         next = "repair" => repairs < RepairLimit,
         pc \in {"reserve", "generate", "replayed"} => next \in {"generate", "replayed"},
         next \in {"publishing", "verify", "ready", "persist", "accept", "seal", "sealed"} =>
           pc \in {"publishing", "verify", "ready", "persist", "accept", "seal", "sealed"},
         crashed' \in BOOLEAN, faults' \in 0 .. MaxTroubles, runs' = runs
  PROVE  ProcessOK' /\ Place' /\ case' = case /\ pc' = next
<1>1. /\ pc' = next /\ building' = building /\ seen' = seen /\ resumed' = resumed /\ cur' = cur
      /\ snap' = snap /\ results' = results /\ bundle' = bundle /\ repairs' = repairs
      /\ case' = case
  BY DEF Goto, proc, case
<1>2. ProcessOK'
  BY <1>1 DEF ProcessOK, Typed, TypeOK, CasePcs
<1>3. pc \in CasePcs \cup {"reserve"} /\ (pc \in CasePcs \/ next \in {"generate", "replayed"})
  BY DEF CasePcs
<1>4. Place'
  BY <1>1, <1>3 DEF Place, Typed, CasePcs
<1> QED
  BY <1>1, <1>2, <1>4

LEMMA TypeInit == Init => Typed
<1> SUFFICES ASSUME Init PROVE Typed
  OBVIOUS
<1>1. kg \in Graph
  BY DEF Init, NoSnapshots, Graph
<1>2. NoRecord \in Record
  BY DEF NoRecord, Record, CaseStatus, Bytes
<1>3. FilesOK
  BY Constants, NothingTyped DEF Init, FilesOK, JournalStatus
<1>4. GraphOK
  BY <1>1, <1>2 DEF Init, GraphOK
<1>5. RowsOK
  BY <1>2 DEF Init, RowsOK, RunStatus
<1>6. results = <<>> /\ Len(results) = 0 /\ results \in Seq(Outcomes) /\ bundle \in Bytes
  BY DEF Init, Bytes
<1>7. pc = "down" /\ pc \in Pcs /\ pc \notin CasePcs
  BY DEF Init, Pcs, CasePcs
<1>8. ProcessOK
  <2>1. building \in [Cases -> Ids \cup {NoId}] /\ seen \in Framework /\ snap \in Ids \cup {NoId}
    BY NothingTyped DEF Init
  <2>2. cur = 1 /\ repairs = 0 /\ resumed \in BOOLEAN /\ crashed \in BOOLEAN
    BY DEF Init
  <2>3. faults \in 0 .. MaxTroubles /\ runs \in 0 .. MaxRuns
    BY Constants DEF Init
  <2> QED
    BY <1>6, <1>7, <2>1, <2>2, <2>3, Constants DEF ProcessOK
<1>9. Place
  BY <1>6, <1>7 DEF Init, Place
<1> QED
  BY <1>3, <1>4, <1>5, <1>8, <1>9, TypeParts DEF Typed
-----------------------------------------------------------------------------
(* What the writes to the files and the journals of a case do.              *)

LEMMA FilesParts ==
  ASSUME Typed PROVE FilesOK /\ GraphOK /\ RowsOK /\ ProcessOK /\ Place
  BY TypeParts DEF Typed

LEMMA JournaledWrites ==
  ASSUME FilesOK, case \in Cases, NEW status \in JournalStatus, NEW entries \in BOOLEAN,
         Journaled(status, entries)
  PROVE  /\ journal' \in [Cases -> [status : JournalStatus, entries : BOOLEAN]]
         /\ meta' \in [Cases -> JournalStatus]
         /\ journal'[case] = [status |-> status, entries |-> entries] /\ meta'[case] = status
         /\ \A c \in Cases : c # case => journal'[c] = journal[c] /\ meta'[c] = meta[c]
  BY DEF Journaled, FilesOK

LEMMA FileWrites ==
  ASSUME FilesOK, case \in Cases, NEW b \in Bytes, fs' = [fs EXCEPT !.file[case] = b]
  PROVE  /\ fs' \in Framework /\ fs'.file[case] = b
         /\ \A c \in Cases : c # case => fs'.file[c] = fs.file[c]
<1>1. fs \in Framework
  BY DEF FilesOK
<1> QED
  BY <1>1, WrittenFile, FileOfFramework

LEMMA UndoWrites ==
  ASSUME FilesOK, case \in Cases, Undo
  PROVE  /\ FilesOK'
         /\ touched' = touched /\ edits' = edits
         /\ journal'[case] = [status |-> "ROLLED_BACK", entries |-> journal[case].entries]
         /\ meta'[case] = "ROLLED_BACK"
         /\ fs'.file[case] = IF journal[case].entries THEN Absent ELSE fs.file[case]
         /\ \A c \in Cases : c # case =>
              /\ journal'[c] = journal[c] /\ meta'[c] = meta[c] /\ fs'.file[c] = fs.file[c]
<1> DEFINE undone == IF journal[case].entries THEN Absent ELSE fs.file[case]
<1>1. undone \in Bytes /\ fs' = [fs EXCEPT !.file[case] = undone]
  BY FileOfFramework DEF FilesOK, Undo, file, Bytes
<1>2. journal[case].entries \in BOOLEAN /\ "ROLLED_BACK" \in JournalStatus
  BY DEF FilesOK, JournalStatus
<1>3. Journaled("ROLLED_BACK", journal[case].entries) /\ touched' = touched /\ edits' = edits
  BY DEF Undo
<1> QED
  BY <1>1, <1>2, <1>3, JournaledWrites, FileWrites DEF FilesOK

(* The steps that leave the framework as it is.                             *)
KeepsFiles ==
  \/ Start \/ FreezeInputs \/ PrepareFromActive \/ PrepareRefused \/ PrepareByIndex
  \/ IndexActivate \/ IndexFails \/ FinishRun \/ ReserveRevision \/ ReserveFresh \/ Generate
  \/ OpenDrift \/ ValidateOk \/ ValidateNotOk \/ Repair \/ RollbackDrift \/ RecordBlocker
  \/ PublishBuilding \/ PublishSaved \/ VerifyActivate \/ VerifySaved \/ ProjectCase
  \/ AcceptCase \/ SealMismatch \/ ReplayAdvances \/ ReplayNotVisible
  \/ Crash \/ IndexFramework

LEMMA KeptFiles == ASSUME KeepsFiles PROVE UNCHANGED framework
  BY DEF KeepsFiles, Start, FreezeInputs, PrepareFromActive, PrepareRefused, PrepareByIndex,
         IndexActivate, IndexFails, FinishRun, ReserveRevision, ReserveFresh, Generate, OpenDrift,
         ValidateOk, ValidateNotOk, Repair, RollbackDrift, RecordBlocker, PublishBuilding,
         PublishSaved, VerifyActivate, VerifySaved, ProjectCase, AcceptCase, SealMismatch,
         ReplayAdvances, ReplayNotVisible, Crash, IndexFramework

LEMMA KeptFilesOK == ASSUME FilesOK, UNCHANGED framework PROVE FilesOK'
  BY DEF framework, FilesOK

(* What a step may do to the files: they, their journal and the history     *)
(* stay, or the case in hand is written, or a person edits.                 *)
LEMMA RollbackOpenWrites ==
  ASSUME FilesOK, case \in Cases, RollbackOpen
  PROVE  /\ FilesOK'
         /\ UNCHANGED framework \/ (journal[case].status = "OPEN" /\ Undo)
<1>1. CASE Undo /\ journal[case].status = "OPEN"
  BY <1>1, UndoWrites
<1>2. CASE UNCHANGED framework
  BY <1>2, KeptFilesOK
<1> QED
  BY <1>1, <1>2 DEF RollbackOpen

LEMMA FilesNext ==
  ASSUME Typed, [Next]_vars PROVE FilesOK'
<1>0. FilesOK /\ ProcessOK /\ Place
  BY FilesParts
<1>c. pc \in CasePcs => case \in Cases
  BY Case, <1>0 DEF Place
<1>1. CASE KeepsFiles \/ UNCHANGED vars
  BY <1>0, <1>1, KeptFiles, KeptFilesOK DEF vars
<1>2. CASE ReserveAccepted
  <2>1. case \in Cases
    BY <1>2, Case DEF ReserveAccepted, Reserving
  <2> QED
    BY <1>0, <1>2, <2>1, JournaledWrites, KeptFilesOK DEF ReserveAccepted, FilesOK, JournalStatus
<1>3. CASE OpenReconcile \/ RollbackCase
  BY <1>0, <1>c, <1>3, UndoWrites DEF OpenReconcile, RollbackCase, CasePcs, Pcs
<1>4. CASE ApplyFails \/ RepairRaises \/ PublishFails \/ VerifyFails
  <2>1. pc \in CasePcs /\ RollbackOpen
    BY <1>4 DEF ApplyFails, RepairRaises, PublishFails, VerifyFails, Unpublish, CasePcs, Pcs
  <2> QED
    BY <1>0, <1>c, <2>1, RollbackOpenWrites
<1>5. CASE OpenFresh
  <2>1. case \in Cases
    BY <1>c, <1>5 DEF OpenFresh, CasePcs, Pcs
  <2> QED
    BY <1>0, <1>5, <2>1, JournaledWrites DEF OpenFresh, FilesOK, JournalStatus
<1>6. CASE ApplyBundle
  <2>1. case \in Cases /\ bundle \in Bytes
    BY <1>c, <1>0, <1>6 DEF ApplyBundle, CasePcs, Pcs, ProcessOK
  <2> QED
    BY <1>0, <1>6, <2>1, JournaledWrites, FileWrites DEF ApplyBundle, FilesOK, JournalStatus
<1>7. CASE ApplyInterrupted
  <2>1. case \in Cases /\ Partial \in Bytes
    BY <1>c, <1>7 DEF ApplyInterrupted, CasePcs, Pcs, Bytes
  <2> QED
    BY <1>0, <1>7, <2>1, FileWrites DEF ApplyInterrupted, FilesOK
<1>8. CASE SealTransaction \/ SealSaved
  <2>1. case \in Cases
    BY <1>c, <1>8 DEF SealTransaction, SealSaved, CasePcs, Pcs
  <2> QED
    BY <1>0, <1>8, <2>1 DEF SealTransaction, SealSaved, FilesOK, JournalStatus
<1>9. CASE Edit
  <2>1. edits' \in 0 .. MaxTroubles /\ edits + 1 \in 0 .. MaxTroubles
    BY <1>0, <1>9, Constants DEF Edit, FilesOK, ProcessOK
  <2>2. Foreign \in Bytes /\ Absent \in Bytes
    BY DEF Bytes
  <2>3. fs' \in Framework /\ touched' \subseteq Cases
    <3>1. CASE fs' = [fs EXCEPT !.base = edits + 1] /\ UNCHANGED touched
      BY <1>0, <2>1, <3>1, WrittenBase DEF FilesOK
    <3>2. ASSUME NEW c \in Cases, NEW b \in {Foreign, Absent},
                 fs' = [fs EXCEPT !.file[c] = b], touched' = touched \cup {c}
          PROVE  fs' \in Framework /\ touched' \subseteq Cases
      BY <1>0, <2>2, <3>2, WrittenFile DEF FilesOK
    <3> QED
      BY <1>9, <3>1, <3>2 DEF Edit
  <2> QED
    BY <1>0, <1>9, <2>1, <2>3 DEF Edit, FilesOK
<1> QED
  BY <1>1, <1>2, <1>3, <1>4, <1>5, <1>6, <1>7, <1>8, <1>9 DEF Next, Step, KeepsFiles
-----------------------------------------------------------------------------
(* The steps that leave the graph, and the rows, as they are.               *)

KeepsGraph ==
  \/ Start \/ FreezeInputs \/ PrepareFromActive \/ PrepareRefused \/ FinishRun
  \/ ReserveRevision \/ ReserveAccepted \/ ReserveFresh \/ Generate
  \/ OpenReconcile \/ OpenDrift \/ OpenFresh \/ ApplyBundle \/ ApplyInterrupted \/ ApplyFails
  \/ ValidateOk \/ ValidateNotOk \/ Repair \/ RepairRaises \/ RollbackCase \/ RollbackDrift
  \/ RecordBlocker \/ AcceptCase \/ SealTransaction \/ SealMismatch \/ SealSaved
  \/ ReplayAdvances \/ ReplayNotVisible \/ Crash \/ Edit

LEMMA KeptGraph == ASSUME KeepsGraph PROVE UNCHANGED graph
  BY DEF KeepsGraph, Start, FreezeInputs, PrepareFromActive, PrepareRefused, FinishRun,
         ReserveRevision, ReserveAccepted, ReserveFresh, Generate, OpenReconcile, OpenDrift,
         OpenFresh, ApplyBundle, ApplyInterrupted, ApplyFails, ValidateOk, ValidateNotOk, Repair,
         RepairRaises, RollbackCase, RollbackDrift, RecordBlocker, AcceptCase, SealTransaction,
         SealMismatch, SealSaved, ReplayAdvances, ReplayNotVisible, Crash, Edit

KeepsRows ==
  \/ Start \/ PrepareRefused \/ PrepareByIndex \/ IndexFails \/ ReserveAccepted \/ Generate
  \/ OpenReconcile \/ OpenDrift \/ OpenFresh \/ ApplyBundle \/ ApplyInterrupted \/ ApplyFails
  \/ ValidateOk \/ ValidateNotOk \/ Repair \/ RepairRaises \/ RollbackCase \/ RollbackDrift
  \/ PublishBuilding \/ PublishSaved \/ PublishFails \/ VerifyActivate \/ VerifyFails
  \/ VerifySaved \/ ProjectCase \/ SealTransaction \/ SealMismatch \/ SealSaved
  \/ ReplayAdvances \/ ReplayNotVisible \/ Crash \/ Edit \/ IndexFramework

LEMMA KeptRows == ASSUME KeepsRows PROVE UNCHANGED rows
  BY DEF KeepsRows, Start, PrepareRefused, PrepareByIndex, IndexFails, ReserveAccepted, Generate,
         OpenReconcile, OpenDrift, OpenFresh, ApplyBundle, ApplyInterrupted, ApplyFails,
         ValidateOk, ValidateNotOk, Repair, RepairRaises, RollbackCase, RollbackDrift,
         PublishBuilding, PublishSaved, PublishFails, Unpublish, VerifyActivate, VerifyFails,
         VerifySaved, ProjectCase, SealTransaction, SealMismatch, SealSaved, ReplayAdvances,
         ReplayNotVisible, Crash, Edit, IndexFramework

LEMMA ProposedTyped ==
  ASSUME FilesOK PROVE proposed \in Ids /\ <<"path", fs>> \in Ids
  BY Identities DEF FilesOK, proposed

LEMMA AcceptedTyped ==
  ASSUME Typed, pc \in {"persist", "accept"} PROVE accepted \in Record /\ case \in Cases
  BY Case DEF accepted, Record, CaseStatus, Typed, TypeOK, Place, CasePcs, Pcs

LEMMA GraphNext ==
  ASSUME Typed, [Next]_vars PROVE GraphOK'
<1>0. FilesOK /\ GraphOK /\ ProcessOK /\ Place /\ kg \in Graph
  BY FilesParts DEF GraphOK
<1>c. pc \in CasePcs => case \in Cases
  BY Case, <1>0 DEF Place
<1>1. CASE KeepsGraph \/ UNCHANGED vars
  BY <1>0, <1>1, KeptGraph DEF vars, graph, GraphOK
<1>2. CASE PrepareByIndex \/ IndexActivate \/ IndexFails \/ IndexFramework
  <2>1. CASE PrepareByIndex
    BY <1>0, <2>1, ProposedTyped, GraphTypes DEF PrepareByIndex, GraphOK
  <2>2. CASE IndexActivate
    BY <1>0, <2>2, GraphTypes DEF IndexActivate, GraphOK, Place
  <2>3. CASE IndexFails
    BY <1>0, <2>3, GraphTypes DEF IndexFails, GraphOK, Place
  <2>4. CASE IndexFramework
    BY <1>0, <2>4, ProposedTyped, GraphTypes DEF IndexFramework, GraphOK
  <2> QED
    BY <1>2, <2>1, <2>2, <2>3, <2>4
<1>3. CASE PublishBuilding
  BY <1>0, <1>3, ProposedTyped, GraphTypes DEF PublishBuilding, GraphOK
<1>4. CASE PublishSaved
  <2>1. case \in Cases /\ bundle \in Versions /\ building[case] \in Ids
    BY <1>c, <1>0, <1>4 DEF PublishSaved, CasePcs, Pcs, Place
  <2> QED
    BY <1>0, <1>4, <2>1 DEF PublishSaved, GraphOK
<1>5. CASE PublishFails \/ VerifyFails
  <2>1. case \in Cases
    BY <1>c, <1>5 DEF PublishFails, VerifyFails, CasePcs, Pcs
  <2>2. PICK g \in Graph : Unpublish(g)
    BY <1>0, <1>5, GraphTypes DEF PublishFails, VerifyFails, Place
  <2> QED
    BY <1>0, <2>1, <2>2 DEF Unpublish, GraphOK
<1>6. CASE VerifyActivate
  BY <1>0, <1>6, GraphTypes DEF VerifyActivate, GraphOK, Place
<1>7. CASE VerifySaved
  BY <1>0, <1>7 DEF VerifySaved, GraphOK
<1>8. CASE ProjectCase
  BY <1>0, <1>8, AcceptedTyped DEF ProjectCase, GraphOK
<1> QED
  BY <1>1, <1>2, <1>3, <1>4, <1>5, <1>6, <1>7, <1>8 DEF Next, Step, KeepsGraph

LEMMA RowsNext ==
  ASSUME Typed, [Next]_vars PROVE RowsOK'
<1>0. RowsOK /\ ProcessOK /\ Place
  BY FilesParts
<1>c. pc \in CasePcs => case \in Cases
  BY Case, <1>0 DEF Place
<1>1. CASE KeepsRows \/ UNCHANGED vars
  BY <1>0, <1>1, KeptRows DEF vars, rows, RowsOK
<1>2. CASE FreezeInputs
  BY <1>0, <1>2 DEF FreezeInputs, RowsOK, ProcessOK
<1>3. CASE PrepareFromActive \/ IndexActivate
  BY <1>0, <1>3 DEF PrepareFromActive, IndexActivate, Running, RowsOK, RunStatus
<1>4. CASE FinishRun
  BY <1>0, <1>4 DEF FinishRun, RowsOK, RunStatus
<1>5. CASE ReserveRevision \/ ReserveFresh
  <2>1. case \in Cases
    BY <1>5, Case DEF ReserveRevision, ReserveFresh, Reserving
  <2>2. [NoRecord EXCEPT !.status = "RESERVED"] \in Record
    BY DEF NoRecord, Record, CaseStatus, Bytes
  <2> QED
    BY <1>0, <1>5, <2>1, <2>2 DEF ReserveRevision, ReserveFresh, RowsOK
<1>6. CASE RecordBlocker
  <2>1. case \in Cases
    BY <1>c, <1>6 DEF RecordBlocker, CasePcs, Pcs
  <2>2. [tc EXCEPT ![case].status = "BLOCKED"] \in [Cases -> Record]
    BY <1>0, <2>1 DEF RowsOK, Record, CaseStatus
  <2> QED
    BY <1>0, <1>6, <2>1, <2>2 DEF RecordBlocker, RowsOK
<1>7. CASE AcceptCase
  BY <1>0, <1>7, AcceptedTyped DEF AcceptCase, RowsOK
<1> QED
  BY <1>1, <1>2, <1>3, <1>4, <1>5, <1>6, <1>7 DEF Next, Step, KeepsRows
-----------------------------------------------------------------------------
(* The process.                                                             *)

Stops ==
  \/ PrepareRefused \/ IndexFails \/ FinishRun \/ OpenDrift \/ ApplyInterrupted \/ ApplyFails
  \/ RepairRaises \/ RollbackDrift \/ PublishFails \/ VerifyFails \/ SealMismatch
  \/ ReplayNotVisible \/ Crash

LEMMA StopsStop ==
  ASSUME FilesOK, ProcessOK, Stops
  PROVE  Stop /\ crashed' \in BOOLEAN /\ faults' \in 0 .. MaxTroubles /\ runs' = runs
<1>1. Stop /\ (Trouble \/ UNCHANGED bounds) /\ (crashed' = crashed \/ crashed' = TRUE)
  <2>1. CASE PublishFails
    BY <2>1 DEF PublishFails, Unpublish, Fault, bounds
  <2> QED
    BY <2>1 DEF Dies, Fault, bounds, Stops, PrepareRefused, IndexFails, FinishRun, OpenDrift,
         ApplyInterrupted, ApplyFails, RepairRaises, RollbackDrift, VerifyFails, Unpublish, SealMismatch,
         ReplayNotVisible, Crash
<1>2. CASE Trouble
  <2>1. faults' \in 0 .. MaxTroubles /\ runs' = runs
    BY <1>2, Constants DEF Trouble, FilesOK, ProcessOK
  <2> QED
    BY <1>1, <2>1 DEF ProcessOK
<1> QED
  BY <1>1, <1>2 DEF bounds, ProcessOK

Advances ==
  \/ ReserveRevision \/ RecordBlocker \/ SealSaved \/ ReplayAdvances

Moves ==
  \/ ReserveAccepted \/ ReserveFresh \/ OpenReconcile \/ OpenFresh \/ ApplyBundle
  \/ ValidateOk \/ ValidateNotOk \/ RollbackCase \/ PublishSaved \/ VerifyActivate
  \/ VerifySaved \/ ProjectCase \/ AcceptCase \/ SealTransaction

(* The outcome of a case is the last result, and the next case comes.       *)
LEMMA AdvancesAdvance ==
  ASSUME Typed, Advances
  PROVE  /\ cur <= Len(Order) /\ UNCHANGED bounds
         /\ \E outcome \in Outcomes, s \in Ids \cup {NoId} : Advance(outcome, s)
<1>1. cur <= Len(Order)
  BY DEF Typed, Place, Advances, ReserveRevision, Reserving, RecordBlocker, SealSaved,
         ReplayAdvances, CasePcs, Pcs
<1>2. snap \in Ids \cup {NoId} /\ tc[case].snapshot \in Ids \cup {NoId}
  BY <1>1, Case DEF Typed, TypeOK, Record
<1> QED
  BY <1>1, <1>2 DEF Advances, ReserveRevision, RecordBlocker, SealSaved, ReplayAdvances, Outcomes

LEMMA MovesMove ==
  ASSUME Typed, Moves
  PROVE  ProcessOK' /\ Place' /\ case' = case /\ case \in Cases /\ bundle' = bundle
         /\ building' = building /\ snap' = snap /\ results' = results /\ cur' = cur
         /\ seen' = seen
<1>0. FilesOK /\ ProcessOK /\ Place
  BY FilesParts
<1>1. cur <= Len(Order) /\ case \in Cases
  <2>1. cur <= Len(Order)
    BY <1>0 DEF Place, Moves, ReserveAccepted, ReserveFresh, Reserving, OpenReconcile, OpenFresh,
         ApplyBundle, ValidateOk, ValidateNotOk, RollbackCase, PublishSaved, VerifyActivate,
         VerifySaved, ProjectCase, AcceptCase, SealTransaction, CasePcs, Pcs
  <2> QED
    BY <2>1, Case
<1>2. crashed' \in BOOLEAN /\ faults' \in 0 .. MaxTroubles /\ runs' = runs
  BY <1>0 DEF ProcessOK, bounds, Moves, ReserveAccepted, ReserveFresh, OpenReconcile, OpenFresh,
         ApplyBundle, ValidateOk, ValidateNotOk, RollbackCase, PublishSaved, VerifyActivate,
         VerifySaved, ProjectCase, AcceptCase, SealTransaction
<1>3. /\ Goto(pc') /\ pc' \in CasePcs
      /\ pc \in Pcs \ {"down", "freeze", "prepare", "index"}
      /\ pc' = "repair" => repairs < RepairLimit
      /\ pc \in {"reserve", "generate", "replayed"} => pc' \in {"generate", "replayed"}
      /\ pc' \in {"publishing", "verify", "ready", "persist", "accept", "seal", "sealed"} =>
           pc \in {"publishing", "verify", "ready", "persist", "accept", "seal", "sealed"}
  <2> USE DEF Goto, CasePcs, Pcs
  <2>1. CASE ReserveAccepted \/ ReserveFresh
    BY <2>1 DEF ReserveAccepted, ReserveFresh, Reserving
  <2>2. CASE OpenReconcile \/ OpenFresh \/ ApplyBundle
    BY <2>2 DEF OpenReconcile, OpenFresh, ApplyBundle
  <2>3. CASE ValidateOk \/ ValidateNotOk \/ RollbackCase
    BY <2>3 DEF ValidateOk, ValidateNotOk, RollbackCase
  <2>4. CASE PublishSaved \/ VerifyActivate \/ VerifySaved
    BY <2>4 DEF PublishSaved, VerifyActivate, VerifySaved
  <2>5. CASE ProjectCase \/ AcceptCase \/ SealTransaction
    BY <2>5 DEF ProjectCase, AcceptCase, SealTransaction
  <2> QED
    BY <2>1, <2>2, <2>3, <2>4, <2>5 DEF Moves
<1>4. PICK next \in CasePcs : next = pc'
  BY <1>3
<1>5. ProcessOK' /\ Place' /\ case' = case
  BY <1>1, <1>2, <1>3, <1>4, Moved
<1>6. bundle' = bundle /\ building' = building /\ snap' = snap /\ results' = results
      /\ cur' = cur /\ seen' = seen
  BY <1>3 DEF Goto, proc
<1> QED
  BY <1>1, <1>5, <1>6

(* Nothing of the process but, perhaps, the counters of the bounds.         *)
LEMMA ProcessKept ==
  ASSUME Typed, UNCHANGED <<building, pc, proc, bounds>> PROVE ProcessOK' /\ Place' /\ case' = case
<1>1. case' = case
  BY DEF case, proc
<1> QED
  BY <1>1, FilesParts DEF ProcessOK, Place, proc, bounds

LEMMA ParentMoves ==
  ASSUME Typed, Start \/ FreezeInputs \/ PrepareFromActive \/ PrepareByIndex \/ IndexActivate
  PROVE  ProcessOK' /\ Place'
<1>0. FilesOK /\ GraphOK /\ ProcessOK /\ Place
  BY FilesParts
<1>1. pc' \in {"freeze", "prepare", "index", "reserve"} /\ pc' \in Pcs /\ pc' \notin CasePcs
      /\ pc' # "repair" /\ pc' \notin {"publishing", "verify", "ready", "persist", "accept",
      "seal", "sealed"}
  BY DEF Start, FreezeInputs, PrepareFromActive, PrepareByIndex, IndexActivate, Running,
         CasePcs, Pcs
<1>2. results' = results /\ bundle' = bundle /\ repairs' = repairs /\ building' = building
      /\ cur' = cur /\ faults' = faults /\ crashed' = crashed /\ seen' \in Framework /\ resumed' \in BOOLEAN
  BY <1>0 DEF Start, FreezeInputs, PrepareFromActive, PrepareByIndex, IndexActivate, Running,
         bounds, ProcessOK, FilesOK
<1>3. runs' \in 0 .. MaxRuns
  BY <1>0, Constants DEF Start, FreezeInputs, PrepareFromActive, PrepareByIndex, IndexActivate,
         bounds, ProcessOK
<1>4. snap' \in Ids \cup {NoId} /\ (pc' = "index" => snap' \in Ids)
  <2>1. kg.active \subseteq Ids
    BY <1>0 DEF GraphOK, Graph
  <2>2. ActiveFor(seen) \subseteq Ids
    BY <2>1 DEF ActiveFor
  <2>3. CASE Start \/ FreezeInputs
    BY <1>0, <2>3 DEF Start, FreezeInputs, ProcessOK
  <2>4. CASE PrepareFromActive
    BY <2>2, <2>4 DEF PrepareFromActive, Running
  <2>5. CASE PrepareByIndex
    BY <1>0, <2>5, ProposedTyped DEF PrepareByIndex
  <2>6. CASE IndexActivate
    BY <1>0, <2>6 DEF IndexActivate, Running, ProcessOK
  <2> QED
    BY <2>3, <2>4, <2>5, <2>6
<1>5. pc' \in {"freeze", "prepare", "index"} => cur' = 1
  BY <1>0, <1>2 DEF Start, FreezeInputs, PrepareFromActive, PrepareByIndex, IndexActivate,
         Running, Place
<1>6. ProcessOK'
  BY <1>0, <1>1, <1>2, <1>3, <1>4 DEF ProcessOK
<1> QED
  BY <1>0, <1>1, <1>2, <1>4, <1>5, <1>6 DEF Place

LEMMA ProcessNext ==
  ASSUME Typed, [Next]_vars PROVE ProcessOK' /\ Place'
<1>0. FilesOK /\ GraphOK /\ ProcessOK /\ Place
  BY FilesParts
<1>1. CASE Stops
  BY <1>0, <1>1, StopsStop, Stopped
<1>2. CASE Advances
  BY <1>2, AdvancesAdvance, Advanced
<1>3. CASE Moves
  BY <1>3, MovesMove
<1>4. CASE Edit \/ IndexFramework \/ UNCHANGED vars
  BY <1>4, ProcessKept DEF Edit, IndexFramework, vars
<1>5. CASE Start \/ FreezeInputs \/ PrepareFromActive \/ PrepareByIndex \/ IndexActivate
  BY <1>5, ParentMoves
<1>6. CASE Generate
  <2>1. case' = case /\ pc' = "open" /\ bundle' \in Versions /\ pc' \in Pcs
    BY <1>6 DEF Generate, case, Pcs
  <2> QED
    BY <1>0, <1>6, <2>1 DEF Generate, ProcessOK, Place, bounds, Bytes, CasePcs
<1>7. CASE Repair
  <2>1. pc' \in {"apply", "repair", "rollback"} /\ pc' \in Pcs /\ case' = case
    BY <1>7 DEF Repair, case, Pcs
  <2>2. bundle' \in Versions /\ bundle' \in Bytes
    BY <1>0, <1>7 DEF Repair, Place, CasePcs, Pcs, Bytes
  <2>3. repairs' \in 0 .. RepairLimit /\ (pc' = "repair" => repairs' < RepairLimit)
    BY <1>0, <1>7, Constants DEF Repair, Place, ProcessOK
  <2> QED
    BY <1>0, <1>7, <2>1, <2>2, <2>3 DEF Repair, ProcessOK, Place, bounds, CasePcs
<1>8. CASE PublishBuilding
  <2>1. case \in Cases /\ case' = case /\ pc' = "publishing" /\ pc' \in Pcs /\ bundle \in Versions
    BY <1>0, <1>8, Case DEF PublishBuilding, case, proc, Place, CasePcs, Pcs
  <2>2. building' \in [Cases -> Ids \cup {NoId}] /\ building'[case] \in Ids
    BY <1>0, <1>8, <2>1, ProposedTyped DEF PublishBuilding, ProcessOK
  <2> QED
    BY <1>0, <1>8, <2>1, <2>2 DEF PublishBuilding, ProcessOK, Place, proc, bounds, CasePcs
<1> QED
  BY <1>1, <1>2, <1>3, <1>4, <1>5, <1>6, <1>7, <1>8 DEF Next, Step, Stops, Advances, Moves

LEMMA TypedNext ==
  ASSUME Typed, [Next]_vars PROVE Typed'
<1>1. FilesOK' /\ GraphOK' /\ RowsOK' /\ ProcessOK' /\ Place'
  BY FilesNext, GraphNext, RowsNext, ProcessNext
<1>2. TypeOK'
  BY <1>1 DEF TypeOK, FilesOK, GraphOK, RowsOK, ProcessOK
<1> QED
  BY <1>1, <1>2 DEF Typed
-----------------------------------------------------------------------------
(* The files, the journal and the row of a case.                            *)

Attempt == CasePcs \ {"seal", "sealed", "replayed"}
Written == {"publish", "publishing", "verify", "ready", "persist", "accept"}

(* The three invariants of JournalMatchesRow, for one case.                 *)
Told(c) ==
  /\ Generated(c) /\ tc[c].status # "ACCEPTED" => journal[c] = [status |-> "OPEN", entries |-> TRUE]
  /\ tc[c].status = "ACCEPTED" =>
       /\ journal[c].entries /\ journal[c].status \in {"OPEN", "SEALED"}
       /\ c \notin touched => fs.file[c] = tc[c].version
  /\ journal[c].status = "SEALED" => tc[c].status = "ACCEPTED"
  /\ meta[c] = "SEALED" => journal[c].status = "SEALED"

(* What the position in the graph of a case says of its files and rows.     *)
Stands ==
  /\ pc \in Attempt => tc[case].status # "ACCEPTED"
  /\ pc = "apply" => journal[case].status = "OPEN"
  /\ pc \in Written \cup {"validate", "repair", "rollback", "seal"} =>
       journal[case] = [status |-> "OPEN", entries |-> TRUE]
  /\ pc \in Written => case \in touched \/ file = bundle
  /\ pc = "blocker" => journal[case].status = "ROLLED_BACK" /\ ~Generated(case)
  /\ pc \in {"seal", "sealed", "replayed"} => tc[case].status = "ACCEPTED"
  /\ pc \in {"sealed", "replayed"} => journal[case].status = "SEALED"

(* The accepted results are of accepted and sealed cases.                   *)
Settled ==
  \A i \in 1 .. Len(results) : results[i] = "ACCEPTED" =>
    tc[Order[i]].status = "ACCEPTED" /\ journal[Order[i]].status = "SEALED"

AllTold == \A c \in Cases : Told(c)

LEMMA ToldParts == AllTold <=> NothingUnowned /\ AcceptedStays /\ SealedAfterAcceptance
  BY DEF AllTold, Told, NothingUnowned, AcceptedStays, SealedAfterAcceptance

Same(c) ==
  /\ journal'[c] = journal[c] /\ meta'[c] = meta[c] /\ tc'[c] = tc[c]
  /\ fs'.file[c] = fs.file[c] /\ touched' = touched

LEMMA ToldSame ==
  ASSUME NEW c \in Cases, Told(c), Same(c) PROVE Told(c)'
  BY DEF Told, Same, Generated

(* Rolling back a case that is not accepted.                                *)
LEMMA ToldUndo ==
  ASSUME FilesOK, case \in Cases, Told(case), tc[case].status # "ACCEPTED", Undo, tc' = tc
  PROVE  AllTold => AllTold'
<1> SUFFICES ASSUME AllTold, NEW c \in Cases PROVE Told(c)'
  BY DEF AllTold
<1>1. CASE c # case
  BY <1>1, UndoWrites, ToldSame DEF AllTold, Same
<1>2. CASE c = case
  <2>1. ~Generated(c)'
    BY <1>2, UndoWrites, Constants, Distinct DEF Told, Generated
  <2> QED
    BY <1>2, <2>1, UndoWrites DEF Told
<1> QED
  BY <1>1, <1>2

LEMMA ToldKept ==
  ASSUME AllTold, UNCHANGED <<framework, tc>> PROVE AllTold'
  BY ToldSame DEF AllTold, Same, framework

LEMMA ToldRollbackOpen ==
  ASSUME FilesOK, case \in Cases, AllTold, tc[case].status # "ACCEPTED", RollbackOpen, tc' = tc
  PROVE  AllTold'
  BY ToldUndo, ToldKept, RollbackOpenWrites DEF AllTold

(* The writes to the files and the journal of the case in hand.             *)
LEMMA ToldWrites ==
  ASSUME Typed, AllTold, Stands,
         ReserveAccepted \/ OpenFresh \/ ApplyBundle \/ ApplyInterrupted \/ SealTransaction
         \/ SealSaved
  PROVE  AllTold'
<1>0. FilesOK /\ ProcessOK /\ Place
  BY FilesParts
<1>c. case \in Cases
  <2>1. cur <= Len(Order)
    BY <1>0 DEF Place, ReserveAccepted, Reserving, OpenFresh, ApplyBundle, ApplyInterrupted,
         SealTransaction, SealSaved, CasePcs, Pcs
  <2> QED
    BY <2>1, Case
<1>t. tc' = tc
  BY DEF ReserveAccepted, OpenFresh, ApplyBundle, ApplyInterrupted, SealTransaction, SealSaved, rows
<1> SUFFICES ASSUME NEW c \in Cases PROVE Told(c)'
  BY DEF AllTold
<1>u. Told(c) /\ Told(case)
  BY <1>c DEF AllTold
<1>1. CASE ReserveAccepted
  <2>1. CASE journal[case].status = "OPEN"
    <3>1. Journaled("SEALED", TRUE) /\ UNCHANGED <<fs, touched, edits>>
      BY <1>1, <2>1 DEF ReserveAccepted
    <3>2. journal'[case] = [status |-> "SEALED", entries |-> TRUE]
          /\ (c # case => Same(c))
      BY <1>0, <1>c, <1>t, <3>1, JournaledWrites DEF JournalStatus, Same
    <3>3. CASE c = case
      BY <1>1, <1>t, <1>u, <3>1, <3>2, <3>3 DEF Told, ReserveAccepted, AcceptedMatches, Generated
    <3> QED
      BY <1>u, <3>2, <3>3, ToldSame
  <2>2. CASE journal[case].status # "OPEN"
    BY <1>1, <1>t, <2>2, ToldKept DEF ReserveAccepted, AllTold
  <2> QED
    BY <2>1, <2>2
<1>2. CASE OpenFresh
  <2>1. Journaled("OPEN", FALSE) /\ UNCHANGED <<fs, touched, edits>>
    BY <1>2 DEF OpenFresh
  <2>2. tc[case].status # "ACCEPTED" /\ ~Generated(case)
    BY <1>2, <1>u DEF OpenFresh, Stands, Attempt, CasePcs, Pcs, Told
  <2>3. journal'[case] = [status |-> "OPEN", entries |-> FALSE] /\ meta'[case] = "OPEN"
        /\ (c # case => Same(c))
    BY <1>0, <1>c, <1>t, <2>1, JournaledWrites DEF JournalStatus, Same
  <2>4. CASE c = case
    BY <1>t, <2>1, <2>2, <2>3, <2>4 DEF Told, Generated
  <2> QED
    BY <1>u, <2>3, <2>4, ToldSame
<1>3. CASE ApplyBundle
  <2>1. Journaled("OPEN", TRUE) /\ touched' = touched /\ fs' = [fs EXCEPT !.file[case] = bundle]
        /\ bundle \in Bytes
    BY <1>0, <1>3 DEF ApplyBundle, ProcessOK
  <2>2. tc[case].status # "ACCEPTED"
    BY <1>3 DEF ApplyBundle, Stands, Attempt, CasePcs, Pcs
  <2>3. journal'[case] = [status |-> "OPEN", entries |-> TRUE] /\ meta'[case] = "OPEN"
        /\ (c # case => Same(c))
    BY <1>0, <1>c, <1>t, <2>1, JournaledWrites, FileWrites DEF JournalStatus, Same
  <2>4. CASE c = case
    BY <1>t, <2>1, <2>2, <2>3, <2>4 DEF Told
  <2> QED
    BY <1>u, <2>3, <2>4, ToldSame
<1>4. CASE ApplyInterrupted
  <2>1. /\ journal' = [journal EXCEPT ![case].entries = TRUE] /\ touched' = touched /\ meta' = meta
        /\ fs' = [fs EXCEPT !.file[case] = Partial] /\ Partial \in Bytes
    BY <1>4 DEF ApplyInterrupted, Bytes
  <2>2. tc[case].status # "ACCEPTED" /\ journal[case].status = "OPEN"
    BY <1>4 DEF ApplyInterrupted, Stands, Attempt, CasePcs, Pcs
  <2>3. /\ journal'[case] = [status |-> "OPEN", entries |-> TRUE]
        /\ \A d \in Cases : d # case => journal'[d] = journal[d]
    BY <1>0, <1>c, <2>1, <2>2 DEF FilesOK
  <2>4. c # case => Same(c)
    BY <1>0, <1>c, <1>t, <2>1, <2>3, FileWrites DEF Same
  <2>5. CASE c = case
    BY <1>t, <1>u, <2>1, <2>2, <2>3, <2>5 DEF Told
  <2> QED
    BY <1>u, <2>4, <2>5, ToldSame
<1>5. CASE SealTransaction
  <2>1. /\ journal' = [journal EXCEPT ![case].status = "SEALED"]
        /\ touched' = touched /\ meta' = meta /\ fs' = fs
    BY <1>5 DEF SealTransaction
  <2>2. tc[case].status = "ACCEPTED"
    BY <1>5 DEF SealTransaction, Stands
  <2>3. /\ journal'[case].status = "SEALED" /\ journal'[case].entries = journal[case].entries
        /\ \A d \in Cases : d # case => journal'[d] = journal[d]
    BY <1>0, <1>c, <2>1 DEF FilesOK
  <2>4. c # case => Same(c)
    BY <1>t, <2>1, <2>3 DEF Same
  <2>5. CASE c = case
    BY <1>t, <1>u, <2>1, <2>2, <2>3, <2>5 DEF Told
  <2> QED
    BY <1>u, <2>4, <2>5, ToldSame
<1>6. CASE SealSaved
  <2>1. /\ meta' = [meta EXCEPT ![case] = "SEALED"] /\ journal' = journal
        /\ touched' = touched /\ fs' = fs
    BY <1>6 DEF SealSaved
  <2>2. journal[case].status = "SEALED"
    BY <1>6 DEF SealSaved, Stands
  <2> QED
    BY <1>0, <1>c, <1>t, <1>u, <2>1, <2>2, ToldSame DEF Same, Told, Generated, FilesOK
<1> QED
  BY <1>1, <1>2, <1>3, <1>4, <1>5, <1>6

(* The writes to the row of the case in hand.                               *)
LEMMA ToldRows ==
  ASSUME Typed, AllTold, Stands, ReserveFresh \/ RecordBlocker \/ AcceptCase
  PROVE  AllTold'
<1>0. FilesOK /\ RowsOK /\ ProcessOK /\ Place
  BY FilesParts
<1>c. case \in Cases
  <2>1. cur <= Len(Order)
    BY <1>0 DEF Place, ReserveFresh, Reserving, RecordBlocker, AcceptCase, CasePcs, Pcs
  <2> QED
    BY <2>1, Case
<1>f. journal' = journal /\ meta' = meta /\ fs' = fs /\ touched' = touched
  BY DEF ReserveFresh, RecordBlocker, AcceptCase, framework
<1> SUFFICES ASSUME NEW c \in Cases PROVE Told(c)'
  BY DEF AllTold
<1>u. Told(c) /\ Told(case) /\ tc[case].status # "ACCEPTED"
  BY <1>c DEF AllTold, ReserveFresh, RecordBlocker, AcceptCase, Stands, Attempt, CasePcs, Pcs
<1>1. CASE ReserveFresh
  BY <1>0, <1>1, <1>c, <1>f, <1>u DEF ReserveFresh, NoRecord, RowsOK, Told, Generated
<1>2. CASE RecordBlocker
  <2>1. tc' = [tc EXCEPT ![case].status = "BLOCKED"]
    BY <1>2, <1>u DEF RecordBlocker
  <2>2. tc'[case].status = "BLOCKED" /\ \A d \in Cases : d # case => tc'[d] = tc[d]
    BY <1>0, <1>c, <2>1 DEF RowsOK, Record
  <2> QED
    BY <1>f, <1>u, <2>2 DEF Told, Generated
<1>3. CASE AcceptCase
  <2>1. tc'[case] = accepted /\ \A d \in Cases : d # case => tc'[d] = tc[d]
    BY <1>0, <1>3, <1>c DEF AcceptCase, RowsOK
  <2>2. accepted.status = "ACCEPTED" /\ accepted.version = bundle
    BY DEF accepted
  <2>3. journal[case].entries /\ journal[case].status = "OPEN" /\ (case \in touched \/ file = bundle)
    BY <1>3 DEF AcceptCase, Stands, Written
  <2> QED
    BY <1>f, <1>u, <2>1, <2>2, <2>3 DEF Told, Generated, file
<1> QED
  BY <1>1, <1>2, <1>3

LEMMA ToldEdit ==
  ASSUME FilesOK, AllTold, Edit PROVE AllTold'
<1> SUFFICES ASSUME NEW c \in Cases PROVE Told(c)'
  BY DEF AllTold
<1>1. Told(c) /\ journal' = journal /\ meta' = meta /\ tc' = tc
  BY DEF AllTold, Edit, rows
<1>2. CASE fs' = [fs EXCEPT !.base = edits + 1] /\ UNCHANGED touched
  <2>1. fs'.file = fs.file
    BY <1>2 DEF FilesOK, Framework
  <2> QED
    BY <1>1, <1>2, <2>1 DEF Told, Generated
<1>3. ASSUME NEW d \in Cases, NEW b \in {Foreign, Absent},
             fs' = [fs EXCEPT !.file[d] = b], touched' = touched \cup {d}
      PROVE  Told(c)'
  <2>1. fs'.file[c] = IF c = d THEN b ELSE fs.file[c]
    BY <1>3 DEF FilesOK, Framework
  <2>2. b \notin Versions \cup {Partial}
    BY Constants, Distinct
  <2> QED
    BY <1>1, <1>3, <2>1, <2>2 DEF Told, Generated
<1> QED
  BY <1>2, <1>3 DEF Edit

LEMMA ToldNext ==
  ASSUME Typed, AllTold, Stands, [Next]_vars PROVE AllTold'
<1>0. FilesOK /\ ProcessOK /\ Place
  BY FilesParts
<1>1. CASE UNCHANGED <<framework, tc>>
  BY <1>1, ToldKept
<1>2. CASE ReserveFresh \/ RecordBlocker \/ AcceptCase
  BY <1>2, ToldRows
<1>3. CASE OpenReconcile \/ RollbackCase \/ ApplyFails \/ RepairRaises \/ PublishFails \/ VerifyFails
  <2>1. pc \in Attempt /\ tc' = tc
    BY <1>3 DEF OpenReconcile, RollbackCase, ApplyFails, RepairRaises, PublishFails, VerifyFails,
         Unpublish, Attempt, CasePcs, Pcs, rows
  <2>2. tc[case].status # "ACCEPTED" /\ case \in Cases
    BY <1>0, <2>1, Case DEF Stands, Attempt, Place
  <2>3. Undo \/ RollbackOpen
    BY <1>3 DEF OpenReconcile, RollbackCase, ApplyFails, RepairRaises, PublishFails, VerifyFails,
         Unpublish
  <2> QED
    BY <1>0, <2>1, <2>2, <2>3, ToldUndo, ToldRollbackOpen DEF AllTold
<1>4. CASE ReserveAccepted \/ OpenFresh \/ ApplyBundle \/ ApplyInterrupted \/ SealTransaction
           \/ SealSaved
  BY <1>4, ToldWrites
<1>5. CASE Edit
  BY <1>0, <1>5, ToldEdit
<1>6. CASE KeepsFiles /\ ~(ReserveFresh \/ RecordBlocker \/ AcceptCase)
  <2>1. tc' = tc
    BY <1>6 DEF KeepsFiles, Start, FreezeInputs, PrepareFromActive, PrepareRefused, PrepareByIndex,
         IndexActivate, IndexFails, FinishRun, ReserveRevision, Generate, OpenDrift,
         ValidateOk, ValidateNotOk, Repair, RollbackDrift, PublishBuilding, Running,
         PublishSaved, VerifyActivate, VerifySaved, ProjectCase, SealMismatch,
         ReplayAdvances, ReplayNotVisible, Crash, IndexFramework, rows
  <2> QED
    BY <1>6, <2>1, KeptFiles, ToldKept
<1>7. CASE UNCHANGED vars
  BY <1>7, ToldKept DEF vars, rows
<1> QED
  BY <1>1, <1>2, <1>3, <1>4, <1>5, <1>6, <1>7 DEF Next, Step, KeepsFiles
-----------------------------------------------------------------------------
LEMMA StandsStopped == ASSUME pc' \in {"down", "freeze", "prepare", "index", "reserve"} PROVE Stands'
  BY DEF Stands, Attempt, Written, CasePcs, Pcs

LEMMA StandsMoved ==
  ASSUME Typed, AllTold, Stands, Moves
  PROVE  Stands'
<1>0. FilesOK /\ RowsOK /\ ProcessOK /\ Place
  BY FilesParts
<1>m. case' = case /\ bundle' = bundle /\ case \in Cases
  BY MovesMove
<1>t. Told(case)
  BY <1>m DEF AllTold
<1>1. CASE ReserveAccepted
  <2>1. pc' = "replayed" /\ tc' = tc /\ tc[case].status = "ACCEPTED"
    BY <1>1 DEF ReserveAccepted, AcceptedMatches, Goto, rows
  <2>2. journal'[case].status = "SEALED"
    <3>1. CASE Journaled("SEALED", TRUE)
      <4>1. journal'[case] = [status |-> "SEALED", entries |-> TRUE]
        BY <1>0, <1>m, <3>1, JournaledWrites DEF JournalStatus
      <4> QED
        BY <4>1
    <3>2. CASE journal[case].status # "OPEN" /\ UNCHANGED framework
      BY <1>t, <2>1, <3>2 DEF framework, Told
    <3> QED
      BY <1>1, <3>1, <3>2 DEF ReserveAccepted
  <2> QED
    BY <1>m, <2>1, <2>2 DEF Stands, Attempt, Written, CasePcs, Pcs
<1>2. CASE ReserveFresh
  <2>1. pc' = "generate" /\ tc'[case].status # "ACCEPTED"
    BY <1>0, <1>2, <1>m DEF ReserveFresh, Goto, RowsOK, NoRecord
  <2> QED
    BY <1>m, <2>1 DEF Stands, Attempt, Written, CasePcs, Pcs
<1>3. CASE OpenReconcile
  <2>1. pc' = "open" /\ tc' = tc /\ tc[case].status # "ACCEPTED"
    BY <1>3 DEF OpenReconcile, Goto, rows, Stands, Attempt, CasePcs, Pcs
  <2> QED
    BY <1>m, <2>1 DEF Stands, Attempt, Written, CasePcs, Pcs
<1>4. CASE OpenFresh
  <2>1. pc' = "apply" /\ tc' = tc /\ tc[case].status # "ACCEPTED"
    BY <1>4 DEF OpenFresh, Goto, rows, Stands, Attempt, CasePcs, Pcs
  <2>2. journal'[case] = [status |-> "OPEN", entries |-> FALSE]
    BY <1>0, <1>4, <1>m, JournaledWrites DEF OpenFresh, JournalStatus
  <2> QED
    BY <1>m, <2>1, <2>2 DEF Stands, Attempt, Written, CasePcs, Pcs
<1>5. CASE ApplyBundle
  <2>1. pc' = "validate" /\ tc' = tc /\ tc[case].status # "ACCEPTED"
    BY <1>5 DEF ApplyBundle, Goto, rows, Stands, Attempt, CasePcs, Pcs
  <2>2. journal'[case] = [status |-> "OPEN", entries |-> TRUE]
    BY <1>0, <1>5, <1>m, JournaledWrites DEF ApplyBundle, JournalStatus
  <2> QED
    BY <1>m, <2>1, <2>2 DEF Stands, Attempt, Written, CasePcs, Pcs
<1>6. CASE ValidateOk \/ ValidateNotOk \/ PublishSaved \/ VerifyActivate \/ VerifySaved \/ ProjectCase
  <2>1. /\ tc' = tc /\ journal' = journal /\ fs' = fs /\ touched' = touched
    BY <1>6 DEF ValidateOk, ValidateNotOk, PublishSaved, VerifyActivate, VerifySaved, ProjectCase,
         rows, framework
  <2>2. /\ pc \in Written \cup {"validate"}
        /\ pc' \in Written \cup {"repair", "rollback"}
        /\ pc' \in Written => pc \in Written \/ file = bundle
    BY <1>6 DEF ValidateOk, ValidateNotOk, PublishSaved, VerifyActivate, VerifySaved, ProjectCase,
         Goto, Written
  <2>3. tc[case].status # "ACCEPTED" /\ journal[case] = [status |-> "OPEN", entries |-> TRUE]
    BY <2>2 DEF Stands, Written, Attempt, CasePcs, Pcs
  <2>4. pc' \in Written => case \in touched \/ file = bundle
    BY <2>2 DEF Stands
  <2>5. file' = file
    BY <1>m, <2>1 DEF file
  <2> QED
    BY <1>m, <2>1, <2>2, <2>3, <2>4, <2>5 DEF Stands, Written
<1>7. CASE RollbackCase
  <2>1. pc' = "blocker" /\ tc' = tc /\ Undo /\ tc[case].status # "ACCEPTED"
        /\ journal[case].entries
    BY <1>7 DEF RollbackCase, Goto, rows, Stands, Attempt, CasePcs, Pcs
  <2>2. journal'[case].status = "ROLLED_BACK" /\ fs'.file[case] = Absent
    BY <1>0, <1>m, <2>1, UndoWrites
  <2>3. fs'.file[case] \notin Versions \cup {Partial}
    BY <2>2, Constants, Distinct
  <2> QED
    BY <1>m, <2>1, <2>2, <2>3 DEF Stands, Attempt, Written, CasePcs, Pcs, Generated
<1>8. CASE AcceptCase
  <2>1. pc' = "seal" /\ journal' = journal /\ journal[case] = [status |-> "OPEN", entries |-> TRUE]
    BY <1>8 DEF AcceptCase, Goto, framework, Stands, Written
  <2>2. tc'[case].status = "ACCEPTED"
    BY <1>0, <1>8, <1>m DEF AcceptCase, accepted, RowsOK
  <2> QED
    BY <1>m, <2>1, <2>2 DEF Stands, Attempt, Written, CasePcs, Pcs
<1>9. CASE SealTransaction
  <2>1. pc' = "sealed" /\ tc' = tc /\ tc[case].status = "ACCEPTED"
    BY <1>9 DEF SealTransaction, Goto, rows, Stands
  <2>2. journal'[case].status = "SEALED"
    BY <1>0, <1>9, <1>m DEF SealTransaction, FilesOK
  <2> QED
    BY <1>m, <2>1, <2>2 DEF Stands, Attempt, Written, CasePcs, Pcs
<1> QED
  BY <1>1, <1>2, <1>3, <1>4, <1>5, <1>6, <1>7, <1>8, <1>9 DEF Moves

LEMMA StandsNext ==
  ASSUME Typed, AllTold, Stands, [Next]_vars PROVE Stands'
<1>0. FilesOK /\ ProcessOK /\ Place
  BY FilesParts
<1>c. pc \in CasePcs => case \in Cases
  BY Case, <1>0 DEF Place
<1>1. CASE Stops
  BY <1>0, <1>1, StopsStop, StandsStopped DEF Stop
<1>2. CASE Advances
  BY <1>2, AdvancesAdvance, StandsStopped DEF Advance
<1>3. CASE Moves
  BY <1>3, StandsMoved
<1>4. CASE Start \/ FreezeInputs \/ PrepareFromActive \/ PrepareByIndex \/ IndexActivate
  <2>1. pc' \in {"freeze", "prepare", "index", "reserve"}
    BY <1>4 DEF Start, FreezeInputs, PrepareFromActive, PrepareByIndex, IndexActivate, Running
  <2> QED
    BY <2>1, StandsStopped
<1>5. CASE Generate \/ Repair \/ PublishBuilding
  <2>1. tc' = tc /\ case' = case /\ fs' = fs /\ journal' = journal /\ touched' = touched
    BY <1>5 DEF Generate, Repair, PublishBuilding, framework, rows, proc, case
  <2>2. CASE Generate
    <3>1. pc' = "open" /\ tc[case].status # "ACCEPTED"
      BY <2>2 DEF Generate, Stands, Attempt, CasePcs, Pcs
    <3> QED
      BY <2>1, <3>1 DEF Stands, Attempt, Written, CasePcs, Pcs
  <2>3. CASE Repair
    <3>1. pc' \in {"apply", "repair", "rollback"} /\ tc[case].status # "ACCEPTED"
          /\ journal[case] = [status |-> "OPEN", entries |-> TRUE]
      BY <2>3 DEF Repair, Stands, Attempt, CasePcs, Pcs
    <3> QED
      BY <2>1, <3>1 DEF Stands, Attempt, Written, CasePcs, Pcs
  <2>4. CASE PublishBuilding
    <3>1. pc' = "publishing" /\ tc[case].status # "ACCEPTED" /\ bundle' = bundle
          /\ journal[case] = [status |-> "OPEN", entries |-> TRUE] /\ (case \in touched \/ file = bundle)
      BY <2>4 DEF PublishBuilding, proc, Stands, Attempt, Written, CasePcs, Pcs
    <3>2. file' = file
      BY <2>1 DEF file
    <3> QED
      BY <2>1, <3>1, <3>2 DEF Stands, Attempt, Written, CasePcs, Pcs
  <2> QED
    BY <1>5, <2>2, <2>3, <2>4
<1>6. CASE UNCHANGED <<fs, journal, touched, tc, pc, proc>>
  BY <1>6 DEF Stands, Generated, file, case, proc
<1>7. CASE Edit
  <2>1. tc' = tc /\ journal' = journal /\ pc' = pc /\ case' = case /\ bundle' = bundle
    BY <1>7 DEF Edit, rows, proc, case
  <2>2. CASE pc \in CasePcs
    <3>1. /\ case \in touched => case \in touched'
          /\ \/ fs'.file[case] = fs.file[case]
             \/ case \in touched' /\ fs'.file[case] \in {Foreign, Absent}
      <4>1. CASE fs' = [fs EXCEPT !.base = edits + 1] /\ UNCHANGED touched
        <5>1. fs'.file = fs.file
          BY <1>0, <4>1 DEF FilesOK, Framework
        <5> QED
          BY <4>1, <5>1
      <4>2. ASSUME NEW d \in Cases, NEW b \in {Foreign, Absent},
                   fs' = [fs EXCEPT !.file[d] = b], touched' = touched \cup {d}
            PROVE  /\ case \in touched => case \in touched'
                   /\ \/ fs'.file[case] = fs.file[case]
                      \/ case \in touched' /\ fs'.file[case] \in {Foreign, Absent}
        BY <1>0, <1>c, <2>2, <4>2 DEF FilesOK, Framework
      <4> QED
        BY <1>7, <4>1, <4>2 DEF Edit
    <3>2. Generated(case)' => Generated(case)
      BY <2>1, <3>1, Constants, Distinct DEF Generated
    <3>3. case \in touched \/ file = bundle => case' \in touched' \/ file' = bundle'
      BY <2>1, <3>1 DEF file
    <3> QED
      BY <2>1, <3>2, <3>3 DEF Stands
  <2>3. CASE pc \notin CasePcs
    BY <1>0, <2>1, <2>3, StandsStopped DEF CasePcs, ProcessOK
  <2> QED
    BY <2>2, <2>3
<1>8. CASE IndexFramework \/ UNCHANGED vars
  BY <1>6, <1>8 DEF IndexFramework, vars, framework, rows
<1> QED
  BY <1>1, <1>2, <1>3, <1>4, <1>5, <1>7, <1>8 DEF Next, Step, Stops, Advances, Moves
-----------------------------------------------------------------------------
(* An accepted row is final, and so is a sealed journal.                    *)

KeepsRecords ==
  \/ KeepsRows \/ FreezeInputs \/ PrepareFromActive \/ IndexActivate \/ FinishRun
  \/ ReserveRevision

LEMMA KeptRecords == ASSUME KeepsRecords PROVE tc' = tc
  BY KeptRows DEF KeepsRecords, FreezeInputs, PrepareFromActive, IndexActivate, Running, FinishRun,
     ReserveRevision, rows

LEMMA AcceptedRowKept ==
  ASSUME Typed, Stands, [Next]_vars, NEW c \in Cases, tc[c].status = "ACCEPTED"
  PROVE  tc'[c] = tc[c]
<1>0. RowsOK
  BY FilesParts
<1>1. CASE KeepsRecords \/ UNCHANGED vars
  BY <1>1, KeptRecords DEF vars, rows
<1>2. CASE ReserveFresh \/ RecordBlocker \/ AcceptCase
  <2>1. c # case
    BY <1>2 DEF ReserveFresh, RecordBlocker, AcceptCase, Stands, Attempt, CasePcs, Pcs
  <2> QED
    BY <1>0, <1>2, <2>1 DEF ReserveFresh, RecordBlocker, AcceptCase, RowsOK
<1> QED
  BY <1>1, <1>2 DEF Next, Step, KeepsRecords, KeepsRows

LEMMA SealedKept ==
  ASSUME Typed, AllTold, Stands, [Next]_vars,
         NEW c \in Cases, tc[c].status = "ACCEPTED", journal[c].status = "SEALED"
  PROVE  journal'[c].status = "SEALED"
<1>1. AllTold' /\ tc'[c] = tc[c]
  BY ToldNext, AcceptedRowKept
<1>0. FilesOK /\ ProcessOK /\ Place
  BY FilesParts
<1>2. CASE journal'[c] = journal[c]
  BY <1>2
<1>3. CASE KeepsFiles \/ SealSaved \/ Edit \/ UNCHANGED vars
  BY <1>3, KeptFiles DEF SealSaved, Edit, vars, framework
<1>4. CASE OpenReconcile \/ RollbackCase \/ ApplyFails \/ RepairRaises \/ PublishFails \/ VerifyFails
           \/ OpenFresh \/ ApplyBundle \/ ApplyInterrupted
  <2>1. pc \in Attempt
    BY <1>4 DEF OpenReconcile, RollbackCase, ApplyFails, RepairRaises, PublishFails, VerifyFails,
         OpenFresh, ApplyBundle, ApplyInterrupted, Attempt, CasePcs, Pcs
  <2>2. tc[case].status # "ACCEPTED" /\ case \in Cases
    BY <1>0, <2>1, Case DEF Stands, Attempt, Place
  <2>3. c # case
    BY <2>2
  <2>4. Undo \/ RollbackOpen \/ OpenFresh \/ ApplyBundle \/ ApplyInterrupted
    BY <1>4 DEF OpenReconcile, RollbackCase, ApplyFails, RepairRaises, PublishFails, VerifyFails,
         Unpublish
  <2>5. CASE Undo \/ RollbackOpen
    BY <1>0, <1>2, <2>2, <2>3, <2>5, UndoWrites DEF RollbackOpen, framework
  <2>6. CASE OpenFresh \/ ApplyBundle \/ ApplyInterrupted
    BY <1>0, <1>2, <2>2, <2>3, <2>6 DEF OpenFresh, ApplyBundle, ApplyInterrupted, Journaled, FilesOK
  <2> QED
    BY <2>4, <2>5, <2>6
<1>5. CASE ReserveAccepted
  <2>1. case \in Cases
    BY <1>5, Case DEF ReserveAccepted, Reserving
  <2>2. CASE Journaled("SEALED", TRUE)
    <3>1. journal'[case] = [status |-> "SEALED", entries |-> TRUE]
          /\ (c # case => journal'[c] = journal[c])
      BY <1>0, <2>1, <2>2, JournaledWrites DEF JournalStatus
    <3> QED
      BY <1>2, <3>1
  <2>3. CASE UNCHANGED framework
    BY <1>2, <2>3 DEF framework
  <2> QED
    BY <1>5, <2>2, <2>3 DEF ReserveAccepted
<1>6. CASE SealTransaction
  <2>1. case \in Cases
    BY <1>0, <1>6, Case DEF SealTransaction, Place, CasePcs, Pcs
  <2> QED
    BY <1>0, <1>6, <2>1 DEF SealTransaction, FilesOK
<1> QED
  BY <1>3, <1>4, <1>5, <1>6 DEF Next, Step, KeepsFiles

(* A result is of a case that stands before the position of the loop.       *)
LEMMA ResultsOfCases ==
  ASSUME Typed
  PROVE  /\ Len(results) \in Nat
         /\ \A i \in 1 .. Len(results) : i # cur /\ i \in 1 .. Len(Order) /\ Order[i] \in Cases
  BY Constants DEF Typed, TypeOK, Place

LEMMA SettledSame ==
  ASSUME Typed, AllTold, Stands, Settled, [Next]_vars,
         NEW i \in 1 .. Len(results), results[i] = "ACCEPTED"
  PROVE  tc'[Order[i]].status = "ACCEPTED" /\ journal'[Order[i]].status = "SEALED"
<1>1. Order[i] \in Cases
  BY ResultsOfCases
<1>2. tc[Order[i]].status = "ACCEPTED" /\ journal[Order[i]].status = "SEALED"
  BY DEF Settled
<1> QED
  BY <1>1, <1>2, AcceptedRowKept, SealedKept

(* What the loop leaves behind: the outcome it appends is the case's.       *)
LEMMA SettledOutcome ==
  ASSUME Typed, AllTold, Stands, Advances
  PROVE  /\ results' = Append(results, results'[cur])
         /\ results'[cur] = "ACCEPTED" => tc[case].status = "ACCEPTED" /\ journal[case].status = "SEALED"
         /\ results'[cur] = "BLOCKED" =>
              /\ tc'[case].status = "BLOCKED" /\ journal[case].status = "ROLLED_BACK"
              /\ ~Generated(case)
         /\ results'[cur] \notin {"ACCEPTED", "BLOCKED"} => tc[case].status = "ACCEPTED"
<1>0. RowsOK /\ cur <= Len(Order)
  BY FilesParts, AdvancesAdvance
<1>1. ASSUME NEW outcome \in Outcomes, NEW s, Advance(outcome, s)
      PROVE  results' = Append(results, outcome) /\ results'[cur] = outcome
  <2>1. Len(results) \in Nat /\ results \in Seq(Outcomes) /\ Len(results) + 1 = cur
    BY DEF Typed, TypeOK, Place
  <2> QED
    BY <1>1, <2>1 DEF Advance
<1>2. CASE ReserveRevision
  <2>1. results' = Append(results, "REVISION_REQUIRED") /\ results'[cur] = "REVISION_REQUIRED"
    BY <1>1, <1>2 DEF ReserveRevision, Outcomes
  <2> QED
    BY <1>2, <2>1 DEF ReserveRevision
<1>3. CASE RecordBlocker
  <2>1. results' = Append(results, "BLOCKED") /\ results'[cur] = "BLOCKED"
    BY <1>1, <1>3 DEF RecordBlocker, Outcomes
  <2>2. case \in Cases
    BY <1>0, Case
  <2>3. tc[case].status # "ACCEPTED" /\ journal[case].status = "ROLLED_BACK" /\ ~Generated(case)
    BY <1>3 DEF RecordBlocker, Stands, Attempt, CasePcs, Pcs
  <2>4. tc'[case].status = "BLOCKED"
    BY <1>0, <1>3, <2>2, <2>3 DEF RecordBlocker, RowsOK, Record
  <2> QED
    BY <2>1, <2>3, <2>4
<1>4. CASE SealSaved \/ ReplayAdvances
  <2>1. results' = Append(results, "ACCEPTED") /\ results'[cur] = "ACCEPTED"
    BY <1>1, <1>4 DEF SealSaved, ReplayAdvances, Outcomes
  <2> QED
    BY <1>4, <2>1 DEF SealSaved, ReplayAdvances, Stands
<1> QED
  BY <1>2, <1>3, <1>4 DEF Advances

LEMMA SettledNext ==
  ASSUME Typed, AllTold, Stands, Settled, [Next]_vars PROVE Settled'
<1>1. CASE results' = <<>>
  BY <1>1 DEF Settled
<1>2. CASE results' = results
  BY <1>2, SettledSame DEF Settled
<1>3. CASE Advances
  <2>0. results \in Seq(Outcomes) /\ Len(results) \in Nat /\ Len(results) + 1 = cur
    BY DEF Typed, TypeOK, Place
  <2>1. /\ Len(results') = cur
        /\ \A i \in 1 .. Len(results) : results'[i] = results[i]
    BY <1>3, <2>0, SettledOutcome
  <2>2. results'[cur] = "ACCEPTED" =>
          tc'[case].status = "ACCEPTED" /\ journal'[case].status = "SEALED"
    <3>1. case \in Cases
      BY <1>3, AdvancesAdvance, Case
    <3> QED
      BY <1>3, <3>1, SettledOutcome, AcceptedRowKept, SealedKept
  <2>3. ASSUME NEW i \in 1 .. Len(results'), results'[i] = "ACCEPTED"
        PROVE  tc'[Order[i]].status = "ACCEPTED" /\ journal'[Order[i]].status = "SEALED"
    <3>1. CASE i = cur
      BY <2>2, <2>3, <3>1 DEF case
    <3>2. CASE i # cur
      <4>1. i \in 1 .. Len(results)
        BY <2>0, <2>1, <3>2
      <4> QED
        BY <2>1, <2>3, <4>1, SettledSame
    <3> QED
      BY <3>1, <3>2
  <2> QED
    BY <2>3 DEF Settled
<1>4. CASE Stops
  BY <1>1, <1>4, FilesParts, StopsStop DEF Stop
<1>5. CASE Moves
  BY <1>2, <1>5, MovesMove
<1>6. CASE Start \/ FreezeInputs \/ PrepareFromActive \/ PrepareByIndex \/ IndexActivate
           \/ Generate \/ Repair \/ PublishBuilding \/ Edit \/ IndexFramework \/ UNCHANGED vars
  BY <1>2, <1>6 DEF Start, FreezeInputs, PrepareFromActive, PrepareByIndex, IndexActivate, Running,
     Generate, Repair, PublishBuilding, Edit, IndexFramework, proc, vars
<1> QED
  BY <1>3, <1>4, <1>5, <1>6 DEF Next, Step, Stops, Advances, Moves

(* The invariant: types, the story of each case, and the results.           *)
Inv == Typed /\ AllTold /\ Stands /\ Settled

LEMMA InvInit == Init => Inv
<1> SUFFICES ASSUME Init PROVE Inv
  OBVIOUS
<1>1. Typed
  BY TypeInit
<1>2. AllTold
  BY NothingTyped, Constants, Distinct DEF Init, AllTold, Told, Generated, NoRecord
<1>3. Stands
  BY DEF Init, Stands, Attempt, Written, CasePcs, Pcs
<1>4. Settled
  BY DEF Init, Settled
<1> QED
  BY <1>1, <1>2, <1>3, <1>4 DEF Inv

THEOREM InvHolds == Spec => []Inv
<1>1. Init => Inv
  BY InvInit
<1>2. Inv /\ [Next]_vars => Inv'
  BY TypedNext, ToldNext, StandsNext, SettledNext DEF Inv
<1> QED
  BY <1>1, <1>2, PTL DEF Spec

(* JournalMatchesRow: whatever crashed, failed or was edited, the files,    *)
(* the journal, its mirror and the row of every case tell one story (the    *)
(* order of writes of open_file_transaction, apply_bundle, persist_case,    *)
(* seal_transaction and reserve_tc_id).                                     *)
THEOREM StoriesMatch == Spec => []JournalMatchesRow
<1>1. Inv => JournalMatchesRow
  BY ToldParts DEF Inv, Typed, JournalMatchesRow
<1> QED
  BY <1>1, InvHolds, PTL
-----------------------------------------------------------------------------
(* The snapshots: what an active one holds.                                 *)

(* Every accepted case that nobody edited, in its accepted version.         *)
Holds(content) ==
  \A c \in Cases \ touched : tc[c].status = "ACCEPTED" => content.file[c] = tc[c].version

WellFormed(g) ==
  /\ g.active \subseteq g.ready
  /\ g.ready \cap (g.building \cup g.failed) = {}
  /\ g.building \cap g.failed = {}

(* An active snapshot of the project holds what is accepted: those of other *)
(* contents lost that status when it was activated.                         *)
Current ==
  /\ WellFormed(kg)
  /\ \A id \in kg.active : RepoOf(id) = "project" => Holds(ContentOf(id))

Recorded ==
  \A c \in Cases : tc[c].status = "ACCEPTED" =>
    projected[c] = tc[c] /\ RepoOf(tc[c].snapshot) = "project"

FromSnapshot == {"reserve", "generate", "open", "apply", "validate", "repair", "rollback",
                 "blocker", "publish", "replayed"}
Activating == {"ready", "persist", "accept", "seal", "sealed"}

(* What the position of the process says of the snapshot it works with.     *)
Positioned ==
  /\ pc \in {"freeze", "prepare"} => Holds(seen)
  /\ pc = "index" => snap \in kg.building /\ Holds(ContentOf(snap))
  /\ pc \in FromSnapshot => snap \in kg.active /\ Holds(ContentOf(snap))
  /\ pc \in {"publishing", "verify"} => building[case] \in kg.building
  /\ pc \in {"publishing", "verify"} \cup Activating =>
       RepoOf(building[case]) = "project" /\ Holds(ContentOf(building[case]))
  /\ pc \in Activating =>
       /\ building[case] \in kg.active
       /\ \A id \in kg.active : RepoOf(id) = "project" => id = building[case]
  /\ pc \in {"ready", "persist", "accept"} => ContentOf(building[case]).file[case] = bundle
  /\ pc = "accept" => projected[case] = accepted
  /\ pc \in {"seal", "sealed"} => tc[case].snapshot = building[case]

Pub == Current /\ Recorded /\ Positioned

LEMMA BegunGraph ==
  ASSUME NEW g \in Graph, NEW id \in Ids, WellFormed(g)
  PROVE  /\ WellFormed(Begun(g, id)) /\ id \in Begun(g, id).building
         /\ Begun(g, id).active = g.active \ {id}
  BY DEF WellFormed, Begun, Graph

LEMMA ActivatedGraph ==
  ASSUME NEW g \in Graph, NEW id \in g.building, WellFormed(g)
  PROVE  /\ WellFormed(Activated(g, id)) /\ id \in Activated(g, id).active
         /\ \A other \in Activated(g, id).active :
              other = id \/ (other \in g.active /\ RepoOf(other) # RepoOf(id))
  BY DEF WellFormed, Activated, SameRepo, Graph

LEMMA FailedGraph ==
  ASSUME NEW g \in Graph, NEW id, WellFormed(g)
  PROVE  WellFormed(MarkedFailed(g, id)) /\ MarkedFailed(g, id).active = g.active
<1>1. CASE id \in g.building \cup g.failed
  <2> DEFINE h == [g EXCEPT !.building = @ \ {id}, !.failed = @ \cup {id}]
  <2>1. /\ h.building = g.building \ {id} /\ h.failed = g.failed \cup {id}
        /\ h.ready = g.ready /\ h.active = g.active
    BY DEF Graph
  <2>2. MarkedFailed(g, id) = h
    BY <1>1 DEF MarkedFailed
  <2> HIDE DEF h
  <2> QED
    BY <1>1, <2>1, <2>2 DEF WellFormed
<1>2. CASE id \notin g.building \cup g.failed
  BY <1>2 DEF MarkedFailed
<1> QED
  BY <1>1, <1>2

(* The framework as it stands holds what is accepted.                       *)
LEMMA HoldsNow == ASSUME AllTold PROVE Holds(fs)
  BY DEF AllTold, Told, Holds

LEMMA TouchedGrows == ASSUME Typed, [Next]_vars PROVE touched \subseteq touched'
<1>0. FilesOK /\ ProcessOK /\ Place
  BY FilesParts
<1>1. CASE KeepsFiles \/ UNCHANGED vars
  BY <1>1, KeptFiles DEF vars, framework
<1>2. CASE OpenReconcile \/ RollbackCase \/ ApplyFails \/ RepairRaises \/ PublishFails \/ VerifyFails
  BY <1>2 DEF OpenReconcile, RollbackCase, ApplyFails, RepairRaises, PublishFails, VerifyFails,
     Unpublish, RollbackOpen, Undo, framework
<1>3. CASE OpenFresh \/ ApplyBundle \/ ApplyInterrupted \/ SealTransaction \/ SealSaved
           \/ ReserveAccepted \/ Edit
  BY <1>3 DEF OpenFresh, ApplyBundle, ApplyInterrupted, SealTransaction, SealSaved,
     ReserveAccepted, Edit, framework
<1> QED
  BY <1>1, <1>2, <1>3 DEF Next, Step, KeepsFiles

(* Only AcceptCase accepts.                                                 *)
LEMMA NoneAccepted ==
  ASSUME Typed, [Next]_vars, ~AcceptCase, NEW c \in Cases, tc'[c].status = "ACCEPTED"
  PROVE  tc'[c] = tc[c]
<1>0. RowsOK /\ ProcessOK /\ Place
  BY FilesParts
<1>1. CASE KeepsRecords \/ UNCHANGED vars
  BY <1>1, KeptRecords DEF vars, rows
<1>2. CASE ReserveFresh
  <2>1. case \in Cases
    BY <1>2, Case DEF ReserveFresh, Reserving
  <2> QED
    BY <1>0, <1>2, <2>1 DEF ReserveFresh, NoRecord, RowsOK
<1>3. CASE RecordBlocker
  <2>1. case \in Cases
    BY <1>0, <1>3, Case DEF RecordBlocker, Place, CasePcs, Pcs
  <2>2. CASE tc' = [tc EXCEPT ![case].status = "BLOCKED"]
    <3>1. tc'[case].status = "BLOCKED" /\ \A d \in Cases : d # case => tc'[d] = tc[d]
      BY <1>0, <2>1, <2>2 DEF RowsOK, Record
    <3> QED
      BY <3>1
  <2> QED
    BY <1>3, <2>2 DEF RecordBlocker
<1> QED
  BY <1>1, <1>2, <1>3 DEF Next, Step, KeepsRecords, KeepsRows

LEMMA HoldsKept ==
  ASSUME Typed, [Next]_vars, ~AcceptCase, NEW content, Holds(content) PROVE Holds(content)'
  BY TouchedGrows, NoneAccepted DEF Holds

LEMMA HoldsAccepted ==
  ASSUME Typed, AcceptCase, NEW content, Holds(content), content.file[case] = bundle
  PROVE  Holds(content)'
<1>0. RowsOK /\ case \in Cases
  BY FilesParts, AcceptedTyped DEF AcceptCase
<1>1. touched' = touched
  BY DEF AcceptCase, framework
<1>2. tc'[case].version = bundle /\ \A c \in Cases : c # case => tc'[c] = tc[c]
  BY <1>0 DEF AcceptCase, RowsOK, accepted
<1> QED
  BY <1>1, <1>2 DEF Holds

LEMMA CurrentNext ==
  ASSUME Inv, Pub, [Next]_vars PROVE Current'
<1>0. FilesOK /\ GraphOK /\ ProcessOK /\ Place /\ kg \in Graph /\ Typed /\ WellFormed(kg)
  BY FilesParts DEF Inv, GraphOK, Pub, Current
<1>h. \A id \in kg.active : RepoOf(id) = "project" => Holds(ContentOf(id))
  BY DEF Pub, Current
<1>k. ASSUME ~AcceptCase, WellFormed(kg'),
             \A id \in kg'.active :
               RepoOf(id) = "project" => id \in kg.active \/ Holds(ContentOf(id))
      PROVE  Current'
  <2>1. ASSUME NEW id \in kg'.active, RepoOf(id) = "project" PROVE Holds(ContentOf(id))'
    <3>1. Holds(ContentOf(id))
      BY <1>h, <1>k, <2>1
    <3> QED
      BY <1>0, <1>k, <3>1, HoldsKept
  <2> QED
    BY <1>k, <2>1 DEF Current
<1>1. CASE kg' = kg /\ ~AcceptCase
  BY <1>0, <1>1, <1>k
<1>2. CASE AcceptCase
  <2>1. kg' = kg
    BY <1>2 DEF AcceptCase, graph
  <2>2. /\ Holds(ContentOf(building[case])) /\ ContentOf(building[case]).file[case] = bundle
        /\ \A id \in kg.active : RepoOf(id) = "project" => id = building[case]
    BY <1>2 DEF AcceptCase, Pub, Positioned, Activating
  <2>3. ASSUME NEW id \in kg'.active, RepoOf(id) = "project" PROVE Holds(ContentOf(id))'
    <3>1. Holds(ContentOf(id)) /\ ContentOf(id).file[case] = bundle
      BY <2>1, <2>2, <2>3
    <3> QED
      BY <1>0, <1>2, <3>1, HoldsAccepted
  <2> QED
    BY <1>0, <2>1, <2>3 DEF Current
<1>3. CASE PrepareByIndex \/ PublishBuilding
  <2>1. PICK id \in Ids : kg' = Begun(kg, id)
    BY <1>0, <1>3, ProposedTyped DEF PrepareByIndex, PublishBuilding
  <2> QED
    BY <1>0, <1>3, <1>k, <2>1, BegunGraph DEF PrepareByIndex, PublishBuilding, AcceptCase
<1>4. CASE IndexActivate
  <2>1. snap \in kg.building /\ kg' = Activated(kg, snap) /\ Holds(ContentOf(snap))
    BY <1>4 DEF IndexActivate, Pub, Positioned
  <2> QED
    BY <1>0, <1>4, <1>k, <2>1, ActivatedGraph DEF IndexActivate, AcceptCase
<1>5. CASE VerifyActivate
  <2>1. /\ building[case] \in kg.building /\ kg' = Activated(kg, building[case])
        /\ Holds(ContentOf(building[case]))
    BY <1>5 DEF VerifyActivate, Pub, Positioned
  <2> QED
    BY <1>0, <1>5, <1>k, <2>1, ActivatedGraph DEF VerifyActivate, AcceptCase
<1>6. CASE IndexFails \/ PublishFails \/ VerifyFails
  <2>1. PICK id : kg' = kg \/ kg' = MarkedFailed(kg, id)
    BY <1>6 DEF IndexFails, PublishFails, VerifyFails, Unpublish
  <2>2. WellFormed(kg') /\ kg'.active = kg.active
    BY <1>0, <2>1, FailedGraph
  <2>3. ~AcceptCase
    BY <1>6 DEF IndexFails, PublishFails, VerifyFails, AcceptCase
  <2> QED
    BY <1>k, <2>2, <2>3
<1>7. CASE IndexFramework
  <2> DEFINE id == <<"path", fs>>
  <2>1. id \in Ids /\ RepoOf(id) = "path" /\ kg' = Activated(Begun(kg, id), id)
    BY <1>0, <1>7, Identities DEF IndexFramework, FilesOK
  <2> HIDE DEF id
  <2>2. /\ Begun(kg, id) \in Graph /\ WellFormed(Begun(kg, id)) /\ id \in Begun(kg, id).building
        /\ Begun(kg, id).active = kg.active \ {id}
    BY <1>0, <2>1, BegunGraph, GraphTypes
  <2>3. /\ WellFormed(kg')
        /\ \A other \in kg'.active : other = id \/ other \in kg.active
    BY <2>1, <2>2, ActivatedGraph
  <2> QED
    BY <1>7, <1>k, <2>1, <2>3 DEF IndexFramework, AcceptCase
<1>8. CASE (KeepsGraph /\ ~AcceptCase) \/ PublishSaved \/ VerifySaved \/ ProjectCase \/ UNCHANGED vars
  <2>1. kg' = kg
    BY <1>8, KeptGraph DEF PublishSaved, VerifySaved, ProjectCase, vars, graph
  <2>2. CASE UNCHANGED vars
    <3>1. pc' = pc
      BY <2>2 DEF vars
    <3> QED
      BY <1>1, <2>1, <3>1 DEF AcceptCase, Goto
  <2>3. CASE PublishSaved \/ VerifySaved \/ ProjectCase
    BY <1>1, <2>1, <2>3 DEF PublishSaved, VerifySaved, ProjectCase, AcceptCase
  <2> QED
    BY <1>1, <1>8, <2>1, <2>2, <2>3
<1> QED
  BY <1>2, <1>3, <1>4, <1>5, <1>6, <1>7, <1>8 DEF Next, Step, KeepsGraph

LEMMA RecordedNext ==
  ASSUME Inv, Pub, [Next]_vars PROVE Recorded'
<1>0. GraphOK /\ RowsOK /\ ProcessOK /\ Place /\ Typed /\ Stands
  BY FilesParts DEF Inv
<1>r. Recorded
  BY DEF Pub
<1> SUFFICES ASSUME NEW c \in Cases, tc'[c].status = "ACCEPTED"
             PROVE  projected'[c] = tc'[c] /\ RepoOf(tc'[c].snapshot) = "project"
  BY DEF Recorded
<1>1. CASE AcceptCase
  <2>1. projected' = projected /\ projected[case] = accepted /\ RepoOf(building[case]) = "project"
        /\ case \in Cases
    BY <1>0, <1>1, AcceptedTyped DEF AcceptCase, graph, Pub, Positioned, Activating
  <2>2. tc'[case] = accepted /\ (c # case => tc'[c] = tc[c]) /\ accepted.snapshot = building[case]
    BY <1>0, <1>1, <2>1 DEF AcceptCase, RowsOK, accepted
  <2> QED
    BY <1>r, <2>1, <2>2 DEF Recorded
<1>2. CASE ~AcceptCase
  <2>1. tc'[c] = tc[c]
    BY <1>0, <1>2, NoneAccepted
  <2>2. CASE projected' = projected
    BY <1>r, <2>1, <2>2 DEF Recorded
  <2>3. CASE ProjectCase
    <3>1. c # case
      BY <1>0, <2>1, <2>3 DEF ProjectCase, Stands, Attempt, CasePcs, Pcs
    <3>2. projected'[c] = projected[c]
      BY <1>0, <2>3, <3>1 DEF ProjectCase, GraphOK
    <3> QED
      BY <1>r, <2>1, <3>2 DEF Recorded
  <2>4. CASE ~ProjectCase
    <3>1. CASE KeepsGraph \/ UNCHANGED vars
      BY <2>2, <3>1, KeptGraph DEF vars, graph
    <3>2. CASE PublishFails \/ VerifyFails
      BY <2>2, <3>2 DEF PublishFails, VerifyFails, Unpublish
    <3> QED
      BY <2>2, <2>4, <3>1, <3>2 DEF Next, Step, KeepsGraph, PrepareByIndex, IndexActivate, IndexFails,
         PublishBuilding, PublishSaved, VerifyActivate, VerifySaved, IndexFramework
  <2> QED
    BY <2>3, <2>4
<1> QED
  BY <1>1, <1>2
-----------------------------------------------------------------------------
LEMMA PositionedElsewhere ==
  ASSUME pc' = "down" PROVE Positioned'
  BY DEF Positioned, FromSnapshot, Activating

(* A position from which a snapshot is read.                                *)
LEMMA PositionedFrom ==
  ASSUME Typed, [Next]_vars, ~AcceptCase, pc' \in FromSnapshot, NEW s, snap' = s,
         s \in kg'.active, Holds(ContentOf(s))
  PROVE  Positioned'
<1>1. Holds(ContentOf(s))'
  BY HoldsKept
<1>2. (Holds(ContentOf(s)))' => Holds(ContentOf(snap))'
  BY DEF Holds
<1> QED
  BY <1>1, <1>2 DEF Positioned, FromSnapshot, Activating

(* A position from which the published snapshot is read.                    *)
LEMMA PositionedBuilt ==
  ASSUME pc' \in {"publishing", "verify"} \cup Activating,
         NEW b, (building[case])' = b, RepoOf(b) = "project", Holds(b[2])',
         pc' \in {"publishing", "verify"} => b \in kg'.building,
         pc' \in Activating =>
           b \in kg'.active /\ \A id \in kg'.active : RepoOf(id) = "project" => id = b,
         pc' \in {"ready", "persist", "accept"} => b[2].file[(case)'] = bundle',
         pc' = "accept" => (projected[case] = accepted)',
         pc' \in {"seal", "sealed"} => (tc[case])'.snapshot = b
  PROVE  Positioned'
<1>1. Holds(b[2])' => Holds(ContentOf(building[case]))'
  BY DEF Holds, ContentOf
<1>2. ContentOf(b) = b[2]
  BY DEF ContentOf
<1> QED
  BY <1>1, <1>2 DEF Positioned, FromSnapshot, Activating

LEMMA PositionedSame ==
  ASSUME Typed, [Next]_vars, ~AcceptCase, Positioned,
         UNCHANGED <<kg, projected, tc, building, pc, proc>>
  PROVE  Positioned'
<1>1. case' = case /\ accepted' = accepted /\ snap' = snap /\ seen' = seen /\ bundle' = bundle
  BY DEF case, accepted, proc
<1>2. /\ Holds(seen) => Holds(seen)'
      /\ Holds(ContentOf(snap)) => Holds(ContentOf(snap))'
      /\ Holds(ContentOf(building[case])) => Holds(ContentOf(building[case]))'
  <2>1. \A content : Holds(content) => Holds(content)'
    BY HoldsKept
  <2>2. PICK x, y, z : x = seen /\ y = ContentOf(snap) /\ z = ContentOf(building[case])
    OBVIOUS
  <2>3. x = seen' /\ y = ContentOf(snap') /\ z = ContentOf((building[case])')
    BY <1>1, <2>2 DEF ContentOf
  <2> QED
    BY <2>1, <2>2, <2>3 DEF Holds
<1> QED
  BY <1>1, <1>2 DEF Positioned

LEMMA PositionedParent ==
  ASSUME Inv, Pub, [Next]_vars,
         Start \/ FreezeInputs \/ PrepareFromActive \/ PrepareByIndex \/ IndexActivate
  PROVE  Positioned'
<1>0. FilesOK /\ GraphOK /\ ProcessOK /\ Place /\ kg \in Graph /\ Typed /\ WellFormed(kg) /\ Positioned
      /\ AllTold
  BY FilesParts DEF Inv, GraphOK, Pub, Current
<1>a. ~AcceptCase
  BY DEF Start, FreezeInputs, PrepareFromActive, PrepareByIndex, IndexActivate, AcceptCase
<1>1. CASE Start \/ FreezeInputs
  <2>1. PICK x : x = seen'
    OBVIOUS
  <2>2. pc' \in {"freeze", "prepare"} /\ Holds(x)
    BY <1>0, <1>1, <2>1, HoldsNow DEF Start, FreezeInputs, Positioned
  <2>3. Holds(x)'
    BY <1>0, <1>a, <2>2, HoldsKept
  <2>4. Holds(seen)'
    BY <2>1, <2>3 DEF Holds
  <2> QED
    BY <2>2, <2>4 DEF Positioned, FromSnapshot, Activating
<1>2. CASE PrepareFromActive
  <2>1. PICK id \in ActiveFor(seen) : Running(id)
    BY <1>2 DEF PrepareFromActive
  <2>2. ContentOf(id) = seen /\ id \in kg.active
    BY <2>1 DEF ActiveFor, FindReady
  <2>3. Holds(ContentOf(id)) /\ kg' = kg
    BY <1>0, <1>2, <2>2 DEF PrepareFromActive, Positioned, graph
  <2> QED
    BY <1>0, <1>a, <2>1, <2>2, <2>3, PositionedFrom DEF Running, FromSnapshot
<1>3. CASE PrepareByIndex
  <2> DEFINE id == <<"path", fs>>
  <2>1. id \in Ids /\ ContentOf(id) = fs /\ snap' = id /\ pc' = "index" /\ kg' = Begun(kg, id)
    BY <1>0, <1>3, Identities DEF PrepareByIndex, FilesOK
  <2>2. PICK x : x = ContentOf(id)
    OBVIOUS
  <2>3. Holds(x)'
    BY <1>0, <1>a, <2>1, <2>2, HoldsNow, HoldsKept
  <2>4. id \in Begun(kg, id).building
    BY <1>0, <2>1, BegunGraph
  <2>5. Holds(ContentOf(snap))'
    BY <2>1, <2>2, <2>3 DEF Holds
  <2> QED
    BY <2>1, <2>4, <2>5 DEF Positioned, FromSnapshot, Activating
<1>4. CASE IndexActivate
  <2>1. /\ snap \in kg.building /\ Holds(ContentOf(snap)) /\ snap' = snap /\ pc' = "reserve"
        /\ kg' = Activated(kg, snap)
    BY <1>0, <1>4 DEF IndexActivate, Running, Positioned
  <2> QED
    BY <1>0, <1>a, <2>1, ActivatedGraph, PositionedFrom DEF FromSnapshot
<1> QED
  BY <1>1, <1>2, <1>3, <1>4

LEMMA PositionedAdvance ==
  ASSUME Inv, Pub, [Next]_vars, Advances PROVE Positioned'
<1>0. Typed /\ Positioned /\ Stands /\ Current /\ Recorded
  BY DEF Inv, Pub
<1>a. ~AcceptCase /\ kg' = kg /\ pc' = "reserve"
  BY DEF Advances, ReserveRevision, RecordBlocker, SealSaved, ReplayAdvances, Reserving, AcceptCase,
     graph, Advance
<1>c. case \in Cases
  BY <1>0, AdvancesAdvance, Case
<1>1. snap' \in kg.active /\ Holds(ContentOf(snap'))
  <2>1. CASE ReserveRevision \/ RecordBlocker
    BY <1>0, <2>1 DEF ReserveRevision, Reserving, RecordBlocker, Advance, Positioned, FromSnapshot
  <2>2. CASE SealSaved
    BY <1>0, <2>2 DEF SealSaved, Advance, Positioned, Activating
  <2>3. CASE ReplayAdvances
    <3>1. CASE Visible
      <4>1. snap' = tc[case].snapshot /\ tc[case].status = "ACCEPTED"
        BY <1>0, <2>3, <3>1 DEF ReplayAdvances, Advance, Stands
      <4> QED
        BY <1>0, <1>c, <3>1, <4>1 DEF Visible, Recorded, Current
    <3>2. CASE ~Visible
      BY <1>0, <2>3, <3>2 DEF ReplayAdvances, Advance, Positioned, FromSnapshot
    <3> QED
      BY <3>1, <3>2
  <2> QED
    BY <2>1, <2>2, <2>3 DEF Advances
<1>2. PICK s : s = snap'
  OBVIOUS
<1> QED
  BY <1>0, <1>a, <1>1, <1>2, PositionedFrom DEF FromSnapshot

(* Before anything is published the position keeps its snapshot.            *)
LEMMA PositionedBefore ==
  ASSUME Inv, Pub, [Next]_vars,
         \/ ReserveAccepted \/ ReserveFresh \/ OpenReconcile \/ OpenFresh \/ ApplyBundle
         \/ ValidateOk \/ ValidateNotOk \/ RollbackCase \/ Generate \/ Repair
  PROVE  Positioned'
<1>1. ~AcceptCase /\ kg' = kg /\ snap' = snap /\ pc \in FromSnapshot /\ pc' \in FromSnapshot
  BY DEF ReserveAccepted, ReserveFresh, Reserving, OpenReconcile, OpenFresh, ApplyBundle,
     ValidateOk, ValidateNotOk, RollbackCase, Generate, Repair, AcceptCase, Goto, graph, proc,
     FromSnapshot
<1>2. snap \in kg.active /\ Holds(ContentOf(snap)) /\ Typed
  BY <1>1 DEF Pub, Positioned, Inv
<1>3. PICK s : s = snap
  OBVIOUS
<1> QED
  BY <1>1, <1>2, <1>3, PositionedFrom

LEMMA PositionedPublish ==
  ASSUME Inv, Pub, [Next]_vars, PublishBuilding PROVE Positioned'
<1>0. FilesOK /\ ProcessOK /\ Place /\ kg \in Graph /\ Typed /\ WellFormed(kg) /\ AllTold
  BY FilesParts DEF Inv, GraphOK, Pub, Current
<1>1. PICK b \in Ids : b = proposed
  BY <1>0, ProposedTyped
<1>2. case \in Cases /\ case' = case /\ pc' = "publishing"
  BY <1>0, Case DEF PublishBuilding, Place, CasePcs, Pcs, proc, case
<1>3. (building[case])' = b
  BY <1>0, <1>1, <1>2 DEF PublishBuilding, ProcessOK
<1>4. RepoOf(b) = "project" /\ b[2] = fs
  BY <1>1 DEF proposed, RepoOf
<1>5. Holds(b[2])'
  BY <1>0, <1>4, HoldsNow, HoldsKept DEF PublishBuilding, AcceptCase
<1>6. b \in kg'.building
  BY <1>0, <1>1, BegunGraph DEF PublishBuilding
<1> QED
  BY <1>2, <1>3, <1>4, <1>5, <1>6, PositionedBuilt DEF Activating

LEMMA PositionedPublished ==
  ASSUME Inv, Pub, [Next]_vars,
         PublishSaved \/ VerifyActivate \/ VerifySaved \/ ProjectCase \/ AcceptCase \/ SealTransaction
  PROVE  Positioned'
<1>0. GraphOK /\ RowsOK /\ ProcessOK /\ Place /\ kg \in Graph /\ Typed /\ WellFormed(kg) /\ Positioned
  BY FilesParts DEF Inv, GraphOK, Pub, Current
<1>1. /\ case' = case /\ case \in Cases /\ bundle' = bundle /\ building' = building
      /\ accepted' = accepted
  BY <1>0, MovesMove DEF Moves, accepted
<1>2. PICK b : b = building[case]
  OBVIOUS
<1>3. (building[case])' = b /\ ContentOf(b) = b[2]
  BY <1>1, <1>2 DEF ContentOf
<1>4. /\ pc \in {"publishing", "verify"} \cup Activating
      /\ pc' \in {"publishing", "verify"} \cup Activating
  BY DEF PublishSaved, VerifyActivate, VerifySaved, ProjectCase, AcceptCase, SealTransaction, Goto,
     Activating
<1>5. RepoOf(b) = "project" /\ Holds(b[2])
  BY <1>0, <1>2, <1>3, <1>4 DEF Positioned
<1>6. Holds(b[2])'
  <2>1. CASE AcceptCase
    <3>1. b[2].file[case] = bundle
      BY <1>0, <1>2, <1>3, <2>1 DEF AcceptCase, Positioned
    <3> QED
      BY <1>0, <1>5, <2>1, <3>1, HoldsAccepted
  <2>2. CASE ~AcceptCase
    BY <1>0, <1>5, <2>2, HoldsKept
  <2> QED
    BY <2>1, <2>2
<1>7. CASE PublishSaved
  <2>1. pc' = "verify" /\ b \in kg'.building
    BY <1>0, <1>2, <1>7 DEF PublishSaved, Goto, Positioned
  <2> QED
    BY <1>3, <1>4, <1>5, <1>6, <2>1, PositionedBuilt DEF Activating
<1>8. CASE VerifyActivate
  <2>1. pc' = "ready" /\ b \in kg.building /\ kg' = Activated(kg, b) /\ b[2].file[case] = bundle
    BY <1>0, <1>2, <1>3, <1>8 DEF VerifyActivate, Goto, Positioned, Verified
  <2>2. b \in kg'.active /\ \A id \in kg'.active : RepoOf(id) = "project" => id = b
    BY <1>0, <1>5, <2>1, ActivatedGraph
  <2> QED
    BY <1>1, <1>3, <1>4, <1>5, <1>6, <2>1, <2>2, PositionedBuilt DEF Activating
<1>9. CASE VerifySaved \/ ProjectCase \/ AcceptCase \/ SealTransaction
  <2>1. /\ kg' = kg /\ pc \in Activating
        /\ pc' \in {"persist", "accept", "seal", "sealed"}
        /\ pc' \in {"persist", "accept"} => pc \in {"ready", "persist", "accept"}
    BY <1>9 DEF VerifySaved, ProjectCase, AcceptCase, SealTransaction, Goto, graph, Activating
  <2>2. b \in kg'.active /\ \A id \in kg'.active : RepoOf(id) = "project" => id = b
    BY <1>0, <1>2, <2>1 DEF Positioned
  <2>3. pc' \in {"ready", "persist", "accept"} => b[2].file[(case)'] = bundle'
    BY <1>0, <1>1, <1>2, <1>3, <2>1 DEF Positioned
  <2>4. pc' = "accept" => (projected[case] = accepted)'
    BY <1>0, <1>1, <1>9 DEF VerifySaved, ProjectCase, AcceptCase, SealTransaction, Goto, GraphOK
  <2>5. pc' \in {"seal", "sealed"} => (tc[case])'.snapshot = b
    <3>1. CASE AcceptCase
      BY <1>0, <1>1, <1>2, <3>1 DEF AcceptCase, accepted, RowsOK
    <3>2. CASE SealTransaction
      BY <1>0, <1>1, <1>2, <3>2 DEF SealTransaction, Positioned, rows
    <3> QED
      BY <1>9, <3>1, <3>2 DEF VerifySaved, ProjectCase, Goto
  <2> QED
    BY <1>3, <1>4, <1>5, <1>6, <2>1, <2>2, <2>3, <2>4, <2>5, PositionedBuilt
<1> QED
  BY <1>7, <1>8, <1>9

LEMMA PositionedNext ==
  ASSUME Inv, Pub, [Next]_vars PROVE Positioned'
<1>0. FilesOK /\ ProcessOK /\ Place /\ Typed /\ Positioned
  BY FilesParts DEF Inv, Pub
<1>1. CASE Stops \/ IndexFramework
  BY <1>0, <1>1, StopsStop, PositionedElsewhere DEF Stop, IndexFramework
<1>2. CASE Edit \/ UNCHANGED vars
  <2>1. UNCHANGED <<kg, projected, tc, building, pc, proc>>
    BY <1>2 DEF Edit, vars, graph, rows
  <2>2. ~AcceptCase
    BY <1>2, <2>1 DEF Edit, AcceptCase, vars, Goto
  <2> QED
    BY <1>0, <2>1, <2>2, PositionedSame
<1> QED
  BY <1>1, <1>2, PositionedParent, PositionedAdvance, PositionedBefore, PositionedPublish,
     PositionedPublished DEF Next, Step, Stops, Advances

LEMMA PubInit == Init => Pub
<1> SUFFICES ASSUME Init PROVE Pub
  OBVIOUS
<1>1. Current
  BY DEF Init, Current, WellFormed, NoSnapshots
<1>2. Recorded
  BY DEF Init, Recorded, NoRecord
<1>3. Positioned
  BY DEF Init, Positioned, FromSnapshot, Activating
<1> QED
  BY <1>1, <1>2, <1>3 DEF Pub

THEOREM PubHolds == Spec => [](Inv /\ Pub)
<1>1. Init => Inv /\ Pub
  BY InvInit, PubInit
<1>2. (Inv /\ Pub) /\ [Next]_vars => (Inv /\ Pub)'
  <2>1. Inv /\ [Next]_vars => Inv'
    BY TypedNext, ToldNext, StandsNext, SettledNext DEF Inv
  <2> QED
    BY <2>1, CurrentNext, RecordedNext, PositionedNext DEF Pub
<1> QED
  BY <1>1, <1>2, PTL DEF Spec
-----------------------------------------------------------------------------
(* ContextSeesAccepted: the context of a case is retrieved from an active   *)
(* READY snapshot that holds every case accepted before it (what            *)
(* run_scenario_loop hands on from one scenario to the next).               *)
THEOREM ContextIsCurrent == Spec => []ContextSeesAccepted
<1>1. Inv /\ Pub => ContextSeesAccepted
  <2> SUFFICES ASSUME Pub, pc = "generate"
               PROVE  /\ snap \in kg.ready \cap kg.active
                      /\ \A c \in Cases \ touched : tc[c].status = "ACCEPTED" =>
                           ContentOf(snap).file[c] = tc[c].version
    BY DEF ContextSeesAccepted
  <2>1. snap \in kg.active /\ Holds(ContentOf(snap)) /\ kg.active \subseteq kg.ready
    BY DEF Pub, Positioned, FromSnapshot, Current, WellFormed
  <2> QED
    BY <2>1 DEF Holds
<1> QED
  BY <1>1, PubHolds, PTL

(* AcceptedIsPublished: a case is accepted only in an active READY snapshot *)
(* that holds its files and those of every case accepted before it, and its *)
(* row and its node never differ from then on (the order of publish_kg,     *)
(* verify_kg and persist_case).                                             *)
THEOREM AcceptedArePublished == Spec => AcceptedIsPublished
<1>1. (Inv /\ Pub) /\ (Inv /\ Pub)' /\ [Next]_vars =>
        [\A c \in Cases : tc'[c].status = "ACCEPTED" =>
           /\ projected'[c] = tc'[c]
           /\ tc[c].status # "ACCEPTED" =>
                /\ tc'[c].snapshot \in kg.ready \cap kg.active
                /\ \A d \in Cases \ touched : tc'[d].status = "ACCEPTED" =>
                     ContentOf(tc'[c].snapshot).file[d] = tc'[d].version]_vars
  <2> SUFFICES ASSUME Inv, Pub, Inv', Pub', [Next]_vars, NEW c \in Cases, tc'[c].status = "ACCEPTED"
               PROVE  /\ projected'[c] = tc'[c]
                      /\ tc[c].status # "ACCEPTED" =>
                           /\ tc'[c].snapshot \in kg.ready \cap kg.active
                           /\ \A d \in Cases \ touched : tc'[d].status = "ACCEPTED" =>
                                ContentOf(tc'[c].snapshot).file[d] = tc'[d].version
    OBVIOUS
  <2>0. RowsOK /\ Typed /\ Positioned /\ kg.active \subseteq kg.ready
    BY FilesParts DEF Inv, Pub, Current, WellFormed
  <2>1. projected'[c] = tc'[c]
    BY DEF Pub, Recorded
  <2>2. CASE AcceptCase
    <3>1. case \in Cases /\ tc'[case] = accepted /\ (c # case => tc'[c] = tc[c])
      BY <2>0, <2>2, AcceptedTyped DEF AcceptCase, RowsOK
    <3>2. /\ building[case] \in kg.active /\ ContentOf(building[case]).file[case] = bundle
          /\ Holds(ContentOf(building[case]))
      BY <2>0, <2>2 DEF AcceptCase, Positioned, Activating
    <3>3. PICK x : x = ContentOf(building[case])
      OBVIOUS
    <3>4. Holds(x)' /\ touched' = touched
      BY <2>0, <2>2, <3>2, <3>3, HoldsAccepted DEF AcceptCase, framework
    <3>5. accepted.snapshot = building[case]
      BY DEF accepted
    <3>6. CASE c = case
      BY <2>0, <2>1, <3>1, <3>2, <3>3, <3>4, <3>5, <3>6 DEF Holds
    <3>7. CASE c # case
      BY <2>1, <3>1, <3>7
    <3> QED
      BY <3>6, <3>7
  <2>3. CASE ~AcceptCase
    BY <2>0, <2>1, <2>3, NoneAccepted
  <2> QED
    BY <2>2, <2>3
<1> QED
  BY <1>1, PubHolds, PTL DEF Spec, AcceptedIsPublished

(* Where the loop goes on, and the run ends.                                *)
LEMMA OnlyAdvances ==
  ASSUME Typed, [Next]_vars, cur' = cur + 1 PROVE Advances
<1>0. FilesOK /\ ProcessOK /\ Place /\ cur \in Nat /\ cur >= 1
  BY FilesParts, Constants DEF ProcessOK
<1>1. CASE Stops
  BY <1>0, <1>1, StopsStop DEF Stop
<1>2. CASE Moves
  BY <1>0, <1>2, MovesMove
<1>3. CASE Start \/ FreezeInputs \/ PrepareFromActive \/ PrepareByIndex \/ IndexActivate
           \/ Generate \/ Repair \/ PublishBuilding \/ Edit \/ IndexFramework \/ UNCHANGED vars
  BY <1>0, <1>3 DEF Start, FreezeInputs, PrepareFromActive, PrepareByIndex, IndexActivate, Running,
     Generate, Repair, PublishBuilding, Edit, IndexFramework, proc, vars
<1> QED
  BY <1>1, <1>2, <1>3 DEF Next, Step, Stops, Advances, Moves

LEMMA OnlyFinish ==
  ASSUME Typed, [Next]_vars, run' = "COMPLETED", run # "COMPLETED" PROVE FinishRun
<1>1. CASE KeepsRows \/ UNCHANGED vars
  BY <1>1, KeptRows DEF rows, vars
<1>2. CASE FreezeInputs \/ PrepareFromActive \/ IndexActivate \/ ReserveRevision \/ ReserveFresh
           \/ RecordBlocker \/ AcceptCase
  BY <1>2 DEF FreezeInputs, PrepareFromActive, IndexActivate, Running, ReserveRevision, ReserveFresh,
     RecordBlocker, AcceptCase
<1> QED
  BY <1>1, <1>2 DEF Next, Step, KeepsRows

(* LoopSettles: the loop leaves a case accepted and sealed, blocked and     *)
(* restored, or waiting for a revision, and a run is COMPLETED only when    *)
(* every scenario is accepted, sealed and in one READY snapshot             *)
(* (run_scenario_loop, validate_run_exit).                                  *)
THEOREM LoopLeavesSettled == Spec => LoopSettles
<1>1. (Inv /\ Pub) /\ (Inv /\ Pub)' /\ [Next]_vars =>
        [cur' = cur + 1 =>
           CASE results'[cur] = "ACCEPTED" ->
                  tc[case].status = "ACCEPTED" /\ journal[case].status = "SEALED"
             [] results'[cur] = "BLOCKED" ->
                  /\ tc'[case].status = "BLOCKED" /\ journal[case].status = "ROLLED_BACK"
                  /\ ~Generated(case)
             [] OTHER -> tc[case].status = "ACCEPTED"]_vars
  <2> SUFFICES ASSUME Inv, [Next]_vars, cur' = cur + 1
               PROVE  CASE results'[cur] = "ACCEPTED" ->
                             tc[case].status = "ACCEPTED" /\ journal[case].status = "SEALED"
                        [] results'[cur] = "BLOCKED" ->
                             /\ tc'[case].status = "BLOCKED" /\ journal[case].status = "ROLLED_BACK"
                             /\ ~Generated(case)
                        [] OTHER -> tc[case].status = "ACCEPTED"
    OBVIOUS
  <2>1. Advances
    BY OnlyAdvances DEF Inv
  <2> QED
    BY <2>1, SettledOutcome DEF Inv
<1>2. (Inv /\ Pub) /\ (Inv /\ Pub)' /\ [Next]_vars =>
        [run' = "COMPLETED" /\ run # "COMPLETED" =>
           \A c \in Cases \ touched :
             /\ tc[c].status = "ACCEPTED" /\ journal[c].status = "SEALED"
             /\ snap \in kg.ready /\ ContentOf(snap).file[c] = tc[c].version]_vars
  <2> SUFFICES ASSUME Inv, Pub, [Next]_vars, run' = "COMPLETED", run # "COMPLETED",
                      NEW c \in Cases \ touched
               PROVE  /\ tc[c].status = "ACCEPTED" /\ journal[c].status = "SEALED"
                      /\ snap \in kg.ready /\ ContentOf(snap).file[c] = tc[c].version
    OBVIOUS
  <2>1. FinishRun /\ Typed
    BY OnlyFinish DEF Inv
  <2>2. PICK i \in 1 .. Len(Order) : c = Order[i]
    BY Constants DEF Cases
  <2>3. Len(results) = Len(Order) /\ DOMAIN results = 1 .. Len(Order)
    <3>1. results \in Seq(Outcomes) /\ Len(results) + 1 = cur /\ cur \in 1 .. Len(Order) + 1
      BY <2>1 DEF Typed, TypeOK, Place
    <3>2. cur > Len(Order)
      BY <2>1 DEF FinishRun
    <3> QED
      BY <3>1, <3>2, Constants
  <2>4. results[i] = "ACCEPTED"
    BY <2>1, <2>2, <2>3 DEF FinishRun
  <2>5. tc[c].status = "ACCEPTED" /\ journal[c].status = "SEALED"
    BY <2>2, <2>3, <2>4 DEF Inv, Settled
  <2>6. snap \in kg.active /\ Holds(ContentOf(snap)) /\ kg.active \subseteq kg.ready
    BY <2>1 DEF FinishRun, Pub, Positioned, FromSnapshot, Current, WellFormed
  <2> QED
    BY <2>5, <2>6 DEF Holds
<1> QED
  BY <1>1, <1>2, PubHolds, PTL DEF Spec, LoopSettles, LeavesCaseSettled, CompletedRunIsWhole
-----------------------------------------------------------------------------
(* The replay of accepted cases, while no process dies and nobody edits: no *)
(* rejected file stays, so a snapshot that was accepted holds accepted      *)
(* files only, and one that is no longer active lacks a file that has been  *)
(* accepted since.                                                          *)

Calm == edits = 0 /\ ~crashed
IsAccepted(c) == tc[c].status = "ACCEPTED"
Lacks(c, d) == ContentOf(tc[c].snapshot).file[d] = Absent

Pending == {"apply", "validate", "repair", "rollback", "publish", "publishing", "verify",
            "ready", "persist", "accept"}
Persisting == {"ready", "persist", "accept"}

(* The files of the framework are accepted ones, or of the case in hand.    *)
Clean ==
  /\ touched = {}
  /\ \A c \in Cases :
       /\ fs.file[c] # Foreign
       /\ IsAccepted(c) \/ fs.file[c] = Absent \/ (pc \in Pending /\ c = case)

(* What is being published is the framework as it stands.                   *)
Frozen == pc \in Persisting \cup {"publishing", "verify"} => building[case] = <<"project", fs>>

Superseded(c) == \E d \in Cases : IsAccepted(d) /\ Lacks(c, d)

Remembered(c) ==
  IsAccepted(c) =>
    /\ tc[c].version \in Versions
    /\ \A d \in Cases : ~IsAccepted(d) => Lacks(c, d)
    /\ \/ tc[c].snapshot \in kg.active
       \/ Superseded(c)
       \/ pc \in Persisting

Undisturbed == Clean /\ Frozen /\ \A c \in Cases : Remembered(c)

(* The snapshot that prepare_index writes is the path's, not the project's. *)
IndexOfPath == pc = "index" => RepoOf(snap) = "path"

ReplayInv == IndexOfPath /\ (Calm => Undisturbed)

LEMMA CalmBefore ==
  ASSUME Typed, [Next]_vars, Calm'
  PROVE  Calm /\ ~Crash /\ ~ApplyInterrupted /\ ~Edit
<1>0. FilesOK /\ ProcessOK
  BY FilesParts
<1>1. ~Dies
  BY DEF Dies, Calm
<1>2. ~Crash /\ ~ApplyInterrupted
  BY <1>1 DEF Crash, ApplyInterrupted
<1>3. ~Edit
  BY <1>0, Constants DEF Edit, Calm, FilesOK
<1>4. edits' = edits
  <2>1. CASE KeepsFiles \/ UNCHANGED vars
    BY <2>1, KeptFiles DEF vars, framework
  <2>2. CASE OpenReconcile \/ RollbackCase \/ ApplyFails \/ RepairRaises \/ PublishFails
             \/ VerifyFails
    BY <2>2 DEF OpenReconcile, RollbackCase, ApplyFails, RepairRaises, PublishFails, VerifyFails,
       Unpublish, RollbackOpen, Undo, framework
  <2>3. CASE OpenFresh \/ ApplyBundle \/ SealTransaction \/ SealSaved \/ ReserveAccepted
    BY <2>3 DEF OpenFresh, ApplyBundle, SealTransaction, SealSaved, ReserveAccepted, framework
  <2> QED
    BY <1>2, <1>3, <2>1, <2>2, <2>3 DEF Next, Step, KeepsFiles
<1>5. crashed' = crashed
  <2>1. CASE Stops
    BY <1>2, <2>1 DEF Stops, PrepareRefused, IndexFails, FinishRun, OpenDrift, ApplyFails,
       RepairRaises, RollbackDrift, PublishFails, VerifyFails, Unpublish, SealMismatch,
       ReplayNotVisible, Fault, bounds
  <2>2. CASE Advances
    BY <2>2 DEF Advances, ReserveRevision, RecordBlocker, SealSaved, ReplayAdvances, bounds
  <2>3. CASE Moves
    BY <1>2, <2>3 DEF Moves, ReserveAccepted, ReserveFresh, OpenReconcile, OpenFresh, ApplyBundle,
       ValidateOk, ValidateNotOk, RollbackCase, PublishSaved, VerifyActivate, VerifySaved,
       ProjectCase, AcceptCase, SealTransaction, bounds
  <2>4. CASE Start \/ FreezeInputs \/ PrepareFromActive \/ PrepareByIndex \/ IndexActivate
             \/ Generate \/ Repair \/ PublishBuilding \/ IndexFramework \/ UNCHANGED vars
    BY <2>4 DEF Start, FreezeInputs, PrepareFromActive, PrepareByIndex, IndexActivate, Generate,
       Repair, PublishBuilding, IndexFramework, vars, bounds
  <2> QED
    BY <1>3, <2>1, <2>2, <2>3, <2>4 DEF Next, Step, Stops, Advances, Moves
<1> QED
  BY <1>2, <1>3, <1>4, <1>5 DEF Calm

(* A case stays accepted, and only AcceptCase accepts another.              *)
LEMMA AcceptedAfter ==
  ASSUME Inv, [Next]_vars, NEW c \in Cases
  PROVE  /\ IsAccepted(c) => IsAccepted(c)' /\ tc'[c] = tc[c]
         /\ ~AcceptCase /\ IsAccepted(c)' => IsAccepted(c) /\ tc'[c] = tc[c]
  BY AcceptedRowKept, NoneAccepted DEF Inv, IsAccepted

(* A rollback leaves no file of the case.                                   *)
LEMMA RolledBack ==
  ASSUME Inv, Clean, case \in Cases, pc \in Pending, RollbackOpen \/ (Undo /\ journal[case].entries)
  PROVE  /\ touched' = touched /\ fs'.file[case] = Absent
         /\ \A c \in Cases : c # case => fs'.file[c] = fs.file[c]
<1>0. FilesOK /\ Told(case) /\ Stands
  BY FilesParts DEF Inv, AllTold
<1>1. ~Drifted
  BY DEF Clean, Drifted, file
<1>2. journal[case].status = "OPEN" /\ tc[case].status # "ACCEPTED"
  BY <1>0 DEF Stands, Pending, Written, Attempt, CasePcs, Pcs
<1>3. Undo
  BY <1>1, <1>2 DEF RollbackOpen
<1>4. fs.file[case] \in Bytes /\ fs.file[case] # Foreign /\ journal[case].entries \in BOOLEAN
  BY <1>0, FileOfFramework DEF FilesOK, Clean
<1>5. ~journal[case].entries => fs.file[case] = Absent
  BY <1>0, <1>2, <1>4 DEF Told, Generated, Bytes
<1> QED
  BY <1>0, <1>3, <1>5, UndoWrites

LEMMA CleanNext ==
  ASSUME Inv, Clean, Calm, Calm', [Next]_vars PROVE Clean'
<1>0. FilesOK /\ ProcessOK /\ Place /\ Typed /\ ~Crash /\ ~ApplyInterrupted /\ ~Edit
  BY FilesParts, CalmBefore DEF Inv
<1>c. pc \in CasePcs => case \in Cases
  BY Case, <1>0 DEF Place
<1>d. ~Drifted \/ pc \notin CasePcs
  BY <1>c DEF Clean, Drifted, file
<1>a. ASSUME touched' = touched, \A c \in Cases : fs'.file[c] = fs.file[c],
             ~(pc \in Pending) \/ (pc' \in Pending /\ case' = case) \/ AcceptCase
      PROVE  Clean'
  <2>1. ASSUME NEW c \in Cases
        PROVE  /\ fs'.file[c] # Foreign
               /\ IsAccepted(c)' \/ fs'.file[c] = Absent \/ (pc' \in Pending /\ c = case')
    <3>1. IsAccepted(c) => IsAccepted(c)'
      BY AcceptedAfter
    <3>2. CASE AcceptCase /\ c = case
      <4>1. c \in Cases /\ tc \in [Cases -> Record] /\ tc' = [tc EXCEPT ![c] = accepted]
        BY <1>0, <3>2 DEF AcceptCase, Typed, TypeOK
      <4>2. IsAccepted(c)'
        BY <4>1 DEF IsAccepted, accepted
      <4> QED
        BY <1>a, <4>2 DEF Clean
    <3>3. CASE ~(AcceptCase /\ c = case)
      BY <1>a, <3>1, <3>3 DEF Clean
    <3> QED
      BY <3>2, <3>3
  <2> QED
    BY <1>a, <2>1 DEF Clean
<1>b. ASSUME touched' = touched, case \in Cases, pc \in Pending \cup {"open"},
             \A c \in Cases : c # case => fs'.file[c] = fs.file[c],
             fs'.file[case] = Absent \/ (fs'.file[case] # Foreign /\ pc' \in Pending /\ case' = case)
      PROVE  Clean'
  <2>1. ASSUME NEW c \in Cases
        PROVE  /\ fs'.file[c] # Foreign
               /\ IsAccepted(c)' \/ fs'.file[c] = Absent \/ (pc' \in Pending /\ c = case')
    <3>1. IsAccepted(c) => IsAccepted(c)'
      BY AcceptedAfter
    <3> QED
      BY <1>b, <3>1, Distinct DEF Clean
  <2> QED
    BY <1>b, <2>1 DEF Clean
<1>1. CASE KeepsFiles \/ UNCHANGED vars
  <2>1. touched' = touched /\ fs' = fs
    BY <1>1, KeptFiles DEF vars, framework
  <2>2. ASSUME pc \in Pending PROVE (pc' \in Pending /\ case' = case) \/ AcceptCase
    <3>1. CASE ValidateOk \/ ValidateNotOk \/ PublishSaved \/ VerifyActivate \/ VerifySaved
               \/ ProjectCase
      BY <3>1 DEF ValidateOk, ValidateNotOk, PublishSaved, VerifyActivate, VerifySaved,
         ProjectCase, Goto, proc, case, Pending
    <3>2. CASE Repair \/ PublishBuilding
      BY <3>2 DEF Repair, PublishBuilding, proc, case, Pending
    <3>3. CASE UNCHANGED vars
      BY <2>2, <3>3 DEF vars, proc, case
    <3>4. ~RollbackDrift
      BY <1>d DEF RollbackDrift, CasePcs, Pcs
    <3>5. /\ ~Start /\ ~FreezeInputs /\ ~PrepareFromActive /\ ~PrepareRefused /\ ~PrepareByIndex
          /\ ~IndexActivate /\ ~IndexFails /\ ~FinishRun /\ ~ReserveRevision /\ ~ReserveFresh
          /\ ~Generate /\ ~OpenDrift /\ ~RecordBlocker /\ ~SealMismatch /\ ~ReplayAdvances
          /\ ~ReplayNotVisible /\ ~IndexFramework
      BY <2>2 DEF Start, FreezeInputs, PrepareFromActive, PrepareRefused, PrepareByIndex,
         IndexActivate, IndexFails, FinishRun, ReserveRevision, ReserveFresh, Reserving, Generate,
         OpenDrift, RecordBlocker, SealMismatch, ReplayAdvances, ReplayNotVisible, IndexFramework,
         Pending
    <3> QED
      BY <1>0, <1>1, <3>1, <3>2, <3>3, <3>4, <3>5 DEF KeepsFiles
  <2> QED
    BY <1>a, <2>1, <2>2
<1>2. CASE RollbackCase \/ ApplyFails \/ RepairRaises \/ PublishFails \/ VerifyFails
  <2>1. pc \in Pending /\ pc \in CasePcs
    BY <1>2 DEF RollbackCase, ApplyFails, RepairRaises, PublishFails, VerifyFails, Pending,
       CasePcs, Pcs
  <2>2. CASE RollbackCase
    <3>1. Undo /\ journal[case].entries
      BY <2>2 DEF RollbackCase, Inv, Stands
    <3> QED
      BY <1>b, <1>c, <2>1, <3>1, RolledBack
  <2>3. CASE ApplyFails \/ RepairRaises \/ PublishFails \/ VerifyFails
    <3>1. RollbackOpen
      BY <2>3 DEF ApplyFails, RepairRaises, PublishFails, VerifyFails, Unpublish
    <3> QED
      BY <1>b, <1>c, <2>1, <3>1, RolledBack
  <2> QED
    BY <1>2, <2>2, <2>3
<1>3. CASE OpenReconcile
  <2>1. pc = "open" /\ case \in Cases /\ Undo /\ journal[case].entries
    BY <1>c, <1>3 DEF OpenReconcile, CasePcs, Pcs
  <2> QED
    BY <1>0, <1>b, <2>1, UndoWrites
<1>4. CASE OpenFresh \/ ReserveAccepted \/ SealTransaction \/ SealSaved
  <2>1. pc \notin Pending /\ touched' = touched /\ fs' = fs
    BY <1>4 DEF OpenFresh, ReserveAccepted, Reserving, SealTransaction, SealSaved, Pending,
       framework
  <2> QED
    BY <1>a, <2>1
<1>5. CASE ApplyBundle
  <2>1. /\ pc = "apply" /\ case \in Cases /\ bundle \in Versions /\ touched' = touched
        /\ pc' = "validate" /\ case' = case /\ fs' = [fs EXCEPT !.file[case] = bundle]
    BY <1>0, <1>c, <1>5 DEF ApplyBundle, Place, CasePcs, Pcs, Goto, proc, case
  <2>2. bundle \in Bytes /\ bundle # Foreign
    BY <2>1, Constants DEF Bytes
  <2>3. fs'.file[case] = bundle /\ \A c \in Cases : c # case => fs'.file[c] = fs.file[c]
    BY <1>0, <2>1, <2>2, FileWrites
  <2> QED
    BY <1>b, <2>1, <2>2, <2>3 DEF Pending
<1> QED
  BY <1>0, <1>1, <1>2, <1>3, <1>4, <1>5 DEF Next, Step, KeepsFiles

LEMMA FrozenNext ==
  ASSUME Inv, Frozen, Calm, Calm', [Next]_vars PROVE Frozen'
<1>0. FilesOK /\ ProcessOK /\ Place /\ Typed /\ ~Crash /\ ~ApplyInterrupted /\ ~Edit
  BY FilesParts, CalmBefore DEF Inv
<1>1. CASE PublishSaved \/ VerifyActivate \/ VerifySaved \/ ProjectCase \/ IndexFramework
           \/ UNCHANGED vars
  <2>1. /\ fs' = fs /\ building' = building /\ case' = case
        /\ pc' \in Persisting \cup {"publishing", "verify"} =>
             pc \in Persisting \cup {"publishing", "verify"}
    BY <1>1 DEF PublishSaved, VerifyActivate, VerifySaved, ProjectCase, IndexFramework, vars,
       framework, Goto, proc, case, Persisting
  <2> QED
    BY <2>1 DEF Frozen
<1>2. CASE PublishBuilding
  <2>1. /\ fs' = fs /\ building' = [building EXCEPT ![case] = <<"project", fs>>] /\ case' = case
        /\ pc \in CasePcs
    BY <1>2 DEF PublishBuilding, framework, proposed, proc, case, CasePcs, Pcs
  <2>2. case \in Cases
    BY <1>0, <2>1, Case DEF Place
  <2> QED
    BY <1>0, <2>1, <2>2 DEF Frozen, ProcessOK
<1>3. CASE ~(PublishSaved \/ VerifyActivate \/ VerifySaved \/ ProjectCase \/ IndexFramework
             \/ PublishBuilding \/ UNCHANGED vars)
  <2>1. pc' \notin Persisting \cup {"publishing", "verify"}
    <3>1. CASE Stops \/ Advances
      <4>1. pc' \in {"down", "reserve"}
        BY <1>0, <3>1, StopsStop, AdvancesAdvance DEF Stop, Advance
      <4> QED
        BY <4>1 DEF Persisting
    <3>2. CASE Moves
      BY <1>3, <3>2 DEF Moves, ReserveAccepted, ReserveFresh, OpenReconcile, OpenFresh,
         ApplyBundle, ValidateOk, ValidateNotOk, RollbackCase, AcceptCase, SealTransaction, Goto,
         Persisting
    <3>3. CASE Start \/ FreezeInputs \/ PrepareFromActive \/ PrepareByIndex \/ IndexActivate
               \/ Generate \/ Repair
      BY <3>3 DEF Start, FreezeInputs, PrepareFromActive, PrepareByIndex, IndexActivate, Running,
         Generate, Repair, Persisting
    <3> QED
      BY <1>0, <1>3, <3>1, <3>2, <3>3 DEF Next, Step, Stops, Advances, Moves
  <2> QED
    BY <2>1 DEF Frozen
<1> QED
  BY <1>1, <1>2, <1>3

LEMMA IndexOfPathNext == ASSUME Inv, IndexOfPath, [Next]_vars PROVE IndexOfPath'
<1>0. FilesOK /\ ProcessOK /\ Place /\ Typed
  BY FilesParts DEF Inv
<1>1. CASE PrepareByIndex
  BY <1>0, <1>1, Identities DEF PrepareByIndex, IndexOfPath, FilesOK
<1>2. CASE Edit \/ IndexFramework \/ UNCHANGED vars
  BY <1>2 DEF Edit, IndexFramework, vars, proc, IndexOfPath
<1>3. CASE ~PrepareByIndex /\ ~Edit /\ ~IndexFramework /\ ~UNCHANGED vars
  <2>1. pc' # "index"
    <3>1. CASE Stops \/ Advances
      BY <1>0, <3>1, StopsStop, AdvancesAdvance DEF Stop, Advance
    <3>2. CASE Moves
      BY <3>2 DEF Moves, ReserveAccepted, ReserveFresh, OpenReconcile, OpenFresh, ApplyBundle,
         ValidateOk, ValidateNotOk, RollbackCase, PublishSaved, VerifyActivate, VerifySaved,
         ProjectCase, AcceptCase, SealTransaction, Goto
    <3>3. CASE Start \/ FreezeInputs \/ PrepareFromActive \/ IndexActivate \/ Generate \/ Repair
               \/ PublishBuilding
      BY <3>3 DEF Start, FreezeInputs, PrepareFromActive, IndexActivate, Running, Generate,
         Repair, PublishBuilding
    <3> QED
      BY <1>3, <3>1, <3>2, <3>3 DEF Next, Step, Stops, Advances, Moves
  <2> QED
    BY <2>1 DEF IndexOfPath
<1> QED
  BY <1>1, <1>2, <1>3

(* A snapshot of the project stays active until another one is activated or *)
(* it is published anew.                                                    *)
LEMMA ActiveKept ==
  ASSUME Inv, Pub, IndexOfPath, [Next]_vars, ~VerifyActivate,
         NEW id \in kg.active, RepoOf(id) = "project", PublishBuilding => id # proposed
  PROVE  id \in kg'.active
<1>0. FilesOK /\ GraphOK /\ ProcessOK /\ Place /\ kg \in Graph /\ WellFormed(kg)
  BY FilesParts DEF Inv, GraphOK, Pub, Current
<1>1. CASE KeepsGraph \/ UNCHANGED vars
  BY <1>1, KeptGraph DEF vars, graph
<1>2. CASE PublishSaved \/ VerifySaved \/ ProjectCase
  BY <1>2 DEF PublishSaved, VerifySaved, ProjectCase
<1>3. CASE PrepareByIndex \/ PublishBuilding
  <2>1. PICK other : kg' = Begun(kg, other) /\ other # id
    <3>1. CASE PrepareByIndex
      BY <1>0, <3>1, Identities DEF PrepareByIndex, FilesOK
    <3>2. CASE PublishBuilding
      BY <3>2 DEF PublishBuilding
    <3> QED
      BY <1>3, <3>1, <3>2
  <2> QED
    BY <2>1 DEF Begun
<1>4. CASE IndexActivate
  <2>1. kg' = Activated(kg, snap) /\ RepoOf(snap) = "path"
    BY <1>4 DEF IndexActivate, IndexOfPath
  <2> QED
    BY <2>1 DEF Activated, SameRepo
<1>5. CASE IndexFails \/ PublishFails \/ VerifyFails
  <2>1. PICK other : kg' = kg \/ kg' = MarkedFailed(kg, other)
    BY <1>5 DEF IndexFails, PublishFails, VerifyFails, Unpublish
  <2> QED
    BY <1>0, <2>1, FailedGraph
<1>6. CASE IndexFramework
  <2> DEFINE path == <<"path", fs>>
  <2>1. RepoOf(path) = "path" /\ kg' = Activated(Begun(kg, path), path)
    BY <1>0, <1>6, Identities DEF IndexFramework, FilesOK
  <2> HIDE DEF path
  <2> QED
    BY <2>1 DEF Activated, SameRepo, Begun
<1> QED
  BY <1>1, <1>2, <1>3, <1>4, <1>5, <1>6 DEF Next, Step, KeepsGraph

(* Between activation and acceptance the process goes on, or dies.          *)
LEMMA PersistingOn ==
  ASSUME Inv, Calm, Calm', [Next]_vars, ~AcceptCase, pc \in Persisting
  PROVE  pc' \in Persisting
<1>0. ~Crash /\ ~ApplyInterrupted /\ ~Edit
  BY CalmBefore DEF Inv
<1>1. CASE VerifySaved \/ ProjectCase \/ UNCHANGED vars
  BY <1>1 DEF VerifySaved, ProjectCase, Goto, vars, Persisting
<1>2. CASE ~(VerifySaved \/ ProjectCase \/ UNCHANGED vars)
  BY <1>0, <1>2 DEF Next, Step, Persisting, Start, FreezeInputs, PrepareFromActive, PrepareRefused,
     PrepareByIndex, IndexActivate, IndexFails, FinishRun, Reserving, ReserveRevision,
     ReserveAccepted, ReserveFresh, Generate, OpenReconcile, OpenDrift, OpenFresh, ApplyBundle,
     ApplyFails, ValidateOk, ValidateNotOk, Repair, RepairRaises, RollbackCase, RollbackDrift,
     RecordBlocker, PublishBuilding, PublishSaved, PublishFails, VerifyActivate, VerifyFails,
     SealTransaction, SealMismatch, SealSaved, ReplayAdvances, ReplayNotVisible, IndexFramework
<1> QED
  BY <1>1, <1>2

LEMMA RememberedNext ==
  ASSUME Inv, Pub, IndexOfPath, Undisturbed, Calm, Calm', [Next]_vars, NEW c \in Cases
  PROVE  Remembered(c)'
<1>0. FilesOK /\ ProcessOK /\ RowsOK /\ Place /\ Typed /\ Stands
  BY FilesParts DEF Inv
<1>r. Remembered(c) /\ Clean /\ Frozen
  BY DEF Undisturbed
<1>1. CASE AcceptCase
  <2>1. /\ case \in Cases /\ bundle \in Versions /\ ~IsAccepted(case) /\ pc = "accept"
        /\ building[case] = <<"project", fs>> /\ building[case] \in kg.active
    BY <1>0, <1>1, <1>r, AcceptedTyped DEF AcceptCase, Place, CasePcs, Pcs, Stands, Attempt, Frozen,
       Persisting, Pub, Positioned, Activating, IsAccepted
  <2>2. kg' = kg /\ tc' = [tc EXCEPT ![case] = accepted] /\ tc \in [Cases -> Record]
    BY <1>0, <1>1 DEF AcceptCase, graph, RowsOK
  <2>3. PICK k \in Cases : k = case
    BY <2>1
  <2>4. /\ tc'[k].status = "ACCEPTED" /\ tc'[k].version = bundle
        /\ tc'[k].snapshot = <<"project", fs>>
        /\ \A d \in Cases : d # k => tc'[d] = tc[d]
    BY <2>1, <2>2, <2>3 DEF accepted
  <2>5. CASE c = k
    <3>1. ASSUME NEW d \in Cases, ~IsAccepted(d)' PROVE Lacks(c, d)'
      <4>1. d # k /\ ~IsAccepted(d)
        BY <2>4, <3>1 DEF IsAccepted
      <4>2. fs.file[d] = Absent
        BY <1>r, <2>3, <4>1 DEF Clean
      <4>3. ContentOf(<<"project", fs>>) = fs
        BY DEF ContentOf
      <4> QED
        BY <2>4, <2>5, <4>2, <4>3 DEF Lacks
    <3> QED
      BY <2>1, <2>2, <2>4, <2>5, <3>1 DEF Remembered
  <2>6. CASE c # k
    <3>1. SUFFICES ASSUME IsAccepted(c)' PROVE Remembered(c)'
      BY DEF Remembered
    <3>2. IsAccepted(c) /\ tc'[c] = tc[c]
      BY <2>4, <2>6, <3>1 DEF IsAccepted
    <3>3. ASSUME NEW d \in Cases, ~IsAccepted(d)' PROVE Lacks(c, d)'
      <4>1. ~IsAccepted(d)
        BY <2>4, <3>3 DEF IsAccepted
      <4> QED
        BY <1>r, <3>2, <4>1 DEF Remembered, Lacks
    <3>4. Superseded(c)'
      <4>1. Lacks(c, k)
        BY <1>r, <2>1, <2>3, <3>2 DEF Remembered
      <4>2. Lacks(c, k)' /\ IsAccepted(k)'
        BY <2>4, <3>2, <4>1 DEF Lacks, IsAccepted
      <4> QED
        BY <4>2 DEF Superseded
    <3> QED
      BY <1>r, <3>2, <3>3, <3>4 DEF Remembered
  <2> QED
    BY <2>5, <2>6
<1>2. CASE ~AcceptCase
  <2>1. SUFFICES ASSUME IsAccepted(c)' PROVE Remembered(c)'
    BY DEF Remembered
  <2>2. IsAccepted(c) /\ tc'[c] = tc[c]
    BY <1>2, <2>1, AcceptedAfter
  <2>3. ASSUME NEW d \in Cases PROVE Lacks(c, d) => Lacks(c, d)'
    BY <2>2 DEF Lacks
  <2>4. ASSUME NEW d \in Cases, ~IsAccepted(d)' PROVE Lacks(c, d)'
    BY <1>r, <2>2, <2>3, <2>4, AcceptedAfter DEF Remembered
  <2>5. \/ tc'[c].snapshot \in kg'.active \/ Superseded(c)' \/ pc' \in Persisting
    <3>1. CASE VerifyActivate
      BY <3>1 DEF VerifyActivate, Goto, Persisting
    <3>2. CASE Superseded(c)
      BY <2>3, <3>2, AcceptedAfter DEF Superseded
    <3>3. CASE pc \in Persisting
      BY <1>2, <3>3, PersistingOn
    <3>4. CASE ~VerifyActivate /\ tc[c].snapshot \in kg.active
      <4>1. RepoOf(tc[c].snapshot) = "project"
        BY <2>2 DEF Pub, Recorded, IsAccepted
      <4>2. ASSUME PublishBuilding PROVE tc[c].snapshot # proposed
        <5>1. pc = "publish" /\ file # Absent /\ case \in Cases
          BY <1>0, <4>2, Case DEF PublishBuilding, Place, CasePcs, Pcs
        <5>2. Lacks(c, case)
          BY <1>0, <1>r, <2>2, <5>1 DEF Stands, Attempt, CasePcs, Pcs, IsAccepted, Remembered
        <5> QED
          BY <5>1, <5>2 DEF Lacks, proposed, ContentOf, file
      <4> QED
        BY <2>2, <3>4, <4>1, <4>2, ActiveKept
    <3> QED
      BY <1>r, <2>2, <3>1, <3>2, <3>3, <3>4 DEF Remembered
  <2> QED
    BY <1>r, <2>2, <2>4, <2>5 DEF Remembered
<1> QED
  BY <1>1, <1>2

LEMMA ReplayInit == Init => ReplayInv
<1> SUFFICES ASSUME Init PROVE ReplayInv
  OBVIOUS
<1>1. pc = "down" /\ touched = {} /\ \A c \in Cases : fs.file[c] = Absent /\ ~IsAccepted(c)
  BY NothingTyped DEF Init, NoRecord, IsAccepted
<1> QED
  BY <1>1, Distinct DEF ReplayInv, IndexOfPath, Undisturbed, Clean, Frozen, Persisting, Remembered

(* ReplaySurvives: while no process died and nobody edited the framework,   *)
(* an accepted case whose framework is the one it was accepted in finds its *)
(* snapshot active, over any number of runs (run_scenario, publish_kg and   *)
(* verify_kg): a snapshot is only superseded by one that holds a file       *)
(* accepted since.                                                          *)
THEOREM ReplaysSurvive == Spec => []ReplaySurvives
<1>1. Init => ReplayInv
  BY ReplayInit
<1>2. (Inv /\ Pub) /\ ReplayInv /\ [Next]_vars => ReplayInv'
  <2> SUFFICES ASSUME Inv, Pub, ReplayInv, [Next]_vars PROVE ReplayInv'
    OBVIOUS
  <2>1. IndexOfPath'
    BY IndexOfPathNext DEF ReplayInv
  <2>2. ASSUME Calm' PROVE Undisturbed'
    <3>1. Calm /\ Undisturbed /\ IndexOfPath
      BY <2>2, CalmBefore DEF ReplayInv, Inv
    <3>2. Clean' /\ Frozen'
      BY <2>2, <3>1, CleanNext, FrozenNext DEF Undisturbed
    <3>3. \A c \in Cases : Remembered(c)'
      BY <2>2, <3>1, RememberedNext
    <3> QED
      BY <3>2, <3>3 DEF Undisturbed
  <2> QED
    BY <2>1, <2>2 DEF ReplayInv
<1>3. Inv /\ Pub /\ ReplayInv => ReplaySurvives
  <2> SUFFICES ASSUME Inv, ReplayInv, pc = "replayed", Calm, fs = ContentOf(tc[case].snapshot)
               PROVE  ~NotVisible
    BY DEF ReplaySurvives, Calm
  <2>1. case \in Cases /\ IsAccepted(case)
    BY FilesParts, Case DEF Inv, Place, Stands, CasePcs, Pcs, IsAccepted
  <2>2. tc[case].snapshot \in kg.active \/ Superseded(case)
    BY <2>1 DEF ReplayInv, Undisturbed, Remembered, Persisting
  <2>3. ASSUME NEW d \in Cases, IsAccepted(d), Lacks(case, d) PROVE FALSE
    <3>1. fs.file[d] = Absent
      BY <2>3 DEF Lacks
    <3>2. fs.file[d] = tc[d].version /\ tc[d].version \in Versions
      BY <2>3 DEF Inv, AllTold, Told, IsAccepted, ReplayInv, Undisturbed, Clean, Remembered
    <3> QED
      BY <3>1, <3>2, Constants
  <2> QED
    BY <2>2, <2>3 DEF Superseded, NotVisible, Visible
<1> QED
  BY <1>1, <1>2, <1>3, PubHolds, PTL DEF Spec
=============================================================================
