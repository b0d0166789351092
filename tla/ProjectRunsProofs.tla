------------------------- MODULE ProjectRunsProofs -------------------------
(***************************************************************************)
(* Theorems about ProjectRuns, for any runs, documents, models, facts and  *)
(* resets: types, who holds the discovery lease, that the permanent        *)
(* requirement IDs of a project never diverge; and of commands that do not *)
(* overlap, that the vectors of a project come from one model, that edges  *)
(* have their chunks, that a finished reset leaves nothing of its run, and *)
(* that a ready run has its requirements in the graph.                     *)
(***************************************************************************)
EXTENDS ProjectRuns, TLAPS

LEMMA Constants ==
  /\ Nobody \notin Runs
  /\ Document \in [Runs -> Seq(Chunks)] /\ ModelOf \in [Runs -> Models]
  /\ \A r \in Runs : Document[r] # <<>>
  /\ Targets \subseteq Runs \cup {Nobody} /\ MaxResets \in Nat
  BY RunsAssumption

\* The position of a process is a position of its document.
LEMMA Positions ==
  ASSUME NEW r \in Runs
  PROVE  /\ DOMAIN Document[r] = 1 .. Len(Document[r]) /\ Len(Document[r]) \in Nat
         /\ 1 \in DOMAIN Document[r]
         /\ \A n \in DOMAIN Document[r] : Document[r][n] \in Chunks
<1>1. Document[r] \in Seq(Chunks) /\ Document[r] # <<>>
  BY Constants
<1> QED
  BY <1>1

LEMMA TypeInit == Init => TypeOK
<1> SUFFICES ASSUME Init PROVE TypeOK
  OBVIOUS
<1>1. \A r \in Runs : 1 \in DOMAIN Document[r]
  BY Positions
<1>2. NoReset \in [run : Runs \cup {Nobody}, step : ResetSteps \cup {"none"}, ids : SUBSET Chunks]
  BY DEF NoReset
<1> QED
  BY <1>1, <1>2 DEF Init, TypeOK, Pcs, None

LEMMA TypeIngest ==
  ASSUME TypeOK, NEW r \in Runs, IngestStep(r) PROVE TypeOK'
<1>0. 1 \in DOMAIN Document[r] /\ current(r) \in Chunks /\ ModelOf[r] \in Models
  BY Positions, Constants DEF TypeOK, current
<1> USE DEF TypeOK, Goto, Pcs, Ingesting, Discovering, Leased, files, local, resetting,
            history, neo4j, postgres
<1>1. CASE Ingest(r)
  BY <1>1 DEF Ingest
<1>2. CASE IngestRefused(r) \/ ReadBackMissing(r)
  BY <1>0, <1>2 DEF IngestRefused, ReadBackMissing, Abort, End
<1>3. CASE PersistChunkNeo4j(r)
  BY <1>0, <1>3 DEF PersistChunkNeo4j, UpsertChunk
<1>4. CASE PersistChunkChroma(r)
  BY <1>0, <1>4 DEF PersistChunkChroma, UpsertVector
<1>5. CASE ValidateChunk(r)
  <2>1. at'[r] \in DOMAIN Document[r] /\ at'[r] \in Nat
    BY <1>0, <1>5, Positions DEF ValidateChunk, IsLast
  <2> QED
    BY <1>5, <2>1 DEF ValidateChunk
<1>6. CASE PublishManifest(r)
  BY <1>6 DEF PublishManifest
<1> QED
  BY <1>1, <1>2, <1>3, <1>4, <1>5, <1>6 DEF IngestStep

LEMMA TypeDiscover ==
  ASSUME TypeOK, NEW r \in Runs, DiscoverStep(r) PROVE TypeOK'
<1>0. 1 \in DOMAIN Document[r] /\ current(r) \in Chunks
  BY Positions DEF TypeOK, current
<1> USE DEF TypeOK, Goto, Pcs, Ingesting, Discovering, Leased, files, local, resetting,
            history, neo4j, postgres
<1>1. CASE SetBuilding(r)
  BY <1>1 DEF SetBuilding, MarkReadiness
<1>2. CASE TakeLease(r)
  BY <1>2 DEF TakeLease
<1>3. CASE Answer(r)
  BY <1>3 DEF Answer, Answers
<1>4. CASE Prune(r)
  BY <1>4 DEF Prune, Stale
<1>5. CASE UpsertEntities(r)
  BY <1>5 DEF UpsertEntities, Answered
<1>6. CASE UpsertEdges(r)
  <2>1. {current(r)} \X (Answered(r) \cap entity) \subseteq Chunks \X Facts
    BY <1>0
  <2> QED
    BY <1>6, <2>1 DEF UpsertEdges
<1>7. CASE RecordChunkResult(r)
  <2>1. at'[r] \in DOMAIN Document[r] /\ at'[r] \in Nat
    BY <1>0, <1>7, Positions DEF RecordChunkResult, IsLast
  <2> QED
    BY <1>7, <2>1 DEF RecordChunkResult, Answered, None
<1>8. CASE LoadProjectRequirements(r)
  BY <1>8 DEF LoadProjectRequirements, Masters
<1>9. CASE PersistRequirements(r)
  <2>1. Named(r) \subseteq Ids
    BY DEF Named
  <2> QED
    BY <1>9, <2>1 DEF PersistRequirements, UpsertMaster
<1>10. CASE WriteRequirements(r)
  BY <1>10 DEF WriteRequirements, Release
<1>11. CASE ExitGate(r)
  BY <1>0, <1>11 DEF ExitGate, MarkReadiness, End
<1>12. CASE DiscoveryFails(r)
  BY <1>0, <1>12 DEF DiscoveryFails, MarkReadiness, End, Release
<1> QED
  BY <1>1, <1>2, <1>3, <1>4, <1>5, <1>6, <1>7, <1>8, <1>9, <1>10, <1>11, <1>12 DEF DiscoverStep

LEMMA TypeReset ==
  ASSUME TypeOK, ResetStep \/ ResetInterrupted PROVE TypeOK'
<1>0. NoReset \in [run : Runs \cup {Nobody}, step : ResetSteps \cup {"none"}, ids : SUBSET Chunks]
  BY DEF NoReset
<1> USE DEF TypeOK, ResetGoto, ResetSteps, files, local, resetting, history, neo4j, postgres
<1>1. CASE DeleteRunReadChunks
  BY <1>1 DEF DeleteRunReadChunks, Owned
<1>2. CASE DeleteRunRelations
  BY <1>2 DEF DeleteRunRelations
<1>3. CASE DeleteRunChunks
  BY <1>3 DEF DeleteRunChunks
<1>4. CASE DeleteRunOrphans
  BY <1>4 DEF DeleteRunOrphans
<1>5. CASE DeleteProjectNeo4j
  BY <1>5 DEF DeleteProjectNeo4j
<1>6. CASE ResetChroma
  BY <1>6 DEF ResetChroma, DeleteVectors
<1>7. CASE ResetPostgres
  BY <1>7 DEF ResetPostgres
<1>8. CASE ResetFiles
  BY <1>0, <1>8 DEF ResetFiles
<1>9. CASE ResetInterrupted
  BY <1>0, <1>9 DEF ResetInterrupted
<1> QED
  BY <1>1, <1>2, <1>3, <1>4, <1>5, <1>6, <1>7, <1>8, <1>9 DEF ResetStep

LEMMA TypeStep == TypeOK /\ [Next]_vars => TypeOK'
<1> SUFFICES ASSUME TypeOK, [Next]_vars PROVE TypeOK'
  OBVIOUS
<1>1. ASSUME NEW r \in Runs, Crash(r) PROVE TypeOK'
  <2>1. 1 \in DOMAIN Document[r]
    BY Positions
  <2> QED
    BY <1>1, <2>1 DEF TypeOK, Crash, End, Goto, Release, Pcs, files, resetting, history, neo4j, postgres
<1>2. ASSUME NEW r \in Targets, BeginReset(r) PROVE TypeOK'
  BY <1>2, Constants DEF TypeOK, BeginReset, ResetSteps, files, local, neo4j, postgres
<1>3. CASE UNCHANGED vars
  BY <1>3 DEF TypeOK, vars, files, local, resetting, history, neo4j, postgres
<1> QED
  BY <1>1, <1>2, <1>3, TypeIngest, TypeDiscover, TypeReset DEF Next

\* The positions, identities, owners and locks of the stores and of the ingest
\* processes keep their types: no process walks past the end of its document.
THEOREM TypeCorrect == Spec => []TypeOK
  BY TypeInit, TypeStep, PTL DEF Spec
-----------------------------------------------------------------------------
(***************************************************************************)
(* The lease.  Only TakeLease enters the leased part of Stage 1.2, and     *)
(* WriteRequirements and End leave it with the lease.                      *)
(***************************************************************************)

LeaseInv == TypeOK /\ LeaseIsHeld

\* What a step must do to keep it: a step of another kind moves one process
\* within the leased states or outside of them.
LEMMA SameLease ==
  ASSUME LeaseIsHeld, lease' = lease, NEW r \in Runs,
         \A o \in Runs \ {r} : pc'[o] = pc[o],
         pc'[r] \in Leased <=> pc[r] \in Leased
  PROVE  LeaseIsHeld'
  BY DEF LeaseIsHeld

\* A process that ends releases what it holds.
LEMMA EndedLease ==
  ASSUME LeaseInv, NEW r \in Runs, Release(r),
         \A o \in Runs \ {r} : pc'[o] = pc[o], pc'[r] \notin Leased
  PROVE  LeaseIsHeld'
  BY Constants DEF LeaseInv, TypeOK, LeaseIsHeld, Release

LEMMA LeaseInit == Init => LeaseInv
  BY TypeInit, Constants DEF Init, LeaseInv, LeaseIsHeld, Leased

LEMMA LeaseStep == LeaseInv /\ [Next]_vars => LeaseInv'
<1> SUFFICES ASSUME LeaseInv, [Next]_vars PROVE LeaseIsHeld'
  BY TypeStep DEF LeaseInv
<1> USE DEF LeaseInv, TypeOK, Goto, Pcs, Ingesting, Discovering, Leased
<1>1. ASSUME NEW r \in Runs, IngestStep(r) PROVE LeaseIsHeld'
  BY <1>1, SameLease DEF IngestStep, Ingest, IngestRefused, Abort, End, PersistChunkNeo4j,
     PersistChunkChroma, ReadBackMissing, ValidateChunk, PublishManifest
<1>2. ASSUME NEW r \in Runs, DiscoverStep(r) PROVE LeaseIsHeld'
  <2>1. CASE TakeLease(r)
    BY <2>1, Constants DEF TakeLease, LeaseIsHeld
  <2>2. CASE WriteRequirements(r) \/ DiscoveryFails(r)
    BY <2>2, EndedLease DEF WriteRequirements, DiscoveryFails, End
  <2>3. CASE SetBuilding(r) \/ ExitGate(r)
    BY <2>3, SameLease DEF SetBuilding, ExitGate, End
  <2>4. CASE \/ Answer(r) \/ Prune(r) \/ UpsertEntities(r) \/ UpsertEdges(r)
             \/ RecordChunkResult(r) \/ LoadProjectRequirements(r) \/ PersistRequirements(r)
    BY <2>4, SameLease DEF Answer, Prune, UpsertEntities, UpsertEdges, RecordChunkResult,
       LoadProjectRequirements, PersistRequirements
  <2> QED
    BY <1>2, <2>1, <2>2, <2>3, <2>4 DEF DiscoverStep
<1>3. ASSUME NEW r \in Runs, Crash(r) PROVE LeaseIsHeld'
  BY <1>3, EndedLease DEF Crash, End
<1>4. CASE UNCHANGED <<lease, pc>>
  BY <1>4 DEF LeaseIsHeld
<1>5. ASSUME ResetStep \/ ResetInterrupted \/ (\E r \in Targets : BeginReset(r)) \/ UNCHANGED vars
      PROVE  UNCHANGED <<lease, pc>>
  BY <1>5 DEF ResetStep, ResetInterrupted, BeginReset, vars, DeleteRunReadChunks,
     DeleteRunRelations, DeleteRunChunks, DeleteRunOrphans, DeleteProjectNeo4j, ResetChroma,
     ResetPostgres, ResetFiles
<1> QED
  BY <1>1, <1>2, <1>3, <1>4, <1>5 DEF Next

\* The discovery lease is held by exactly the run that changes the graph
\* (discovery_lease): a run that fails, crashes or finishes never keeps it.
THEOREM LeaseHeldByLeased == Spec => []LeaseIsHeld
<1>1. LeaseInv => LeaseIsHeld
  BY DEF LeaseInv
<1> QED
  BY <1>1, LeaseInit, LeaseStep, PTL DEF Spec
-----------------------------------------------------------------------------
(***************************************************************************)
(* The permanent IDs.  Between the load and the write of a run nobody adds *)
(* an artifact, because that takes the lease; a reset only removes some.   *)
(***************************************************************************)

Unique(ids) == \A i \in ids, j \in ids : i[1] = j[1] => i = j

\* What a run is about to name by still covers what is stored.
KnownCovers ==
  \A r \in Runs : pc[r] = "persist" => Masters \subseteq known[r] /\ Unique(known[r])

IdInv == LeaseInv /\ Unique(Masters) /\ KnownCovers

LEMMA StableIsUnique == Unique(Masters) => RequirementIdsStable
  BY DEF Unique, Masters, RequirementIdsStable

\* The names of a new artifact agree with each other and with what is known.
LEMMA NamesAgree ==
  ASSUME NEW r \in Runs, Unique(known[r]) PROVE Unique(Named(r) \cup known[r])
<1>1. \A i \in Named(r), j \in known[r] : i[1] = j[1] => i = j
  BY DEF Named, Unique
<1>2. ASSUME NEW i \in Named(r), NEW j \in Named(r), i[1] = j[1] PROVE i = j
  <2>1. CASE i \in known[r] \/ j \in known[r]
    BY <1>1, <1>2, <2>1
  <2>2. CASE i \notin known[r] /\ j \notin known[r]
    <3>1. i \in Facts \X Runs /\ j \in Facts \X Runs /\ i[2] = r /\ j[2] = r
      BY <2>2 DEF Named, Ids
    <3> QED
      BY <1>2, <3>1
  <2> QED
    BY <2>1, <2>2
<1> QED
  BY <1>1, <1>2 DEF Unique

\* A step that adds no artifact and lets nobody load keeps the invariant.
LEMMA FewerMasters ==
  ASSUME IdInv, Masters' \subseteq Masters,
         \A r \in Runs : pc'[r] = "persist" => pc[r] = "persist" /\ known'[r] = known[r]
  PROVE  Unique(Masters') /\ KnownCovers'
  BY DEF IdInv, KnownCovers, Unique

LEMMA LoadKeepsIds ==
  ASSUME IdInv, NEW r \in Runs, LoadProjectRequirements(r)
  PROVE  Unique(Masters') /\ KnownCovers'
<1>1. Masters' = Masters
  BY DEF LoadProjectRequirements, postgres, Masters
<1>2. known'[r] = Masters /\ \A o \in Runs \ {r} : known'[o] = known[o] /\ pc'[o] = pc[o]
  BY DEF LoadProjectRequirements, Goto, IdInv, LeaseInv, TypeOK
<1> QED
  BY <1>1, <1>2 DEF IdInv, KnownCovers, Unique

LEMMA PersistKeepsIds ==
  ASSUME IdInv, NEW r \in Runs, PersistRequirements(r)
  PROVE  Unique(Masters') /\ KnownCovers'
<1>1. pc[r] = "persist" /\ lease = r
  BY DEF PersistRequirements, IdInv, LeaseInv, LeaseIsHeld, Leased
<1>2. /\ published' = published \cup {r} /\ pc' = [pc EXCEPT ![r] = "write"]
      /\ master' = [master EXCEPT ![r] = Named(r)]
  BY DEF PersistRequirements, UpsertMaster, Goto
<1>3. Masters' \subseteq Named(r) \cup known[r]
  <2>1. \A o \in published' : master'[o] \subseteq Named(r) \cup Masters
    BY <1>2 DEF Masters, IdInv, LeaseInv, TypeOK
  <2>2. Masters \subseteq known[r]
    BY <1>1 DEF IdInv, KnownCovers
  <2> QED
    BY <2>1, <2>2 DEF Masters
<1>4. Unique(Masters')
  BY <1>1, <1>3, NamesAgree DEF IdInv, KnownCovers, Unique
<1>5. \A o \in Runs : pc'[o] # "persist"
  BY <1>1, <1>2 DEF IdInv, LeaseInv, TypeOK, LeaseIsHeld, Leased
<1> QED
  BY <1>4, <1>5 DEF KnownCovers

LEMMA ResetKeepsIds ==
  ASSUME IdInv, ResetPostgres PROVE Unique(Masters') /\ KnownCovers'
<1>1. \A o \in published' : o \in published /\ master'[o] \subseteq master[o]
  BY DEF ResetPostgres, InScope, IdInv, LeaseInv, TypeOK
<1>2. Masters' \subseteq Masters
  BY <1>1 DEF Masters
<1> QED
  BY <1>2, FewerMasters DEF ResetPostgres, local

LEMMA IdStep == IdInv /\ [Next]_vars => IdInv'
<1> SUFFICES ASSUME IdInv, [Next]_vars PROVE Unique(Masters') /\ KnownCovers'
  BY LeaseStep DEF IdInv
<1>0. ASSUME UNCHANGED <<published, master>> PROVE Masters' = Masters
  BY <1>0 DEF Masters
<1> USE DEF IdInv, LeaseInv, TypeOK, Goto, postgres, local
<1>1. ASSUME NEW r \in Runs, IngestStep(r) PROVE Unique(Masters') /\ KnownCovers'
  BY <1>0, <1>1, FewerMasters DEF IngestStep, Ingest, IngestRefused, Abort, End,
     PersistChunkNeo4j, PersistChunkChroma, ReadBackMissing, ValidateChunk, PublishManifest
<1>2. ASSUME NEW r \in Runs, DiscoverStep(r) PROVE Unique(Masters') /\ KnownCovers'
  <2>1. CASE LoadProjectRequirements(r)
    BY <2>1, LoadKeepsIds
  <2>2. CASE PersistRequirements(r)
    BY <2>2, PersistKeepsIds
  <2>3. CASE \/ SetBuilding(r) \/ TakeLease(r) \/ Answer(r) \/ Prune(r) \/ UpsertEntities(r)
             \/ UpsertEdges(r) \/ RecordChunkResult(r) \/ WriteRequirements(r)
    BY <1>0, <2>3, FewerMasters DEF SetBuilding, TakeLease, Answer, Prune, UpsertEntities,
       UpsertEdges, RecordChunkResult, WriteRequirements
  <2>4. CASE ExitGate(r) \/ DiscoveryFails(r)
    BY <1>0, <2>4, FewerMasters DEF ExitGate, DiscoveryFails, End
  <2> QED
    BY <1>2, <2>1, <2>2, <2>3, <2>4 DEF DiscoverStep
<1>3. ASSUME NEW r \in Runs, Crash(r) PROVE Unique(Masters') /\ KnownCovers'
  BY <1>0, <1>3, FewerMasters DEF Crash, End
<1>4. CASE ResetPostgres
  BY <1>4, ResetKeepsIds
<1>5. ASSUME \/ UNCHANGED vars \/ ResetInterrupted \/ \E r \in Targets : BeginReset(r)
             \/ DeleteRunReadChunks \/ DeleteRunRelations \/ DeleteRunChunks
             \/ DeleteRunOrphans \/ DeleteProjectNeo4j \/ ResetChroma \/ ResetFiles
      PROVE  UNCHANGED <<published, master, pc, known>>
  BY <1>5 DEF vars, ResetInterrupted, BeginReset, DeleteRunReadChunks, DeleteRunRelations,
     DeleteRunChunks, DeleteRunOrphans, DeleteProjectNeo4j, ResetChroma, ResetFiles
<1> QED
  BY <1>0, <1>1, <1>2, <1>3, <1>4, <1>5, FewerMasters DEF Next, ResetStep

LEMMA IdInit == Init => IdInv
  BY LeaseInit DEF Init, IdInv, Unique, Masters, KnownCovers

\* One requirement of a project has one permanent ID in every artifact, however
\* discoveries, crashes and resets interleave (build_requirements_artifact under
\* discovery_lease).
THEOREM PermanentIds == Spec => []RequirementIdsStable
<1>1. IdInv => RequirementIdsStable
  BY StableIsUnique DEF IdInv
<1> QED
  BY <1>1, IdInit, IdStep, PTL DEF Spec
-----------------------------------------------------------------------------
(***************************************************************************)
(* The embedding model.  The contract is compared with any one vector when *)
(* a run starts; while it writes, no other run does, unless they crossed.  *)
(***************************************************************************)

Alone == \A r \in Runs, o \in Runs : pc[r] \in Ingesting /\ pc[o] \in Ingesting => r = o
WritesItsModel ==
  \A r \in Runs : pc[r] \in Ingesting => \A c \in Stored : Compatible(r, vector[c][2])

ModelInv == TypeOK /\ (~crossed => OneEmbeddingModel /\ Alone /\ WritesItsModel)

\* A step that writes no vector and starts no Stage 1.1.
LEMMA NoNewVector ==
  ASSUME ModelInv, \A c \in Chunks : vector'[c] \in {vector[c], None}, crossed' = crossed,
         \A r \in Runs : pc'[r] \in Ingesting => pc[r] \in Ingesting
  PROVE  ~crossed' => (OneEmbeddingModel /\ Alone /\ WritesItsModel)'
<1>1. \A c \in Stored' : c \in Stored /\ vector'[c] = vector[c]
  BY DEF Stored
<1> QED
  BY <1>1 DEF ModelInv, OneEmbeddingModel, Alone, WritesItsModel, Compatible

LEMMA IngestKeepsModel ==
  ASSUME ModelInv, NEW r \in Runs, Ingest(r), ~crossed'
  PROVE  (OneEmbeddingModel /\ Alone /\ WritesItsModel)'
<1>1. /\ ~crossed /\ vector' = vector /\ Stored' = Stored
      /\ \A o \in Runs : pc[o] \notin Ingesting
      /\ pc' = [pc EXCEPT ![r] = "upsert"]
  BY DEF Ingest, Goto, Stored
<1>2. \A o \in Runs : pc'[o] \in Ingesting => o = r
  BY <1>1 DEF ModelInv, TypeOK
<1>3. \A c \in Stored : Compatible(r, vector[c][2])
  BY <1>1 DEF Ingest, ModelInv, OneEmbeddingModel, Compatible
<1>4. Alone'
  BY <1>2 DEF Alone
<1>5. WritesItsModel' /\ OneEmbeddingModel'
  BY <1>1, <1>2, <1>3 DEF WritesItsModel, OneEmbeddingModel, ModelInv, Compatible
<1> QED
  BY <1>4, <1>5

LEMMA VectorKeepsModel ==
  ASSUME ModelInv, NEW r \in Runs, PersistChunkChroma(r), ~crossed'
  PROVE  (OneEmbeddingModel /\ Alone /\ WritesItsModel)'
<1>1. /\ ~crossed /\ pc[r] \in Ingesting /\ pc' = [pc EXCEPT ![r] = "validate"]
      /\ vector' = [vector EXCEPT ![current(r)] = <<r, ModelOf[r]>>]
  BY DEF PersistChunkChroma, Goto, UpsertVector, Ingesting, history
<1>2. \A o \in Runs : pc'[o] \in Ingesting => o = r
  BY <1>1 DEF ModelInv, Alone, TypeOK
<1>3. \A c \in Stored' : vector'[c][2] = ModelOf[r]
  <2> SUFFICES ASSUME NEW c \in Stored' PROVE vector'[c][2] = ModelOf[r]
    OBVIOUS
  <2>1. c \in Chunks /\ vector'[c] # None
    BY DEF Stored
  <2>2. CASE c = current(r)
    BY <1>1, <2>1, <2>2 DEF ModelInv, TypeOK
  <2>3. CASE c # current(r)
    BY <1>1, <2>1, <2>3 DEF ModelInv, TypeOK, WritesItsModel, Compatible, Stored
  <2> QED
    BY <2>2, <2>3
<1>4. Alone'
  BY <1>2 DEF Alone
<1> QED
  BY <1>2, <1>3, <1>4 DEF OneEmbeddingModel, WritesItsModel, Compatible

LEMMA ModelStep == ModelInv /\ [Next]_vars => ModelInv'
<1> SUFFICES ASSUME ModelInv, [Next]_vars
             PROVE  ~crossed' => (OneEmbeddingModel /\ Alone /\ WritesItsModel)'
  BY TypeStep DEF ModelInv
<1> USE DEF ModelInv, TypeOK, Goto, Ingesting, history
<1>1. ASSUME NEW r \in Runs, IngestStep(r), ~Ingest(r), ~PersistChunkChroma(r)
      PROVE  ~crossed' => (OneEmbeddingModel /\ Alone /\ WritesItsModel)'
  BY <1>1, NoNewVector DEF IngestStep, IngestRefused, Abort, End, PersistChunkNeo4j,
     ReadBackMissing, ValidateChunk, PublishManifest
<1>2. ASSUME NEW r \in Runs, DiscoverStep(r) \/ Crash(r)
      PROVE  ~crossed' => (OneEmbeddingModel /\ Alone /\ WritesItsModel)'
  BY <1>2, NoNewVector DEF DiscoverStep, Crash, End, SetBuilding, TakeLease, Answer, Prune,
     UpsertEntities, UpsertEdges, RecordChunkResult, LoadProjectRequirements,
     PersistRequirements, WriteRequirements, ExitGate, DiscoveryFails
<1>3. ASSUME ResetStep \/ ResetInterrupted \/ (\E r \in Targets : BeginReset(r)) \/ UNCHANGED vars
      PROVE  ~crossed' => (OneEmbeddingModel /\ Alone /\ WritesItsModel)'
  <2>1. pc' = pc /\ crossed' = crossed
    BY <1>3 DEF ResetStep, ResetInterrupted, BeginReset, vars, DeleteRunReadChunks,
       DeleteRunRelations, DeleteRunChunks, DeleteRunOrphans, DeleteProjectNeo4j, ResetChroma,
       ResetPostgres, ResetFiles
  <2>2. \A c \in Chunks : vector'[c] \in {vector[c], None}
    BY <1>3 DEF ResetStep, ResetInterrupted, BeginReset, vars, DeleteRunReadChunks,
       DeleteRunRelations, DeleteRunChunks, DeleteRunOrphans, DeleteProjectNeo4j, ResetChroma,
       DeleteVectors, ResetPostgres, ResetFiles
  <2> QED
    BY <2>1, <2>2, NoNewVector
<1> QED
  BY <1>1, <1>2, <1>3, IngestKeepsModel, VectorKeepsModel DEF Next

LEMMA ModelInit == Init => ModelInv
  BY TypeInit DEF Init, ModelInv, OneEmbeddingModel, Alone, WritesItsModel, Stored, Ingesting

\* Where two Stage 1.1 never run at once, every vector of the project comes from
\* one embedding model, though the contract is only compared with one record.
THEOREM OneModel == Spec => []OneEmbeddingModel
<1>1. ModelInv => OneEmbeddingModel
  BY DEF ModelInv, OneEmbeddingModel
<1> QED
  BY <1>1, ModelInit, ModelStep, PTL DEF Spec
-----------------------------------------------------------------------------
(***************************************************************************)
(* Resets that overlap no ingest.  While a reset runs nobody else writes,  *)
(* so that what a step has deleted stays deleted; while a run is under way *)
(* no reset has run since it began, so that its chunks are there.          *)
(***************************************************************************)

\* The chunks a run has passed are in Neo4j.
Written(r) ==
  \A k \in DOMAIN Document[r] :
    \/ pc[r] \in Quiet
    \/ pc[r] = "upsert" /\ k >= at[r]
    \/ pc[r] \in {"vector", "validate"} /\ k > at[r]
    \/ chunk[Document[r][k]] # Nobody

\* What a reset has deleted at each of its steps.
AfterNeo4j == {"chroma", "postgres", "files"}
ResetDone ==
  /\ reset.run # Nobody =>
       /\ reset.step \in {"relations", "chunks"} => reset.ids = Owned(reset.run)
       /\ reset.step = "chunks" => \A e \in relation : chunk[e[1]] # reset.run
  /\ reset.run = Nobody => reset.ids = {} /\ reset.step \in {"none", "chunks"} \cup AfterNeo4j
  /\ reset.step \in {"orphans"} \cup AfterNeo4j => \A r \in InScope : Owned(r) = {}
  /\ reset.step \in AfterNeo4j =>
       /\ reset.ids # {} => Unlinked = {}
       /\ reset.run = Nobody => entity = {} /\ Edges = {}
  /\ reset.step \in {"postgres", "files"} =>
       \A r \in InScope, c \in Chunks : vector[c] = None \/ vector[c][1] # r
  /\ reset.step = "files" =>
       \A r \in InScope : r \notin published /\ \A x \in row : x[2] # r

Apart ==
  /\ ResetRunning => \A r \in Runs : pc[r] \in Quiet
  /\ \A r \in Runs : Written(r)
  /\ \A e \in mention \cup relation : chunk[e[1]] # Nobody
  /\ ResetDone

\* Chunk ids are read in the first step of a reset.
NoIdsYet == reset.step = "ids" => reset.ids = {}

ResetInv == /\ TypeOK /\ (\A r \in Runs : pc[r] = "idle" => at[r] = 1) /\ NoIdsYet
            /\ (~intruded => Apart)

LEMMA ResetInit == Init => ResetInv
  BY TypeInit DEF Init, ResetInv, Apart, ResetRunning, Written, ResetDone, NoReset, Quiet,
     NoIdsYet, AfterNeo4j

\* What a reset has deleted stays deleted while nobody writes.
LEMMA DoneStays ==
  ASSUME ResetDone, UNCHANGED <<chunk, mention, relation, entity, vector, published, row, reset>>
  PROVE  ResetDone'
<1>1. (Unlinked' = Unlinked) /\ (Edges' = Edges) /\ (InScope' = InScope) /\ \A r : Owned(r)' = Owned(r)
  BY DEF Unlinked, Edges, InScope, Owned
<1> QED
  BY <1>1 DEF ResetDone

\* A run that is under way has no reset beside it.
LEMMA NoResetBeside ==
  ASSUME ResetInv, Apart, NEW r \in Runs, pc[r] \notin Quiet
  PROVE  reset = NoReset
  BY DEF Apart, ResetRunning

\* A step of a run with no reset beside it, which keeps the chunks and the edges' ends.
LEMMA RunKeepsApart ==
  ASSUME ResetInv, Apart, NEW r \in Runs, reset = NoReset, reset' = reset,
         \A o \in Runs \ {r} : pc'[o] = pc[o] /\ at'[o] = at[o],
         \A c \in Chunks : chunk[c] # Nobody => chunk'[c] # Nobody,
         \A e \in mention' \cup relation' : chunk'[e[1]] # Nobody,
         Written(r)'
  PROVE  Apart'
<1>1. ~ResetRunning' /\ ResetDone'
  BY DEF ResetRunning, ResetDone, NoReset, AfterNeo4j
<1>2. \A o \in Runs : Written(o)'
  <2> SUFFICES ASSUME NEW o \in Runs \ {r} PROVE Written(o)'
    OBVIOUS
  <2>1. Written(o) /\ \A k \in DOMAIN Document[o] : Document[o][k] \in Chunks
    BY Positions DEF Apart
  <2> QED
    BY <2>1 DEF Written
<1> QED
  BY <1>1, <1>2 DEF Apart

LEMMA EdgesStay ==
  ASSUME Apart, TypeOK, UNCHANGED <<mention, relation>>,
         \A c \in Chunks : chunk[c] # Nobody => chunk'[c] # Nobody
  PROVE  \A e \in mention' \cup relation' : chunk'[e[1]] # Nobody
<1>1. \A e \in mention \cup relation : e[1] \in Chunks
  BY DEF TypeOK
<1> QED
  BY <1>1 DEF Apart

LEMMA IngestKeepsApart ==
  ASSUME ResetInv, NEW r \in Runs, IngestStep(r), Apart, ~intruded' PROVE Apart'
<1>1. /\ DOMAIN Document[r] = 1 .. Len(Document[r]) /\ Len(Document[r]) \in Nat
      /\ at[r] \in DOMAIN Document[r] /\ current(r) \in Chunks
      /\ \A n \in DOMAIN Document[r] : Document[r][n] \in Chunks
  BY Positions DEF ResetInv, TypeOK, current
<1>2. Written(r)
  BY DEF Apart
<1> USE DEF TypeOK, Goto, Quiet, history, resetting, neo4j, local
<1>3. CASE Ingest(r)
  <2>1. reset = NoReset /\ reset' = reset /\ pc'[r] = "upsert" /\ at'[r] = 1
        /\ UNCHANGED <<chunk, mention, relation, at>>
    BY <1>3 DEF Ingest, ResetRunning, ResetInv
  <2>2. Written(r)'
    BY <1>1, <2>1 DEF Written
  <2>3. \A o \in Runs \ {r} : pc'[o] = pc[o] /\ at'[o] = at[o]
    BY <1>3 DEF Ingest, ResetInv
  <2> QED
    BY <2>1, <2>2, <2>3, RunKeepsApart, EdgesStay DEF ResetInv
<1>4. CASE IngestRefused(r)
  <2>1. pc' = [pc EXCEPT ![r] = "over"]
    BY <1>4 DEF IngestRefused, Abort, End
  <2>2. UNCHANGED <<chunk, mention, relation, entity, reset, vector, published, row>>
    BY <1>4 DEF IngestRefused, Abort, postgres
  <2>3. at' = [at EXCEPT ![r] = 1]
    BY <1>4 DEF IngestRefused, Abort, End
  <2>4. \A o \in Runs : Written(o)'
    BY <2>1, <2>2, <2>3 DEF Written, Apart, ResetInv
  <2>5. ResetDone' /\ (ResetRunning' => \A o \in Runs : pc'[o] \in Quiet)
    BY <2>1, <2>2, DoneStays DEF ResetRunning, Apart, ResetInv
  <2> QED
    BY <2>2, <2>4, <2>5 DEF Apart
<1>5. CASE ReadBackMissing(r)
  <2>1. pc[r] \notin Quiet /\ pc' = [pc EXCEPT ![r] = "over"] /\ at' = [at EXCEPT ![r] = 1]
        /\ UNCHANGED <<chunk, mention, relation, reset>>
    BY <1>5 DEF ReadBackMissing, Abort, End
  <2>2. Written(r)'
    BY <2>1 DEF Written, ResetInv
  <2> QED
    BY <2>1, <2>2, RunKeepsApart, EdgesStay, NoResetBeside DEF ResetInv
<1>6. CASE PersistChunkNeo4j(r)
  <2>1. pc[r] = "upsert" /\ pc' = [pc EXCEPT ![r] = "vector"]
        /\ chunk' = [chunk EXCEPT ![current(r)] = r]
        /\ UNCHANGED <<at, mention, relation, reset>>
    BY <1>6 DEF PersistChunkNeo4j, UpsertChunk
  <2>2. \A c \in Chunks : chunk[c] # Nobody => chunk'[c] # Nobody
    BY <2>1, Constants DEF ResetInv
  <2>3. chunk'[current(r)] # Nobody
    BY <1>1, <2>1, Constants DEF ResetInv
  <2>4. Written(r)'
    <3> SUFFICES ASSUME NEW k \in DOMAIN Document[r], k <= at[r]
                 PROVE  chunk'[Document[r][k]] # Nobody
      BY <1>1, <2>1 DEF Written, ResetInv
    <3>1. CASE k = at[r]
      BY <2>3, <3>1 DEF current
    <3>2. CASE k < at[r]
      BY <1>1, <1>2, <2>1, <2>2, <3>2 DEF Written
    <3> QED
      BY <1>1, <3>1, <3>2
  <2> QED
    BY <2>1, <2>2, <2>4, RunKeepsApart, EdgesStay, NoResetBeside DEF ResetInv
<1>7. CASE PersistChunkChroma(r)
  <2>1. pc[r] = "vector" /\ pc' = [pc EXCEPT ![r] = "validate"]
        /\ UNCHANGED <<chunk, at, mention, relation, reset>>
    BY <1>7 DEF PersistChunkChroma
  <2>2. Written(r)'
    BY <1>2, <2>1 DEF Written, ResetInv
  <2> QED
    BY <2>1, <2>2, RunKeepsApart, EdgesStay, NoResetBeside DEF ResetInv
<1>8. CASE ValidateChunk(r)
  <2>1. pc[r] = "validate" /\ UNCHANGED <<chunk, mention, relation, reset>>
    BY <1>8 DEF ValidateChunk
  <2>2. \/ /\ at[r] = Len(Document[r])
           /\ pc' = [pc EXCEPT ![r] = "publish"] /\ at' = [at EXCEPT ![r] = 1]
        \/ /\ at[r] # Len(Document[r])
           /\ pc' = [pc EXCEPT ![r] = "upsert"] /\ at' = [at EXCEPT ![r] = @ + 1]
    BY <1>8 DEF ValidateChunk, IsLast
  <2>3. \A k \in DOMAIN Document[r] : k <= at[r] => chunk[Document[r][k]] # Nobody
    BY <1>1, <1>2, <2>1 DEF Written
  <2>4. Written(r)'
    BY <1>1, <2>1, <2>2, <2>3 DEF Written, ResetInv
  <2>5. \A o \in Runs \ {r} : pc'[o] = pc[o] /\ at'[o] = at[o]
    BY <2>2 DEF ResetInv
  <2> QED
    BY <2>1, <2>4, <2>5, RunKeepsApart, EdgesStay, NoResetBeside DEF ResetInv
<1>9. CASE PublishManifest(r)
  <2>1. pc[r] = "publish" /\ pc' = [pc EXCEPT ![r] = "building"]
        /\ UNCHANGED <<chunk, at, mention, relation, reset>>
    BY <1>9 DEF PublishManifest
  <2>2. Written(r)'
    BY <1>2, <2>1 DEF Written, ResetInv
  <2> QED
    BY <2>1, <2>2, RunKeepsApart, EdgesStay, NoResetBeside DEF ResetInv
<1> QED
  BY <1>3, <1>4, <1>5, <1>6, <1>7, <1>8, <1>9 DEF IngestStep

LEMMA DiscoverKeepsApart ==
  ASSUME ResetInv, NEW r \in Runs, DiscoverStep(r) \/ Crash(r), Apart PROVE Apart'
<1>1. pc[r] \notin Quiet /\ UNCHANGED <<chunk, reset>>
  BY DEF DiscoverStep, Crash, SetBuilding, TakeLease, Answer, Prune, UpsertEntities, UpsertEdges,
     RecordChunkResult, LoadProjectRequirements, PersistRequirements, WriteRequirements,
     ExitGate, DiscoveryFails, Ingesting, Discovering, Leased, Quiet, neo4j, resetting
<1>2. /\ \A o \in Runs \ {r} : pc'[o] = pc[o] /\ at'[o] = at[o]
      /\ pc'[r] \in Discovering \cup {"over"}
  BY DEF DiscoverStep, Crash, SetBuilding, TakeLease, Answer, Prune, UpsertEntities, UpsertEdges,
     RecordChunkResult, LoadProjectRequirements, PersistRequirements, WriteRequirements,
     ExitGate, DiscoveryFails, Ingesting, Discovering, Leased, End, Goto, local, ResetInv, TypeOK
<1>3. \A k \in DOMAIN Document[r] : pc[r] \notin Ingesting => chunk[Document[r][k]] # Nobody
  BY <1>1 DEF Apart, Written, Ingesting
<1>4. pc[r] \in Ingesting => pc'[r] = "over"
  BY DEF DiscoverStep, Crash, SetBuilding, TakeLease, Answer, Prune, UpsertEntities, UpsertEdges,
     RecordChunkResult, LoadProjectRequirements, PersistRequirements, WriteRequirements,
     ExitGate, DiscoveryFails, Ingesting, Discovering, Leased, End, Goto, ResetInv, TypeOK
<1>5. Written(r)'
  BY <1>1, <1>3, <1>4 DEF Written, Quiet
<1>6. chunk[current(r)] # Nobody \/ pc[r] \in Ingesting
  BY <1>3 DEF current, ResetInv, TypeOK
<1>7. \A e \in mention' \cup relation' : chunk'[e[1]] # Nobody
  <2>1. CASE UpsertEdges(r)
    BY <1>1, <1>6, <2>1 DEF UpsertEdges, Apart, Ingesting
  <2>2. CASE mention' \subseteq mention /\ relation' \subseteq relation
    BY <1>1, <2>2 DEF Apart
  <2> QED
    BY <2>1, <2>2 DEF DiscoverStep, Crash, SetBuilding, TakeLease, Answer, Prune, UpsertEntities,
       RecordChunkResult, LoadProjectRequirements, PersistRequirements, WriteRequirements,
       ExitGate, DiscoveryFails, neo4j
<1> QED
  BY <1>1, <1>2, <1>5, <1>7, RunKeepsApart, NoResetBeside

LEMMA ResetStepKeepsApart ==
  ASSUME ResetInv, ResetStep, Apart PROVE Apart'
<1>1. ResetRunning /\ (\A r \in Runs : pc[r] \in Quiet) /\ pc' = pc
  <2>1. ResetRunning /\ pc' = pc
    BY DEF ResetStep, ResetRunning, NoReset, DeleteRunReadChunks, DeleteRunRelations,
       DeleteRunChunks, DeleteRunOrphans, DeleteProjectNeo4j, ResetChroma, ResetPostgres,
       ResetFiles
  <2> QED
    BY <2>1 DEF Apart
<1>2. (\A r \in Runs : Written(r)') /\ (ResetRunning' => \A r \in Runs : pc'[r] \in Quiet)
  BY <1>1 DEF Written
<1> DEFINE r == reset.run
<1>3. /\ r \in Runs \cup {Nobody} /\ reset.ids \subseteq Chunks
      /\ reset = [run |-> r, step |-> reset.step, ids |-> reset.ids]
      /\ \A e \in mention \cup relation : e[1] \in Chunks
  BY DEF ResetInv, TypeOK
<1>4. ASSUME NEW step PROVE [reset EXCEPT !.step = step] = [run |-> r, step |-> step, ids |-> reset.ids]
  <2>1. reset \in [run : Runs \cup {Nobody}, step : ResetSteps \cup {"none"}, ids : SUBSET Chunks]
    BY DEF ResetInv, TypeOK
  <2> QED
    BY <2>1
<1>5. ResetDone /\ \A e \in mention \cup relation : chunk[e[1]] # Nobody
  BY DEF Apart
<1> DEFINE Scope == IF r = Nobody THEN Runs ELSE {r}
<1>6. InScope = Scope /\ (reset'.run = r => InScope' = Scope)
  BY DEF InScope
<1> USE DEF ResetGoto, AfterNeo4j
<1>7. CASE DeleteRunReadChunks
  <2>1. UNCHANGED <<chunk, mention, relation>> /\ r # Nobody
    BY <1>5, <1>7 DEF DeleteRunReadChunks, neo4j, ResetDone
  <2>2. \/ reset' = [run |-> r, step |-> "chroma", ids |-> {}] /\ Owned(r) = {}
        \/ reset' = [run |-> r, step |-> "relations", ids |-> Owned(r)]
    <3>1. CASE Owned(r) = {}
      <4>1. reset' = [run |-> r, step |-> "chroma", ids |-> reset.ids]
        BY <1>4, <1>7, <3>1 DEF DeleteRunReadChunks
      <4>2. reset.ids = {}
        BY <1>7 DEF DeleteRunReadChunks, ResetInv, NoIdsYet
      <4> QED
        BY <3>1, <4>1, <4>2
    <3>2. CASE Owned(r) # {}
      <4>1. reset' = [reset EXCEPT !.step = "relations", !.ids = Owned(r)]
        BY <1>7, <3>2 DEF DeleteRunReadChunks
      <4>2. reset \in [run : Runs \cup {Nobody}, step : ResetSteps \cup {"none"}, ids : SUBSET Chunks]
        BY DEF ResetInv, TypeOK
      <4> QED
        BY <4>1, <4>2
    <3> QED
      BY <3>1, <3>2
  <2>3. ResetDone'
    BY <1>6, <2>1, <2>2 DEF ResetDone, Owned
  <2> QED
    BY <1>2, <1>5, <2>1, <2>3 DEF Apart
<1>8. CASE DeleteRunRelations
  <2>1. /\ reset' = [run |-> r, step |-> "chunks", ids |-> reset.ids]
        /\ relation' = {e \in relation : e[1] \notin reset.ids} /\ UNCHANGED <<chunk, mention>>
        /\ reset.step = "relations"
    BY <1>4, <1>8 DEF DeleteRunRelations
  <2>2. r # Nobody /\ reset.ids = Owned(r)
    BY <1>5, <2>1 DEF ResetDone
  <2>3. ResetDone'
    BY <1>3, <2>1, <2>2 DEF ResetDone, Owned
  <2> QED
    BY <1>2, <1>5, <2>1, <2>3 DEF Apart
<1>9. CASE DeleteRunChunks
  <2>1. /\ reset' = [run |-> r, step |-> "orphans", ids |-> reset.ids]
        /\ chunk' = [c \in Chunks |-> IF chunk[c] = r THEN Nobody ELSE chunk[c]]
        /\ mention' = {e \in mention : chunk[e[1]] # r} /\ relation' = relation
        /\ reset.step = "chunks" /\ r # Nobody
    BY <1>4, <1>9 DEF DeleteRunChunks
  <2>2. \A e \in relation : chunk[e[1]] # r
    BY <1>5, <2>1 DEF ResetDone
  <2>3. \A e \in mention' \cup relation' : chunk'[e[1]] # Nobody
    BY <1>3, <1>5, <2>1, <2>2
  <2>4. \A o \in InScope' : Owned(o)' = {}
    BY <1>6, <2>1 DEF Owned
  <2>5. ResetDone'
    BY <2>1, <2>4 DEF ResetDone
  <2> QED
    BY <1>2, <2>3, <2>5 DEF Apart
<1>10. CASE DeleteRunOrphans
  <2>1. /\ reset' = [run |-> r, step |-> "chroma", ids |-> reset.ids]
        /\ UNCHANGED <<chunk, mention, relation>> /\ reset.step = "orphans"
        /\ entity' = {f \in entity : \E e \in mention \cup relation : e[2] = f}
    BY <1>4, <1>10 DEF DeleteRunOrphans
  <2>2. Unlinked' = {} /\ r # Nobody
    BY <1>5, <2>1 DEF Unlinked, Edges, ResetDone
  <2>3. \A o \in InScope' : Owned(o)' = {}
    BY <1>5, <1>6, <2>1 DEF ResetDone, Owned
  <2>4. ResetDone'
    BY <2>1, <2>2, <2>3 DEF ResetDone
  <2> QED
    BY <1>2, <1>5, <2>1, <2>4 DEF Apart
<1>11. CASE DeleteProjectNeo4j
  <2>1. /\ reset' = [run |-> r, step |-> "chroma", ids |-> reset.ids] /\ r = Nobody
        /\ chunk' = [c \in Chunks |-> Nobody] /\ mention' = {} /\ relation' = {} /\ entity' = {}
    BY <1>4, <1>11 DEF DeleteProjectNeo4j
  <2>2. reset.ids = {}
    BY <1>5, <2>1 DEF ResetDone
  <2>3. \A o \in InScope' : Owned(o)' = {}
    BY <1>6, <2>1, Constants DEF Owned
  <2>4. ResetDone'
    BY <2>1, <2>2, <2>3 DEF ResetDone, Edges
  <2> QED
    BY <1>2, <2>1, <2>4 DEF Apart
<1>12. CASE ResetChroma
  <2>1. /\ reset' = [run |-> r, step |-> "postgres", ids |-> reset.ids]
        /\ UNCHANGED <<chunk, mention, relation, entity>> /\ reset.step = "chroma"
        /\ vector' = DeleteVectors(r)
    BY <1>4, <1>12 DEF ResetChroma, neo4j
  <2>2. \A o \in InScope', c \in Chunks : vector'[c] = None \/ vector'[c][1] # o
    BY <1>6, <2>1 DEF DeleteVectors
  <2>3. (Unlinked' = Unlinked) /\ (Edges' = Edges) /\ \A o : Owned(o)' = Owned(o)
    BY <2>1 DEF Unlinked, Edges, Owned
  <2>4. ResetDone'
    BY <1>5, <1>6, <2>1, <2>2, <2>3 DEF ResetDone
  <2> QED
    BY <1>2, <1>5, <2>1, <2>4 DEF Apart
<1>13. CASE ResetPostgres
  <2>1. /\ reset' = [run |-> r, step |-> "files", ids |-> reset.ids]
        /\ UNCHANGED <<chunk, mention, relation, entity, vector>> /\ reset.step = "postgres"
        /\ published' = published \ InScope /\ row' = {x \in row : x[2] \notin InScope}
    BY <1>4, <1>13 DEF ResetPostgres, neo4j
  <2>2. \A o \in InScope' : o \notin published' /\ \A x \in row' : x[2] # o
    BY <1>6, <2>1
  <2>3. (Unlinked' = Unlinked) /\ (Edges' = Edges) /\ \A o : Owned(o)' = Owned(o)
    BY <2>1 DEF Unlinked, Edges, Owned
  <2>4. ResetDone'
    BY <1>5, <1>6, <2>1, <2>2, <2>3 DEF ResetDone
  <2> QED
    BY <1>2, <1>5, <2>1, <2>4 DEF Apart
<1>14. CASE ResetFiles
  BY <1>2, <1>5, <1>14 DEF ResetFiles, Apart, ResetDone, NoReset, neo4j
<1> QED
  BY <1>7, <1>8, <1>9, <1>10, <1>11, <1>12, <1>13, <1>14 DEF ResetStep

LEMMA BeginKeepsApart ==
  ASSUME ResetInv, NEW t \in Targets, BeginReset(t), Apart, ~intruded' PROVE Apart'
<1>1. /\ \A r \in Runs : pc[r] \in Quiet
      /\ UNCHANGED <<chunk, mention, relation, pc>>
      /\ reset'.run = t /\ reset'.step = (IF t = Nobody THEN "chunks" ELSE "ids") /\ reset'.ids = {}
  BY DEF BeginReset, neo4j
<1>2. \A r \in Runs : Written(r)'
  BY <1>1 DEF Written
<1>3. ResetDone'
  BY <1>1 DEF ResetDone, AfterNeo4j
<1> QED
  BY <1>1, <1>2, <1>3 DEF Apart

LEMMA ResetInvStep == ResetInv /\ [Next]_vars => ResetInv'
<1> SUFFICES ASSUME ResetInv, [Next]_vars
             PROVE  /\ \A r \in Runs : pc'[r] = "idle" => at'[r] = 1
                    /\ NoIdsYet'
                    /\ ~intruded' => Apart'
  BY TypeStep DEF ResetInv
<1>1. ~intruded' => ~intruded
  BY DEF Next, IngestStep, Ingest, IngestRefused, Abort, PersistChunkNeo4j, ReadBackMissing,
     PersistChunkChroma, ValidateChunk, PublishManifest, DiscoverStep, SetBuilding, TakeLease,
     Answer, Prune, UpsertEntities, UpsertEdges, RecordChunkResult, LoadProjectRequirements,
     PersistRequirements, WriteRequirements, ExitGate, DiscoveryFails, Crash, BeginReset,
     ResetStep, DeleteRunReadChunks, DeleteRunRelations, DeleteRunChunks, DeleteRunOrphans,
     DeleteProjectNeo4j, ResetChroma, ResetPostgres, ResetFiles, ResetInterrupted, history, vars
<1>2. \A r \in Runs : pc'[r] = "idle" => pc[r] = "idle" /\ at'[r] = at[r]
  <2>1. ASSUME NEW o \in Runs, IngestStep(o)
        PROVE  \A r \in Runs : pc'[r] = "idle" => pc[r] = "idle" /\ at'[r] = at[r]
    BY <2>1 DEF IngestStep, Ingest, IngestRefused, Abort, PersistChunkNeo4j, ReadBackMissing,
       PersistChunkChroma, ValidateChunk, PublishManifest, End, Goto, local, ResetInv, TypeOK
  <2>2. ASSUME NEW o \in Runs, DiscoverStep(o) \/ Crash(o)
        PROVE  \A r \in Runs : pc'[r] = "idle" => pc[r] = "idle" /\ at'[r] = at[r]
    BY <2>2 DEF DiscoverStep, SetBuilding, TakeLease, Answer, Prune, UpsertEntities, UpsertEdges,
       RecordChunkResult, LoadProjectRequirements, PersistRequirements, WriteRequirements,
       ExitGate, DiscoveryFails, Crash, End, Goto, local, ResetInv, TypeOK
  <2>3. ASSUME ResetStep \/ ResetInterrupted \/ (\E t \in Targets : BeginReset(t)) \/ UNCHANGED vars
        PROVE  UNCHANGED <<pc, at>>
    BY <2>3 DEF ResetStep, ResetInterrupted, BeginReset, vars, DeleteRunReadChunks, local,
       DeleteRunRelations, DeleteRunChunks, DeleteRunOrphans, DeleteProjectNeo4j, ResetChroma,
       ResetPostgres, ResetFiles
  <2> QED
    BY <2>1, <2>2, <2>3 DEF Next
<1>3. ASSUME ~intruded', Apart PROVE Apart'
  <2>1. CASE ResetInterrupted
    <3>1. reset' = NoReset /\ UNCHANGED <<chunk, mention, relation, pc, at>>
      BY <2>1 DEF ResetInterrupted, neo4j, local
    <3>2. ResetDone' /\ ~ResetRunning'
      BY <3>1 DEF ResetDone, NoReset, ResetRunning, AfterNeo4j
    <3> QED
      BY <1>3, <3>1, <3>2 DEF Apart, Written
  <2>2. CASE UNCHANGED vars
    <3>1. UNCHANGED <<chunk, mention, relation, entity, vector, published, row, pc, at, reset>>
      BY <2>2 DEF vars, neo4j, local, postgres, resetting
    <3>2. ResetDone'
      BY <1>3, <3>1, DoneStays DEF Apart
    <3> QED
      BY <1>3, <3>1, <3>2 DEF Apart, Written, ResetRunning
  <2> QED
    BY <1>3, <2>1, <2>2, IngestKeepsApart, DiscoverKeepsApart, ResetStepKeepsApart, BeginKeepsApart
       DEF Next
<1>4. NoIdsYet'
  <2>1. reset \in [run : Runs \cup {Nobody}, step : ResetSteps \cup {"none"}, ids : SUBSET Chunks]
    BY DEF ResetInv, TypeOK
  <2>2. CASE ResetStep
    <3>1. ASSUME NEW x, NEW S
          PROVE  /\ [reset EXCEPT !.step = x].step = x
                 /\ [reset EXCEPT !.step = "relations", !.ids = S].step = "relations"
      BY <2>1
    <3>2. CASE DeleteRunReadChunks
      BY <3>1, <3>2 DEF DeleteRunReadChunks, NoIdsYet
    <3>3. CASE ResetFiles
      BY <3>3 DEF ResetFiles, NoReset, NoIdsYet
    <3>4. CASE \/ DeleteRunRelations \/ DeleteRunChunks \/ DeleteRunOrphans
               \/ DeleteProjectNeo4j \/ ResetChroma \/ ResetPostgres
      <4>1. \E x \in {"chunks", "orphans", "chroma", "postgres", "files"} :
              reset' = [reset EXCEPT !.step = x]
        BY <3>4 DEF ResetGoto, DeleteRunRelations, DeleteRunChunks, DeleteRunOrphans,
           DeleteProjectNeo4j, ResetChroma, ResetPostgres
      <4> QED
        BY <3>1, <4>1 DEF NoIdsYet
    <3> QED
      BY <2>2, <3>2, <3>3, <3>4 DEF ResetStep
  <2>3. CASE ResetInterrupted \/ \E t \in Targets : BeginReset(t)
    BY <2>3 DEF ResetInterrupted, BeginReset, NoReset, NoIdsYet
  <2>4. ASSUME reset' = reset PROVE NoIdsYet'
    BY <2>4 DEF NoIdsYet, ResetInv
  <2>5. ASSUME NEW r \in Runs, IngestStep(r) \/ DiscoverStep(r) \/ Crash(r) PROVE reset' = reset
    BY <2>5 DEF resetting, IngestStep, Ingest, IngestRefused, Abort, PersistChunkNeo4j,
       ReadBackMissing, PersistChunkChroma, ValidateChunk, PublishManifest, DiscoverStep, SetBuilding,
       TakeLease, Answer, Prune, UpsertEntities, UpsertEdges, RecordChunkResult,
       LoadProjectRequirements, PersistRequirements, WriteRequirements, ExitGate, DiscoveryFails, Crash
  <2>6. UNCHANGED vars => reset' = reset
    BY DEF vars, resetting
  <2> QED
    BY <2>2, <2>3, <2>4, <2>5, <2>6 DEF Next
<1> QED
  BY <1>1, <1>2, <1>3, <1>4 DEF ResetInv

LEMMA ResetInvariance == Spec => []ResetInv
  BY ResetInit, ResetInvStep, PTL DEF Spec

\* Where no reset overlapped an ingest, no semantic edge is left on a chunk that
\* is gone, at any step of a reset and also when it is interrupted there.
THEOREM EdgesHaveChunks == Spec => []SemanticsHaveChunks
<1>1. ResetInv => SemanticsHaveChunks
  BY DEF ResetInv, Apart, SemanticsHaveChunks
<1> QED
  BY <1>1, ResetInvariance, PTL

LEMMA FinishedResetStep ==
  ASSUME ResetInv, ResetFiles, ~intruded
  PROVE  /\ \A r \in InScope :
              /\ \A c \in Chunks : chunk'[c] # r /\ (vector'[c] = None \/ vector'[c][1] # r)
              /\ r \notin published' \cup manifest' \cup artifact'
              /\ \A x \in row' : x[2] # r
         /\ reset.ids # {} => Unlinked' = {}
         /\ reset.run = Nobody => entity' = {} /\ Edges' = {}
<1>1. /\ reset.step = "files" /\ UNCHANGED <<chunk, mention, relation, entity, vector, published, row>>
      /\ manifest' = manifest \ InScope /\ artifact' = artifact \ InScope
  BY DEF ResetFiles, neo4j, postgres
<1>2. ResetDone
  BY DEF ResetInv, Apart
<1>3. (Unlinked' = Unlinked) /\ (Edges' = Edges)
  BY <1>1 DEF Unlinked, Edges
<1>4. \A r \in InScope : Owned(r) = {}
  BY <1>1, <1>2 DEF ResetDone, AfterNeo4j
<1> QED
  BY <1>1, <1>2, <1>3, <1>4 DEF ResetDone, AfterNeo4j, Owned

\* A reset of a run that ran to its end, and overlapped no ingest, has left no chunk,
\* vector, row or file of its run, however many earlier ones were interrupted, and no
\* entity without an edge unless the run had no chunk left; delete_project leaves nothing.
THEOREM FinishedReset == Spec => ResetClears
<1>1. ResetInv /\ [Next]_vars =>
        [ResetFiles /\ ~intruded =>
           /\ \A r \in InScope :
                /\ \A c \in Chunks : chunk'[c] # r /\ (vector'[c] = None \/ vector'[c][1] # r)
                /\ r \notin published' \cup manifest' \cup artifact'
                /\ \A x \in row' : x[2] # r
           /\ reset.ids # {} => Unlinked' = {}
           /\ reset.run = Nobody => entity' = {} /\ Edges' = {}]_vars
  BY FinishedResetStep
<1> QED
  BY <1>1, ResetInvariance, PTL DEF Spec, ResetClears
-----------------------------------------------------------------------------
(***************************************************************************)
(* Readiness.  Where discoveries do not overlap and nothing was reset, the *)
(* one discovery is alone with the edges: what it found stays projected,   *)
(* because a later chunk of its document prunes edges of that chunk only.  *)
(***************************************************************************)

\* The states of Stage 1.2 in which a run has findings that are not published.
Searching == Leased \ {"write"}

Placed(r, f) == \E k \in DOMAIN Document[r] : <<Document[r][k], f>> \in mention \cap relation

\* The chunks before the one at hand keep the edges of what was found in them.
Gathered(r) ==
  \A f \in found[r] : \E k \in DOMAIN Document[r] :
    /\ pc[r] \in {"answer", "prune", "entities", "edges", "check"} => k < at[r]
    /\ <<Document[r][k], f>> \in mention \cap relation

ArtifactPlaced(r) == r \in published /\ \A i \in master[r] : Placed(r, i[1])

Serial ==
  /\ reset = NoReset
  /\ \A r \in Runs, o \in Runs : pc[r] \in Discovering /\ pc[o] \in Discovering => r = o
  /\ Discoverers # {} => \A o \in Runs : readiness # <<"ready", o>>
  /\ \A r \in Runs : pc[r] \notin Searching => found[r] = {}
  /\ \A r \in Runs : Gathered(r)
  /\ \A r \in Runs : pc[r] \in {"write", "gate"} => ArtifactPlaced(r)
  /\ \A r \in Runs : pc[r] = "gate" => r \in artifact
  /\ \A r \in Runs : readiness = <<"ready", r>> => r \in artifact /\ ArtifactPlaced(r)

ReadyInv == TypeOK /\ (~wiped /\ ~contended => Serial)

LEMMA ReadyInit == Init => ReadyInv
  BY TypeInit DEF Init, ReadyInv, Serial, Gathered, Discoverers, Discovering, Searching, Leased, None

\* A step that changes neither edges nor artifacts nor readiness, and moves one
\* run outside of Stage 1.2, or within it with what it found.
LEMMA SerialStays ==
  ASSUME ReadyInv, Serial, NEW r \in Runs,
         UNCHANGED <<reset, mention, relation, published, master>>, artifact \subseteq artifact',
         \A o \in Runs \ {r} : pc'[o] = pc[o] /\ found'[o] = found[o] /\ at'[o] = at[o],
         pc'[r] \in Discovering => pc[r] \in Discovering,
         pc'[r] \in {"write", "gate"} => pc[r] \in {"write", "gate"},
         pc'[r] = "gate" => r \in artifact',
         pc'[r] \notin Searching => found'[r] = {},
         readiness' = readiness \/ \A o \in Runs : readiness' # <<"ready", o>>,
         Gathered(r)'
  PROVE  Serial'
<1>1. \A o \in Runs : Gathered(o)'
  BY DEF Serial, Gathered
<1>2. \A o \in Runs : ArtifactPlaced(o)' = ArtifactPlaced(o)
  BY DEF ArtifactPlaced, Placed
<1>3. Discoverers' \subseteq Discoverers
  BY DEF Discoverers
<1>4. \A o \in Runs : pc'[o] \in {"write", "gate"} => ArtifactPlaced(o)'
  BY <1>2 DEF Serial
<1>5. \A o \in Runs : readiness' = <<"ready", o>> => o \in artifact' /\ ArtifactPlaced(o)'
  BY <1>2 DEF Serial
<1>6. \A o \in Runs : pc'[o] = "gate" => o \in artifact'
  BY DEF Serial
<1>7. \A o \in Runs : pc'[o] \notin Searching => found'[o] = {}
  BY DEF Serial
<1>8. \A o \in Runs, q \in Runs : pc'[o] \in Discovering /\ pc'[q] \in Discovering => o = q
  BY DEF Serial
<1>9. reset' = NoReset /\ (Discoverers' # {} => \A o \in Runs : readiness' # <<"ready", o>>)
  BY <1>3 DEF Serial
<1> QED
  BY <1>1, <1>4, <1>5, <1>6, <1>7, <1>8, <1>9 DEF Serial

LEMMA OthersKeepSerial ==
  ASSUME ReadyInv, Serial, NEW r \in Runs,
         IngestStep(r) \/ Crash(r) \/ DiscoveryFails(r)
  PROVE  Serial'
<1>1. /\ UNCHANGED <<reset, mention, relation, published, master, artifact>>
      /\ readiness' = readiness \/ readiness' = <<"failed", r>>
  BY DEF IngestStep, Ingest, IngestRefused, Abort, PersistChunkNeo4j, PersistChunkChroma,
     ReadBackMissing, ValidateChunk, PublishManifest, Crash, DiscoveryFails, MarkReadiness,
     neo4j, postgres, files, resetting
<1>2. /\ \A o \in Runs \ {r} : pc'[o] = pc[o] /\ found'[o] = found[o] /\ at'[o] = at[o]
      /\ pc'[r] \notin Discovering 
      /\ found'[r] = {} \/ (found'[r] = found[r] /\ pc[r] \notin Searching)
  <2>1. CASE IngestStep(r)
    BY <2>1 DEF IngestStep, Ingest, IngestRefused, Abort, PersistChunkNeo4j, PersistChunkChroma,
       ReadBackMissing, ValidateChunk, PublishManifest, End, Goto, local, ReadyInv, TypeOK,
       Discovering, Searching, Leased
  <2>2. CASE Crash(r) \/ DiscoveryFails(r)
    BY <2>2 DEF Crash, DiscoveryFails, End, Goto, ReadyInv, TypeOK, Discovering, Leased
  <2> QED
    BY <2>1, <2>2
<1>3. found'[r] = {}
  BY <1>2 DEF Serial
<1>4. Gathered(r)'
  BY <1>3 DEF Gathered
<1>5. pc'[r] \notin Leased \cup {"write", "gate"}
  BY <1>2 DEF Discovering, Searching, Leased
<1>6. readiness' = readiness \/ \A o \in Runs : readiness' # <<"ready", o>>
  BY <1>1
<1> QED
  BY <1>1, <1>2, <1>3, <1>4, <1>5, <1>6, SerialStays

LEMMA BuildingKeepsSerial ==
  ASSUME ReadyInv, Serial, NEW r \in Runs, SetBuilding(r), ~contended' PROVE Serial'
<1>1. /\ Discoverers = {} /\ pc' = [pc EXCEPT ![r] = "waiting"] /\ pc[r] = "building"
      /\ readiness' = <<"building", r>>
      /\ UNCHANGED <<reset, mention, relation, published, master, artifact, found, at>>
  BY DEF SetBuilding, Goto, MarkReadiness, neo4j, files, local, resetting
<1>2. \A o \in Runs : readiness' # <<"ready", o>>
  BY <1>1
<1>3. /\ \A o \in Runs : pc[o] \notin Discovering
      /\ \A o \in Runs : pc'[o] \in Discovering => o = r
      /\ \A o \in Runs : pc'[o] \notin Leased
      /\ \A o \in Runs : pc'[o] \notin {"write", "gate"} /\ found[o] = {}
  BY <1>1 DEF Discoverers, Discovering, Searching, Leased, ReadyInv, TypeOK, Serial
<1>4. \A o \in Runs : Gathered(o)'
  BY <1>1, <1>3 DEF Gathered
<1> QED
  BY <1>1, <1>2, <1>3, <1>4 DEF Serial

LEMMA EdgesKeepSerial ==
  ASSUME ReadyInv, Serial, NEW r \in Runs, Prune(r) \/ UpsertEdges(r) PROVE Serial'
<1>1. /\ pc[r] \in {"prune", "edges"} /\ pc'[r] \in {"edges", "entities", "check"}
      /\ \A o \in Runs \ {r} : pc'[o] = pc[o]
      /\ UNCHANGED <<reset, readiness, published, master, artifact, found, at>>
  BY DEF Prune, UpsertEdges, Goto, postgres, files, local, resetting, ReadyInv, TypeOK
<1>2. \A e \in mention \cap relation : e[1] # current(r) => e \in mention' \cap relation'
  BY DEF Prune, UpsertEdges, Stale
<1>3. \A o \in Runs : pc'[o] \in Discovering <=> pc[o] \in Discovering
  BY <1>1 DEF Discovering, Searching, Leased
<1>4. \A o \in Runs : pc[o] \in Discovering => o = r
  BY <1>1 DEF Serial, Discovering, Searching, Leased
<1>5. \A o \in Runs : readiness # <<"ready", o>>
  BY <1>1 DEF Serial, Discoverers, Discovering, Searching, Leased
<1>6. ASSUME NEW o \in Runs PROVE Gathered(o)'
  <2>1. CASE o = r
    <3> SUFFICES ASSUME NEW f \in found[r]
                 PROVE  \E k \in DOMAIN Document[r] :
                          k < at[r] /\ <<Document[r][k], f>> \in mention' \cap relation'
      BY <1>1, <2>1 DEF Gathered
    <3>1. PICK k \in DOMAIN Document[r] :
            k < at[r] /\ <<Document[r][k], f>> \in mention \cap relation
      BY <1>1 DEF Serial, Gathered
    <3>2. at[r] \in DOMAIN Document[r] /\ k # at[r]
      BY <3>1, Positions DEF ReadyInv, TypeOK
    <3>3. Document[r][k] # current(r)
      BY <3>2, RunsAssumption DEF current
    <3> QED
      BY <1>2, <3>1, <3>3
  <2>2. CASE o # r
    <3>1. found'[o] = {}
      BY <1>1, <1>4, <2>2 DEF Serial, Discovering, Searching, Leased
    <3> QED
      BY <3>1 DEF Gathered
  <2> QED
    BY <2>1, <2>2
<1>7. \A o \in Runs : pc'[o] \notin {"write", "gate"}
  BY <1>1, <1>3, <1>4 DEF Discovering, Searching, Leased
<1>8. \A o \in Runs : pc'[o] \notin Searching => found'[o] = {}
  BY <1>1 DEF Serial, Searching, Leased
<1> QED
  BY <1>1, <1>3, <1>4, <1>5, <1>6, <1>7, <1>8 DEF Serial, Discoverers

LEMMA RecordKeepsSerial ==
  ASSUME ReadyInv, Serial, NEW r \in Runs, RecordChunkResult(r) PROVE Serial'
<1>1. /\ pc[r] = "check" /\ Projected(r)
      /\ found' = [found EXCEPT ![r] = @ \cup Answered(r)]
      /\ UNCHANGED <<reset, readiness, mention, relation, published, master, artifact>>
      /\ \/ pc' = [pc EXCEPT ![r] = "load"] /\ at' = [at EXCEPT ![r] = 1]
         \/ pc' = [pc EXCEPT ![r] = "answer"] /\ at' = [at EXCEPT ![r] = @ + 1]
  BY DEF RecordChunkResult, Goto, neo4j, postgres, files, resetting
<1>2. at[r] \in DOMAIN Document[r] /\ \A k \in DOMAIN Document[r] : k \in Nat
  BY Positions DEF ReadyInv, TypeOK
<1>3. Gathered(r)'
  <2> SUFFICES ASSUME NEW f \in found'[r]
               PROVE  \E k \in DOMAIN Document[r] :
                        /\ pc'[r] = "answer" => k < at'[r]
                        /\ <<Document[r][k], f>> \in mention \cap relation
    BY <1>1 DEF Gathered, ReadyInv, TypeOK
  <2>1. CASE f \in Answered(r)
    <3>1. <<Document[r][at[r]], f>> \in mention \cap relation
      BY <1>1, <2>1 DEF Projected, current
    <3>2. pc'[r] = "answer" => at[r] < at'[r]
      BY <1>1, <1>2 DEF ReadyInv, TypeOK
    <3> QED
      BY <1>2, <3>1, <3>2
  <2>2. CASE f \notin Answered(r)
    <3>1. PICK k \in DOMAIN Document[r] :
            k < at[r] /\ <<Document[r][k], f>> \in mention \cap relation
      BY <1>1, <2>2 DEF Serial, Gathered, ReadyInv, TypeOK
    <3>2. pc'[r] = "answer" => k < at'[r]
      BY <1>1, <1>2, <3>1 DEF ReadyInv, TypeOK
    <3> QED
      BY <3>1, <3>2
  <2> QED
    BY <2>1, <2>2
<1>4. /\ \A o \in Runs \ {r} : pc'[o] = pc[o] /\ found'[o] = found[o] /\ at'[o] = at[o]
      /\ pc'[r] \in {"load", "answer"}
  BY <1>1 DEF ReadyInv, TypeOK
<1> QED
  BY <1>1, <1>3, <1>4, SerialStays DEF Discovering, Searching, Leased

LEMMA PersistKeepsSerial ==
  ASSUME ReadyInv, Serial, NEW r \in Runs, PersistRequirements(r) PROVE Serial'
<1>1. /\ pc[r] = "persist" /\ pc' = [pc EXCEPT ![r] = "write"]
      /\ published' = published \cup {r} /\ master' = [master EXCEPT ![r] = Named(r)]
      /\ found' = [found EXCEPT ![r] = {}]
      /\ UNCHANGED <<reset, readiness, mention, relation, artifact, at>>
  BY DEF PersistRequirements, UpsertMaster, Goto, neo4j, files, resetting
<1>2. \A o \in Runs : pc[o] \in Discovering => o = r
  BY <1>1 DEF Serial, Discovering, Searching, Leased
<1>3. ArtifactPlaced(r)'
  <2>1. \A i \in Named(r) : i[1] \in found[r]
    BY DEF Named
  <2>2. \A f \in found[r] : Placed(r, f)
    BY DEF Serial, Gathered, Placed
  <2> QED
    BY <1>1, <2>1, <2>2 DEF ArtifactPlaced, Placed, ReadyInv, TypeOK
<1>4. \A o \in Runs : Gathered(o)'
  BY <1>1 DEF Gathered, Serial, ReadyInv, TypeOK
<1>5. \A o \in Runs : readiness' # <<"ready", o>>
  BY <1>1 DEF Serial, Discoverers, Discovering, Searching, Leased
<1>6. \A o \in Runs : o # r => pc'[o] \notin {"write", "gate"}
  BY <1>1, <1>2 DEF ReadyInv, TypeOK, Discovering, Searching, Leased
<1>7. pc'[r] = "write" /\ \A o \in Runs : pc'[o] \in Discovering => o = r
  BY <1>1, <1>2 DEF ReadyInv, TypeOK
<1>8. \A o \in Runs : pc'[o] \notin Searching => found'[o] = {}
  BY <1>1, <1>7 DEF Serial, ReadyInv, TypeOK
<1> QED
  BY <1>1, <1>3, <1>4, <1>5, <1>6, <1>7, <1>8 DEF Serial

LEMMA GateKeepsSerial ==
  ASSUME ReadyInv, Serial, NEW r \in Runs, ExitGate(r) PROVE Serial'
<1>1. /\ pc[r] = "gate" /\ pc' = [pc EXCEPT ![r] = "over"] /\ r \in artifact
      /\ readiness' = <<"ready", r>> /\ found' = [found EXCEPT ![r] = {}]
      /\ UNCHANGED <<reset, mention, relation, published, master, artifact>>
      /\ at' = [at EXCEPT ![r] = 1]
  BY DEF ExitGate, End, Goto, MarkReadiness, neo4j, files, resetting
<1>2. \A o \in Runs : pc'[o] \notin Discovering
  BY <1>1 DEF Serial, Discovering, Searching, Leased, ReadyInv, TypeOK
<1>3. ArtifactPlaced(r)' /\ \A o \in Runs : readiness' = <<"ready", o>> => o = r
  BY <1>1 DEF Serial, ArtifactPlaced, Placed
<1>4. \A o \in Runs : found'[o] = {}
  <2>1. \A o \in Runs : o # r => pc[o] \notin Leased
    BY <1>1, <1>2 DEF Discovering, ReadyInv, TypeOK
  <2> QED
    BY <1>1, <2>1 DEF Serial, ReadyInv, TypeOK, Searching
<1>5. \A o \in Runs : Gathered(o)'
  BY <1>4 DEF Gathered
<1>6. Discoverers' = {} /\ \A o \in Runs : pc'[o] \notin {"write", "gate"}
  BY <1>2 DEF Discoverers, Discovering, Searching, Leased
<1> QED
  BY <1>1, <1>2, <1>3, <1>4, <1>5, <1>6 DEF Serial

LEMMA WorkKeepsSerial ==
  ASSUME ReadyInv, Serial, NEW r \in Runs,
         \/ TakeLease(r) \/ Answer(r) \/ UpsertEntities(r) \/ LoadProjectRequirements(r)
         \/ WriteRequirements(r)
  PROVE  Serial'
<1> USE DEF TakeLease, Answer, UpsertEntities, LoadProjectRequirements, WriteRequirements
<1>1. /\ UNCHANGED <<reset, readiness, mention, relation, published, master, found, at>>
      /\ artifact \subseteq artifact'
  BY DEF neo4j, postgres, files, local, resetting
<1>2. /\ pc[r] \in Discovering /\ pc'[r] \in Discovering
      /\ \A o \in Runs \ {r} : pc'[o] = pc[o]
      /\ pc'[r] \in {"write", "gate"} => pc[r] = "write"
      /\ pc'[r] = "gate" => r \in artifact'
  BY DEF Goto, ReadyInv, TypeOK, Discovering, Searching, Leased
<1>3. pc'[r] \notin Searching => found[r] = {}
  <2>1. CASE WriteRequirements(r)
    <3>1. pc[r] = "write" /\ pc'[r] = "gate"
      BY <2>1 DEF Goto, ReadyInv, TypeOK
    <3> QED
      BY <3>1 DEF Serial, Searching
  <2>2. CASE ~WriteRequirements(r)
    BY <2>2 DEF Goto, ReadyInv, TypeOK, Searching, Leased
  <2> QED
    BY <2>1, <2>2
<1>4. Gathered(r)'
  <2>1. CASE pc[r] = "waiting"
    BY <1>1, <2>1 DEF Serial, Gathered, Searching, Leased
  <2>2. CASE pc[r] # "waiting"
    <3>1. pc'[r] \in {"answer", "prune", "entities", "edges", "check"} =>
            pc[r] \in {"answer", "prune", "entities", "edges", "check"}
      BY <2>2 DEF Goto, ReadyInv, TypeOK
    <3> QED
      BY <1>1, <3>1 DEF Serial, Gathered
  <2> QED
    BY <2>1, <2>2
<1> QED
  BY <1>1, <1>2, <1>3, <1>4, SerialStays

LEMMA ReadyStep == ReadyInv /\ [Next]_vars => ReadyInv'
<1> SUFFICES ASSUME ReadyInv, [Next]_vars, ~wiped', ~contended' PROVE Serial'
  BY TypeStep DEF ReadyInv
<1>1. ~wiped /\ ~contended /\ Serial
  <2>1. ~wiped
    BY DEF Next, IngestStep, Ingest, IngestRefused, Abort, PersistChunkNeo4j, ReadBackMissing,
       PersistChunkChroma, ValidateChunk, PublishManifest, DiscoverStep, SetBuilding, TakeLease,
       Answer, Prune, UpsertEntities, UpsertEdges, RecordChunkResult, LoadProjectRequirements,
       PersistRequirements, WriteRequirements, ExitGate, DiscoveryFails, Crash, BeginReset,
       ResetStep, DeleteRunReadChunks, DeleteRunRelations, DeleteRunChunks, DeleteRunOrphans,
       DeleteProjectNeo4j, ResetChroma, ResetPostgres, ResetFiles, ResetInterrupted, history, vars
  <2>2. ~contended
    BY DEF Next, IngestStep, Ingest, IngestRefused, Abort, PersistChunkNeo4j, ReadBackMissing,
       PersistChunkChroma, ValidateChunk, PublishManifest, DiscoverStep, SetBuilding, TakeLease,
       Answer, Prune, UpsertEntities, UpsertEdges, RecordChunkResult, LoadProjectRequirements,
       PersistRequirements, WriteRequirements, ExitGate, DiscoveryFails, Crash, BeginReset,
       ResetStep, DeleteRunReadChunks, DeleteRunRelations, DeleteRunChunks, DeleteRunOrphans,
       DeleteProjectNeo4j, ResetChroma, ResetPostgres, ResetFiles, ResetInterrupted, history, vars
  <2> QED
    BY <2>1, <2>2 DEF ReadyInv
<1>2. ~ResetStep /\ ~ResetInterrupted
  BY <1>1 DEF Serial, NoReset, ResetInterrupted, ResetRunning, ResetStep, DeleteRunReadChunks,
     DeleteRunRelations, DeleteRunChunks, DeleteRunOrphans, DeleteProjectNeo4j, ResetChroma,
     ResetPostgres, ResetFiles
<1>3. \A t \in Targets : ~BeginReset(t)
  BY DEF BeginReset
<1>4. CASE UNCHANGED vars
  BY <1>1, <1>4 DEF vars, Serial, Gathered, ArtifactPlaced, Placed, Discoverers, neo4j, postgres,
     files, local, resetting
<1>5. ASSUME NEW r \in Runs, IngestStep(r) \/ DiscoverStep(r) \/ Crash(r) PROVE Serial'
  BY <1>1, <1>5, OthersKeepSerial, BuildingKeepsSerial, EdgesKeepSerial, RecordKeepsSerial,
     PersistKeepsSerial, GateKeepsSerial, WorkKeepsSerial DEF DiscoverStep
<1> QED
  BY <1>2, <1>3, <1>4, <1>5 DEF Next

\* Where discoveries do not overlap and nothing was reset, a run that is ready
\* still has every requirement of its artifact in the semantic projection.
THEOREM ReadyHasGraph == Spec => []ReadyIsProjected
<1>1. ReadyInv => ReadyIsProjected
  BY DEF ReadyInv, Serial, ArtifactPlaced, Placed, ReadyIsProjected
<1> QED
  BY <1>1, ReadyInit, ReadyStep, PTL DEF Spec
=============================================================================
