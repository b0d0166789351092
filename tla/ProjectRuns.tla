---------------------------- MODULE ProjectRuns ----------------------------
(***************************************************************************)
(* The ingest commands of one project (Stage 1.1, ingestion_graph.py, then *)
(* Stage 1.2, requirement_discovery_graph.py) and the resets, over what    *)
(* they share: the chunks and the semantic projection of Neo4j, the        *)
(* vectors of Chroma, the artifacts, rows and readiness of PostgreSQL and  *)
(* the files of each run.  A chunk is known by its content, so the runs of *)
(* documents that overlap write the same chunk.  One action is what        *)
(* happens up to the next write that another command can see.              *)
(***************************************************************************)
EXTENDS Naturals, Sequences, FiniteSets

CONSTANTS
  Runs, Nobody,
  Chunks, Document,   \* of each run: the chunks of its document, in order
  Models, ModelOf,    \* of each run: its embedding model
  Facts,              \* what the model may find in a chunk: a requirement and its entity
  Targets,            \* bound: the runs that are reset, Nobody for the project
  MaxResets           \* bound: reset commands that run to their end

Ids == Facts \X Runs  \* a permanent requirement ID: the fact, and the run that named it
None == <<>>

ASSUME RunsAssumption ==
  /\ Nobody \notin Runs
  /\ Document \in [Runs -> Seq(Chunks)] /\ ModelOf \in [Runs -> Models]
  /\ \A r \in Runs : Document[r] # <<>>   \* and no chunk twice (make_chunk_id, ChunkManifest)
  /\ \A r \in Runs : \A k, n \in DOMAIN Document[r] : Document[r][k] = Document[r][n] => k = n
  /\ Targets \subseteq Runs \cup {Nobody} /\ MaxResets \in Nat

VARIABLES
  chunk, mention, relation, entity,  \* Neo4j: run_id of each chunk, edges, nodes
  vector,                            \* Chroma: of each chunk <<run, model>> or None
  published, master, row,            \* PostgreSQL: artifacts and requirement rows
  readiness,                         \* PostgreSQL: <<status, build_run_id>>
  manifest, artifact,                \* the files of each run
  lease,                             \* who holds discovery_lease
  pc, at, answer, found, known,      \* of each ingest process
  reset, resets,                     \* the reset that runs, and the bound's counter
  crossed, contended, intruded, wiped \* history, see below

neo4j == <<chunk, mention, relation, entity>>
postgres == <<published, master, row, readiness>>
files == <<manifest, artifact>>
local == <<at, answer, found, known>>
resetting == <<reset, resets>>
history == <<crossed, contended, intruded, wiped>>
vars == <<neo4j, vector, postgres, files, lease, pc, local, resetting, history>>

\* Where an ingest process is: Stage 1.1, then Stage 1.2 before, in and after the lease.
Ingesting == {"upsert", "vector", "validate", "publish"}
Leased == {"answer", "prune", "entities", "edges", "check", "load", "persist", "write"}
Discovering == {"waiting", "gate"} \cup Leased
Pcs == {"idle", "building", "over"} \cup Ingesting \cup Discovering
Quiet == {"idle", "over"}
ResetSteps == {"ids", "relations", "chunks", "orphans", "chroma", "postgres", "files"}
NoReset == [run |-> Nobody, step |-> "none", ids |-> {}]

TypeOK ==
  /\ chunk \in [Chunks -> Runs \cup {Nobody}]
  /\ mention \subseteq Chunks \X Facts /\ relation \subseteq Chunks \X Facts
  /\ entity \subseteq Facts
  /\ vector \in [Chunks -> (Runs \X Models) \cup {None}]
  /\ published \subseteq Runs /\ master \in [Runs -> SUBSET Ids]
  /\ row \subseteq Ids \X Runs
  /\ readiness \in ({"building", "ready", "failed"} \X Runs) \cup {None}
  /\ manifest \subseteq Runs /\ artifact \subseteq Runs
  /\ lease \in Runs \cup {Nobody}
  /\ pc \in [Runs -> Pcs]
  /\ at \in [Runs -> Nat] /\ \A r \in Runs : at[r] \in DOMAIN Document[r]
  /\ answer \in [Runs -> Facts \cup {None}] /\ found \in [Runs -> SUBSET Facts]
  /\ known \in [Runs -> SUBSET Ids]
  /\ reset \in [run : Runs \cup {Nobody}, step : ResetSteps \cup {"none"}, ids : SUBSET Chunks]
  /\ resets \in Nat
  /\ {crossed, contended, intruded, wiped} \subseteq BOOLEAN

Init ==
  /\ chunk = [c \in Chunks |-> Nobody]
  /\ mention = {} /\ relation = {} /\ entity = {}
  /\ vector = [c \in Chunks |-> None]
  /\ published = {} /\ master = [r \in Runs |-> {}] /\ row = {} /\ readiness = None
  /\ manifest = {} /\ artifact = {} /\ lease = Nobody
  /\ pc = [r \in Runs |-> "idle"] /\ at = [r \in Runs |-> 1]
  /\ answer = [r \in Runs |-> None] /\ found = [r \in Runs |-> {}]
  /\ known = [r \in Runs |-> {}]
  /\ reset = NoReset /\ resets = 0
  /\ crossed = FALSE /\ contended = FALSE /\ intruded = FALSE /\ wiped = FALSE
-----------------------------------------------------------------------------
Goto(r, next) == pc' = [pc EXCEPT ![r] = next]
current(r) == Document[r][at[r]]
ResetRunning == reset # NoReset
IsLast(r) == at[r] = Len(Document[r])
MarkReadiness(r, status) == readiness' = <<status, r>>
Release(r) == lease' = IF lease = r THEN Nobody ELSE lease

\* The process ends, and its memory with it.
End(r) ==
  /\ Goto(r, "over")
  /\ at' = [at EXCEPT ![r] = 1] /\ answer' = [answer EXCEPT ![r] = None]
  /\ found' = [found EXCEPT ![r] = {}] /\ known' = [known EXCEPT ![r] = {}]

\* An exception in Stage 1.1 only ends the run.
Abort(r) ==
  /\ End(r)
  /\ UNCHANGED <<neo4j, vector, postgres, files, lease, resetting, history>>

\* mutant: the lease is kept by a run that fails
DiscoveryFailsHolding(r) ==
  /\ pc[r] \in Discovering \cup {"building"} /\ End(r)
  /\ MarkReadiness(r, "failed")
  /\ UNCHANGED <<neo4j, vector, published, master, row, files, lease, resetting, history>>

\* An exception in Stage 1.2: the lease is released, then the project is marked failed;
\* the two writes are one step here.
DiscoveryFails(r) ==
  /\ pc[r] \in Discovering \cup {"building"} /\ End(r)
  /\ MarkReadiness(r, "failed") /\ Release(r)
  /\ UNCHANGED <<neo4j, vector, published, master, row, files, resetting, history>>

\* The process ends: PostgreSQL drops the lock with its connection.
Crash(r) ==
  /\ pc[r] \in Ingesting \cup Discovering \cup {"building"}
  /\ End(r) /\ Release(r)
  /\ UNCHANGED <<neo4j, vector, postgres, files, resetting, history>>
-----------------------------------------------------------------------------
\* Stage 1.1.  A run that starts between the check and the writes of another
\* run of the project sees a collection the other run has not written yet.

\* The embedding contract, taken from one record of the collection.
Compatible(r, m) == m = ModelOf[r]
Stored == {c \in Chunks : vector[c] # None}

\* mutant: the embedding contract is not compared
IngestAnyModel(r) ==
  /\ pc[r] = "idle" /\ Goto(r, "upsert")
  /\ crossed' = (crossed \/ \E o \in Runs : pc[o] \in Ingesting)
  /\ intruded' = (intruded \/ ResetRunning)
  /\ UNCHANGED <<neo4j, vector, postgres, files, lease, local, resetting, contended, wiped>>

Ingest(r) ==
  /\ pc[r] = "idle" /\ Goto(r, "upsert")
  /\ Stored = {} \/ \E c \in Stored : Compatible(r, vector[c][2])
  /\ crossed' = (crossed \/ \E o \in Runs : pc[o] \in Ingesting)
  /\ intruded' = (intruded \/ ResetRunning)
  /\ UNCHANGED <<neo4j, vector, postgres, files, lease, local, resetting, contended, wiped>>

IngestRefused(r) ==
  /\ pc[r] = "idle" /\ \E c \in Stored : ~Compatible(r, vector[c][2])
  /\ Abort(r)

\* MERGE by project and chunk: the chunk now belongs to this run.
UpsertChunk(c, r) == [chunk EXCEPT ![c] = r]

PersistChunkNeo4j(r) ==
  /\ pc[r] = "upsert" /\ Goto(r, "vector")
  /\ chunk' = UpsertChunk(current(r), r)
  /\ UNCHANGED <<mention, relation, entity, vector, postgres, files, lease, local, resetting, history>>

UpsertVector(c, r) == [vector EXCEPT ![c] = <<r, ModelOf[r]>>]

\* The read-back compares the content, not the run; the embedding follows.  Only
\* a reset can come between the two, and its deletion commutes with the write.
PersistChunkChroma(r) ==
  /\ pc[r] = "vector" /\ chunk[current(r)] # Nobody /\ Goto(r, "validate")
  /\ vector' = UpsertVector(current(r), r)
  /\ UNCHANGED <<neo4j, postgres, files, lease, local, resetting, history>>

ReadBackMissing(r) ==
  /\ \/ pc[r] = "vector" /\ chunk[current(r)] = Nobody
     \/ pc[r] = "validate" /\ vector[current(r)] = None
  /\ Abort(r)

\* validate_chunk_persistence, and the route to the next chunk.
ValidateChunk(r) ==
  /\ pc[r] = "validate" /\ vector[current(r)] # None
  /\ IF IsLast(r) THEN Goto(r, "publish") /\ at' = [at EXCEPT ![r] = 1]
                  ELSE Goto(r, "upsert") /\ at' = [at EXCEPT ![r] = @ + 1]
  /\ UNCHANGED <<neo4j, vector, postgres, files, lease, answer, found, known, resetting, history>>

PublishManifest(r) ==
  /\ pc[r] = "publish" /\ Goto(r, "building")
  /\ manifest' = manifest \cup {r}
  /\ UNCHANGED <<neo4j, vector, postgres, artifact, lease, local, resetting, history>>
-----------------------------------------------------------------------------
\* Stage 1.2.

Discoverers == {o \in Runs : pc[o] \in Discovering}

\* mutant: readiness is left as it is until the discovery is over
SetBuildingSilently(r) ==
  /\ pc[r] = "building" /\ r \in manifest /\ Goto(r, "waiting")
  /\ contended' = (contended \/ Discoverers # {})
  /\ UNCHANGED <<neo4j, vector, postgres, files, lease, local, resetting, crossed, intruded, wiped>>

\* Readiness is set before the lease is taken, and needs the manifest.
SetBuilding(r) ==
  /\ pc[r] = "building" /\ r \in manifest /\ Goto(r, "waiting")
  /\ MarkReadiness(r, "building")
  /\ contended' = (contended \/ Discoverers # {})
  /\ UNCHANGED <<neo4j, vector, published, master, row, files, lease, local, resetting, crossed, intruded, wiped>>

TakeLease(r) ==
  /\ pc[r] = "waiting" /\ lease = Nobody /\ lease' = r /\ Goto(r, "answer")
  /\ UNCHANGED <<neo4j, vector, postgres, files, local, resetting, history>>

\* One model response for the chunk: a fact, or no requirements.
Answers == Facts \cup {None}
Answer(r) ==
  /\ pc[r] = "answer" /\ Goto(r, "prune")
  /\ \E a \in Answers : answer' = [answer EXCEPT ![r] = a]
  /\ UNCHANGED <<neo4j, vector, postgres, files, lease, at, found, known, resetting, history>>

Stale(edges, c, a) == {e \in edges : e[1] = c /\ e[2] # a}

\* prune_semantic_projection: edges of the chunk that this answer does not have.
\* Its two statements, like those of UpsertEdges, touch edges of one chunk that
\* only the holder of the lease writes; they are one action.
Prune(r) ==
  /\ pc[r] = "prune" /\ Goto(r, "entities")
  /\ relation' = relation \ Stale(relation, current(r), answer[r])
  /\ mention' = mention \ Stale(mention, current(r), answer[r])
  /\ UNCHANGED <<chunk, entity, vector, postgres, files, lease, local, resetting, history>>

Answered(r) == {f \in Facts : f = answer[r]}

UpsertEntities(r) ==
  /\ pc[r] = "entities" /\ Goto(r, "edges")
  /\ entity' = entity \cup Answered(r)
  /\ UNCHANGED <<chunk, mention, relation, vector, postgres, files, lease, local, resetting, history>>

\* A mention matches the chunk and the entity, a relationship its entities only.
UpsertEdges(r) ==
  LET edges == {current(r)} \X (Answered(r) \cap entity)
  IN  /\ pc[r] = "edges" /\ Goto(r, "check")
      /\ mention' = IF chunk[current(r)] = Nobody THEN mention ELSE mention \cup edges
      /\ relation' = relation \cup edges
      /\ UNCHANGED <<chunk, entity, vector, postgres, files, lease, local, resetting, history>>

Projected(r) == {current(r)} \X Answered(r) \subseteq mention \cap relation

\* The read-back of the projection, record_chunk_result and the route.
RecordChunkResult(r) ==
  /\ pc[r] = "check" /\ Projected(r)
  /\ found' = [found EXCEPT ![r] = @ \cup Answered(r)]
  /\ answer' = [answer EXCEPT ![r] = None]
  /\ IF IsLast(r) THEN Goto(r, "load") /\ at' = [at EXCEPT ![r] = 1]
                  ELSE Goto(r, "answer") /\ at' = [at EXCEPT ![r] = @ + 1]
  /\ UNCHANGED <<neo4j, vector, postgres, files, lease, known, resetting, history>>

Masters == UNION {master[o] : o \in published}

\* mutant: the lease covers the projection only
LoadReleasing(r) ==
  /\ pc[r] = "load" /\ Goto(r, "persist") /\ Release(r)
  /\ known' = [known EXCEPT ![r] = Masters]
  /\ UNCHANGED <<neo4j, vector, postgres, files, at, answer, found, resetting, history>>

\* load_project_requirements: the identities of every artifact of the project.
LoadProjectRequirements(r) ==
  /\ pc[r] = "load" /\ Goto(r, "persist")
  /\ known' = [known EXCEPT ![r] = Masters]
  /\ UNCHANGED <<neo4j, vector, postgres, files, lease, at, answer, found, resetting, history>>

\* build_requirements_artifact: a known requirement keeps its permanent ID.
Named(r) == {id \in Ids :
               /\ id[1] \in found[r]
               /\ \/ id \in known[r]
                  \/ id[2] = r /\ \A other \in known[r] : other[1] # id[1]}

UpsertMaster(r) == [master EXCEPT ![r] = Named(r)]

\* persist_requirements: the rows of the artifact now belong to this run.
PersistRequirements(r) ==
  /\ pc[r] = "persist" /\ Goto(r, "write")
  /\ published' = published \cup {r}
  /\ master' = UpsertMaster(r)
  /\ row' = {x \in row : x[1] \notin Named(r)} \cup Named(r) \X {r}
  /\ found' = [found EXCEPT ![r] = {}] /\ known' = [known EXCEPT ![r] = {}]
  /\ UNCHANGED <<neo4j, vector, readiness, files, lease, at, answer, resetting, history>>

WriteRequirements(r) ==
  /\ pc[r] = "write" /\ Goto(r, "gate") /\ Release(r)
  /\ artifact' = artifact \cup {r}
  /\ UNCHANGED <<neo4j, vector, postgres, manifest, local, resetting, history>>

\* The exit gate compares file and artifact; readiness is set after the lease.
ExitGate(r) ==
  /\ pc[r] = "gate" /\ r \in artifact /\ r \in published /\ End(r)
  /\ MarkReadiness(r, "ready")
  /\ UNCHANGED <<neo4j, vector, published, master, row, files, lease, resetting, history>>
-----------------------------------------------------------------------------
\* reset_stage_run for stage 1, and reset_project (Nobody's run, no "ids").
\* project_maintenance_lease lets one reset run at a time; no ingest asks for it.

ResetGoto(step) == reset' = [reset EXCEPT !.step = step] /\ UNCHANGED resets
Owned(r) == {c \in Chunks : chunk[c] = r}
DeleteVectors(r) == [c \in Chunks |->
  IF vector[c] # None /\ r \in {vector[c][1], Nobody} THEN None ELSE vector[c]]

BeginReset(r) ==
  /\ ~ResetRunning /\ resets < MaxResets /\ UNCHANGED resets
  /\ reset' = [run |-> r, step |-> IF r = Nobody THEN "chunks" ELSE "ids", ids |-> {}]
  /\ r \in {Nobody} \cup {o \in Runs : pc[o] # "idle"}
  /\ intruded' = (intruded \/ \E o \in Runs : pc[o] \notin Quiet)
  /\ wiped' = TRUE
  /\ UNCHANGED <<neo4j, vector, postgres, files, lease, pc, local, crossed, contended>>

\* mutant: with no chunk of the run left in Neo4j its vectors are not looked for
DeleteRunReadChunksOnly ==
  /\ reset.step = "ids" /\ UNCHANGED resets
  /\ reset' = IF Owned(reset.run) = {} THEN [reset EXCEPT !.step = "postgres"]
              ELSE [reset EXCEPT !.step = "relations", !.ids = Owned(reset.run)]
  /\ UNCHANGED <<neo4j, vector, postgres, files, lease, pc, local, history>>

\* Neo4jStore.delete_run: the chunks the run owns; with none it returns at once.
DeleteRunReadChunks ==
  /\ reset.step = "ids" /\ UNCHANGED resets
  /\ reset' = IF Owned(reset.run) = {} THEN [reset EXCEPT !.step = "chroma"]
              ELSE [reset EXCEPT !.step = "relations", !.ids = Owned(reset.run)]
  /\ UNCHANGED <<neo4j, vector, postgres, files, lease, pc, local, history>>

\* mutant: the edges are left to the deletion of the chunks
DeleteRunRelationsNone ==
  /\ reset.step = "relations" /\ ResetGoto("chunks")
  /\ UNCHANGED <<neo4j, vector, postgres, files, lease, pc, local, history>>

DeleteRunRelations ==
  /\ reset.step = "relations" /\ ResetGoto("chunks")
  /\ relation' = {e \in relation : e[1] \notin reset.ids}
  /\ UNCHANGED <<chunk, mention, entity, vector, postgres, files, lease, pc, local, history>>

\* DETACH DELETE takes the mentions of the chunks along.
DeleteRunChunks ==
  /\ reset.step = "chunks" /\ reset.run # Nobody /\ ResetGoto("orphans")
  /\ chunk' = [c \in Chunks |-> IF chunk[c] = reset.run THEN Nobody ELSE chunk[c]]
  /\ mention' = {e \in mention : chunk[e[1]] # reset.run}
  /\ UNCHANGED <<relation, entity, vector, postgres, files, lease, pc, local, history>>

DeleteRunOrphans ==
  /\ reset.step = "orphans" /\ ResetGoto("chroma")
  /\ entity' = {f \in entity : \E e \in mention \cup relation : e[2] = f}
  /\ UNCHANGED <<chunk, mention, relation, vector, postgres, files, lease, pc, local, history>>

DeleteProjectNeo4j ==
  /\ reset.step = "chunks" /\ reset.run = Nobody /\ ResetGoto("chroma")
  /\ chunk' = [c \in Chunks |-> Nobody]
  /\ mention' = {} /\ relation' = {} /\ entity' = {}
  /\ UNCHANGED <<vector, postgres, files, lease, pc, local, history>>

ResetChroma ==
  /\ reset.step = "chroma" /\ ResetGoto("postgres")
  /\ vector' = DeleteVectors(reset.run)
  /\ UNCHANGED <<neo4j, postgres, files, lease, pc, local, history>>

InScope == IF reset.run = Nobody THEN Runs ELSE {reset.run}

\* delete_stage_run and delete_project: one transaction.
ResetPostgres ==
  /\ reset.step = "postgres" /\ ResetGoto("files")
  /\ published' = published \ InScope
  /\ master' = [o \in Runs |-> IF o \in InScope THEN {} ELSE master[o]]
  /\ row' = {x \in row : x[2] \notin InScope}
  /\ readiness' = IF readiness # None /\ readiness[2] \in InScope THEN None ELSE readiness
  /\ UNCHANGED <<neo4j, vector, files, lease, pc, local, history>>

ResetFiles ==
  /\ reset.step = "files" /\ reset' = NoReset /\ resets' = resets + 1
  /\ manifest' = manifest \ InScope /\ artifact' = artifact \ InScope
  /\ UNCHANGED <<neo4j, vector, postgres, lease, pc, local, history>>

ResetInterrupted ==
  /\ ResetRunning /\ reset' = NoReset
  /\ UNCHANGED <<neo4j, vector, postgres, files, lease, pc, local, resets, history>>
-----------------------------------------------------------------------------
IngestStep(r) ==
  \/ Ingest(r) \/ IngestRefused(r) \/ PersistChunkNeo4j(r)
  \/ ReadBackMissing(r) \/ PersistChunkChroma(r) \/ ValidateChunk(r) \/ PublishManifest(r)
DiscoverStep(r) ==
  \/ SetBuilding(r) \/ TakeLease(r) \/ Answer(r) \/ Prune(r) \/ UpsertEntities(r)
  \/ UpsertEdges(r) \/ RecordChunkResult(r) \/ LoadProjectRequirements(r)
  \/ PersistRequirements(r) \/ WriteRequirements(r) \/ ExitGate(r) \/ DiscoveryFails(r)
ResetStep ==
  \/ DeleteRunReadChunks \/ DeleteRunRelations \/ DeleteRunChunks \/ DeleteRunOrphans
  \/ DeleteProjectNeo4j \/ ResetChroma \/ ResetPostgres \/ ResetFiles

Next ==
  \/ \E r \in Runs : IngestStep(r) \/ DiscoverStep(r) \/ Crash(r)
  \/ \E r \in Targets : BeginReset(r)
  \/ ResetStep \/ ResetInterrupted

Spec == Init /\ [][Next]_vars
-----------------------------------------------------------------------------
\* Properties.  What holds only of commands that do not overlap says so with
\* the history variables: crossed (two Stage 1.1 at once), contended (two
\* Stage 1.2 at once), intruded (a reset and an ingest at once) and wiped (a
\* reset was begun).

\* One requirement of the project has one permanent ID: no two artifacts that
\* are stored name a fact differently, whatever runs and resets interleave,
\* because the identities are read and written under one discovery lease.
RequirementIdsStable ==
  \A o \in published, p \in published :
    \A i \in master[o], j \in master[p] : i[1] = j[1] => i = j

\* The vectors of a project come from one embedding model, unless two Stage 1.1
\* crossed: the contract is compared before the first vector is written.
OneEmbeddingModel == ~crossed => \A c, d \in Stored : vector[c][2] = vector[d][2]

\* No semantic edge is left on a chunk that is gone, where no reset overlapped
\* an ingest: a later reset finds the edges through the chunks.
SemanticsHaveChunks == ~intruded => \A e \in mention \cup relation : chunk[e[1]] # Nobody

\* Readiness "ready" of a run means the graph still is what the run's artifact
\* was built from, where discoveries do not overlap and nothing was reset.
ReadyIsProjected ==
  ~wiped /\ ~contended => \A r \in Runs :
    readiness = <<"ready", r>> =>
      /\ r \in published /\ r \in artifact
      /\ \A i \in master[r] : \E k \in DOMAIN Document[r] :
           <<Document[r][k], i[1]>> \in mention \cap relation

\* What a reset that ran to its end has cleared, where no ingest ran at the same time:
\* everything that names its run, in any of the four stores, also when an earlier reset
\* of the run was interrupted anywhere.  Entities name no run: those without an edge are
\* gone when the reset still found chunks of the run.  When it found none, because an
\* earlier reset was interrupted between the chunks and the orphans or because other runs
\* have taken the chunks over, such entities stay.  Of the project nothing is left.
Edges == mention \cup relation
Unlinked == {f \in entity : \A e \in Edges : e[2] # f}
ResetClears ==
  [][ResetFiles /\ ~intruded =>
       /\ \A r \in InScope :
            /\ \A c \in Chunks : chunk'[c] # r /\ (vector'[c] = None \/ vector'[c][1] # r)
            /\ r \notin published' \cup manifest' \cup artifact'
            /\ \A x \in row' : x[2] # r
       /\ reset.ids # {} => Unlinked' = {}
       /\ reset.run = Nobody => entity' = {} /\ Edges' = {}]_vars

\* The lease is held by exactly the run that changes the graph, and by no run
\* that is over: the next discovery of the project never waits for a dead one.
LeaseIsHeld == \A r \in Runs : lease = r <=> pc[r] \in Leased

\* A reset of a run takes no chunk out of another run's published manifest
\* (workflow.md: the command does not delete other runs).
OtherRunsKept ==
  [][ResetStep /\ reset.run # Nobody =>
       \A o \in manifest \ {reset.run} : \A i \in DOMAIN Document[o] :
         chunk[Document[o][i]] # Nobody => chunk'[Document[o][i]] # Nobody]_vars
=============================================================================
