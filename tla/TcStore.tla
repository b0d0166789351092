------------------------------ MODULE TcStore ------------------------------
(***************************************************************************)
(* The PostgreSQL tables that Stage-4 invocations of one project share     *)
(* (db/codegen_postgres.py) and the order in which an invocation uses them *)
(* (workflows/codegen_run_graph.py and codegen_apply_graph.py).  Nothing   *)
(* keeps two invocations apart, of two runs or of one.  An action is one   *)
(* transaction or one read of its own connection; an exception ends the    *)
(* invocation, as does a crash at any moment.                              *)
(***************************************************************************)
EXTENDS Naturals, Sequences

CONSTANTS
  Procs, Runs,  \* invocations that may be active at once, and run ids
  Order,        \* the frozen scenarios as logical keys, in order
  Inputs,       \* fingerprints of what a run is given
  Outputs,      \* what may be generated for a case
  MinId, MaxId, \* TC_ID_MIN and TC_ID_MAX
  Unset,        \* the run and the inputs of an inactive process
  MaxStarts, MaxResets  \* bounds

Keys == {Order[i] : i \in DOMAIN Order}
Ids == MinId .. MaxId
NoId == 0

ASSUME ConstantsAssumption ==
  /\ Order \in Seq(Keys)
  /\ MinId \in Nat \ {0} /\ MaxId \in Nat /\ MinId <= MaxId
  /\ Unset \notin Runs \cup Inputs
  /\ MaxStarts \in Nat /\ MaxResets \in Nat

None == [status |-> "NONE"]
Reserved(i) == [status |-> "RESERVED", input |-> i]
Blocked(i) == [status |-> "BLOCKED", input |-> i]
Accepted(i, o) == [status |-> "ACCEPTED", input |-> i, output |-> o]
AcceptedRecords == {Accepted(i, o) : i \in Inputs, o \in Outputs}
Records == {None} \cup {Reserved(i) : i \in Inputs} \cup {Blocked(i) : i \in Inputs} \cup AcceptedRecords

\* A frozen manifest: its inputs, and who froze it (frozen_at).
Manifests == [input : Inputs, at : Procs]
NoManifest == [at |-> "never"]
\* test_cases.json: the cases and the blocked keys it lists.
Artifacts == [cases : SUBSET Ids, blocked : SUBSET Keys]
NoArtifact == [cases |-> {}]

Allocating == {"allocate", "nextval", "insert"}
Holding == {"get", "reuse", "reserve", "work", "revise", "blocked", "unreserve"}
Pcs == {"down", "freeze", "save", "collect", "collected", "publish"} \cup Allocating \cup Holding

VARIABLES
  seq,       \* the next value of stage4_tc_id_seq
  rows,      \* stage4_tc_reservations: [id, key]
  cases,     \* stage4_test_cases
  assoc,     \* stage4_run_test_cases
  frozen,    \* stage4_frozen_run_manifests
  blockers,  \* codegen_blockers: <<run, key>>
  listed,    \* test_cases.json of each run
  pc, run, input, manifest, cur, id, seen, view,  \* the processes
  resetting, overlapped,  \* between the two halves of a reset; one met an active invocation
  starts, resets          \* counters of the bounds

identity == <<seq, rows>>
scoped == <<assoc, frozen, blockers>>
proc == <<run, input, manifest, cur, id, seen, view>>
maintenance == <<resetting, overlapped, starts, resets>>
vars == <<identity, cases, scoped, listed, pc, proc, maintenance>>

Init ==
  /\ seq = MinId /\ rows = {} /\ cases = [i \in Ids |-> None]
  /\ assoc = {} /\ frozen = [r \in Runs |-> NoManifest] /\ blockers = {}
  /\ listed = [r \in Runs |-> NoArtifact]
  /\ pc = [p \in Procs |-> "down"] /\ run = [p \in Procs |-> Unset]
  /\ input = [p \in Procs |-> Unset] /\ manifest = [p \in Procs |-> NoManifest]
  /\ cur = [p \in Procs |-> 1] /\ id = [p \in Procs |-> NoId]
  /\ seen = [p \in Procs |-> None] /\ view = [p \in Procs |-> NoArtifact]
  /\ resetting = FALSE /\ overlapped = FALSE /\ starts = 0 /\ resets = 0
-----------------------------------------------------------------------------
Goto(p, next) == pc' = [pc EXCEPT ![p] = next]
Hold(p, i) == id' = [id EXCEPT ![p] = i]
Keep == UNCHANGED <<run, input, manifest, cur, id, seen, view>>
key(p) == Order[cur[p]]

\* The process is gone, and what it had in memory.
Stop(p) ==
  /\ Goto(p, "down")
  /\ run' = [run EXCEPT ![p] = Unset] /\ input' = [input EXCEPT ![p] = Unset]
  /\ manifest' = [manifest EXCEPT ![p] = NoManifest]
  /\ cur' = [cur EXCEPT ![p] = 1] /\ id' = [id EXCEPT ![p] = NoId]
  /\ seen' = [seen EXCEPT ![p] = None] /\ view' = [view EXCEPT ![p] = NoArtifact]

\* The serial loop goes on to its next scenario, or leaves.
Advance(p) ==
  /\ cur' = [cur EXCEPT ![p] = cur[p] + 1]
  /\ id' = [id EXCEPT ![p] = NoId] /\ seen' = [seen EXCEPT ![p] = None]
  /\ Goto(p, IF cur[p] < Len(Order) THEN "allocate" ELSE "collect")
  /\ UNCHANGED <<run, input, manifest, view>>
-----------------------------------------------------------------------------
\* The frozen inputs of the run.

Start(p) ==
  /\ pc[p] = "down" /\ Goto(p, "freeze")
  /\ starts < MaxStarts /\ starts' = starts + 1
  /\ \E r \in Runs, i \in Inputs : run' = [run EXCEPT ![p] = r] /\ input' = [input EXCEPT ![p] = i]
  /\ UNCHANGED <<identity, cases, scoped, listed, manifest, cur, id, seen, view, resetting, overlapped, resets>>

\* A manifest read before keeps its frozen_at in the one built now.
BuildManifest(p) ==
  /\ pc[p] = "freeze" /\ Goto(p, "save")
  /\ LET found == frozen[run[p]]
     IN manifest' = [manifest EXCEPT ![p] =
                       [input |-> input[p], at |-> IF found = NoManifest THEN p ELSE found.at]]
  /\ UNCHANGED <<identity, cases, scoped, listed, run, input, cur, id, seen, view, maintenance>>

\* Mutant: ON CONFLICT DO UPDATE.
SaveManifestOver(p) ==
  /\ pc[p] = "save"
  /\ frozen' = [frozen EXCEPT ![run[p]] = manifest[p]]
  /\ Goto(p, IF Order = <<>> THEN "collect" ELSE "allocate") /\ Keep
  /\ UNCHANGED <<identity, cases, assoc, blockers, listed, maintenance>>

\* INSERT ... ON CONFLICT DO NOTHING, and the winner must be the same manifest.
SaveManifest(p) ==
  /\ pc[p] = "save" /\ frozen[run[p]] \in {NoManifest, manifest[p]}
  /\ frozen' = [frozen EXCEPT ![run[p]] = manifest[p]]
  /\ Goto(p, IF Order = <<>> THEN "collect" ELSE "allocate") /\ Keep
  /\ UNCHANGED <<identity, cases, assoc, blockers, listed, maintenance>>

ManifestChanged(p) ==
  /\ pc[p] = "save" /\ frozen[run[p]] \notin {NoManifest, manifest[p]} /\ Stop(p)
  /\ UNCHANGED <<identity, cases, scoped, listed, maintenance>>
-----------------------------------------------------------------------------
\* allocate_or_get_tc_id.

AllocateFound(p) ==
  /\ pc[p] = "allocate" /\ Goto(p, "get")
  /\ \E row \in rows : row.key = key(p) /\ Hold(p, row.id)
  /\ UNCHANGED <<identity, cases, scoped, listed, run, input, manifest, cur, seen, view, maintenance>>

AllocateMissing(p) ==
  /\ pc[p] = "allocate" /\ \A row \in rows : row.key # key(p)
  /\ Goto(p, "nextval") /\ Keep
  /\ UNCHANGED <<identity, cases, scoped, listed, maintenance>>

\* Mutant: the capacity is not checked.
NextValUnbounded(p) ==
  /\ pc[p] = "nextval" /\ Goto(p, "insert")
  /\ seq' = seq + 1 /\ Hold(p, seq)
  /\ UNCHANGED <<rows, cases, scoped, listed, run, input, manifest, cur, seen, view, maintenance>>

\* Mutant: SELECT max(tc_id) + 1.
NextValFromRows(p) ==
  /\ pc[p] = "nextval" /\ Goto(p, "insert")
  /\ \E n \in Ids : /\ \A row \in rows : row.id < n
                    /\ \A m \in MinId .. n - 1 : \E row \in rows : row.id >= m
                    /\ Hold(p, n)
  /\ UNCHANGED <<seq, rows, cases, scoped, listed, run, input, manifest, cur, seen, view, maintenance>>

\* nextval is not undone when the transaction is.
NextVal(p) ==
  /\ pc[p] = "nextval" /\ Goto(p, "insert")
  /\ seq <= MaxId /\ seq' = seq + 1 /\ Hold(p, seq)
  /\ UNCHANGED <<rows, cases, scoped, listed, run, input, manifest, cur, seen, view, maintenance>>

\* TcIdCapacityExhausted.
Exhausted(p) ==
  /\ pc[p] = "nextval" /\ seq > MaxId /\ Stop(p)
  /\ UNCHANGED <<identity, cases, scoped, listed, maintenance>>

\* The row is inserted and committed: tc_id is the primary key, the key is unique.
Insert(p) ==
  /\ pc[p] = "insert" /\ Goto(p, "get") /\ Keep
  /\ \A row \in rows : row.key # key(p) /\ row.id # id[p]
  /\ rows' = rows \cup {[id |-> id[p], key |-> key(p)]}
  /\ UNCHANGED <<seq, cases, scoped, listed, maintenance>>

\* A uniqueness race: the winner's number, and this one stays a gap.
InsertLost(p) ==
  /\ pc[p] = "insert" /\ Goto(p, "get")
  /\ \E row \in rows : row.key = key(p) /\ Hold(p, row.id)
  /\ UNCHANGED <<identity, cases, scoped, listed, run, input, manifest, cur, seen, view, maintenance>>

\* NumbersAreFresh: an insert has no other way to fail.
-----------------------------------------------------------------------------
\* Mutant: another accepted record may replace an accepted one.
LegalWhenAccepted(old, new) == old.status = "ACCEPTED" => new.status = "ACCEPTED"

\* The case's row.  An accepted record may only be saved as it is.
Legal(old, new) == old.status = "ACCEPTED" => old = new
Save(p, new) == Legal(cases[id[p]], new) /\ cases' = [cases EXCEPT ![id[p]] = new]

Associate(p) ==
  assoc' = {a \in assoc : <<a.run, a.id>> # <<run[p], id[p]>>}
             \cup {[run |-> run[p], id |-> id[p], input |-> cases'[id[p]].input]}

\* Mutant: an accepted case is reused whatever its inputs were.
GetAnyInput(p) ==
  /\ pc[p] = "get"
  /\ LET found == cases[id[p]] IN
     /\ seen' = [seen EXCEPT ![p] = found]
     /\ \/ found.status # "ACCEPTED" /\ Goto(p, "reserve")
        \/ found.status = "ACCEPTED" /\ Goto(p, "reuse")
        \/ found.status = "ACCEPTED" /\ Goto(p, "revise")
  /\ UNCHANGED <<identity, cases, scoped, listed, run, input, manifest, cur, id, view, maintenance>>

\* get_stage4_test_case; files that no longer match are seen as a revision too.
Get(p) ==
  /\ pc[p] = "get"
  /\ LET found == cases[id[p]] IN
     /\ seen' = [seen EXCEPT ![p] = found]
     /\ \/ found.status # "ACCEPTED" /\ Goto(p, "reserve")
        \/ found.status = "ACCEPTED" /\ found.input = input[p] /\ Goto(p, "reuse")
        \/ found.status = "ACCEPTED" /\ Goto(p, "revise")
  /\ UNCHANGED <<identity, cases, scoped, listed, run, input, manifest, cur, id, view, maintenance>>

Reuse(p) ==
  /\ pc[p] = "reuse" /\ Save(p, seen[p]) /\ Associate(p) /\ Advance(p)
  /\ UNCHANGED <<identity, frozen, blockers, listed, maintenance>>

Reserve(p) ==
  /\ pc[p] = "reserve" /\ Save(p, Reserved(input[p])) /\ Goto(p, "work") /\ Keep
  /\ UNCHANGED <<identity, scoped, listed, maintenance>>

Accept(p) ==
  /\ pc[p] = "work" /\ \E o \in Outputs : Save(p, Accepted(input[p], o))
  /\ Associate(p) /\ Advance(p)
  /\ UNCHANGED <<identity, frozen, blockers, listed, maintenance>>

\* RevisionRequired: another invocation accepted the case in between (what is
\* reused was accepted already, and Registry shows that it stays as it is).
Overtaken(p) ==
  /\ \/ pc[p] = "reserve" /\ ~Legal(cases[id[p]], Reserved(input[p]))
     \/ pc[p] = "work" /\ \E o \in Outputs : ~Legal(cases[id[p]], Accepted(input[p], o))
     \/ pc[p] = "unreserve" /\ ~Legal(cases[id[p]], Blocked(seen[p].input))
  /\ Stop(p)
  /\ UNCHANGED <<identity, cases, scoped, listed, maintenance>>

\* record_blocker: the blocker first, then the case, unless a revision is required.
SaveBlocker(p) == blockers' = blockers \cup {<<run[p], key(p)>>}

\* Mutant: a revision is not recorded as a blocker.
ReviseSilently(p) ==
  /\ pc[p] = "revise" /\ Advance(p)
  /\ UNCHANGED <<identity, cases, scoped, listed, maintenance>>

Revise(p) ==
  /\ pc[p] = "revise" /\ SaveBlocker(p) /\ Advance(p)
  /\ UNCHANGED <<identity, cases, assoc, frozen, listed, maintenance>>

Block(p) ==
  /\ pc[p] = "work" /\ SaveBlocker(p) /\ Goto(p, "blocked") /\ Keep
  /\ UNCHANGED <<identity, cases, assoc, frozen, listed, maintenance>>

ReadBlocked(p) ==
  /\ pc[p] = "blocked" /\ cases[id[p]].status # "ACCEPTED"
  /\ seen' = [seen EXCEPT ![p] = cases[id[p]]] /\ Goto(p, "unreserve")
  /\ UNCHANGED <<identity, cases, scoped, listed, run, input, manifest, cur, id, view, maintenance>>

LeaveBlocked(p) ==
  /\ pc[p] = "blocked" /\ cases[id[p]].status = "ACCEPTED" /\ Advance(p)
  /\ UNCHANGED <<identity, cases, scoped, listed, maintenance>>

Unreserve(p) ==
  /\ pc[p] = "unreserve" /\ Save(p, Blocked(seen[p].input)) /\ Advance(p)
  /\ UNCHANGED <<identity, scoped, listed, maintenance>>
-----------------------------------------------------------------------------
\* write_test_cases_artifact: two reads, then the file is replaced.

CollectCases(p) ==
  /\ pc[p] = "collect" /\ Goto(p, "collected")
  /\ view' = [view EXCEPT ![p] =
       [cases |-> {a.id : a \in {b \in assoc : b.run = run[p] /\ cases[b.id].status = "ACCEPTED"}},
        blocked |-> {}]]
  /\ UNCHANGED <<identity, cases, scoped, listed, run, input, manifest, cur, id, seen, maintenance>>

CollectBlockers(p) ==
  /\ pc[p] = "collected" /\ Goto(p, "publish")
  /\ view' = [view EXCEPT ![p].blocked = {k \in Keys : <<run[p], k>> \in blockers}]
  /\ UNCHANGED <<identity, cases, scoped, listed, run, input, manifest, cur, id, seen, maintenance>>

Publish(p) ==
  /\ pc[p] = "publish" /\ listed' = [listed EXCEPT ![run[p]] = view[p]] /\ Stop(p)
  /\ UNCHANGED <<identity, cases, scoped, maintenance>>
-----------------------------------------------------------------------------
\* reset_stage4_project: one transaction, then the directories.  Permanent rows stay.

ResetRows ==
  /\ ~resetting /\ resets < MaxResets
  /\ resetting' = TRUE /\ resets' = resets + 1
  /\ overlapped' = (overlapped \/ \E p \in Procs : pc[p] # "down")
  /\ assoc' = {} /\ frozen' = [r \in Runs |-> NoManifest] /\ blockers' = {}
  /\ UNCHANGED <<identity, cases, listed, pc, proc, starts>>

ResetFiles ==
  /\ resetting /\ resetting' = FALSE
  /\ listed' = [r \in Runs |-> NoArtifact]
  /\ UNCHANGED <<identity, cases, scoped, pc, proc, overlapped, starts, resets>>

Crash(p) ==
  /\ pc[p] # "down" /\ Stop(p)
  /\ UNCHANGED <<identity, cases, scoped, listed, maintenance>>

Step(p) ==
  \/ Start(p) \/ BuildManifest(p) \/ SaveManifest(p) \/ ManifestChanged(p)
  \/ AllocateFound(p) \/ AllocateMissing(p) \/ NextVal(p) \/ Exhausted(p)
  \/ Insert(p) \/ InsertLost(p)
  \/ Get(p) \/ Reuse(p) \/ Reserve(p) \/ Accept(p) \/ Overtaken(p)
  \/ Revise(p) \/ Block(p) \/ ReadBlocked(p) \/ LeaveBlocked(p) \/ Unreserve(p)
  \/ CollectCases(p) \/ CollectBlockers(p) \/ Publish(p) \/ Crash(p)

Next == (\E p \in Procs : Step(p)) \/ ResetRows \/ ResetFiles

Spec == Init /\ [][Next]_vars
-----------------------------------------------------------------------------
\* Types; a number is never beyond the capacity of the sequence.
TypeOK ==
  /\ seq \in MinId .. MaxId + 1
  /\ rows \subseteq [id : Ids, key : Keys]
  /\ cases \in [Ids -> Records]
  /\ assoc \subseteq [run : Runs, id : Ids, input : Inputs]
  /\ frozen \in [Runs -> Manifests \cup {NoManifest}]
  /\ blockers \subseteq Runs \X Keys
  /\ listed \in [Runs -> Artifacts \cup {NoArtifact}]
  /\ pc \in [Procs -> Pcs]
  /\ run \in [Procs -> Runs \cup {Unset}]
  /\ input \in [Procs -> Inputs \cup {Unset}]
  /\ manifest \in [Procs -> Manifests \cup {NoManifest}]
  /\ cur \in [Procs -> 1 .. Len(Order) + 1]
  /\ id \in [Procs -> Ids \cup {NoId}]
  /\ seen \in [Procs -> Records]
  /\ view \in [Procs -> Artifacts \cup {NoArtifact}]
  /\ resetting \in BOOLEAN /\ overlapped \in BOOLEAN
  /\ starts \in 0 .. MaxStarts /\ resets \in 0 .. MaxResets

\* Whichever way an invocation got its number (found, allocated, or lost the
\* race), it is the one the reservation of its key holds (:348-385).
AnswersAgree == \A p \in Procs :
  pc[p] \in Holding => [id |-> id[p], key |-> key(p)] \in rows

\* A number about to be inserted belongs to no row, whoever drew one before and
\* whichever transactions died: the only failure of the insert is a lost race.
NumbersAreFresh == \A p \in Procs :
  pc[p] = "insert" => \A row \in rows : row.id # id[p]

\* Two invocations of one run that are past the freeze work on the same inputs,
\* those that are stored (save_frozen_manifest), if no reset came between.
RunsAgreeOnInputs == ~overlapped => \A p \in Procs :
  pc[p] \notin {"down", "freeze", "save"} => frozen[run[p]] = manifest[p]

\* What a run is associated with is accepted, under the inputs that the record
\* has and the run froze, also when another run accepted it (stage4_run_test_cases).
AssociatedAsFrozen == \A a \in assoc :
  /\ cases[a.id].status = "ACCEPTED" /\ cases[a.id].input = a.input
  /\ ~overlapped => frozen[a.run].input = a.input

\* test_cases.json lists accepted cases, and every scenario of the run is there as
\* a case or a blocker, also when two invocations replace the file in turn:
\* save_blocker says a blocker is "never silently dropped".
ArtifactCoversRun == ~overlapped => \A r \in Runs : listed[r] # NoArtifact =>
  /\ \A i \in listed[r].cases : cases[i].status = "ACCEPTED"
  /\ \A k \in Keys : \/ k \in listed[r].blocked
                     \/ \E row \in rows : row.key = k /\ row.id \in listed[r].cases

\* Identities and accepted records are permanent: through races, crashes and
\* resets the tables do only what the registry allows.
accepted == {[id |-> i, record |-> cases[i]] : i \in {j \in Ids : cases[j].status = "ACCEPTED"}}
Registry == INSTANCE TcRegistry WITH Records <- AcceptedRecords, owners <- rows, accepted <- accepted
RegistrySpec == Registry!Spec
=============================================================================
