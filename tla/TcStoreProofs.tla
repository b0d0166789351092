--------------------------- MODULE TcStoreProofs ---------------------------
(***************************************************************************)
(* Proofs, for any number of invocations, runs and scenarios, any capacity *)
(* of the sequence and any bound: numbers and accepted records are         *)
(* permanent (the tables implement TcRegistry), the answers of a race      *)
(* agree, runs keep the inputs they froze, and the artifact of a run       *)
(* covers its scenarios.                                                   *)
(***************************************************************************)
EXTENDS TcStore, TLAPS

Frozen == {"down", "freeze", "save"}  \* where the inputs are not frozen yet
Leaving == {"collect", "collected", "publish"}

\* Where a process is in the scenarios of its run.
Seated == \A p \in Procs :
  /\ pc[p] \in Allocating \cup Holding => cur[p] \in DOMAIN Order
  /\ pc[p] \in Leaving => cur[p] = Len(Order) + 1
  /\ pc[p] \in Frozen => cur[p] = 1

\* What a process holds at each of its steps.
Memory == \A p \in Procs :
  /\ pc[p] # "down" => run[p] \in Runs /\ input[p] \in Inputs
  /\ pc[p] \notin {"down", "freeze"} => manifest[p] \in Manifests /\ manifest[p].input = input[p]
  /\ pc[p] \in {"insert"} \cup Holding => id[p] \in Ids
  /\ pc[p] = "reuse" => seen[p] \in AcceptedRecords /\ seen[p].input = input[p]
  /\ pc[p] \in {"work", "blocked"} => cases[id[p]] # None
  /\ pc[p] = "unreserve" => seen[p] \in Records \ {None}
  /\ pc[p] \in {"collected", "publish"} => view[p] \in Artifacts

\* A drawn number is below the sequence, in no row, and drawn once.
Numbers ==
  /\ \A row \in rows : row.id < seq
  /\ \A p \in Procs : pc[p] = "insert" => id[p] < seq
  /\ \A p, q \in Procs : (p # q /\ pc[p] = "insert" /\ pc[q] = "insert") => id[p] # id[q]
  /\ NumbersAreFresh

\* The run of an association has frozen its inputs.
Backed == ~overlapped => \A a \in assoc : frozen[a.run] \in Manifests

OneToOne == \A a, b \in rows : (a.id = b.id \/ a.key = b.key) => a = b

Has(i, k) == \E row \in rows : row.key = k /\ row.id = i
Settled(r, k) ==
  \/ <<r, k>> \in blockers
  \/ \E a \in assoc : a.run = r /\ Has(a.id, k)
Covers(artifact, k) == k \in artifact.blocked \/ \E i \in artifact.cases : Has(i, k)

\* What a process has left behind: the scenarios before the current one are
\* settled, and so is what it has read for the artifact.
Progress == ~overlapped => \A p \in Procs :
  /\ pc[p] \notin Frozen => \A j \in 1 .. cur[p] - 1 : Settled(run[p], Order[j])
  /\ pc[p] \in {"blocked", "unreserve"} => <<run[p], key(p)>> \in blockers
  /\ pc[p] = "collected" => \A k \in Keys :
       <<run[p], k>> \in blockers \/ \E i \in view[p].cases : Has(i, k)
  /\ pc[p] = "publish" => \A k \in Keys : Covers(view[p], k)

\* Only accepted cases are listed, read or written.
Listed ==
  /\ \A p \in Procs : pc[p] \in {"collected", "publish"} =>
       \A i \in view[p].cases : cases[i].status = "ACCEPTED"
  /\ \A r \in Runs : \A i \in listed[r].cases : cases[i].status = "ACCEPTED"

Covered == ~overlapped => \A r \in Runs : listed[r] # NoArtifact =>
  \A k \in Keys : Covers(listed[r], k)

IInv ==
  /\ TypeOK /\ Seated /\ Memory /\ Numbers /\ OneToOne /\ AnswersAgree
  /\ RunsAgreeOnInputs /\ AssociatedAsFrozen /\ Backed /\ Progress /\ Listed /\ Covered
-----------------------------------------------------------------------------
\* The records of a case, told apart by their status.
LEMMA RecordFacts ==
  /\ None \in Records /\ None.status = "NONE"
  /\ \A i \in Inputs : /\ Reserved(i) \in Records \ {None} /\ Reserved(i).status = "RESERVED"
                       /\ Blocked(i) \in Records \ {None} /\ Blocked(i).status = "BLOCKED"
  /\ AcceptedRecords \subseteq Records \ {None}
  /\ \A r \in Records : r.status = "ACCEPTED" <=> r \in AcceptedRecords
  /\ \A r \in Records \ {None} : r.input \in Inputs
  /\ \A i \in Inputs, o \in Outputs :
       Accepted(i, o) \in AcceptedRecords /\ Accepted(i, o).input = i
<1>1. None \in Records /\ None.status = "NONE"
  BY DEF Records, None
<1>2. \A i \in Inputs : /\ Reserved(i) \in Records /\ Reserved(i).status = "RESERVED" /\ Reserved(i).input = i
                       /\ Blocked(i) \in Records /\ Blocked(i).status = "BLOCKED" /\ Blocked(i).input = i
  BY DEF Records, Reserved, Blocked
<1>3. \A i \in Inputs, o \in Outputs : Accepted(i, o).input = i /\ Accepted(i, o).status = "ACCEPTED"
  BY DEF Accepted
<1>4. ASSUME NEW r \in AcceptedRecords
      PROVE  r \in Records /\ r.status = "ACCEPTED" /\ r.input \in Inputs
  <2>1. PICK i \in Inputs : \E o \in Outputs : r = Accepted(i, o)
    BY DEF AcceptedRecords
  <2>2. PICK o \in Outputs : r = Accepted(i, o)
    BY <2>1
  <2> QED
    BY <1>3, <2>2 DEF Records
<1>5. \A i \in Inputs, o \in Outputs : Accepted(i, o) \in AcceptedRecords
  BY DEF AcceptedRecords
<1>6. \A r \in Records : \/ r = None \/ r \in AcceptedRecords
                         \/ \E i \in Inputs : r = Reserved(i) \/ r = Blocked(i)
  BY DEF Records
<1> QED
  BY <1>1, <1>2, <1>3, <1>4, <1>5, <1>6

LEMMA OrderFacts ==
  /\ Len(Order) \in Nat /\ DOMAIN Order = 1 .. Len(Order)
  /\ \A j \in DOMAIN Order : Order[j] \in Keys
  /\ \A k \in Keys : \E j \in DOMAIN Order : Order[j] = k
BY ConstantsAssumption DEF Keys

LEMMA IdFacts == Ids \subseteq Nat /\ NoId \notin Ids /\ MinId \in Ids
BY ConstantsAssumption DEF Ids, NoId

LEMMA ManifestFacts ==
  ASSUME NEW i \in Inputs, NEW p \in Procs
  PROVE  [input |-> i, at |-> p] \in Manifests /\ [input |-> i, at |-> p].input = i
BY DEF Manifests

LEMMA InitInv == Init => IInv
<1> SUFFICES ASSUME Init PROVE IInv
  OBVIOUS
<1>1. TypeOK
  <2>1. seq \in MinId .. MaxId + 1 /\ starts \in 0 .. MaxStarts /\ resets \in 0 .. MaxResets
    BY ConstantsAssumption DEF Init
  <2>2. cases \in [Ids -> Records] /\ seen \in [Procs -> Records]
    BY RecordFacts DEF Init
  <2>3. cur \in [Procs -> 1 .. Len(Order) + 1]
    BY OrderFacts DEF Init
  <2> QED
    BY <2>1, <2>2, <2>3 DEF Init, TypeOK, Pcs
<1>2. Seated /\ Memory
  BY OrderFacts DEF Init, Seated, Memory, Frozen, Allocating, Holding, Leaving
<1>3. Numbers /\ OneToOne /\ AnswersAgree
  BY DEF Init, Numbers, OneToOne, AnswersAgree, NumbersAreFresh, Holding
<1>4. RunsAgreeOnInputs /\ AssociatedAsFrozen /\ Backed /\ Progress
  BY DEF Init, RunsAgreeOnInputs, AssociatedAsFrozen, Backed, Progress, Frozen
<1>5. Listed /\ Covered
  BY DEF Init, Listed, Covered, NoArtifact
<1> QED
  BY <1>1, <1>2, <1>3, <1>4, <1>5 DEF IInv
-----------------------------------------------------------------------------
\* A step of one process leaves the memory of the others alone.
LEMMA Frame ==
  ASSUME TypeOK, NEW p \in Procs, Step(p), NEW q \in Procs, q # p
  PROVE  /\ pc'[q] = pc[q] /\ run'[q] = run[q] /\ input'[q] = input[q]
         /\ manifest'[q] = manifest[q] /\ cur'[q] = cur[q] /\ id'[q] = id[q]
         /\ seen'[q] = seen[q] /\ view'[q] = view[q]
<1>1. CASE Start(p) \/ BuildManifest(p) \/ SaveManifest(p) \/ ManifestChanged(p)
  BY <1>1 DEF TypeOK, Start, BuildManifest, SaveManifest, ManifestChanged, Goto, Keep, Stop
<1>2. CASE AllocateFound(p) \/ AllocateMissing(p) \/ NextVal(p) \/ Exhausted(p) \/ Insert(p) \/ InsertLost(p)
  BY <1>2 DEF TypeOK, AllocateFound, AllocateMissing, NextVal, Exhausted, Insert, InsertLost,
     Goto, Keep, Hold, Stop
<1>3. CASE Get(p) \/ Reuse(p) \/ Reserve(p) \/ Accept(p) \/ Overtaken(p)
  BY <1>3 DEF TypeOK, Get, Reuse, Reserve, Accept, Overtaken, Goto, Keep, Stop, Advance
<1>4. CASE Revise(p) \/ Block(p) \/ ReadBlocked(p) \/ LeaveBlocked(p) \/ Unreserve(p)
  BY <1>4 DEF TypeOK, Revise, Block, ReadBlocked, LeaveBlocked, Unreserve, Goto, Keep, Advance
<1>5. CASE CollectCases(p) \/ CollectBlockers(p) \/ Publish(p) \/ Crash(p)
  BY <1>5 DEF TypeOK, CollectCases, CollectBlockers, Publish, Crash, Goto, Stop
<1> QED
  BY <1>1, <1>2, <1>3, <1>4, <1>5 DEF Step

\* What no step of any process takes back.
LEMMA Kept ==
  ASSUME TypeOK, Memory, NEW p \in Procs, NEW new \in Records \ {None}, id[p] \in Ids, Save(p, new)
  PROVE  /\ cases' \in [Ids -> Records] /\ cases'[id[p]] = new
         /\ \A i \in Ids : /\ cases[i].status = "ACCEPTED" => cases'[i] = cases[i]
                           /\ cases[i] # None => cases'[i] # None
BY DEF TypeOK, Save, Legal

LEMMA Monotone ==
  ASSUME TypeOK, Memory, [Next]_vars
  PROVE  /\ rows \subseteq rows' /\ seq <= seq'
         /\ \A i \in Ids : /\ cases[i].status = "ACCEPTED" => cases'[i] = cases[i]
                           /\ cases[i] # None => cases'[i] # None
         /\ (overlapped => overlapped')
<1>1. ASSUME NEW p \in Procs, Step(p) PROVE overlapped' = overlapped
  BY <1>1 DEF Step, maintenance, Start, BuildManifest, SaveManifest, ManifestChanged, AllocateFound,
     AllocateMissing, NextVal, Exhausted, Insert, InsertLost, Get, Reuse, Reserve, Accept, Overtaken,
     Revise, Block, ReadBlocked, LeaveBlocked, Unreserve, CollectCases, CollectBlockers, Publish, Crash
<1>2. ASSUME NEW p \in Procs, Step(p) PROVE rows \subseteq rows' /\ seq <= seq'
  <2>0. seq \in Nat
    BY ConstantsAssumption DEF TypeOK
  <2>1. CASE NextVal(p)
    BY <2>0, <2>1 DEF NextVal
  <2>2. CASE Insert(p)
    BY <2>0, <2>2 DEF Insert
  <2>3. CASE ~NextVal(p) /\ ~Insert(p)
    BY <1>2, <2>0, <2>3 DEF Step, identity, Start, BuildManifest, SaveManifest, ManifestChanged, AllocateFound,
       AllocateMissing, Exhausted, InsertLost, Get, Reuse, Reserve, Accept, Overtaken,
       Revise, Block, ReadBlocked, LeaveBlocked, Unreserve, CollectCases, CollectBlockers, Publish, Crash
  <2> QED
    BY <2>1, <2>2, <2>3
<1>3. ASSUME NEW p \in Procs, Step(p), NEW i \in Ids
      PROVE  /\ cases[i].status = "ACCEPTED" => cases'[i] = cases[i]
             /\ cases[i] # None => cases'[i] # None
  <2>0. pc[p] \in Holding => id[p] \in Ids
    BY DEF Memory
  <2>1. CASE Reuse(p)
    BY <2>0, <2>1, Kept, RecordFacts DEF Reuse, Memory, Holding
  <2>2. CASE Reserve(p)
    BY <2>0, <2>2, Kept, RecordFacts DEF Reserve, Memory, Holding
  <2>3. CASE Accept(p)
    BY <2>0, <2>3, Kept, RecordFacts DEF Accept, Memory, Holding
  <2>4. CASE Unreserve(p)
    BY <2>0, <2>4, Kept, RecordFacts DEF Unreserve, Memory, Holding
  <2>5. CASE ~(Reuse(p) \/ Reserve(p) \/ Accept(p) \/ Unreserve(p))
    BY <1>3, <2>5 DEF Step, Start, BuildManifest, SaveManifest, ManifestChanged, AllocateFound,
       AllocateMissing, NextVal, Exhausted, Insert, InsertLost, Get, Overtaken,
       Revise, Block, ReadBlocked, LeaveBlocked, CollectCases, CollectBlockers, Publish, Crash
  <2> QED
    BY <2>1, <2>2, <2>3, <2>4, <2>5
<1>4. CASE ResetRows \/ ResetFiles \/ UNCHANGED vars
  BY <1>4, ConstantsAssumption DEF TypeOK, ResetRows, ResetFiles, identity, maintenance, vars
<1> QED
  BY <1>1, <1>2, <1>3, <1>4 DEF Next
-----------------------------------------------------------------------------
\* Types, action by action: what an action leaves alone keeps its type.
LEMMA TypesStep ==
  ASSUME TypeOK, Seated, Memory, AnswersAgree, [Next]_vars
  PROVE  TypeOK'
<1> USE DEF TypeOK
<1>0. /\ {"down", "freeze", "save", "allocate", "nextval", "insert", "get", "reuse", "reserve", "work",
          "revise", "blocked", "unreserve", "collect", "collected", "publish"} = Pcs
      /\ seq \in Nat /\ MinId \in Nat /\ MaxId \in Nat
  BY ConstantsAssumption DEF Pcs, Allocating, Holding
<1>1. ASSUME NEW p \in Procs, Stop(p) PROVE pc' \in [Procs -> Pcs] /\ run' \in [Procs -> Runs \cup {Unset}]
        /\ input' \in [Procs -> Inputs \cup {Unset}] /\ manifest' \in [Procs -> Manifests \cup {NoManifest}]
        /\ cur' \in [Procs -> 1 .. Len(Order) + 1] /\ id' \in [Procs -> Ids \cup {NoId}]
        /\ seen' \in [Procs -> Records] /\ view' \in [Procs -> Artifacts \cup {NoArtifact}]
  BY <1>0, <1>1, OrderFacts, RecordFacts DEF Stop, Goto
<1>2. ASSUME NEW p \in Procs, Advance(p), pc[p] \in Holding
      PROVE  /\ pc' \in [Procs -> Pcs] /\ cur' \in [Procs -> 1 .. Len(Order) + 1]
             /\ id' \in [Procs -> Ids \cup {NoId}] /\ seen' \in [Procs -> Records]
  BY <1>0, <1>2, OrderFacts, RecordFacts DEF Advance, Goto, Seated
<1>3. ASSUME NEW p \in Procs, Associate(p), pc[p] \in Holding, cases'[id[p]].input \in Inputs
      PROVE  assoc' \subseteq [run : Runs, id : Ids, input : Inputs]
  BY <1>3 DEF Associate, Memory, Holding
<1>4. ASSUME NEW p \in Procs, pc[p] \in Allocating \cup Holding
      PROVE  key(p) \in Keys
  BY <1>4, OrderFacts DEF Seated, key
<1>5. ASSUME NEW p \in Procs, Start(p) \/ BuildManifest(p) \/ SaveManifest(p) \/ ManifestChanged(p) PROVE TypeOK'
  <2>1. CASE Start(p)
    BY <1>0, <2>1, ConstantsAssumption DEF Start, Goto, identity, scoped
  <2>2. CASE BuildManifest(p)
    BY <1>0, <2>2 DEF BuildManifest, Goto, identity, scoped, maintenance, Memory, Manifests, NoManifest
  <2>3. CASE SaveManifest(p)
    BY <1>0, <2>3 DEF SaveManifest, Goto, Keep, identity, maintenance, Memory
  <2>4. CASE ManifestChanged(p)
    BY <1>1, <2>4 DEF ManifestChanged, identity, scoped, maintenance
  <2> QED
    BY <1>5, <2>1, <2>2, <2>3, <2>4
<1>6. ASSUME NEW p \in Procs,
             AllocateFound(p) \/ AllocateMissing(p) \/ NextVal(p) \/ Exhausted(p) \/ Insert(p) \/ InsertLost(p)
      PROVE TypeOK'
  <2>1. CASE AllocateFound(p) \/ InsertLost(p)
    BY <1>0, <2>1 DEF AllocateFound, InsertLost, Goto, Hold, identity, scoped, maintenance
  <2>2. CASE AllocateMissing(p)
    BY <1>0, <2>2 DEF AllocateMissing, Goto, Keep, identity, scoped, maintenance
  <2>3. CASE NextVal(p)
    BY <1>0, <2>3 DEF NextVal, Goto, Hold, scoped, maintenance, Ids
  <2>4. CASE Exhausted(p)
    BY <1>1, <2>4 DEF Exhausted, identity, scoped, maintenance
  <2>5. CASE Insert(p)
    <3>1. [id |-> id[p], key |-> key(p)] \in [id : Ids, key : Keys]
      BY <1>4, <2>5 DEF Insert, Memory, Allocating
    <3> QED
      BY <1>0, <2>5, <3>1 DEF Insert, Goto, Keep, scoped, maintenance
  <2> QED
    BY <1>6, <2>1, <2>2, <2>3, <2>4, <2>5
<1>7. ASSUME NEW p \in Procs, Get(p) \/ Reuse(p) \/ Reserve(p) \/ Accept(p) \/ Overtaken(p) PROVE TypeOK'
  <2>1. CASE Get(p)
    BY <1>0, <2>1 DEF Get, Goto, identity, scoped, maintenance, Memory, Holding
  <2>2. CASE Reuse(p)
    <3>1. seen[p] \in Records \ {None} /\ id[p] \in Ids /\ pc[p] \in Holding
      BY <2>2, RecordFacts DEF Reuse, Memory, Holding
    <3>2. cases' \in [Ids -> Records] /\ cases'[id[p]].input \in Inputs
      BY <2>2, <3>1, Kept, RecordFacts DEF Reuse
    <3> QED
      BY <1>2, <1>3, <2>2, <3>1, <3>2 DEF Reuse, Advance, identity, maintenance
  <2>3. CASE Reserve(p)
    <3>1. input[p] \in Inputs /\ id[p] \in Ids
      BY <2>3 DEF Reserve, Memory, Holding
    <3>2. cases' \in [Ids -> Records]
      BY <2>3, <3>1, Kept, RecordFacts DEF Reserve
    <3> QED
      BY <1>0, <2>3, <3>2 DEF Reserve, Goto, Keep, identity, scoped, maintenance
  <2>4. CASE Accept(p)
    <3>1. input[p] \in Inputs /\ id[p] \in Ids /\ pc[p] \in Holding
      BY <2>4 DEF Accept, Memory, Holding
    <3>2. cases' \in [Ids -> Records] /\ cases'[id[p]].input \in Inputs
      BY <2>4, <3>1, Kept, RecordFacts DEF Accept
    <3> QED
      BY <1>2, <1>3, <2>4, <3>1, <3>2 DEF Accept, Advance, identity, maintenance
  <2>5. CASE Overtaken(p)
    BY <1>1, <2>5 DEF Overtaken, identity, scoped, maintenance
  <2> QED
    BY <1>7, <2>1, <2>2, <2>3, <2>4, <2>5
<1>8. ASSUME NEW p \in Procs, Revise(p) \/ Block(p) \/ ReadBlocked(p) \/ LeaveBlocked(p) \/ Unreserve(p)
      PROVE TypeOK'
  <2>0. pc[p] \in Holding /\ run[p] \in Runs /\ id[p] \in Ids /\ key(p) \in Keys
    BY <1>4, <1>8 DEF Revise, Block, ReadBlocked, LeaveBlocked, Unreserve, Holding, Memory
  <2>1. CASE Revise(p)
    <3>1. blockers' \subseteq Runs \X Keys
      BY <2>0, <2>1 DEF Revise, SaveBlocker
    <3> QED
      BY <1>2, <2>0, <2>1, <3>1 DEF Revise, Advance, identity, maintenance
  <2>2. CASE Block(p)
    BY <1>0, <2>0, <2>2 DEF Block, SaveBlocker, Goto, Keep, identity, maintenance
  <2>3. CASE ReadBlocked(p)
    BY <1>0, <2>0, <2>3 DEF ReadBlocked, Goto, identity, scoped, maintenance
  <2>4. CASE LeaveBlocked(p)
    BY <1>2, <2>0, <2>4 DEF LeaveBlocked, Advance, identity, scoped, maintenance
  <2>5. CASE Unreserve(p)
    <3>1. seen[p].input \in Inputs
      BY <2>5, RecordFacts DEF Unreserve, Memory
    <3>2. cases' \in [Ids -> Records]
      BY <2>0, <2>5, <3>1, Kept, RecordFacts DEF Unreserve
    <3> QED
      BY <1>2, <2>0, <2>5, <3>2 DEF Unreserve, Advance, identity, scoped, maintenance
  <2> QED
    BY <1>8, <2>1, <2>2, <2>3, <2>4, <2>5
<1>9. ASSUME NEW p \in Procs, CollectCases(p) \/ CollectBlockers(p) \/ Publish(p) \/ Crash(p) PROVE TypeOK'
  <2>1. CASE CollectCases(p)
    <3>1. {a.id : a \in {b \in assoc : b.run = run[p] /\ cases[b.id].status = "ACCEPTED"}} \subseteq Ids
      OBVIOUS
    <3> QED
      BY <1>0, <2>1, <3>1 DEF CollectCases, Goto, identity, scoped, maintenance, Artifacts
  <2>2. CASE CollectBlockers(p)
    <3>1. view[p] \in Artifacts
      BY <2>2 DEF CollectBlockers, Memory
    <3>2. [view[p] EXCEPT !.blocked = {k \in Keys : <<run[p], k>> \in blockers}] \in Artifacts
      BY <3>1 DEF Artifacts
    <3>3. view' \in [Procs -> Artifacts \cup {NoArtifact}]
      BY <2>2, <3>2 DEF CollectBlockers
    <3> QED
      BY <1>0, <2>2, <3>3 DEF CollectBlockers, Goto, identity, scoped, maintenance
  <2>3. CASE Publish(p)
    BY <1>1, <2>3 DEF Publish, identity, scoped, maintenance, Memory
  <2>4. CASE Crash(p)
    BY <1>1, <2>4 DEF Crash, identity, scoped, maintenance
  <2> QED
    BY <1>9, <2>1, <2>2, <2>3, <2>4
<1>10. CASE ResetRows
  <2>1. overlapped' \in BOOLEAN /\ resetting' \in BOOLEAN
    BY <1>10 DEF ResetRows
  <2> QED
    BY <1>10, <2>1, ConstantsAssumption DEF ResetRows, identity, proc
<1>11. CASE ResetFiles \/ UNCHANGED vars
  BY <1>11 DEF ResetFiles, identity, scoped, proc, maintenance, vars
<1> QED
  BY <1>5, <1>6, <1>7, <1>8, <1>9, <1>10, <1>11 DEF Next, Step
-----------------------------------------------------------------------------
LEMMA SeatedStep ==
  ASSUME TypeOK, Seated, [Next]_vars
  PROVE  Seated'
<1> USE DEF TypeOK, Allocating, Holding, Leaving, Frozen
<1>1. ASSUME NEW p \in Procs, Stop(p) PROVE pc'[p] = "down" /\ cur'[p] = 1
  BY <1>1 DEF Stop, Goto
<1>2. ASSUME NEW p \in Procs, Advance(p), pc[p] \in Holding
      PROVE  \/ pc'[p] = "allocate" /\ cur'[p] \in DOMAIN Order
             \/ pc'[p] = "collect" /\ cur'[p] = Len(Order) + 1
  BY <1>2, OrderFacts DEF Advance, Goto, Seated
<1>3. ASSUME NEW p \in Procs, Step(p)
      PROVE  /\ pc'[p] \in Allocating \cup Holding => cur'[p] \in DOMAIN Order
             /\ pc'[p] \in Leaving => cur'[p] = Len(Order) + 1
             /\ pc'[p] \in Frozen => cur'[p] = 1
  <2>1. CASE Start(p) \/ BuildManifest(p) \/ SaveManifest(p) \/ ManifestChanged(p)
    BY <1>1, <2>1, OrderFacts DEF Start, BuildManifest, SaveManifest, ManifestChanged, Goto, Keep, Seated
  <2>2. CASE AllocateFound(p) \/ AllocateMissing(p) \/ NextVal(p) \/ Exhausted(p) \/ Insert(p) \/ InsertLost(p)
    BY <1>1, <2>2 DEF AllocateFound, AllocateMissing, NextVal, Exhausted, Insert, InsertLost,
       Goto, Keep, Hold, Seated
  <2>3. CASE Get(p) \/ Reserve(p) \/ Overtaken(p) \/ Block(p) \/ ReadBlocked(p)
    BY <1>1, <2>3 DEF Get, Reserve, Overtaken, Block, ReadBlocked, Goto, Keep, Seated
  <2>4. CASE Reuse(p) \/ Accept(p) \/ Revise(p) \/ LeaveBlocked(p) \/ Unreserve(p)
    BY <1>2, <2>4, OrderFacts DEF Reuse, Accept, Revise, LeaveBlocked, Unreserve
  <2>5. CASE CollectCases(p) \/ CollectBlockers(p) \/ Publish(p) \/ Crash(p)
    BY <1>1, <2>5 DEF CollectCases, CollectBlockers, Publish, Crash, Goto, Seated
  <2> QED
    BY <1>3, <2>1, <2>2, <2>3, <2>4, <2>5 DEF Step
<1>4. CASE \E p \in Procs : Step(p)
  BY <1>3, <1>4, Frame DEF Seated
<1>5. CASE ResetRows \/ ResetFiles \/ UNCHANGED vars
  BY <1>5 DEF ResetRows, ResetFiles, proc, vars, Seated
<1> QED
  BY <1>4, <1>5 DEF Next

LEMMA MemoryStep ==
  ASSUME TypeOK, Memory, Seated, AnswersAgree, TypeOK', [Next]_vars
  PROVE  Memory'
<1> USE DEF TypeOK, Holding
<1> DEFINE Mine(p) ==
  /\ pc[p] # "down" => run[p] \in Runs /\ input[p] \in Inputs
  /\ pc[p] \notin {"down", "freeze"} => manifest[p] \in Manifests /\ manifest[p].input = input[p]
  /\ pc[p] \in {"insert"} \cup Holding => id[p] \in Ids
  /\ pc[p] = "reuse" => seen[p] \in AcceptedRecords /\ seen[p].input = input[p]
  /\ pc[p] \in {"work", "blocked"} => cases[id[p]] # None
  /\ pc[p] = "unreserve" => seen[p] \in Records \ {None}
  /\ pc[p] \in {"collected", "publish"} => view[p] \in Artifacts
<1>1. ASSUME NEW p \in Procs, Mine(p), UNCHANGED <<pc[p], run[p], input[p], manifest[p], id[p], seen[p], view[p]>>
      PROVE  Mine(p)'
  BY <1>1, Monotone
<1>2. ASSUME NEW p \in Procs, Stop(p) PROVE Mine(p)'
  BY <1>2 DEF Stop, Goto
<1>3. ASSUME NEW p \in Procs, Advance(p), pc[p] \in Holding PROVE Mine(p)'
  BY <1>3 DEF Advance, Goto, Memory
<1>4. ASSUME NEW p \in Procs, Step(p) PROVE Mine(p)'
  <2>0. MinId \in Nat /\ MaxId \in Nat /\ seq \in Nat
    BY ConstantsAssumption
  <2>1. CASE Start(p)
    BY <2>1 DEF Start, Goto
  <2>2. CASE BuildManifest(p)
    BY <2>2, ManifestFacts DEF BuildManifest, Goto, Memory, Manifests, NoManifest
  <2>3. CASE SaveManifest(p)
    BY <2>3 DEF SaveManifest, Goto, Keep, Memory
  <2>4. CASE AllocateFound(p) \/ AllocateMissing(p) \/ InsertLost(p)
    BY <2>4 DEF AllocateFound, AllocateMissing, InsertLost, Goto, Keep, Hold, Memory
  <2>5. CASE NextVal(p) \/ Insert(p)
    BY <2>0, <2>5 DEF NextVal, Insert, Goto, Keep, Hold, Memory, Ids
  <2>6. CASE Get(p)
    BY <2>6, RecordFacts DEF Get, Goto, Memory
  <2>7. CASE Reserve(p)
    <3>1. id[p] \in Ids /\ input[p] \in Inputs
      BY <2>7 DEF Reserve, Memory
    <3>2. cases'[id[p]] # None
      BY <2>7, <3>1, Kept, RecordFacts DEF Reserve
    <3> QED
      BY <2>7, <3>1, <3>2 DEF Reserve, Goto, Keep, Memory
  <2>8. CASE Block(p) \/ ReadBlocked(p)
    BY <2>8 DEF Block, ReadBlocked, Goto, Keep, Memory
  <2>9. CASE CollectCases(p)
    BY <2>9 DEF CollectCases, Goto, Memory, Artifacts
  <2>10. CASE CollectBlockers(p)
    <3>1. view[p] \in Artifacts
      BY <2>10 DEF CollectBlockers, Memory
    <3>2. [view[p] EXCEPT !.blocked = {k \in Keys : <<run[p], k>> \in blockers}] \in Artifacts
      BY <3>1 DEF Artifacts
    <3> QED
      BY <2>10, <3>2 DEF CollectBlockers, Goto, Memory
  <2>11. CASE Stop(p)
    BY <1>2, <2>11
  <2>12. CASE Reuse(p) \/ Accept(p) \/ Revise(p) \/ LeaveBlocked(p) \/ Unreserve(p)
    BY <1>3, <2>12 DEF Reuse, Accept, Revise, LeaveBlocked, Unreserve
  <2> QED
    BY <1>4, <2>1, <2>2, <2>3, <2>4, <2>5, <2>6, <2>7, <2>8, <2>9, <2>10, <2>11, <2>12
       DEF Step, ManifestChanged, Exhausted, Overtaken, Publish, Crash
<1>5. CASE \E p \in Procs : Step(p)
  <2>1. PICK p \in Procs : Step(p)
    BY <1>5
  <2>2. ASSUME NEW q \in Procs PROVE Mine(q)'
    <3>1. CASE q = p
      BY <1>4, <2>1, <3>1
    <3>2. CASE q # p
      BY <1>1, <2>1, <3>2, Frame DEF Memory
    <3> QED
      BY <3>1, <3>2
  <2> QED
    BY <2>2 DEF Memory
<1>6. CASE ResetRows \/ ResetFiles \/ UNCHANGED vars
  BY <1>6 DEF ResetRows, ResetFiles, proc, vars, Memory
<1> QED
  BY <1>5, <1>6 DEF Next
-----------------------------------------------------------------------------
\* Only two actions touch the identities, and only one of them draws a number.
LEMMA IdentityKept ==
  ASSUME TypeOK, NEW p \in Procs, Step(p), ~NextVal(p), ~Insert(p)
  PROVE  UNCHANGED identity /\ pc'[p] # "insert"
<1>1. ASSUME Stop(p) PROVE pc'[p] # "insert"
  BY <1>1 DEF Stop, Goto, TypeOK
<1>2. ASSUME Advance(p) PROVE pc'[p] # "insert"
  BY <1>2 DEF Advance, Goto, TypeOK
<1>3. CASE Start(p) \/ BuildManifest(p) \/ SaveManifest(p) \/ ManifestChanged(p)
  BY <1>1, <1>3 DEF TypeOK, Start, BuildManifest, SaveManifest, ManifestChanged, Goto
<1>4. CASE AllocateFound(p) \/ AllocateMissing(p) \/ Exhausted(p) \/ InsertLost(p)
  BY <1>1, <1>4 DEF TypeOK, AllocateFound, AllocateMissing, Exhausted, InsertLost, Goto
<1>5. CASE Get(p) \/ Reuse(p) \/ Reserve(p) \/ Accept(p) \/ Overtaken(p)
  BY <1>1, <1>2, <1>5 DEF TypeOK, Get, Reuse, Reserve, Accept, Overtaken, Goto
<1>6. CASE Revise(p) \/ Block(p) \/ ReadBlocked(p) \/ LeaveBlocked(p) \/ Unreserve(p)
  BY <1>2, <1>6 DEF TypeOK, Revise, Block, ReadBlocked, LeaveBlocked, Unreserve, Goto
<1>7. CASE CollectCases(p) \/ CollectBlockers(p) \/ Publish(p) \/ Crash(p)
  BY <1>1, <1>7 DEF TypeOK, CollectCases, CollectBlockers, Publish, Crash, Goto
<1> QED
  BY <1>3, <1>4, <1>5, <1>6, <1>7 DEF Step

LEMMA NumbersStep ==
  ASSUME TypeOK, Memory, Numbers, OneToOne, [Next]_vars
  PROVE  Numbers' /\ OneToOne'
<1>0. seq \in Nat /\ \A p \in Procs : pc[p] = "insert" => id[p] \in Nat
  <2>1. seq \in Nat
    BY ConstantsAssumption DEF TypeOK
  <2>2. \A p \in Procs : pc[p] = "insert" => id[p] \in Nat
    BY IdFacts DEF Memory
  <2> QED
    BY <2>1, <2>2
<1>1. ASSUME UNCHANGED identity, \A q \in Procs : pc'[q] = "insert" => pc[q] = "insert" /\ id'[q] = id[q]
      PROVE  Numbers' /\ OneToOne'
  BY <1>1 DEF Numbers, OneToOne, NumbersAreFresh, identity
<1>2. ASSUME NEW p \in Procs, NextVal(p), Step(p) PROVE Numbers' /\ OneToOne'
  <2>1. rows' = rows /\ seq' = seq + 1 /\ pc'[p] = "insert" /\ id'[p] = seq
    BY <1>2 DEF NextVal, Goto, Hold, TypeOK
  <2>2. \A row \in rows : row.id < seq /\ row.id \in Nat
    BY IdFacts DEF Numbers, TypeOK
  <2>3. \A q \in Procs \ {p} : pc'[q] = pc[q] /\ id'[q] = id[q]
    BY <1>2, Frame
  <2> QED
    BY <1>0, <2>1, <2>2, <2>3 DEF Numbers, OneToOne, NumbersAreFresh
<1>3. ASSUME NEW p \in Procs, Insert(p), Step(p) PROVE Numbers' /\ OneToOne'
  <2>1. /\ rows' = rows \cup {[id |-> id[p], key |-> key(p)]} /\ seq' = seq
        /\ pc[p] = "insert" /\ pc'[p] # "insert" /\ id' = id
        /\ \A row \in rows : row.key # key(p) /\ row.id # id[p]
    BY <1>3 DEF Insert, Goto, Keep, TypeOK
  <2>2. \A q \in Procs : pc'[q] = "insert" => q # p /\ pc[q] = "insert"
    BY <1>3, <2>1, Frame
  <2>3. /\ \A row \in rows' : row.id < seq
        /\ \A q \in Procs : pc'[q] = "insert" => \A row \in rows' : row.id # id[q]
    BY <2>1, <2>2 DEF Numbers, NumbersAreFresh
  <2>4. OneToOne'
    BY <2>1 DEF OneToOne
  <2> QED
    BY <2>1, <2>2, <2>3, <2>4 DEF Numbers, NumbersAreFresh
<1>4. ASSUME NEW p \in Procs, Step(p), ~NextVal(p), ~Insert(p) PROVE Numbers' /\ OneToOne'
  BY <1>1, <1>4, IdentityKept, Frame
<1>5. CASE ResetRows \/ ResetFiles \/ UNCHANGED vars
  BY <1>1, <1>5 DEF ResetRows, ResetFiles, proc, vars
<1> QED
  BY <1>2, <1>3, <1>4, <1>5 DEF Next

LEMMA AnswersStep ==
  ASSUME TypeOK, Memory, AnswersAgree, [Next]_vars
  PROVE  AnswersAgree'
<1> USE DEF TypeOK, Holding
<1>1. ASSUME NEW p \in Procs, Step(p), pc'[p] \in Holding
      PROVE  [id |-> id'[p], key |-> key(p)'] \in rows'
  <2>0. rows \subseteq rows' /\ \A row \in rows : row = [id |-> row.id, key |-> row.key]
    BY <1>1, Monotone DEF Next
  <2>1. ASSUME pc[p] \in Holding, UNCHANGED <<id[p], cur[p]>> PROVE [id |-> id'[p], key |-> key(p)'] \in rows'
    BY <2>0, <2>1 DEF AnswersAgree, key
  <2>2. CASE AllocateFound(p) \/ InsertLost(p)
    BY <2>0, <2>2 DEF AllocateFound, InsertLost, Hold, key
  <2>3. CASE Insert(p)
    BY <2>3 DEF Insert, Keep, key
  <2>4. CASE Get(p) \/ Reserve(p) \/ Block(p) \/ ReadBlocked(p)
    BY <2>1, <2>4 DEF Get, Reserve, Block, ReadBlocked, Keep
  <2>5. CASE Stop(p)
    BY <1>1, <2>5 DEF Stop, Goto
  <2>6. CASE Advance(p)
    BY <1>1, <2>6 DEF Advance, Goto
  <2>7. CASE Start(p) \/ BuildManifest(p) \/ SaveManifest(p) \/ AllocateMissing(p) \/ NextVal(p)
             \/ CollectCases(p) \/ CollectBlockers(p)
    BY <1>1, <2>7 DEF Start, BuildManifest, SaveManifest, AllocateMissing, NextVal, CollectCases, CollectBlockers, Goto
  <2> QED
    BY <1>1, <2>2, <2>3, <2>4, <2>5, <2>6, <2>7 DEF Step, ManifestChanged, Exhausted, Reuse, Accept,
       Overtaken, Revise, LeaveBlocked, Unreserve, Publish, Crash
<1>2. CASE \E p \in Procs : Step(p)
  <2>1. PICK p \in Procs : Step(p)
    BY <1>2
  <2>2. ASSUME NEW q \in Procs, q # p, pc'[q] \in Holding
        PROVE  [id |-> id'[q], key |-> key(q)'] \in rows'
    BY <2>1, <2>2, Frame, Monotone DEF AnswersAgree, key
  <2> QED
    BY <1>1, <2>1, <2>2 DEF AnswersAgree
<1>3. CASE ResetRows \/ ResetFiles \/ UNCHANGED vars
  BY <1>3 DEF ResetRows, ResetFiles, identity, proc, vars, AnswersAgree, key
<1> QED
  BY <1>2, <1>3 DEF Next
-----------------------------------------------------------------------------
\* A manifest in the store is final until a reset, so what was frozen agrees.
LEMMA ManifestKept ==
  ASSUME TypeOK, Memory, NEW p \in Procs, Step(p)
  PROVE  /\ \A r \in Runs : frozen[r] # NoManifest => frozen'[r] = frozen[r]
         /\ (pc[p] \in Frozen /\ pc'[p] \notin Frozen) =>
              /\ run'[p] = run[p] /\ manifest'[p] = manifest[p] /\ frozen'[run[p]] = manifest[p]
              /\ cur'[p] = cur[p]
         /\ (pc[p] \notin Frozen /\ pc'[p] \notin Frozen) =>
              run'[p] = run[p] /\ manifest'[p] = manifest[p] /\ input'[p] = input[p]
<1> USE DEF TypeOK, Frozen
<1>1. ASSUME Stop(p) PROVE pc'[p] = "down"
  BY <1>1 DEF Stop, Goto
<1>2. ASSUME Advance(p) PROVE UNCHANGED <<run, manifest, input>>
  BY <1>2 DEF Advance
<1>3. CASE Start(p) \/ BuildManifest(p) \/ ManifestChanged(p)
  BY <1>1, <1>3 DEF Start, BuildManifest, ManifestChanged, Goto, scoped
<1>4. CASE SaveManifest(p)
  BY <1>4 DEF SaveManifest, Goto, Keep, Memory
<1>5. CASE AllocateFound(p) \/ AllocateMissing(p) \/ NextVal(p) \/ Exhausted(p) \/ Insert(p) \/ InsertLost(p)
  BY <1>1, <1>5 DEF AllocateFound, AllocateMissing, NextVal, Exhausted, Insert, InsertLost, Keep, scoped
<1>6. CASE Get(p) \/ Reuse(p) \/ Reserve(p) \/ Accept(p) \/ Overtaken(p)
  BY <1>1, <1>2, <1>6 DEF Get, Reuse, Reserve, Accept, Overtaken, Keep, scoped
<1>7. CASE Revise(p) \/ Block(p) \/ ReadBlocked(p) \/ LeaveBlocked(p) \/ Unreserve(p)
  BY <1>2, <1>7 DEF Revise, Block, ReadBlocked, LeaveBlocked, Unreserve, Keep, scoped
<1>8. CASE CollectCases(p) \/ CollectBlockers(p) \/ Publish(p) \/ Crash(p)
  BY <1>1, <1>8 DEF CollectCases, CollectBlockers, Publish, Crash, scoped
<1> QED
  BY <1>3, <1>4, <1>5, <1>6, <1>7, <1>8 DEF Step

LEMMA FrozenStep ==
  ASSUME TypeOK, Memory, RunsAgreeOnInputs, [Next]_vars
  PROVE  RunsAgreeOnInputs'
<1>1. ASSUME NEW p \in Procs, Step(p), ~overlapped', NEW q \in Procs, pc'[q] \notin Frozen
      PROVE  frozen'[run'[q]] = manifest'[q]
  <2>0. ~overlapped
    BY <1>1, Monotone DEF Next
  <2>1. CASE pc[q] \notin Frozen
    <3>1. frozen[run[q]] = manifest[q] /\ run[q] \in Runs /\ manifest[q] # NoManifest
      <4>1. frozen[run[q]] = manifest[q]
        BY <2>0, <2>1 DEF RunsAgreeOnInputs, Frozen
      <4>2. run[q] \in Runs /\ manifest[q] \in Manifests /\ manifest[q].input = input[q] /\ input[q] \in Inputs
        BY <2>1 DEF Memory, Frozen
      <4>3. NoManifest \notin Manifests
        BY DEF NoManifest, Manifests
      <4> QED
        BY <4>1, <4>2, <4>3
    <3>2. run'[q] = run[q] /\ manifest'[q] = manifest[q]
      <4>1. CASE q = p
        BY <1>1, <2>1, <4>1, ManifestKept
      <4>2. CASE q # p
        BY <1>1, <4>2, Frame
      <4> QED
        BY <4>1, <4>2
    <3> QED
      BY <1>1, <3>1, <3>2, ManifestKept
  <2>2. CASE pc[q] \in Frozen
    <3>1. q = p
      BY <1>1, <2>2, Frame
    <3> QED
      BY <1>1, <2>2, <3>1, ManifestKept
  <2> QED
    BY <2>1, <2>2
<1>2. CASE ResetRows
  <2>1. ~overlapped' => \A q \in Procs : pc'[q] = "down"
    BY <1>2 DEF ResetRows
  <2> QED
    BY <2>1 DEF RunsAgreeOnInputs
<1>3. CASE ResetFiles \/ UNCHANGED vars
  <2>1. UNCHANGED <<overlapped, frozen, pc, run, manifest>>
    BY <1>3 DEF ResetFiles, scoped, proc, maintenance, vars
  <2> QED
    BY <2>1, Zenon DEF RunsAgreeOnInputs
<1> QED
  BY <1>1, <1>2, <1>3 DEF Next, RunsAgreeOnInputs, Frozen

LEMMA ManifestIsSome == NoManifest \notin Manifests
BY DEF NoManifest, Manifests

\* An association is added for the case just saved, under the inputs of the run.
LEMMA AssociatedStep ==
  ASSUME TypeOK, Memory, RunsAgreeOnInputs, AssociatedAsFrozen, Backed, [Next]_vars
  PROVE  AssociatedAsFrozen' /\ Backed'
<1> DEFINE Sound(a) == /\ cases[a.id].status = "ACCEPTED" /\ cases[a.id].input = a.input
                       /\ ~overlapped => frozen[a.run] \in Manifests /\ frozen[a.run].input = a.input
<1>1. \A a \in assoc : a.run \in Runs /\ a.id \in Ids /\ Sound(a)
  BY Zenon DEF TypeOK, AssociatedAsFrozen, Backed
<1>2. ASSUME NEW p \in Procs, Step(p), NEW a \in assoc PROVE Sound(a)'
  <2>1. cases'[a.id] = cases[a.id]
    BY <1>1, <1>2, Monotone DEF Next
  <2>2. ASSUME ~overlapped' PROVE frozen'[a.run] = frozen[a.run] /\ ~overlapped
    <3>1. ~overlapped
      BY <1>2, <2>2, Monotone DEF Next
    <3> QED
      BY <1>1, <1>2, <3>1, ManifestKept, ManifestIsSome
  <2> QED
    BY <1>1, <2>1, <2>2
<1>3. ASSUME NEW p \in Procs, Step(p), Associate(p), id[p] \in Ids, cases'[id[p]] \in AcceptedRecords,
             cases'[id[p]].input = input[p], pc[p] \notin Frozen, UNCHANGED frozen
      PROVE  \A a \in assoc' : Sound(a)'
  <2>1. ASSUME ~overlapped'
        PROVE  frozen'[run[p]] \in Manifests /\ frozen'[run[p]].input = input[p]
    <3>1. ~overlapped
      BY <1>3, <2>1, Monotone DEF Next
    <3> QED
      BY <1>3, <3>1 DEF RunsAgreeOnInputs, Memory, Frozen
  <2>2. \A a \in assoc' : a \in assoc \/ a = [run |-> run[p], id |-> id[p], input |-> input[p]]
    BY <1>3 DEF Associate
  <2>3. cases'[id[p]].status = "ACCEPTED"
    BY <1>3, RecordFacts
  <2> QED
    BY <1>2, <1>3, <2>1, <2>2, <2>3
<1>4. ASSUME NEW p \in Procs, Step(p) PROVE \A a \in assoc' : Sound(a)'
  <2>1. CASE Reuse(p)
    <3>1. seen[p] \in AcceptedRecords /\ seen[p].input = input[p] /\ id[p] \in Ids
      BY <2>1 DEF Reuse, Memory, Holding
    <3>2. cases'[id[p]] = seen[p]
      BY <2>1, <3>1, Kept, RecordFacts DEF Reuse
    <3> QED
      BY <1>3, <1>4, <2>1, <3>1, <3>2 DEF Reuse, Frozen
  <2>2. CASE Accept(p)
    <3>1. input[p] \in Inputs /\ id[p] \in Ids
      BY <2>2 DEF Accept, Memory, Holding
    <3>2. cases'[id[p]] \in AcceptedRecords /\ cases'[id[p]].input = input[p]
      BY <2>2, <3>1, Kept, RecordFacts DEF Accept
    <3> QED
      BY <1>3, <1>4, <2>2, <3>1, <3>2 DEF Accept, Frozen
  <2>3. CASE ~Reuse(p) /\ ~Accept(p)
    <3>1. assoc' = assoc
      BY <1>4, <2>3 DEF Step, scoped, Start, BuildManifest, SaveManifest, ManifestChanged, AllocateFound,
         AllocateMissing, NextVal, Exhausted, Insert, InsertLost, Get, Reserve, Overtaken,
         Revise, Block, ReadBlocked, LeaveBlocked, Unreserve, CollectCases, CollectBlockers, Publish, Crash
    <3> QED
      BY <1>2, <1>4, <3>1
  <2> QED
    BY <2>1, <2>2, <2>3
<1>5. ASSUME ResetRows PROVE \A a \in assoc' : Sound(a)'
  <2>1. assoc' = {}
    BY <1>5 DEF ResetRows
  <2> QED
    BY <2>1
<1>6. ASSUME ResetFiles \/ UNCHANGED vars PROVE \A a \in assoc' : Sound(a)'
  <2>1. UNCHANGED <<assoc, cases, overlapped, frozen>>
    BY <1>6 DEF ResetFiles, scoped, maintenance, vars
  <2> QED
    BY <1>1, <2>1, Zenon
<1>7. \A a \in assoc' : Sound(a)'
  BY <1>4, <1>5, <1>6 DEF Next
<1> QED
  BY <1>7, Zenon DEF AssociatedAsFrozen, Backed
-----------------------------------------------------------------------------
\* Nothing that an invocation does unsettles a scenario of any run.
LEMMA SettledKept ==
  ASSUME TypeOK, Memory, NEW p \in Procs, Step(p), NEW r, NEW k
  PROVE  /\ blockers \subseteq blockers' /\ rows \subseteq rows'
         /\ Settled(r, k) => Settled(r, k)'
<1>1. rows \subseteq rows'
  BY Monotone DEF Next
<1>2. ASSUME Associate(p) PROVE \A a \in assoc : \E b \in assoc' : b.run = a.run /\ b.id = a.id
  <2>1. assoc' = {a \in assoc : <<a.run, a.id>> # <<run[p], id[p]>>}
                   \cup {[run |-> run[p], id |-> id[p], input |-> cases'[id[p]].input]}
    BY <1>2 DEF Associate
  <2>2. ASSUME NEW a \in assoc PROVE \E b \in assoc' : b.run = a.run /\ b.id = a.id
    <3>1. CASE a.run = run[p] /\ a.id = id[p]
      <4> DEFINE b == [run |-> run[p], id |-> id[p], input |-> cases'[id[p]].input]
      <4>1. b \in assoc' /\ b.run = a.run /\ b.id = a.id
        BY <2>1, <3>1
      <4> QED
        BY <4>1
    <3>2. CASE ~(a.run = run[p] /\ a.id = id[p])
      BY <2>1, <2>2, <3>2
    <3> QED
      BY <3>1, <3>2
  <2> QED
    BY <2>2
<1>3. blockers \subseteq blockers' /\ \A a \in assoc : \E b \in assoc' : b.run = a.run /\ b.id = a.id
  BY <1>2 DEF Step, scoped, SaveBlocker, Start, BuildManifest, SaveManifest, ManifestChanged, AllocateFound,
     AllocateMissing, NextVal, Exhausted, Insert, InsertLost, Get, Reuse, Reserve, Accept, Overtaken,
     Revise, Block, ReadBlocked, LeaveBlocked, Unreserve, CollectCases, CollectBlockers, Publish, Crash
<1>4. ASSUME Settled(r, k) PROVE Settled(r, k)'
  <2>1. CASE <<r, k>> \in blockers
    BY <1>3, <2>1 DEF Settled
  <2>2. CASE \E a \in assoc : a.run = r /\ Has(a.id, k)
    <3>1. PICK a \in assoc : a.run = r /\ Has(a.id, k)
      BY <2>2
    <3>2. PICK b \in assoc' : b.run = a.run /\ b.id = a.id
      BY <1>3, <3>1
    <3>3. Has(b.id, k)'
      BY <1>1, <3>1, <3>2 DEF Has
    <3> QED
      BY <3>1, <3>2, <3>3 DEF Settled
  <2> QED
    BY <1>4, <2>1, <2>2 DEF Settled
<1> QED
  BY <1>1, <1>3, <1>4

\* Whoever goes on to the next scenario leaves a case or a blocker behind.
LEMMA AdvanceSettles ==
  ASSUME TypeOK, Memory, AnswersAgree, Progress, ~overlapped,
         NEW p \in Procs, Step(p), Reuse(p) \/ Accept(p) \/ Revise(p) \/ LeaveBlocked(p) \/ Unreserve(p),
         NEW r, NEW k, r = run[p], k = key(p)
  PROVE  Settled(r, k)'
<1>1. CASE Associate(p) /\ pc[p] \in Holding
  <2>1. \E b \in assoc' : b.run = r /\ b.id = id[p]
    <3> DEFINE b == [run |-> run[p], id |-> id[p], input |-> cases'[id[p]].input]
    <3>1. b \in assoc' /\ b.run = run[p] /\ b.id = id[p]
      BY <1>1 DEF Associate
    <3> QED
      BY <3>1
  <2>2. PICK b \in assoc' : b.run = r /\ b.id = id[p]
    BY <2>1
  <2>3. [id |-> id[p], key |-> key(p)] \in rows'
    BY <1>1, SettledKept DEF AnswersAgree
  <2>4. Has(b.id, k)'
    BY <2>2, <2>3 DEF Has
  <2> QED
    BY <2>2, <2>4 DEF Settled
<1>2. CASE Revise(p)
  BY <1>2 DEF Revise, SaveBlocker, Settled
<1>3. CASE LeaveBlocked(p) \/ Unreserve(p)
  <2>1. <<r, k>> \in blockers
    BY <1>3 DEF LeaveBlocked, Unreserve, Progress
  <2> QED
    BY <2>1, SettledKept DEF Settled
<1> QED
  BY <1>1, <1>2, <1>3 DEF Reuse, Accept, Holding

LEMMA ProgressStep ==
  ASSUME TypeOK, Seated, Memory, AnswersAgree, AssociatedAsFrozen, Progress, [Next]_vars, TypeOK'
  PROVE  Progress'
<1> USE DEF Frozen
<1> DEFINE Mine(p) ==
  /\ pc[p] \notin Frozen => \A j \in 1 .. cur[p] - 1 : Settled(run[p], Order[j])
  /\ pc[p] \in {"blocked", "unreserve"} => <<run[p], key(p)>> \in blockers
  /\ pc[p] = "collected" => \A k \in Keys :
       <<run[p], k>> \in blockers \/ \E i \in view[p].cases : Has(i, k)
  /\ pc[p] = "publish" => \A k \in Keys : Covers(view[p], k)
<1>0. ~overlapped => \A p \in Procs : Mine(p)
  BY Zenon DEF Progress
<1>1. ASSUME NEW p \in Procs, Step(p), ~overlapped, NEW q \in Procs,
             UNCHANGED <<run[q], cur[q], view[q]>>,
             pc'[q] = pc[q] \/ pc'[q] \in {"allocate", "nextval", "insert", "get", "reuse", "reserve", "work", "revise"},
             pc[q] \notin Frozen
      PROVE  Mine(q)'
  <2>1. \A r, k : Settled(r, k) => Settled(r, k)'
    BY <1>1, SettledKept
  <2>2. rows \subseteq rows' /\ blockers \subseteq blockers'
    BY <1>1, SettledKept
  <2>3. \A j \in 1 .. cur[q] - 1 : Settled(run[q], Order[j])
    BY <1>0, <1>1
  <2>4. \A j \in 1 .. cur'[q] - 1 : Settled(run[q], Order[j])'
    BY <1>1, <2>1, <2>3
  <2>5. pc'[q] \in {"blocked", "unreserve"} => <<run'[q], key(q)'>> \in blockers'
    BY <1>0, <1>1, <2>2 DEF key
  <2>6. \A i, k : Has(i, k) => Has(i, k)'
    BY <2>2 DEF Has
  <2>7. ASSUME pc'[q] = "collected", NEW k \in Keys
        PROVE  <<run'[q], k>> \in blockers' \/ \E i \in view'[q].cases : Has(i, k)'
    <3>1. <<run[q], k>> \in blockers \/ \E i \in view[q].cases : Has(i, k)
      BY <1>0, <1>1, <2>7
    <3> QED
      BY <1>1, <2>2, <2>6, <3>1
  <2>8. ASSUME pc'[q] = "publish", NEW k \in Keys
        PROVE  Covers(view[q], k)'
    <3>1. Covers(view[q], k)
      BY <1>0, <1>1, <2>8
    <3> QED
      BY <1>1, <2>6, <3>1 DEF Covers
  <2> QED
    BY <1>1, <2>4, <2>5, <2>7, <2>8
<1>2. ASSUME NEW p \in Procs, ~overlapped, Step(p), Advance(p), pc[p] \in Holding,
             Reuse(p) \/ Accept(p) \/ Revise(p) \/ LeaveBlocked(p) \/ Unreserve(p)
      PROVE  Mine(p)'
  <2>1. run'[p] = run[p] /\ cur'[p] = cur[p] + 1 /\ pc'[p] \in {"allocate", "collect"}
    BY <1>2 DEF Advance, Goto, TypeOK
  <2>2. ASSUME NEW j \in 1 .. cur'[p] - 1 PROVE Settled(run[p], Order[j])'
    <3>1. cur[p] \in Nat /\ j \in Nat
      BY <1>2, OrderFacts DEF Seated
    <3>2. CASE j = cur[p]
      <4>1. PICK r, k : r = run[p] /\ k = key(p)
        OBVIOUS
      <4>2. Settled(r, k)'
        BY <1>2, <4>1, AdvanceSettles
      <4> QED
        BY <2>1, <3>2, <4>1, <4>2 DEF key, Settled, Has
    <3>3. CASE j # cur[p]
      <4>1. PICK r, k : r = run[p] /\ k = Order[j]
        OBVIOUS
      <4>2. j \in 1 .. cur[p] - 1
        BY <2>1, <2>2, <3>1, <3>3
      <4>3. pc[p] \notin Frozen
        BY <1>2 DEF Holding
      <4>4. Settled(r, k)
        BY <1>0, <1>2, <4>1, <4>2, <4>3
      <4>5. Settled(r, k)'
        BY <1>2, <4>4, SettledKept
      <4> QED
        BY <2>1, <4>1, <4>5 DEF Settled, Has
    <3> QED
      BY <3>2, <3>3
  <2> QED
    BY <2>1, <2>2
<1>3. ASSUME NEW p \in Procs, ~overlapped, Step(p) PROVE Mine(p)'
  <2>1. CASE Stop(p) \/ Start(p) \/ BuildManifest(p)
    <3>1. pc'[p] \in Frozen
      BY <2>1 DEF Stop, Start, BuildManifest, Goto, TypeOK
    <3> QED
      BY <3>1
  <2>2. CASE SaveManifest(p)
    <3>1. cur'[p] = 1 /\ pc'[p] \in {"collect", "allocate"}
      BY <2>2 DEF SaveManifest, Goto, Keep, TypeOK, Seated
    <3> QED
      BY <3>1
  <2>3. CASE AllocateFound(p) \/ AllocateMissing(p) \/ NextVal(p) \/ Insert(p) \/ InsertLost(p) \/ Get(p) \/ Reserve(p)
    BY <1>1, <1>3, <2>3 DEF AllocateFound, AllocateMissing, NextVal, Insert, InsertLost, Get, Reserve, Goto, Keep, TypeOK
  <2>4. CASE Reuse(p) \/ Accept(p) \/ Revise(p) \/ LeaveBlocked(p) \/ Unreserve(p)
    BY <1>2, <1>3, <2>4 DEF Reuse, Accept, Revise, LeaveBlocked, Unreserve, Holding
  <2>5. CASE Block(p) \/ ReadBlocked(p)
    <3>1. pc'[p] \in {"blocked", "unreserve"} /\ cur'[p] = cur[p] /\ run'[p] = run[p] /\ pc[p] \notin Frozen
      BY <2>5 DEF Block, ReadBlocked, Goto, Keep, TypeOK
    <3>2. <<run[p], key(p)>> \in blockers'
      BY <1>0, <1>3, <2>5 DEF Block, ReadBlocked, SaveBlocker, scoped
    <3>3. ASSUME NEW j \in 1 .. cur[p] - 1 PROVE Settled(run[p], Order[j])'
      <4>1. PICK r, k : r = run[p] /\ k = Order[j]
        OBVIOUS
      <4>2. Settled(r, k)
        BY <1>0, <1>3, <3>1, <3>3, <4>1
      <4>3. Settled(r, k)'
        BY <1>3, <4>2, SettledKept
      <4> QED
        BY <3>1, <4>1, <4>3 DEF Settled, Has
    <3> QED
      BY <3>1, <3>2, <3>3 DEF key
  <2>6. CASE CollectCases(p)
    <3>1. /\ pc[p] = "collect" /\ pc'[p] = "collected" /\ UNCHANGED <<rows, assoc, blockers, cur, run, cases>>
          /\ view'[p].cases = {a.id : a \in {b \in assoc : b.run = run[p] /\ cases[b.id].status = "ACCEPTED"}}
      BY <2>6 DEF CollectCases, Goto, identity, scoped, TypeOK
    <3>2. \A j \in 1 .. cur[p] - 1 : Settled(run[p], Order[j])
      BY <1>0, <1>3, <3>1
    <3>3. ASSUME NEW k \in Keys PROVE <<run[p], k>> \in blockers \/ \E i \in view'[p].cases : Has(i, k)
      <4>1. PICK j \in 1 .. Len(Order) : Order[j] = k
        BY OrderFacts
      <4>2. cur[p] = Len(Order) + 1
        BY <3>1 DEF Seated, Leaving
      <4>3. Settled(run[p], k)
        BY <3>2, <4>1, <4>2, OrderFacts
      <4>4. ASSUME NEW a \in assoc, a.run = run[p] PROVE a.id \in view'[p].cases
        BY <3>1, <4>4 DEF AssociatedAsFrozen
      <4> QED
        BY <4>3, <4>4 DEF Settled
    <3> QED
      BY <3>1, <3>2, <3>3 DEF Settled, Has
  <2>7. CASE CollectBlockers(p)
    <3>1. /\ pc[p] = "collected" /\ pc'[p] = "publish" /\ UNCHANGED <<rows, assoc, blockers, cur, run>>
          /\ view' = [view EXCEPT ![p].blocked = {k \in Keys : <<run[p], k>> \in blockers}]
      BY <2>7 DEF CollectBlockers, Goto, identity, scoped, TypeOK
    <3>2. view'[p].cases = view[p].cases /\ view'[p].blocked = {k \in Keys : <<run[p], k>> \in blockers}
      <4>1. view[p] \in Artifacts
        BY <3>1 DEF Memory
      <4> QED
        BY <3>1, <4>1 DEF Artifacts, TypeOK
    <3>3. ASSUME NEW k \in Keys PROVE k \in view'[p].blocked \/ \E i \in view'[p].cases : Has(i, k)
      BY <1>0, <1>3, <3>1, <3>2
    <3>4. \A j \in 1 .. cur[p] - 1 : Settled(run[p], Order[j])
      BY <1>0, <1>3, <3>1
    <3> QED
      BY <3>1, <3>3, <3>4 DEF Settled, Has, Covers
  <2> QED
    BY <1>3, <2>1, <2>2, <2>3, <2>4, <2>5, <2>6, <2>7 DEF Step, ManifestChanged, Exhausted, Overtaken, Publish, Crash
<1>4. CASE \E p \in Procs : Step(p)
  <2>1. PICK p \in Procs : Step(p)
    BY <1>4
  <2>2. ASSUME ~overlapped', NEW q \in Procs PROVE Mine(q)'
    <3>1. ~overlapped
      BY <2>1, <2>2, Monotone DEF Next
    <3>2. CASE q = p
      BY <1>3, <2>1, <3>1, <3>2
    <3>3. CASE q # p /\ pc[q] \notin Frozen
      BY <1>1, <2>1, <3>1, <3>3, Frame
    <3>4. CASE q # p /\ pc[q] \in Frozen
      BY <2>1, <3>4, Frame
    <3> QED
      BY <3>2, <3>3, <3>4
  <2> QED
    BY <2>2, Zenon DEF Progress
<1>5. CASE ResetRows
  <2>1. ~overlapped' => \A q \in Procs : pc'[q] = "down"
    BY <1>5 DEF ResetRows
  <2> QED
    BY <2>1 DEF Progress
<1>6. CASE ResetFiles \/ UNCHANGED vars
  <2>1. UNCHANGED <<overlapped, pc, run, cur, view, blockers, assoc, rows>>
    BY <1>6 DEF ResetFiles, identity, scoped, proc, maintenance, vars
  <2>2. ASSUME ~overlapped', NEW q \in Procs PROVE Mine(q)'
    <3>1. ~overlapped
      BY <2>1, <2>2
    <3>2. Mine(q)
      BY <1>0, <3>1
    <3> QED
      BY <2>1, <3>2 DEF Settled, Covers, Has, key
  <2> QED
    BY <2>2, Zenon DEF Progress
<1> QED
  BY <1>4, <1>5, <1>6 DEF Next
-----------------------------------------------------------------------------
\* The artifact: what is written was read from the tables, which only grow.
LEMMA ListedStep ==
  ASSUME TypeOK, Memory, Listed, [Next]_vars, TypeOK'
  PROVE  Listed'
<1>1. \A i \in Ids : cases[i].status = "ACCEPTED" => cases'[i].status = "ACCEPTED"
  BY Monotone
<1>2. \A artifact \in Artifacts : artifact.cases \subseteq Ids
  BY DEF Artifacts
<1>3. ASSUME NEW r \in Runs PROVE listed[r].cases \subseteq Ids
  <2>1. listed[r] \in Artifacts \/ listed[r] = NoArtifact
    BY DEF TypeOK
  <2> QED
    BY <1>2, <2>1 DEF NoArtifact
<1>4. ASSUME NEW p \in Procs, Step(p), NEW q \in Procs, pc'[q] \in {"collected", "publish"}
      PROVE  \A i \in view'[q].cases : cases'[i].status = "ACCEPTED"
  <2>1. CASE pc[q] \in {"collected", "publish"} /\ view'[q].cases = view[q].cases
    <3>1. view[q].cases \subseteq Ids
      BY <1>2, <2>1 DEF Memory
    <3> QED
      BY <1>1, <2>1, <3>1 DEF Listed
  <2>2. CASE CollectCases(p) /\ q = p
    BY <2>2 DEF CollectCases, TypeOK
  <2>3. CASE CollectBlockers(p) /\ q = p
    <3>1. view[p] \in Artifacts
      BY <2>3 DEF CollectBlockers, Memory
    <3>2. view'[p].cases = view[p].cases
      BY <2>3, <3>1 DEF CollectBlockers, TypeOK, Artifacts
    <3> QED
      BY <2>1, <2>3, <3>2 DEF CollectBlockers
  <2>4. CASE q = p /\ ~CollectCases(p) /\ ~CollectBlockers(p)
    <3>1. ASSUME Stop(p) \/ Advance(p) PROVE FALSE
      BY <1>4, <2>4, <3>1 DEF Stop, Advance, Goto, TypeOK
    <3> QED
      BY <1>4, <2>4, <3>1 DEF Step, Start, BuildManifest, SaveManifest, ManifestChanged, AllocateFound,
         AllocateMissing, NextVal, Exhausted, Insert, InsertLost, Get, Reuse, Reserve, Accept, Overtaken,
         Revise, Block, ReadBlocked, LeaveBlocked, Unreserve, Publish, Crash, Goto, TypeOK
  <2>5. CASE q # p
    BY <1>4, <2>1, <2>5, Frame
  <2> QED
    BY <2>2, <2>3, <2>4, <2>5
<1>5. ASSUME NEW p \in Procs, Step(p), NEW r \in Runs
      PROVE  \A i \in listed'[r].cases : cases'[i].status = "ACCEPTED"
  <2>1. CASE listed'[r] = listed[r]
    BY <1>1, <1>3, <2>1 DEF Listed
  <2>2. CASE Publish(p) /\ r = run[p]
    <3>1. view[p] \in Artifacts /\ listed'[r] = view[p]
      BY <2>2 DEF Publish, Memory, TypeOK
    <3> QED
      BY <1>1, <1>2, <2>2, <3>1 DEF Listed, Publish
  <2>3. CASE ~(Publish(p) /\ r = run[p])
    <3>1. listed'[r] = listed[r]
      BY <1>5, <2>3 DEF Step, Start, BuildManifest, SaveManifest, ManifestChanged, AllocateFound,
         AllocateMissing, NextVal, Exhausted, Insert, InsertLost, Get, Reuse, Reserve, Accept, Overtaken,
         Revise, Block, ReadBlocked, LeaveBlocked, Unreserve, CollectCases, CollectBlockers, Publish, Crash, TypeOK
    <3> QED
      BY <2>1, <3>1
  <2> QED
    BY <2>2, <2>3
<1>6. CASE \E p \in Procs : Step(p)
  BY <1>4, <1>5, <1>6 DEF Listed
<1>7. CASE ResetRows \/ UNCHANGED vars
  <2>1. UNCHANGED <<pc, view, listed, cases>>
    BY <1>7 DEF ResetRows, proc, vars
  <2> QED
    BY <2>1 DEF Listed
<1>8. CASE ResetFiles
  <2>1. UNCHANGED <<pc, view, cases>> /\ \A r \in Runs : listed'[r].cases = {}
    BY <1>8 DEF ResetFiles, proc, NoArtifact
  <2> QED
    BY <2>1 DEF Listed
<1> QED
  BY <1>6, <1>7, <1>8 DEF Next

LEMMA CoveredStep ==
  ASSUME TypeOK, Memory, Progress, Covered, [Next]_vars, TypeOK'
  PROVE  Covered'
<1>1. ASSUME NEW p \in Procs, Step(p), ~overlapped', NEW r \in Runs, listed'[r] # NoArtifact, NEW k \in Keys
      PROVE  Covers(listed[r], k)'
  <2>1. ~overlapped
    BY <1>1, Monotone DEF Next
  <2>2. \A i : Has(i, k) => Has(i, k)'
    BY <1>1, SettledKept DEF Has
  <2>3. CASE listed'[r] = listed[r]
    <3>1. Covers(listed[r], k)
      BY <1>1, <2>1, <2>3 DEF Covered
    <3> QED
      BY <2>2, <2>3, <3>1 DEF Covers
  <2>4. CASE Publish(p) /\ r = run[p]
    <3>1. listed'[r] = view[p]
      BY <2>4 DEF Publish, TypeOK
    <3>2. Covers(view[p], k)
      BY <2>1, <2>4 DEF Publish, Progress
    <3> QED
      BY <2>2, <3>1, <3>2 DEF Covers
  <2>5. CASE ~(Publish(p) /\ r = run[p])
    <3>1. listed'[r] = listed[r]
      BY <1>1, <2>5 DEF Step, Start, BuildManifest, SaveManifest, ManifestChanged, AllocateFound,
         AllocateMissing, NextVal, Exhausted, Insert, InsertLost, Get, Reuse, Reserve, Accept, Overtaken,
         Revise, Block, ReadBlocked, LeaveBlocked, Unreserve, CollectCases, CollectBlockers, Publish, Crash, TypeOK
    <3> QED
      BY <2>3, <3>1
  <2> QED
    BY <2>4, <2>5
<1>2. CASE \E p \in Procs : Step(p)
  BY <1>1, <1>2, Zenon DEF Covered
<1>3. CASE ResetRows \/ UNCHANGED vars
  <2>1. UNCHANGED <<listed, rows>>
    BY <1>3 DEF ResetRows, identity, vars
  <2>2. ASSUME ~overlapped', NEW r \in Runs, listed'[r] # NoArtifact, NEW k \in Keys
        PROVE  Covers(listed[r], k)'
    <3>1. ~overlapped
      BY <2>2, Monotone
    <3>2. Covers(listed[r], k)
      BY <2>1, <2>2, <3>1 DEF Covered
    <3> QED
      BY <2>1, <3>2 DEF Covers, Has
  <2> QED
    BY <2>2, Zenon DEF Covered
<1>4. CASE ResetFiles
  <2>1. \A r \in Runs : listed'[r] = NoArtifact
    BY <1>4 DEF ResetFiles
  <2> QED
    BY <2>1 DEF Covered
<1> QED
  BY <1>2, <1>3, <1>4 DEF Next
-----------------------------------------------------------------------------
LEMMA InductiveStep == IInv /\ [Next]_vars => IInv'
<1> SUFFICES ASSUME IInv, [Next]_vars PROVE IInv'
  OBVIOUS
<1> USE DEF IInv
<1>1. TypeOK'
  BY TypesStep
<1>2. Seated' /\ Memory'
  BY <1>1, SeatedStep, MemoryStep
<1>3. Numbers' /\ OneToOne' /\ AnswersAgree'
  BY NumbersStep, AnswersStep
<1>4. RunsAgreeOnInputs' /\ AssociatedAsFrozen' /\ Backed'
  BY FrozenStep, AssociatedStep
<1>5. Progress' /\ Listed' /\ Covered'
  BY <1>1, ProgressStep, ListedStep, CoveredStep
<1> QED
  BY <1>1, <1>2, <1>3, <1>4, <1>5

\* The inductive invariant holds of every state of every behaviour.
THEOREM Invariance == Spec => []IInv
<1> QED
  BY InitInv, InductiveStep, PTL DEF Spec

\* Types, and with them that no number beyond the capacity is ever drawn (NextVal).
THEOREM TypeCorrect == Spec => []TypeOK
<1>1. IInv => TypeOK
  BY DEF IInv
<1> QED
  BY <1>1, Invariance, PTL

\* However the allocations of any number of invocations interleave and die, each
\* ends with the number that is stored for its key, no number drawn is in use,
\* and no two rows share a number or a key (allocate_or_get_tc_id).
THEOREM NumbersUnique == Spec => [](AnswersAgree /\ NumbersAreFresh /\ OneToOne)
<1>1. IInv => AnswersAgree /\ NumbersAreFresh /\ OneToOne
  BY DEF IInv, Numbers
<1> QED
  BY <1>1, Invariance, PTL

\* Invocations of one run work on the inputs that the run froze (save_frozen_manifest).
THEOREM InputsAgree == Spec => []RunsAgreeOnInputs
<1>1. IInv => RunsAgreeOnInputs
  BY DEF IInv
<1> QED
  BY <1>1, Invariance, PTL

\* What a run is associated with was accepted under its frozen inputs and still is.
THEOREM AssociationsHold == Spec => []AssociatedAsFrozen
<1>1. IInv => AssociatedAsFrozen
  BY DEF IInv
<1> QED
  BY <1>1, Invariance, PTL

\* No scenario is missing from the artifact, whoever of a run wrote it last.
THEOREM ArtifactWhole == Spec => []ArtifactCoversRun
<1>1. IInv => ArtifactCoversRun
  <2> SUFFICES ASSUME IInv PROVE ArtifactCoversRun
    OBVIOUS
  <2>1. ASSUME ~overlapped, NEW r \in Runs, listed[r] # NoArtifact
        PROVE  /\ \A i \in listed[r].cases : cases[i].status = "ACCEPTED"
               /\ \A k \in Keys : \/ k \in listed[r].blocked
                                  \/ \E row \in rows : row.key = k /\ row.id \in listed[r].cases
    <3>1. \A k \in Keys : Covers(listed[r], k)
      BY <2>1 DEF IInv, Covered
    <3> QED
      BY <3>1 DEF IInv, Listed, Covers, Has
  <2> QED
    BY <2>1, Zenon DEF ArtifactCoversRun
<1> QED
  BY <1>1, Invariance, PTL
-----------------------------------------------------------------------------
\* A save accepts a case that was not accepted, or changes nothing accepted.
LEMMA SaveRefines ==
  ASSUME TypeOK, NEW p \in Procs, NEW new \in Records, id[p] \in Ids, Save(p, new),
         [id |-> id[p], key |-> key(p)] \in rows, rows' = rows
  PROVE  [Registry!Next]_<<rows, accepted>>
<1>0. cases \in [Ids -> Records] /\ cases' = [cases EXCEPT ![id[p]] = new]
      /\ (cases[id[p]].status = "ACCEPTED" => cases[id[p]] = new)
  BY DEF TypeOK, Save, Legal
<1>1. CASE cases[id[p]].status = "ACCEPTED"
  <2>1. cases' = cases
    BY <1>0, <1>1
  <2> QED
    BY <2>1 DEF accepted
<1>2. CASE cases[id[p]].status # "ACCEPTED" /\ new.status # "ACCEPTED"
  <2>1. {j \in Ids : cases'[j].status = "ACCEPTED"} = {j \in Ids : cases[j].status = "ACCEPTED"}
    BY <1>0, <1>2
  <2>2. \A i \in {j \in Ids : cases[j].status = "ACCEPTED"} : cases'[i] = cases[i]
    BY <1>0, <1>2
  <2>3. accepted' = accepted
    BY <2>1, <2>2 DEF accepted
  <2> QED
    BY <2>3
<1>3. CASE cases[id[p]].status # "ACCEPTED" /\ new.status = "ACCEPTED"
  <2>1. new \in AcceptedRecords
    BY <1>3, RecordFacts
  <2>2. \A row \in accepted : row.id # id[p]
    BY <1>3 DEF accepted
  <2>3. {j \in Ids : cases'[j].status = "ACCEPTED"} = {j \in Ids : cases[j].status = "ACCEPTED"} \cup {id[p]}
    BY <1>0, <1>3
  <2>4. cases'[id[p]] = new /\ \A i \in {j \in Ids : cases[j].status = "ACCEPTED"} : cases'[i] = cases[i]
    BY <1>0, <1>3
  <2>5. accepted' = accepted \cup {[id |-> id[p], record |-> new]}
    BY <2>3, <2>4 DEF accepted
  <2>6. \E row \in rows : row.id = id[p]
    <3>1. [id |-> id[p], key |-> key(p)].id = id[p]
      OBVIOUS
    <3> QED
      BY <3>1
  <2>7. Registry!Accept(id[p], new)
    BY <2>2, <2>5, <2>6 DEF Registry!Accept
  <2> QED
    BY <2>1, <2>7 DEF Registry!Next
<1> QED
  BY <1>1, <1>2, <1>3

\* Each step of the tables is a step of the registry or changes nothing it sees.
LEMMA RegistryStep == IInv /\ [Next]_vars => [Registry!Next]_<<rows, accepted>>
<1> SUFFICES ASSUME IInv, [Next]_vars PROVE [Registry!Next]_<<rows, accepted>>
  OBVIOUS
<1> USE DEF IInv
<1>1. ASSUME UNCHANGED <<rows, cases>> PROVE UNCHANGED <<rows, accepted>>
  BY <1>1 DEF accepted
<1>2. ASSUME NEW p \in Procs, Step(p) PROVE [Registry!Next]_<<rows, accepted>>
  <2>0. pc[p] \in Holding => id[p] \in Ids /\ [id |-> id[p], key |-> key(p)] \in rows
    BY DEF Memory, AnswersAgree
  <2>1. CASE Insert(p)
    <3>1. id[p] \in Ids /\ key(p) \in Keys
      BY <2>1, OrderFacts DEF Insert, Memory, Seated, Allocating, key
    <3>2. UNCHANGED accepted
      BY <2>1 DEF Insert, accepted
    <3>3. Registry!Assign(id[p], key(p))
      BY <2>1, <3>2 DEF Insert, Registry!Assign
    <3> QED
      BY <3>1, <3>3 DEF Registry!Next
  <2>2. CASE Reuse(p)
    BY <2>0, <2>2, SaveRefines DEF Reuse, Holding, identity, TypeOK
  <2>3. CASE Reserve(p)
    <3>1. Reserved(input[p]) \in Records
      BY <2>3, RecordFacts DEF Reserve, Memory
    <3> QED
      BY <2>0, <2>3, <3>1, SaveRefines DEF Reserve, Holding, identity
  <2>4. CASE Accept(p)
    <3>1. PICK o \in Outputs : Save(p, Accepted(input[p], o))
      BY <2>4 DEF Accept
    <3>2. Accepted(input[p], o) \in Records
      BY <2>4, RecordFacts DEF Accept, Memory
    <3> QED
      BY <2>0, <2>4, <3>1, <3>2, SaveRefines DEF Accept, Holding, identity
  <2>5. CASE Unreserve(p)
    <3>1. Blocked(seen[p].input) \in Records
      BY <2>5, RecordFacts DEF Unreserve, Memory
    <3> QED
      BY <2>0, <2>5, <3>1, SaveRefines DEF Unreserve, Holding, identity
  <2>6. CASE ~(Insert(p) \/ Reuse(p) \/ Reserve(p) \/ Accept(p) \/ Unreserve(p))
    <3>1. UNCHANGED <<rows, cases>>
      BY <1>2, <2>6 DEF Step, identity, Start, BuildManifest, SaveManifest, ManifestChanged, AllocateFound,
         AllocateMissing, NextVal, Exhausted, InsertLost, Get, Overtaken,
         Revise, Block, ReadBlocked, LeaveBlocked, CollectCases, CollectBlockers, Publish, Crash
    <3> QED
      BY <1>1, <3>1
  <2> QED
    BY <2>1, <2>2, <2>3, <2>4, <2>5, <2>6
<1>3. CASE ResetRows \/ ResetFiles \/ UNCHANGED vars
  BY <1>1, <1>3 DEF ResetRows, ResetFiles, identity, vars
<1> QED
  BY <1>2, <1>3 DEF Next

\* The tables implement the registry: a number is assigned once and what is
\* accepted under it is permanent, through races, crashes and resets.
THEOREM Refinement == Spec => RegistrySpec
<1>1. Init => Registry!Init
  <2> SUFFICES ASSUME Init PROVE Registry!Init
    OBVIOUS
  <2>1. \A i \in Ids : cases[i].status # "ACCEPTED"
    BY RecordFacts DEF Init
  <2>2. rows = {} /\ accepted = {}
    BY <2>1 DEF Init, accepted
  <2> QED
    BY <2>2 DEF Registry!Init
<1> QED
  BY <1>1, Invariance, RegistryStep, PTL DEF Spec, RegistrySpec, Registry!Spec
=============================================================================
