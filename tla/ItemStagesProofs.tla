-------------------------- MODULE ItemStagesProofs --------------------------
(***************************************************************************)
(* Theorems about ItemStages, for every list of requirements, every choice *)
(* of keys and any number of invocations and resets: the rows an artifact  *)
(* names are there; only the first item of an invocation can be misplaced; *)
(* a completed stage has published, and attributes a scenario to its own   *)
(* story; a partition keeps its id.                                        *)
(***************************************************************************)
EXTENDS ItemStages, SequenceTheorems, FiniteSetTheorems, TLAPS

\* The tables are functions of the stage.
Tables == DOMAIN master = Stages /\ DOMAIN rows = Stages

RowsInv == Tables /\ ArtifactsHaveRows

LEMMA RowsInit == Init => RowsInv
  BY DEF Init, RowsInv, Tables, ArtifactsHaveRows

\* Only Persist and ResetRows touch the tables.
LEMMA RowsStep == RowsInv /\ [Next]_vars => RowsInv'
<1> SUFFICES ASSUME RowsInv, [Next]_vars PROVE RowsInv'
  OBVIOUS
<1> USE DEF RowsInv, Tables, ArtifactsHaveRows
<1>1. CASE UNCHANGED <<master, rows>>
  BY <1>1 DEF Ids
<1>2. ASSUME NEW s \in Stages, Persist(s) PROVE RowsInv'
  <2>1. /\ master' = [master EXCEPT ![s] = built[s]]
        /\ rows' = [rows EXCEPT ![s] = @ \cup Ids(built[s])]
        /\ s = 3 => \A n \in DOMAIN built[3] : built[3][n].items \subseteq rows[2]
    BY <1>2 DEF Persist
  <2>2. Tables'
    BY <2>1
  <2>3. \A t \in Stages : rows[t] \subseteq rows'[t]
    BY <2>1
  <2>4. ASSUME NEW t \in Stages, master'[t] # None
        PROVE  /\ Ids(master'[t]) \subseteq rows'[t]
               /\ t = 3 => \A n \in DOMAIN master'[3] : master'[3][n].items \subseteq rows'[2]
    <3>1. CASE t = s
      BY <2>1, <2>3, <3>1 DEF Stages
    <3>2. CASE t # s
      <4>1. master'[t] = master[t]
        BY <2>1, <3>2
      <4> QED
        BY <2>3, <2>4, <4>1 DEF Stages
    <3> QED
      BY <3>1, <3>2
  <2> QED
    BY <2>2, <2>4 DEF Ids
<1>3. ASSUME NEW r \in Stages, ResetRows(r) PROVE RowsInv'
  <2>1. /\ master' = [s \in Stages |-> IF s >= r THEN None ELSE master[s]]
        /\ rows' = [s \in Stages |-> IF s >= r THEN {} ELSE rows[s]]
    BY <1>3 DEF ResetRows, From
  <2>2. \A s \in Stages : master'[s] # None =>
          master'[s] = master[s] /\ rows'[s] = rows[s] /\ rows'[2] = rows[2]
    BY <2>1 DEF Stages
  <2> QED
    BY <2>1, <2>2 DEF Ids
<1>4. ASSUME NEW s \in Stages, Start(s) \/ Advance(s) PROVE RowsInv'
  <2>1. Persist(s) \/ UNCHANGED <<master, rows>>
    BY <1>4 DEF Start, Advance, LoadRequirements, LoadFile, LoadMaster, Restore, CheckStories,
       Retrieve, Generate, RecordResult, Update, BuildArtifact, Write, ExitGate, Complete,
       Fail, Crash, tables
  <2> QED
    BY <1>1, <1>2, <2>1
<1>5. CASE LoseFile \/ ResetFiles
  BY <1>1, <1>5 DEF LoseFile, ResetFiles, tables
<1>6. CASE UNCHANGED vars
  BY <1>1, <1>6 DEF vars, tables
<1> QED
  BY <1>3, <1>4, <1>5, <1>6 DEF Next

\* Whatever overlaps, a stored artifact names rows that are there, and its
\* scenarios are linked to stories that are there (persist_test_scenarios,
\* delete_stage_run).
THEOREM RowsPresent == Spec => []ArtifactsHaveRows
<1>1. RowsInv => ArtifactsHaveRows
  BY DEF RowsInv
<1> QED
  BY <1>1, RowsInit, RowsStep, PTL DEF Spec
-----------------------------------------------------------------------------
(***************************************************************************)
(* The loop.  Once an item has been recorded, what the channels hold is    *)
(* the current item's own; before any work, memory holds nothing.          *)
(***************************************************************************)

IsSeq(q) == \E n \in Nat : q \in [1 .. n -> {q[k] : k \in DOMAIN q}]

IsResponse(r) == r = None \/ IsSeq(r.keys)

\* What a channel record is; the values of its fields are any.
IsChannels(c) ==
  /\ c = [index |-> c.index, context |-> c.context, response |-> c.response,
          candidates |-> c.candidates]
  /\ c.index \in Nat \ {0} /\ IsSeq(c.candidates) /\ IsResponse(c.response)

First(s) == Items(s)[1].id

\* Only the first item may have what is not its own.
CurrentOwn(s, c, where) ==
  c.index = 1 \/ LET item == Items(s)[c.index].id IN
    /\ where = "retrieve" => c.context = None /\ c.response = None
    /\ where = "generate" => c.context = item /\ c.response = None
    /\ where = "record" => c.response.about = item /\ c.response.context = item

LoopOf(s) ==
  /\ IsChannels(mem[s])
  /\ IsResponse(saved[s].response)
  /\ pc[s] \in {"down", "load", "restore", "check"} => mem[s] = NoChannels
  /\ pc[s] = "record" => IsSeq(mem[s].response.keys)
  /\ CurrentOwn(s, mem[s], pc[s])
  /\ \A n \in DOMAIN mem[s].candidates :
       ~OwnCandidate(mem[s].candidates[n]) => mem[s].candidates[n].item = First(s)

Loop == /\ DOMAIN pc = Stages /\ DOMAIN mem = Stages /\ DOMAIN saved = Stages
        /\ \A s \in Stages : LoopOf(s)

LEMMA LoopInit == Init => Loop
<1> SUFFICES ASSUME Init PROVE Loop
  OBVIOUS
<1>1. IsSeq(<<>>)
  BY DEF IsSeq
<1>2. IsChannels(NoChannels)
  BY <1>1 DEF IsChannels, NoChannels, IsResponse
<1> QED
  BY <1>2 DEF Init, Loop, LoopOf, CurrentOwn, NoChannels, Carried, IsResponse

\* Reading the parts of a stage's invariant as the next state has them.
Same(t) == /\ mem'[t] = mem[t] /\ pc'[t] = pc[t] /\ saved'[t] = saved[t]
           /\ Items(t)' = Items(t)

LEMMA Untouched == ASSUME NEW t \in Stages, LoopOf(t), Same(t) PROVE LoopOf(t)'
<1>1. /\ mem'[t] = mem[t] /\ pc'[t] = pc[t] /\ saved'[t] = saved[t]
      /\ Items(t)' = Items(t)
  BY DEF Same
<1>2. First(t)' = First(t) /\ Current(t)' = Current(t)
  BY <1>1 DEF First, Current
<1>3. CurrentOwn(t, mem[t], pc[t]) <=> CurrentOwn(t, mem[t], pc[t])'
  BY <1>1, <1>2 DEF CurrentOwn
<1> QED
  BY <1>1, <1>2, <1>3 DEF LoopOf, CurrentOwn

\* A step of one stage keeps the invariant if it keeps that stage's part.
LEMMA OneStage ==
  ASSUME Loop, NEW s \in Stages, LoopOf(s)',
         DOMAIN pc' = Stages, DOMAIN mem' = Stages, DOMAIN saved' = Stages,
         \A t \in Stages : t # s => Same(t)
  PROVE  Loop'
<1>1. ASSUME NEW t \in Stages PROVE LoopOf(t)'
  <2>1. CASE t = s
    BY <2>1
  <2>2. CASE t # s
    BY <2>2, Untouched DEF Loop
  <2> QED
    BY <2>1, <2>2
<1> QED
  BY <1>1 DEF Loop

\* Leaving the process: nothing is in memory.
LEMMA Stopped == ASSUME NEW s \in Stages, Loop, Stop(s), UNCHANGED <<saved, source>> PROVE Loop'
<1>1. /\ pc' = [pc EXCEPT ![s] = "down"] /\ mem' = [mem EXCEPT ![s] = NoChannels]
      /\ s = 2 => loaded' = loaded
  BY DEF Stop, Goto, Stages
<1>2. DOMAIN pc' = Stages /\ DOMAIN mem' = Stages /\ DOMAIN saved' = Stages
  BY <1>1 DEF Loop
<1>3. \A t \in Stages : t # s => Same(t)
  BY <1>1 DEF Same, Items, Stages
<1>4. IsChannels(NoChannels)
  <2>1. IsSeq(<<>>)
    BY DEF IsSeq
  <2> QED
    BY <2>1 DEF IsChannels, NoChannels, IsResponse
<1>5. mem'[s] = NoChannels /\ pc'[s] = "down" /\ saved'[s] = saved[s]
  BY <1>1 DEF Loop
<1>6. LoopOf(s)'
  BY <1>4, <1>5 DEF Loop, LoopOf, CurrentOwn, NoChannels
<1> QED
  BY <1>2, <1>3, <1>6, OneStage

\* No candidates yet, and the index of the first item.
LEMMA Fresh ==
  ASSUME NEW s \in Stages, IsChannels(mem'[s]), mem'[s].index = 1, mem'[s].candidates = <<>>,
         IsResponse(saved'[s].response), pc'[s] # "record",
         pc'[s] \in {"down", "load", "restore", "check"} => mem'[s] = NoChannels
  PROVE  LoopOf(s)'
BY DEF LoopOf, CurrentOwn

LEMMA EmptyChannels == IsChannels(NoChannels)
<1>1. IsSeq(<<>>)
  BY DEF IsSeq
<1> QED
  BY <1>1 DEF IsChannels, NoChannels, IsResponse

\* A step before the loop.
LEMMA BeforeLoop ==
  ASSUME Loop, NEW s \in Stages, NEW where \in {"load", "restore", "check"},
         pc[s] \in {"down", "load", "restore", "check"},
         Goto(s, where), UNCHANGED <<mem, saved, source>>, s = 3 \/ UNCHANGED loaded
  PROVE  Loop'
<1>1. mem'[s] = NoChannels /\ pc'[s] = where /\ saved'[s] = saved[s]
  BY DEF Loop, LoopOf, Goto
<1>2. LoopOf(s)'
  BY <1>1, EmptyChannels, Fresh DEF NoChannels, Loop, LoopOf
<1>3. \A t \in Stages : t # s => Same(t)
  BY DEF Same, Items, Stages, Goto, Loop
<1>4. DOMAIN pc' = Stages /\ DOMAIN mem' = Stages /\ DOMAIN saved' = Stages
  BY DEF Loop, Goto
<1> QED
  BY <1>2, <1>3, <1>4, OneStage

LEMMA Invoked ==
  ASSUME Loop, NEW s \in Stages, NEW items, Invoke(s, items), UNCHANGED <<saved, source, loaded>>
  PROVE  Loop'
<1>1. /\ DOMAIN pc' = Stages /\ DOMAIN mem' = Stages /\ DOMAIN saved' = Stages
      /\ \A t \in Stages : t # s => Same(t)
  BY DEF Loop, Invoke, Goto, Same, Items
<1>2. /\ pc'[s] \in {"build", "retrieve"} /\ saved'[s] = saved[s]
      /\ \/ mem'[s] = NoChannels
         \/ mem'[s] = [index |-> 1, context |-> saved[s].context, response |-> saved[s].response,
                       candidates |-> <<>>]
  BY DEF Loop, Invoke, Goto, NoChannels
<1>3. IsSeq(<<>>) /\ IsResponse(saved[s].response)
  BY EmptyChannels DEF IsChannels, NoChannels, Loop, LoopOf
<1>4. IsChannels(mem'[s]) /\ mem'[s].index = 1 /\ mem'[s].candidates = <<>>
  BY <1>2, <1>3, EmptyChannels DEF IsChannels, NoChannels
<1>5. LoopOf(s)'
  BY <1>2, <1>3, <1>4, Fresh
<1> QED
  BY <1>1, <1>5, OneStage

\* A step after the loop keeps the channels.
LEMMA AfterLoop ==
  ASSUME Loop, NEW s \in Stages, NEW where \in {"persist", "write", "gate", "complete"},
         Goto(s, where), UNCHANGED <<mem, saved, source, loaded>>
  PROVE  Loop'
<1>1. /\ DOMAIN pc' = Stages /\ DOMAIN mem' = Stages /\ DOMAIN saved' = Stages
      /\ \A t \in Stages : t # s => Same(t)
  BY DEF Loop, Goto, Same, Items
<1>2. /\ mem'[s] = mem[s] /\ saved'[s] = saved[s] /\ pc'[s] = where /\ First(s)' = First(s)
  BY DEF Loop, Goto, First, Items
<1>3. LoopOf(s)'
  BY <1>2 DEF Loop, LoopOf, CurrentOwn
<1> QED
  BY <1>1, <1>3, OneStage
-----------------------------------------------------------------------------
\* A node of the loop: what is left to show is about the channels it returns.
LEMMA Updated ==
  ASSUME Loop, NEW s \in Stages, NEW c, NEW where \in {"retrieve", "generate", "record", "build"},
         Update(s, c, where),
         IsChannels(c), where = "record" => IsSeq(c.response.keys), CurrentOwn(s, c, where),
         \A n \in DOMAIN c.candidates : ~OwnCandidate(c.candidates[n]) => c.candidates[n].item = First(s)
  PROVE  Loop'
<1>1. /\ mem' = [mem EXCEPT ![s] = c] /\ saved' = [saved EXCEPT ![s] = Carried(c)]
      /\ pc' = [pc EXCEPT ![s] = where] /\ loaded' = loaded /\ source' = source
  BY DEF Update, Goto, maintenance
<1>2. /\ DOMAIN pc' = Stages /\ DOMAIN mem' = Stages /\ DOMAIN saved' = Stages
      /\ \A t \in Stages : t # s => Same(t)
  BY <1>1 DEF Loop, Same, Items
<1>3. mem'[s] = c /\ saved'[s] = Carried(c) /\ pc'[s] = where /\ Items(s)' = Items(s)
  BY <1>1 DEF Loop, Items
<1>4. First(s)' = First(s) 
  BY <1>3 DEF First
<1>5. IsResponse(saved'[s].response)
  BY <1>3 DEF Carried, IsChannels
<1>6. CurrentOwn(s, mem[s], pc[s])'
  BY <1>3 DEF CurrentOwn
<1>7. \A n \in DOMAIN mem'[s].candidates :
        ~OwnCandidate(mem'[s].candidates[n]) => mem'[s].candidates[n].item = First(s)'
  BY <1>3, <1>4 DEF OwnCandidate
<1>8. LoopOf(s)'
  BY <1>3, <1>5, <1>6, <1>7 DEF LoopOf
<1> QED
  BY <1>2, <1>8, OneStage

LEMMA RetrieveKeepsLoop == ASSUME Loop, NEW s \in Stages, Retrieve(s) PROVE Loop'
<1> DEFINE c == [mem[s] EXCEPT !.context = IF @ = None THEN Current(s).id ELSE @]
<1>1. pc[s] = "retrieve" /\ Update(s, c, "generate")
  BY DEF Retrieve
<1>2. IsChannels(mem[s]) /\ CurrentOwn(s, mem[s], "retrieve")
  BY <1>1 DEF Loop, LoopOf
<1>3. c = [index |-> mem[s].index, response |-> mem[s].response, candidates |-> mem[s].candidates,
           context |-> IF mem[s].context = None THEN Current(s).id ELSE mem[s].context]
  BY <1>2 DEF IsChannels
<1>4. IsChannels(c)
  BY <1>2, <1>3 DEF IsChannels
<1>5. CurrentOwn(s, c, "generate")
  BY <1>2, <1>3 DEF CurrentOwn, Current
<1>6. \A n \in DOMAIN c.candidates : ~OwnCandidate(c.candidates[n]) => c.candidates[n].item = First(s)
  BY <1>3 DEF Loop, LoopOf
<1> HIDE DEF c
<1> QED
  BY <1>1, <1>4, <1>5, <1>6, Updated

LEMMA GenerateKeepsLoop == ASSUME Loop, NEW s \in Stages, Generate(s) PROVE Loop'
<1>1. /\ pc[s] = "generate" /\ IsChannels(mem[s]) /\ CurrentOwn(s, mem[s], "generate")
      /\ \A n \in DOMAIN mem[s].candidates :
           ~OwnCandidate(mem[s].candidates[n]) => mem[s].candidates[n].item = First(s)
  BY DEF Generate, Loop, LoopOf
<1>2. CASE mem[s].response # None /\ Update(s, mem[s], "record")
  <2>1. CurrentOwn(s, mem[s], "record")
    BY <1>1, <1>2 DEF CurrentOwn
  <2>2. IsSeq(mem[s].response.keys)
    BY <1>1, <1>2 DEF IsChannels, IsResponse
  <2> QED
    BY <1>1, <1>2, <2>1, <2>2, Updated
<1>3. ASSUME NEW keys \in Answers(Keys(s)), mem[s].response = None,
             Update(s, [mem[s] EXCEPT !.response =
               [about |-> Current(s).id, src |-> Current(s).src,
                context |-> mem[s].context, keys |-> keys]], "record")
      PROVE  Loop'
  <2> DEFINE answer == [about |-> Current(s).id, src |-> Current(s).src,
                        context |-> mem[s].context, keys |-> keys]
             c == [mem[s] EXCEPT !.response = answer]
  <2>1. c = [index |-> mem[s].index, response |-> answer, candidates |-> mem[s].candidates,
             context |-> mem[s].context]
    BY <1>1 DEF IsChannels
  <2>2. IsSeq(answer.keys)
    <3>1. PICK n \in 0 .. MaxCandidates : keys \in [1 .. n -> Keys(s)]
      BY DEF Answers
    <3>2. n \in Nat
      BY ConstantsAssumption
    <3> QED
      BY <3>1, <3>2 DEF IsSeq
  <2>3. IsChannels(c)
    BY <1>1, <2>1, <2>2 DEF IsChannels, IsResponse
  <2>5. CurrentOwn(s, c, "record")
    BY <1>1, <2>1 DEF CurrentOwn, Current
  <2>6. \A n \in DOMAIN c.candidates : ~OwnCandidate(c.candidates[n]) => c.candidates[n].item = First(s)
    BY <1>1, <2>1
  <2>7. Update(s, c, "record") /\ IsSeq(c.response.keys)
    BY <1>3, <2>1, <2>2
  <2> HIDE DEF c
  <2> QED
    BY <2>3, <2>5, <2>6, <2>7, Updated
<1> QED
  BY <1>2, <1>3 DEF Generate

\* What is in a concatenation is in one of its parts.
ComesFrom(q, a, b) == \A n \in DOMAIN q : \/ \E k \in DOMAIN a : q[n] = a[k]
                                      \/ \E k \in DOMAIN b : q[n] = b[k]

LEMMA Joined ==
  ASSUME NEW a, NEW b, IsSeq(a), IsSeq(b)
  PROVE  IsSeq(a \o b) /\ ComesFrom(a \o b, a, b)
<1> DEFINE E == {a[k] : k \in DOMAIN a} \cup {b[k] : k \in DOMAIN b}
<1>1. a \in Seq(E) /\ b \in Seq(E)
  <2>1. PICK m \in Nat : a \in [1 .. m -> {a[k] : k \in DOMAIN a}]
    BY DEF IsSeq
  <2>2. PICK n \in Nat : b \in [1 .. n -> {b[k] : k \in DOMAIN b}]
    BY DEF IsSeq
  <2>3. a \in [1 .. m -> E] /\ b \in [1 .. n -> E]
    BY <2>1, <2>2
  <2> HIDE DEF E
  <2> QED
    BY <2>3, SeqDef
<1>2. /\ a \o b \in Seq(E) /\ Len(a \o b) = Len(a) + Len(b)
      /\ \A n \in 1 .. Len(a) + Len(b) : (a \o b)[n] = IF n <= Len(a) THEN a[n] ELSE b[n - Len(a)]
  <2> HIDE DEF E
  <2> QED
    BY <1>1, ConcatProperties
<1>3. /\ Len(a) \in Nat /\ Len(b) \in Nat
      /\ DOMAIN a = 1 .. Len(a) /\ DOMAIN b = 1 .. Len(b)
      /\ DOMAIN (a \o b) = 1 .. Len(a) + Len(b)
  <2> HIDE DEF E
  <2> QED
    BY <1>1, <1>2
<1>4. \A n \in DOMAIN (a \o b) : \/ n \in DOMAIN a /\ (a \o b)[n] = a[n]
                                 \/ n - Len(a) \in DOMAIN b /\ (a \o b)[n] = b[n - Len(a)]
  BY <1>2, <1>3
<1>5. IsSeq(a \o b)
  <2> DEFINE ab == a \o b
  <2>1. ab \in Seq(E)
    BY <1>2
  <2>2. Len(ab) \in Nat /\ ab \in [1 .. Len(ab) -> {ab[k] : k \in DOMAIN ab}]
    <3> HIDE DEF E, ab
    <3>1. Len(ab) \in Nat /\ ab \in [1 .. Len(ab) -> E] /\ DOMAIN ab = 1 .. Len(ab)
      BY <2>1, LenProperties
    <3> QED
      BY <3>1
  <2> HIDE DEF ab, E
  <2> QED
    BY <2>2 DEF IsSeq, ab
<1> QED
  BY <1>4, <1>5 DEF ComesFrom

LEMMA RecordKeepsLoop == ASSUME Loop, NEW s \in Stages, RecordResult(s) PROVE Loop'
<1> DEFINE new == Candidates(Current(s).id, mem[s].response)
           old == mem[s].candidates
           c == [index |-> mem[s].index + 1, context |-> None, response |-> None,
                 candidates |-> old \o new]
<1>1. pc[s] = "record" /\ Update(s, c, AfterItem(s)) /\ AfterItem(s) \in {"build", "retrieve"}
  BY DEF RecordResult, AfterItem
<1>2. /\ IsChannels(mem[s]) /\ CurrentOwn(s, mem[s], "record") /\ IsSeq(mem[s].response.keys)
      /\ \A n \in DOMAIN old : ~OwnCandidate(old[n]) => old[n].item = First(s)
  BY <1>1 DEF Loop, LoopOf
<1>3. IsSeq(new)
  <2>1. PICK n \in Nat : DOMAIN mem[s].response.keys = 1 .. n
    BY <1>2 DEF IsSeq
  <2> QED
    BY <2>1 DEF IsSeq, Candidates
<1>4. IsSeq(old) /\ mem[s].index \in Nat \ {0}
  BY <1>2 DEF IsChannels
<1>5. \A k \in DOMAIN new : ~OwnCandidate(new[k]) => new[k].item = First(s)
  <2>1. \A k \in DOMAIN new : /\ new[k].item = Current(s).id
                              /\ new[k].about = mem[s].response.about
                              /\ new[k].context = mem[s].response.context
    BY DEF Candidates
  <2>2. CASE mem[s].index = 1
    BY <2>1, <2>2 DEF First, Current
  <2>3. CASE mem[s].index # 1
    BY <1>2, <2>1, <2>3 DEF CurrentOwn, OwnCandidate, Current
  <2> QED
    BY <2>2, <2>3
<1>6. IsSeq(c.candidates) /\ \A n \in DOMAIN c.candidates :
                               ~OwnCandidate(c.candidates[n]) => c.candidates[n].item = First(s)
  <2> DEFINE all == old \o new
  <2>1. IsSeq(all) /\ ComesFrom(all, old, new)
    <3> HIDE DEF new, old
    <3> QED
      BY <1>3, <1>4, Joined
  <2>2. c.candidates = all
    OBVIOUS
  <2> HIDE DEF new, old, all, c
  <2> QED
    BY <1>2, <1>5, <2>1, <2>2 DEF ComesFrom
<1>7. IsChannels(c)
  BY <1>4, <1>6 DEF IsChannels, IsResponse
<1>8. CurrentOwn(s, c, AfterItem(s))
  BY <1>1 DEF CurrentOwn
<1> HIDE DEF c
<1> QED
  BY <1>1, <1>6, <1>7, <1>8, Updated
-----------------------------------------------------------------------------
LEMMA LoopStep == Loop /\ [Next]_vars => Loop'
<1> SUFFICES ASSUME Loop, [Next]_vars PROVE Loop'
  OBVIOUS
<1>1. ASSUME UNCHANGED <<pc, mem, loaded, source>>, DOMAIN saved' = Stages,
             \A t \in Stages : saved'[t] = saved[t] \/ saved'[t] = Carried(NoChannels)
      PROVE  Loop'
  <2>1. \A t \in Stages : IsResponse(saved'[t].response)
    BY <1>1 DEF Loop, LoopOf, Carried, NoChannels, IsResponse
  <2>2. \A t \in Stages : LoopOf(t)'
    BY <1>1, <2>1 DEF Loop, LoopOf, CurrentOwn, First, Items
  <2> QED
    BY <1>1, <2>2 DEF Loop
<1>2. ASSUME NEW s \in Stages, Start(s) PROVE Loop'
  BY <1>2, BeforeLoop DEF Start
<1>3. ASSUME NEW s \in Stages, Complete(s) \/ Fail(s) \/ Crash(s) PROVE Loop'
  BY <1>3, Stopped DEF Complete, Fail, Crash, maintenance
<1>4. ASSUME NEW s \in Stages, BuildArtifact(s) \/ Persist(s) \/ Write(s) \/ ExitGate(s) PROVE Loop'
  BY <1>4, AfterLoop DEF BuildArtifact, Persist, Write, ExitGate, maintenance
<1>5. ASSUME NEW s \in Stages, Retrieve(s) \/ Generate(s) \/ RecordResult(s) PROVE Loop'
  BY <1>5, RetrieveKeepsLoop, GenerateKeepsLoop, RecordKeepsLoop
<1>6. CASE LoadRequirements
  BY <1>6, Invoked DEF LoadRequirements, maintenance, Stages
<1>7. CASE LoadFile \/ LoadMaster \/ Restore
  BY <1>7, BeforeLoop DEF LoadFile, LoadMaster, Restore, maintenance, Stages
<1>8. CASE CheckStories
  BY <1>8, Invoked DEF CheckStories, maintenance, Stages
<1>9. ASSUME NEW r \in Stages, ResetRows(r) PROVE Loop'
  <2>1. /\ UNCHANGED <<pc, mem, loaded, source>>
        /\ saved' = [t \in Stages |-> IF t >= r THEN Carried(NoChannels) ELSE saved[t]]
    BY <1>9 DEF ResetRows, From, proc
  <2> QED
    BY <1>1, <2>1
<1>10. CASE LoseFile \/ ResetFiles \/ UNCHANGED vars
  <2>1. UNCHANGED <<pc, mem, loaded, source, saved>>
    BY <1>10 DEF LoseFile, ResetFiles, vars, proc, maintenance
  <2> QED
    BY <1>1, <2>1 DEF Loop
<1>11. ASSUME NEW s \in Stages, Advance(s) PROVE Loop'
  BY <1>3, <1>4, <1>5, <1>6, <1>7, <1>8, <1>11 DEF Advance
<1> QED
  BY <1>2, <1>9, <1>10, <1>11 DEF Next

\* Whatever invocations were interrupted where, what is recorded for an item
\* other than the invocation's first is its own (record_requirement_result,
\* record_story_result).
THEOREM OnlyFirstMisplaced == Spec => []MisplacedOnlyFirst
<1>1. Loop => MisplacedOnlyFirst
  BY DEF Loop, LoopOf, MisplacedOnlyFirst, First
<1> QED
  BY <1>1, LoopInit, LoopStep, PTL DEF Spec
-----------------------------------------------------------------------------
(***************************************************************************)
(* What Build makes of a list of candidates.  The elements stand in the    *)
(* order of their first candidates: the k-th of them is the one that k     *)
(* first candidates do not come after.                                     *)
(***************************************************************************)

UpTo(S, n) == {m \in S : m <= n}

\* Every rank from 1 to the number of its members is that of a member.
LEMMA Ranked ==
  ASSUME NEW N \in Nat, NEW S \in SUBSET (1 .. N)
  PROVE  /\ Cardinality(S) \in Nat
         /\ \A k \in 1 .. Cardinality(S) : \E n \in S : Cardinality(UpTo(S, n)) = k
<1>1. IsFiniteSet(S) /\ Cardinality(S) \in Nat
  <2>1. IsFiniteSet(1 .. N)
    BY FS_Interval
  <2> QED
    BY <2>1, FS_Subset, FS_CardinalityType
<1>2. ASSUME NEW n \in S
      PROVE  Cardinality(UpTo(S, n)) \in 1 .. Cardinality(S) /\ IsFiniteSet(UpTo(S, n))
  <2>1. UpTo(S, n) \in SUBSET S /\ n \in UpTo(S, n)
    BY DEF UpTo
  <2>2. /\ IsFiniteSet(UpTo(S, n)) /\ Cardinality(UpTo(S, n)) <= Cardinality(S)
        /\ Cardinality(UpTo(S, n)) \in Nat
    BY <1>1, <2>1, FS_Subset, FS_CardinalityType
  <2>3. Cardinality(UpTo(S, n)) # 0
    BY <2>1, <2>2, FS_EmptySet
  <2> QED
    BY <1>1, <2>2, <2>3
<1>3. ASSUME NEW m \in S, NEW n \in S, m < n PROVE Cardinality(UpTo(S, m)) # Cardinality(UpTo(S, n))
  <2>1. \A k \in S : k \in Nat
    OBVIOUS
  <2>2. n <= n /\ ~(n <= m) /\ \A k \in S : k <= m => k <= n
    BY <1>3, <2>1
  <2>3. UpTo(S, m) \in SUBSET UpTo(S, n) /\ n \in UpTo(S, n) /\ n \notin UpTo(S, m)
    BY <2>2, Zenon DEF UpTo
  <2> QED
    BY <1>2, <2>3, FS_Subset
<1> DEFINE rank == [n \in S |-> Cardinality(UpTo(S, n))]
           T == 1 .. Cardinality(S)
<1>4. rank \in Injection(S, T)
  <2>1. rank \in [S -> T]
    BY <1>2
  <2>2. \A m, n \in S : rank[m] = rank[n] => m = n
    BY <1>3
  <2> QED
    BY <2>1, <2>2 DEF Injection, IsInjective
<1>5. IsFiniteSet(T) /\ Cardinality(T) = Cardinality(S)
  BY <1>1, FS_Interval
<1>6. rank \in Surjection(S, T)
  <2> HIDE DEF rank, T
  <2> QED
    BY <1>4, <1>5, FS_Injection
<1> QED
  BY <1>1, <1>6 DEF Surjection

\* One position per partition.
OnePerPartition(firsts, cs) == \A k, l \in DOMAIN firsts :
  Partition(cs[firsts[k]]) = Partition(cs[firsts[l]]) => k = l

LEMMA FirstsAreApart ==
  ASSUME NEW cs, IsSeq(cs)
  PROVE  /\ \E m \in Nat : Firsts(cs) \in [1 .. m -> DOMAIN cs]
         /\ OnePerPartition(Firsts(cs), cs)
<1> DEFINE S == {n \in DOMAIN cs : \A k \in 1 .. n - 1 : Partition(cs[k]) # Partition(cs[n])}
           m == Cardinality(S)
<1>1. PICK N \in Nat : DOMAIN cs = 1 .. N
  BY DEF IsSeq
<1>2. S \in SUBSET (1 .. N)
  BY <1>1
<1>3. m \in Nat /\ \A k \in 1 .. m : \E n \in S : Cardinality(UpTo(S, n)) = k
  <2> HIDE DEF S
  <2> QED
    BY <1>2, Ranked
<1>4. Firsts(cs) = [k \in 1 .. m |-> CHOOSE n \in S : Cardinality(UpTo(S, n)) = k]
  BY DEF Firsts, UpTo
<1>5. \A k \in 1 .. m : Firsts(cs)[k] \in S /\ Cardinality(UpTo(S, Firsts(cs)[k])) = k
  <2> HIDE DEF S
  <2> QED
    BY <1>3, <1>4
<1>6. DOMAIN Firsts(cs) = 1 .. m
  BY <1>4
<1>7. ASSUME NEW a \in S, NEW b \in S, a < b PROVE Partition(cs[a]) # Partition(cs[b])
  BY <1>1, <1>7
<1>8. \A a, b \in S : Partition(cs[a]) = Partition(cs[b]) => a = b
  BY <1>2, <1>7
<1>9. OnePerPartition(Firsts(cs), cs)
  <2> HIDE DEF S
  <2> QED
    BY <1>5, <1>6, <1>8 DEF OnePerPartition
<1>10. Firsts(cs) \in [1 .. m -> DOMAIN cs]
  <2>1. S \subseteq DOMAIN cs
    OBVIOUS
  <2> HIDE DEF S
  <2> QED
    BY <1>3, <1>4, <2>1
<1> QED
  BY <1>3, <1>9, <1>10

\* An element says which items it is for.
Named(e) == e.items # {} /\ e.about # {}

\* The id a partition has in the stored artifact, or the n-th unused one.
IdOf(p, n, existing, fresh) ==
  LET prior == Existing(existing, p)
  IN  IF prior = {} THEN fresh + n - 1 ELSE CHOOSE id \in prior : TRUE
Identified(e, n, existing, fresh) == e.id = IdOf(Partition(e), n, existing, fresh)

LEMMA Built ==
  ASSUME NEW cs, IsSeq(cs), NEW existing, NEW fresh
  PROVE  LET b == Build(cs, existing, fresh) IN
         /\ Len(b) \in Nat /\ DOMAIN b = 1 .. Len(b)
         /\ \A n \in DOMAIN b : Named(b[n]) /\ Identified(b[n], n, existing, fresh)
         /\ \A k, l \in DOMAIN b : Partition(b[k]) = Partition(b[l]) => k = l
<1> DEFINE b == Build(cs, existing, fresh)
           firsts == Firsts(cs)
<1>1. PICK m \in Nat : firsts \in [1 .. m -> DOMAIN cs]
  BY FirstsAreApart
<1>2. DOMAIN b = 1 .. m
  BY <1>1 DEF Build
<1>3. \A n \in DOMAIN b : LET group == Group(cs, firsts[n]) IN
        /\ firsts[n] \in DOMAIN cs
        /\ b[n].src = cs[firsts[n]].src /\ b[n].key = cs[firsts[n]].key
        /\ b[n].items = {c.item : c \in group} /\ b[n].about = {c.about : c \in group}
        /\ b[n].id = IdOf(Partition(cs[firsts[n]]), n, existing, fresh)
  <2> HIDE DEF firsts
  <2>1. \A n \in DOMAIN b : firsts[n] \in DOMAIN cs
    BY <1>1, <1>2
  <2> QED
    BY <1>1, <1>2, <2>1 DEF Build, IdOf, firsts
<1> HIDE DEF b, firsts
<1>4. \A n \in DOMAIN b : Partition(b[n]) = Partition(cs[firsts[n]])
  BY <1>3 DEF Partition
<1>5. \A n \in DOMAIN b : cs[firsts[n]] \in Group(cs, firsts[n])
  BY <1>3 DEF Group
<1>6. \A n \in DOMAIN b : Named(b[n]) /\ Identified(b[n], n, existing, fresh)
  <2>1. \A n \in DOMAIN b : Named(b[n])
    BY <1>3, <1>5 DEF Named
  <2>2. \A n \in DOMAIN b : Identified(b[n], n, existing, fresh)
    BY <1>3, <1>4 DEF Identified
  <2> QED
    BY <2>1, <2>2
<1>7. \A k, l \in DOMAIN b : Partition(b[k]) = Partition(b[l]) => k = l
  <2>1. OnePerPartition(firsts, cs) /\ DOMAIN firsts = DOMAIN b
    BY <1>1, <1>2, FirstsAreApart DEF firsts
  <2> QED
    BY <1>4, <2>1 DEF OnePerPartition
<1>8. Len(b) \in Nat /\ DOMAIN b = 1 .. Len(b)
  <2> DEFINE E == {b[n] : n \in 1 .. m}
  <2>1. b = [n \in 1 .. m |-> b[n]]
    BY <1>1, <1>2 DEF b, Build, firsts
  <2>2. b \in [1 .. m -> E]
    BY <2>1
  <2>3. b \in Seq(E)
    <3> HIDE DEF E
    <3> QED
      BY <2>2, SeqDef
  <2> HIDE DEF E
  <2> QED
    BY <2>3, LenProperties
<1> QED
  BY <1>6, <1>7, <1>8 DEF b
-----------------------------------------------------------------------------
(***************************************************************************)
(* What is published.  As long as nothing overlaps, only one stage runs at *)
(* a time and no reset is under way, so that what the exit gate saw is     *)
(* still there when the run is recorded as completed.                      *)
(***************************************************************************)

Shape == /\ DOMAIN master = Stages /\ DOMAIN file = Stages /\ DOMAIN status = Stages
         /\ DOMAIN pc = Stages /\ DOMAIN built = Stages

AllNamed(a) == \A n \in DOMAIN a : Named(a[n])
NamedInv == Shape /\ \A s \in Stages : AllNamed(built[s]) /\ (master[s] # None => AllNamed(master[s]))

LEMMA NamedInit == Init => NamedInv
  BY DEF Init, NamedInv, Shape, AllNamed

LEMMA ShapeStep == Shape /\ [Next]_vars => Shape'
<1> SUFFICES ASSUME Shape, [Next]_vars PROVE Shape'
  OBVIOUS
<1> USE DEF Shape, Goto, Record, Stop, tables, maintenance, proc
<1>1. ASSUME NEW s \in Stages, Start(s) \/ ResetRows(s) PROVE Shape'
  BY <1>1 DEF Start, ResetRows, From
<1>2. ASSUME NEW s \in Stages, Retrieve(s) \/ Generate(s) \/ RecordResult(s) \/ BuildArtifact(s)
      PROVE Shape'
  BY <1>2 DEF Retrieve, Generate, RecordResult, BuildArtifact, Update
<1>3. ASSUME NEW s \in Stages, Persist(s) \/ Write(s) \/ ExitGate(s) PROVE Shape'
  BY <1>3 DEF Persist, Write, ExitGate
<1>4. ASSUME NEW s \in Stages, Complete(s) \/ Fail(s) \/ Crash(s) PROVE Shape'
  BY <1>4 DEF Complete, Fail, Crash
<1>5. CASE LoadRequirements \/ LoadFile \/ LoadMaster \/ Restore \/ CheckStories
  BY <1>5 DEF LoadRequirements, LoadFile, LoadMaster, Restore, CheckStories, Invoke
<1>6. CASE LoseFile \/ ResetFiles \/ UNCHANGED vars
  BY <1>6 DEF LoseFile, ResetFiles, From, vars
<1> QED
  BY <1>1, <1>2, <1>3, <1>4, <1>5, <1>6 DEF Next, Advance

\* Every action but four leaves what is built and stored.
Untold == built' = built /\ master' = master

LEMMA TellingSteps ==
  ASSUME [Next]_vars
  PROVE  \/ Untold
         \/ \E s \in Stages : BuildArtifact(s) \/ Persist(s) \/ ResetRows(s)
         \/ \E s \in Stages : Stop(s) /\ master' = master
BY DEF Next, Advance, Untold, tables, proc, vars, maintenance, Start, Retrieve, Generate, RecordResult,
   Update, Write, ExitGate, Complete, Fail, Crash, LoadRequirements, LoadFile, LoadMaster, Restore,
   CheckStories, LoseFile, ResetFiles

LEMMA NamedStep == Loop /\ NamedInv /\ [Next]_vars => NamedInv'
<1> SUFFICES ASSUME Loop, NamedInv, [Next]_vars PROVE NamedInv'
  OBVIOUS
<1>1. Shape /\ Shape'
  BY ShapeStep DEF NamedInv
<1>2. CASE Untold
  BY <1>1, <1>2 DEF NamedInv, Untold, AllNamed
<1>3. ASSUME NEW s \in Stages, BuildArtifact(s) PROVE NamedInv'
  <2> DEFINE b == Build(mem[s].candidates, master[s], next)
  <2>1. built' = [built EXCEPT ![s] = b] /\ master' = master
    BY <1>3 DEF BuildArtifact, tables
  <2>2. AllNamed(b)
    <3>1. IsSeq(mem[s].candidates)
      BY DEF Loop, LoopOf, IsChannels
    <3> QED
      BY <3>1, Built DEF AllNamed
  <2> HIDE DEF b
  <2> QED
    BY <1>1, <2>1, <2>2 DEF NamedInv, Shape, AllNamed
<1>4. ASSUME NEW s \in Stages, Persist(s) PROVE NamedInv'
  <2>1. master' = [master EXCEPT ![s] = built[s]] /\ built' = built
    BY <1>4 DEF Persist
  <2> QED
    BY <1>1, <2>1 DEF NamedInv, Shape, AllNamed
<1>5. ASSUME NEW r \in Stages, ResetRows(r) PROVE NamedInv'
  <2>1. built' = built /\ \A s \in Stages : master'[s] \in {None, master[s]}
    BY <1>5 DEF ResetRows, From, proc
  <2> QED
    BY <1>1, <2>1 DEF NamedInv, AllNamed
<1>6. ASSUME NEW s \in Stages, Stop(s), master' = master PROVE NamedInv'
  <2>1. built' = [built EXCEPT ![s] = <<>>]
    BY <1>6 DEF Stop
  <2> QED
    BY <1>1, <1>6, <2>1 DEF NamedInv, Shape, AllNamed
<1> QED
  BY <1>2, <1>3, <1>4, <1>5, <1>6, TellingSteps

Attributed == \A n \in DOMAIN master[3] : master[3][n].about = master[3][n].items

\* One process at a time, none beside a reset, and each with its run started.
Alone ==
  /\ pc[2] = "down" \/ pc[3] = "down"
  /\ resetting # 0 => \A s \in Stages : pc[s] = "down"
  /\ \A s \in Stages : pc[s] # "down" => status[s] = "started"

\* What has passed the exit gate, and what was recorded after it.
Passed ==
  /\ \A s \in Stages : pc[s] = "complete" => Published(s)
  /\ \A s \in Stages : status[s] = "completed" => master[s] # None /\ file[s] \in {None, master[s]}
  /\ pc[3] = "restore" => loaded = master[2]
  /\ pc[3] = "complete" \/ status[3] = "completed" => Attributed

PublishInv == Shape /\ (~overlapped => Alone /\ Passed)

LEMMA PublishInit == Init => PublishInv
  BY DEF Init, PublishInv, Shape, Alone, Passed, Stages

\* A scenario that names a story and passes the gate names only that one.
LEMMA GateAttributes ==
  ASSUME AllNamed(file[3]), master[3] = file[3], \A n \in DOMAIN file[3] : Traceable(3, file[3][n])
  PROVE  Attributed
<1> SUFFICES ASSUME NEW n \in DOMAIN master[3] PROVE master[3][n].about = master[3][n].items
  BY DEF Attributed
<1> DEFINE e == master[3][n]
<1>1. e.items # {} /\ e.about # {} /\ \A story \in e.items : e.about \subseteq {story}
  BY DEF AllNamed, Named, Traceable
<1> HIDE DEF e
<1>2. \A story \in e.items : e.about = {story}
  BY <1>1
<1>3. e.about = e.items
  BY <1>1, <1>2
<1> QED
  BY <1>3 DEF e

\* A node that leaves what is stored, or is about to be published.
LEMMA Quiet ==
  ASSUME PublishInv, NEW s \in Stages, pc[s] # "down", pc' = [pc EXCEPT ![s] = pc'[s]],
         pc'[s] \notin {"down", "restore", "complete"},
         UNCHANGED <<master, status, file, resetting, overlapped, DOMAIN built>>
  PROVE  PublishInv'
<1> USE DEF PublishInv, Shape
<1>1. \A t \in Stages : t # s => pc'[t] = pc[t]
  OBVIOUS
<1>2. Shape'
  OBVIOUS
<1>3. ASSUME ~overlapped PROVE Alone'
  BY <1>1, <1>3 DEF Alone, Stages
<1>4. ASSUME ~overlapped PROVE Passed'
  <2>1. \A t \in Stages : pc'[t] = "complete" => Published(t)'
    BY <1>1, <1>4 DEF Passed, Published
  <2>2. pc'[3] = "restore" => pc[3] = "restore" /\ 3 # s
    BY <1>1 DEF Stages
  <2>3. s = 2 => pc[3] = "down"
    BY <1>4 DEF Alone
  <2>4. s \in {2, 3}
    BY DEF Stages
  <2>5. pc'[3] = "restore" => loaded' = master'[2]
    BY <2>2, <2>3, <2>4
  <2>6. pc'[3] = "complete" \/ status'[3] = "completed" => Attributed'
    BY <1>1, <1>4 DEF Passed, Attributed, Stages
  <2> QED
    BY <1>4, <2>1, <2>5, <2>6 DEF Passed
<1> QED
  BY <1>2, <1>3, <1>4

LEMMA PublishStep == NamedInv /\ NamedInv' /\ PublishInv /\ [Next]_vars => PublishInv'
<1> SUFFICES ASSUME NamedInv, NamedInv', PublishInv, [Next]_vars PROVE PublishInv'
  OBVIOUS
<1>1. Shape /\ Shape' /\ (~overlapped => Alone /\ Passed)
  BY ShapeStep DEF PublishInv
<1> USE DEF Shape, Stages
<1>2. ASSUME NEW s \in Stages, Start(s) PROVE PublishInv'
  <2>1. /\ pc[s] = "down" /\ pc' = [pc EXCEPT ![s] = "load"] /\ status' = [status EXCEPT ![s] = "started"]
        /\ overlapped' = (overlapped \/ pc[Other(s)] # "down" \/ resetting # 0)
        /\ UNCHANGED <<master, file, loaded, resetting>>
    BY <1>2 DEF Start, Goto, Record, tables
  <2>2. ~overlapped' => ~overlapped /\ resetting = 0 /\ \A t \in Stages : pc[t] = "down"
    <3>1. ~overlapped' => ~overlapped /\ resetting = 0 /\ pc[Other(s)] = "down"
      BY <2>1
    <3>2. (s = 2 /\ Other(s) = 3) \/ (s = 3 /\ Other(s) = 2)
      BY DEF Other
    <3> QED
      BY <2>1, <3>1, <3>2
  <2>3. ASSUME ~overlapped' PROVE Alone' /\ Passed'
    BY <1>1, <2>1, <2>2, <2>3 DEF Alone, Passed, Published, Attributed
  <2> QED
    BY <1>1, <2>3 DEF PublishInv
<1>3. ASSUME NEW s \in Stages, Retrieve(s) \/ Generate(s) \/ RecordResult(s) \/ BuildArtifact(s)
      PROVE PublishInv'
  <2>1. \E where \in {"generate", "record", "retrieve", "build", "persist"} : pc' = [pc EXCEPT ![s] = where]
    BY <1>3 DEF Retrieve, Generate, RecordResult, BuildArtifact, Update, AfterItem, Goto
  <2>2. /\ pc[s] # "down"
        /\ UNCHANGED <<master, status, file, resetting, overlapped, DOMAIN built>>
    BY <1>1, <1>3 DEF Retrieve, Generate, RecordResult, BuildArtifact, Update, tables, maintenance
  <2> QED
    BY <1>1, <2>1, <2>2, Quiet
<1>4. CASE LoadRequirements \/ LoadFile \/ CheckStories
  BY <1>1, <1>4, Quiet DEF LoadRequirements, LoadFile, CheckStories, Invoke, Goto, tables, maintenance
<1>5. CASE LoadMaster
  <2>1. /\ pc[3] = "load" /\ master[2] # None /\ loaded' = master[2] /\ pc' = [pc EXCEPT ![3] = "restore"]
        /\ UNCHANGED <<master, file, status, resetting, overlapped>>
    BY <1>5 DEF LoadMaster, Goto, tables, maintenance
  <2> QED
    BY <1>1, <2>1 DEF PublishInv, Alone, Passed, Published, Attributed
<1>6. CASE Restore
  <2>1. /\ pc[3] = "restore" /\ pc' = [pc EXCEPT ![3] = "check"] /\ file' = [file EXCEPT ![2] = loaded]
        /\ UNCHANGED <<master, status, loaded, resetting, overlapped>>
    BY <1>6 DEF Restore, Goto, tables, maintenance
  <2> QED
    BY <1>1, <2>1 DEF PublishInv, Alone, Passed, Published, Attributed
<1>7. ASSUME NEW s \in Stages, Persist(s) PROVE PublishInv'
  <2>1. /\ pc[s] = "persist" /\ pc' = [pc EXCEPT ![s] = "write"]
        /\ master' = [master EXCEPT ![s] = built[s]]
        /\ UNCHANGED <<file, status, loaded, resetting, overlapped>>
    BY <1>7 DEF Persist, Goto, maintenance
  <2> QED
    BY <1>1, <2>1 DEF PublishInv, Alone, Passed, Published, Attributed
<1>8. ASSUME NEW s \in Stages, Write(s) PROVE PublishInv'
  <2>1. /\ pc[s] = "write" /\ pc' = [pc EXCEPT ![s] = "gate"]
        /\ file' = [file EXCEPT ![s] = built[s]]
        /\ UNCHANGED <<master, status, loaded, resetting, overlapped>>
    BY <1>8 DEF Write, Goto, tables, maintenance
  <2> QED
    BY <1>1, <2>1 DEF PublishInv, Alone, Passed, Published, Attributed
<1>9. ASSUME NEW s \in Stages, ExitGate(s) PROVE PublishInv'
  <2>1. /\ pc[s] = "gate" /\ pc' = [pc EXCEPT ![s] = "complete"] /\ Published(s)
        /\ \A n \in DOMAIN file[s] : Traceable(s, file[s][n])
        /\ UNCHANGED <<master, file, status, loaded, resetting, overlapped>>
    BY <1>9 DEF ExitGate, Goto, tables, maintenance
  <2>2. s = 3 => Attributed
    BY <2>1, GateAttributes DEF NamedInv, Published
  <2> QED
    BY <1>1, <2>1, <2>2 DEF PublishInv, Alone, Passed, Published, Attributed
<1>10. ASSUME NEW s \in Stages, Complete(s) PROVE PublishInv'
  <2>1. /\ pc[s] = "complete" /\ pc' = [pc EXCEPT ![s] = "down"]
        /\ status' = [status EXCEPT ![s] = "completed"]
        /\ UNCHANGED <<master, file, resetting, overlapped>>
        /\ s = 2 => loaded' = loaded
    BY <1>10 DEF Complete, Goto, Record, Stop, tables, maintenance
  <2> QED
    BY <1>1, <2>1 DEF PublishInv, Alone, Passed, Published, Attributed
<1>11. ASSUME NEW s \in Stages, Fail(s) \/ Crash(s) PROVE PublishInv'
  <2>1. /\ pc[s] # "down" /\ pc' = [pc EXCEPT ![s] = "down"]
        /\ status' \in {status, [status EXCEPT ![s] = "failed"]}
        /\ UNCHANGED <<master, file, resetting, overlapped>>
        /\ s = 2 => loaded' = loaded
    BY <1>11 DEF Fail, Crash, Goto, Record, Stop, tables, maintenance
  <2> QED
    BY <1>1, <2>1 DEF PublishInv, Alone, Passed, Published, Attributed
<1>12. ASSUME NEW r \in Stages, ResetRows(r) PROVE PublishInv'
  <2>1. /\ overlapped' = (overlapped \/ \E s \in Stages : pc[s] # "down")
        /\ master' = [s \in Stages |-> IF s >= r THEN None ELSE master[s]]
        /\ status' = [s \in Stages |-> IF s >= r THEN "none" ELSE status[s]]
        /\ UNCHANGED <<pc, file, loaded>>
    BY <1>12 DEF ResetRows, From, proc
  <2>2. \A s \in Stages : status'[s] = "completed" => status[s] = "completed" /\ master'[s] = master[s]
    BY <2>1
  <2>3. ~overlapped' => ~overlapped /\ \A s \in Stages : pc[s] = "down"
    BY <2>1
  <2> QED
    BY <1>1, <2>1, <2>2, <2>3 DEF PublishInv, Alone, Passed, Published, Attributed
<1>13. CASE LoseFile \/ ResetFiles
  <2>1. /\ resetting' \in {0, resetting} /\ UNCHANGED <<pc, master, status, loaded, overlapped>>
        /\ (\A s \in Stages : pc[s] = "down") \/ resetting # 0
        /\ \A s \in Stages : file'[s] \in {None, file[s]}
    BY <1>1, <1>13 DEF LoseFile, ResetFiles, From, tables, proc, maintenance
  <2> QED
    BY <1>1, <2>1 DEF PublishInv, Alone, Passed, Published, Attributed
<1>14. CASE UNCHANGED vars
  BY <1>1, <1>14 DEF vars, tables, proc, maintenance, PublishInv, Alone, Passed, Published, Attributed
<1> QED
  BY <1>2, <1>3, <1>4, <1>5, <1>6, <1>7, <1>8, <1>9, <1>10, <1>11, <1>12, <1>13, <1>14 DEF Next, Advance

LEMMA PublishAlways == Spec => [](NamedInv /\ PublishInv)
<1>1. Init => Loop /\ NamedInv /\ PublishInv
  BY LoopInit, NamedInit, PublishInit
<1>2. Loop /\ NamedInv /\ PublishInv /\ [Next]_vars => (Loop /\ NamedInv /\ PublishInv)'
  BY LoopStep, NamedStep, PublishStep
<1> QED
  BY <1>1, <1>2, PTL DEF Spec

\* Without overlaps, the file of a completed stage is what PostgreSQL has, or is
\* gone, for any number of invocations, failures and resets
\* (_validate_exit_gate, :253-256).
THEOREM CompletedPublished == Spec => []CompletedIsPublished
<1>1. PublishInv => CompletedIsPublished
  BY DEF PublishInv, Passed, CompletedIsPublished
<1> QED
  BY <1>1, PublishAlways, PTL

\* A completed Stage 3 has each scenario's criteria from the one story it is
\* linked to: every scenario has a story, so that the comparison of the exit
\* gate is never vacuous (:287-294).
THEOREM ScenarioHasItsStory == Spec => []ScenarioOfItsStory
<1>1. PublishInv => ScenarioOfItsStory
  BY DEF PublishInv, Passed, Attributed, ScenarioOfItsStory
<1> QED
  BY <1>1, PublishAlways, PTL
-----------------------------------------------------------------------------
(***************************************************************************)
(* Ids.  What is stored or about to be stored has one id per partition,    *)
(* below the next one; an artifact that waits to be stored continues the   *)
(* one it will replace.                                                    *)
(***************************************************************************)

\* Elements of a and b have the same id just when they are of one partition.
Agree(a, b) == \A n \in DOMAIN a, k \in DOMAIN b :
  a[n].id = b[k].id <=> Partition(a[n]) = Partition(b[k])

Used(a, n) == \A k \in DOMAIN a : a[k].id \in Nat /\ a[k].id < n

IdInv ==
  /\ Shape /\ next \in Nat
  /\ \A s \in Stages :
       /\ Agree(built[s], built[s]) /\ Used(built[s], next)
       /\ master[s] # None => Agree(master[s], master[s]) /\ Used(master[s], next)
       /\ pc[s] = "persist" /\ master[s] # None => Agree(master[s], built[s])

LEMMA IdInit == Init => IdInv
  BY DEF Init, IdInv, Shape, Agree, Used

\* A partition the stored artifact has keeps its id.
LEMMA Found ==
  ASSUME NEW a, a # None, NEW p, Existing(a, p) # {}, NEW n, NEW fresh
  PROVE  \E m \in DOMAIN a : Partition(a[m]) = p /\ IdOf(p, n, a, fresh) = a[m].id
<1>1. IdOf(p, n, a, fresh) \in Existing(a, p)
  BY DEF IdOf
<1> QED
  BY <1>1 DEF Existing

\* An artifact built over a has the ids of a, and unused ones in the order of
\* its elements.
LEMMA BuildAgrees ==
  ASSUME NEW a, NEW fresh \in Nat, NEW cs, IsSeq(cs),
         a # None => Agree(a, a) /\ Used(a, fresh)
  PROVE  LET b == Build(cs, a, fresh) IN
         /\ Agree(b, b) /\ Used(b, fresh + Len(b)) /\ Len(b) \in Nat
         /\ a # None => Agree(a, b)
<1> DEFINE b == Build(cs, a, fresh)
           IsNew(n) == Existing(a, Partition(b[n])) = {}
<1>1. /\ Len(b) \in Nat /\ DOMAIN b = 1 .. Len(b)
      /\ \A n \in DOMAIN b : Identified(b[n], n, a, fresh)
      /\ \A k, l \in DOMAIN b : Partition(b[k]) = Partition(b[l]) => k = l
  BY Built
<1> HIDE DEF b
<1>2. \A n \in DOMAIN b : IsNew(n) => b[n].id = fresh + n - 1
  BY <1>1 DEF Identified, IdOf
<1>3. ASSUME NEW n \in DOMAIN b, ~IsNew(n)
      PROVE  a # None /\ \E m \in DOMAIN a : Partition(a[m]) = Partition(b[n]) /\ a[m].id = b[n].id
  <2>1. a # None
    BY <1>3 DEF Existing
  <2> QED
    BY <1>1, <1>3, <2>1, Found DEF Identified
<1>4. Used(b, fresh + Len(b))
  <2> SUFFICES ASSUME NEW n \in DOMAIN b PROVE b[n].id \in Nat /\ b[n].id < fresh + Len(b)
    BY DEF Used
  <2>1. CASE IsNew(n)
    BY <1>1, <1>2, <2>1
  <2>2. CASE ~IsNew(n)
    BY <1>1, <1>3, <2>2 DEF Used
  <2> QED
    BY <2>1, <2>2
<1>5. ASSUME a # None PROVE Agree(a, b)
  <2> SUFFICES ASSUME NEW m \in DOMAIN a, NEW n \in DOMAIN b
               PROVE  a[m].id = b[n].id <=> Partition(a[m]) = Partition(b[n])
    BY DEF Agree
  <2>1. CASE IsNew(n)
    <3>1. b[n].id >= fresh /\ a[m].id < fresh /\ a[m].id \in Nat /\ b[n].id \in Int
      BY <1>1, <1>2, <1>5, <2>1 DEF Used
    <3>2. Partition(a[m]) # Partition(b[n])
      BY <1>5, <2>1 DEF Existing
    <3> QED
      BY <3>1, <3>2
  <2>2. CASE ~IsNew(n)
    BY <1>3, <1>5, <2>2 DEF Agree
  <2> QED
    BY <2>1, <2>2
<1>6. Agree(b, b)
  <2> SUFFICES ASSUME NEW k \in DOMAIN b, NEW l \in DOMAIN b, b[k].id = b[l].id
               PROVE  Partition(b[k]) = Partition(b[l])
    BY <1>1 DEF Agree
  <2>1. CASE IsNew(k) /\ IsNew(l)
    BY <1>1, <1>2, <2>1
  <2>2. CASE ~IsNew(k)
    BY <1>3, <1>5, <2>2 DEF Agree
  <2>3. CASE ~IsNew(l)
    BY <1>3, <1>5, <2>3 DEF Agree
  <2> QED
    BY <2>1, <2>2, <2>3
<1> QED
  BY <1>1, <1>4, <1>5, <1>6 DEF b

\* Only BuildArtifact makes an artifact wait to be stored.
LEMMA OnlyBuilt ==
  ASSUME Shape, [Next]_vars, NEW t \in Stages, pc'[t] = "persist", ~BuildArtifact(t)
  PROVE  pc[t] = "persist"
<1> USE DEF Shape, Goto
<1>1. ASSUME NEW s \in Stages, Start(s) \/ ResetRows(s) \/ Persist(s) \/ Write(s) \/ ExitGate(s)
      PROVE  pc[t] = "persist"
  BY <1>1 DEF Start, ResetRows, Persist, Write, ExitGate, proc
<1>2. ASSUME NEW s \in Stages, Retrieve(s) \/ Generate(s) \/ RecordResult(s) PROVE pc[t] = "persist"
  <2>1. \E where \in {"generate", "record", "retrieve", "build"} : pc' = [pc EXCEPT ![s] = where]
    BY <1>2 DEF Retrieve, Generate, RecordResult, Update, AfterItem
  <2> QED
    BY <2>1
<1>3. ASSUME NEW s \in Stages, BuildArtifact(s) PROVE pc[t] = "persist"
  BY <1>3 DEF BuildArtifact
<1>4. ASSUME NEW s \in Stages, Complete(s) \/ Fail(s) \/ Crash(s) PROVE pc[t] = "persist"
  BY <1>4 DEF Complete, Fail, Crash, Stop
<1>5. CASE LoadRequirements \/ LoadFile \/ LoadMaster \/ Restore \/ CheckStories
  BY <1>5 DEF LoadRequirements, LoadFile, LoadMaster, Restore, CheckStories, Invoke, Stages
<1>6. CASE LoseFile \/ ResetFiles \/ UNCHANGED vars
  BY <1>6 DEF LoseFile, ResetFiles, vars, proc
<1> QED
  BY <1>1, <1>2, <1>3, <1>4, <1>5, <1>6 DEF Next, Advance

LEMMA NextIdSteps ==
  ASSUME [Next]_vars
  PROVE  next' = next \/ \E s \in Stages : BuildArtifact(s)
BY DEF Next, Advance, vars, maintenance, Start, Retrieve, Generate, RecordResult, Persist, ResetRows,
   Update, Write, ExitGate, Complete, Fail, Crash, LoadRequirements, LoadFile, LoadMaster, Restore,
   CheckStories, LoseFile, ResetFiles

LEMMA IdStep == Loop /\ IdInv /\ [Next]_vars => IdInv'
<1> SUFFICES ASSUME Loop, IdInv, [Next]_vars PROVE IdInv'
  OBVIOUS
<1>1. Shape /\ Shape' /\ next \in Nat
  BY ShapeStep DEF IdInv
<1>2. ASSUME NEW s \in Stages, BuildArtifact(s) PROVE IdInv'
  <2> DEFINE b == Build(mem[s].candidates, master[s], next)
  <2>1. /\ built' = [built EXCEPT ![s] = b] /\ next' = next + Len(built'[s])
        /\ master' = master /\ pc' = [pc EXCEPT ![s] = "persist"]
    BY <1>2 DEF BuildArtifact, Goto, tables
  <2>2. /\ Agree(b, b) /\ Used(b, next + Len(b)) /\ Len(b) \in Nat
        /\ master[s] # None => Agree(master[s], b)
    <3>1. IsSeq(mem[s].candidates)
      BY DEF Loop, LoopOf, IsChannels
    <3> QED
      BY <1>1, <3>1, BuildAgrees DEF IdInv
  <2> HIDE DEF b
  <2>3. built'[s] = b /\ next' = next + Len(b)
    BY <1>1, <2>1 DEF Shape
  <2>4. ASSUME NEW t \in Stages, NEW a, Used(a, next) PROVE Used(a, next')
    BY <1>1, <2>2, <2>3, <2>4 DEF Used
  <2>5. \A t \in Stages : Agree(built'[t], built'[t]) /\ Used(built'[t], next')
    BY <1>1, <2>1, <2>2, <2>3, <2>4 DEF IdInv, Shape
  <2>6. \A t \in Stages : master'[t] # None => Agree(master'[t], master'[t]) /\ Used(master'[t], next')
    BY <2>1, <2>4 DEF IdInv
  <2>7. \A t \in Stages : pc'[t] = "persist" /\ master'[t] # None => Agree(master'[t], built'[t])
    BY <1>1, <2>1, <2>2, <2>3 DEF IdInv, Shape
  <2>8. next' \in Nat
    BY <1>1, <2>2, <2>3
  <2> QED
    BY <1>1, <2>5, <2>6, <2>7, <2>8 DEF IdInv, Agree, Used
<1>3. ASSUME next' = next, \A t \in Stages : pc'[t] = "persist" => pc[t] = "persist",
             \A t \in Stages : master'[t] \in {None, master[t]},
             \A t \in Stages : built'[t] = built[t] \/ built'[t] = <<>>
      PROVE  IdInv'
  <2>1. \A t \in Stages : Agree(built'[t], built'[t]) /\ Used(built'[t], next')
    BY <1>3 DEF IdInv, Agree, Used
  <2>2. \A t \in Stages : master'[t] # None => Agree(master'[t], master'[t]) /\ Used(master'[t], next')
    BY <1>3 DEF IdInv
  <2>3. \A t \in Stages : pc'[t] = "persist" /\ master'[t] # None => Agree(master'[t], built'[t])
    BY <1>3 DEF IdInv, Agree
  <2> QED
    BY <1>1, <1>3, <2>1, <2>2, <2>3 DEF IdInv, Agree, Used
<1>4. ASSUME NEW s \in Stages, Persist(s) PROVE IdInv'
  <2>1. /\ master' = [master EXCEPT ![s] = built[s]] /\ built' = built /\ next' = next
        /\ pc' = [pc EXCEPT ![s] = "write"]
    BY <1>4 DEF Persist, Goto
  <2>2. \A t \in Stages : Agree(built'[t], built'[t]) /\ Used(built'[t], next')
    BY <2>1 DEF IdInv
  <2>3. \A t \in Stages : master'[t] # None => Agree(master'[t], master'[t]) /\ Used(master'[t], next')
    BY <1>1, <2>1 DEF IdInv, Shape
  <2>4. \A t \in Stages : pc'[t] = "persist" /\ master'[t] # None => Agree(master'[t], built'[t])
    BY <1>1, <2>1 DEF IdInv, Shape
  <2> QED
    BY <1>1, <2>1, <2>2, <2>3, <2>4 DEF IdInv, Agree, Used
<1>5. ASSUME ~\E s \in Stages : BuildArtifact(s) \/ Persist(s) PROVE IdInv'
  <2>1. next' = next /\ \A t \in Stages : pc'[t] = "persist" => pc[t] = "persist"
    BY <1>1, <1>5, NextIdSteps, OnlyBuilt
  <2>2. CASE Untold
    BY <1>3, <2>1, <2>2 DEF Untold
  <2>3. ASSUME NEW r \in Stages, ResetRows(r) PROVE IdInv'
    BY <1>3, <2>1, <2>3 DEF ResetRows, From, proc
  <2>4. ASSUME NEW s \in Stages, Stop(s), master' = master PROVE IdInv'
    BY <1>1, <1>3, <2>1, <2>4 DEF Stop, Shape
  <2> QED
    BY <1>5, <2>2, <2>3, <2>4, TellingSteps
<1> QED
  BY <1>2, <1>4, <1>5

\* The step that stores an artifact stores one that continues the last; no
\* other step has one to store.
LEMMA KeepsIds ==
  ASSUME IdInv, [Next]_vars, NEW s \in Stages, master[s] # None, master'[s] # None
  PROVE  Agree(master[s], master'[s])
<1>1. Shape /\ Agree(master[s], master[s])
  BY DEF IdInv
<1>2. CASE Persist(s)
  BY <1>1, <1>2 DEF Persist, IdInv, Shape
<1>3. CASE ~Persist(s)
  <2>1. master'[s] = master[s] 
    <3>1. CASE \E r \in Stages : ResetRows(r)
      BY <3>1 DEF ResetRows, From
    <3>2. CASE \E t \in Stages : Persist(t)
      BY <1>1, <1>3, <3>2 DEF Persist, Shape
    <3>3. CASE \E t \in Stages : BuildArtifact(t)
      BY <3>3 DEF BuildArtifact, tables
    <3> QED
      BY <3>1, <3>2, <3>3, TellingSteps DEF Untold
  <2> QED
    BY <1>1, <2>1
<1> QED
  BY <1>2, <1>3

\* However often a stage is run again, interrupted or reset, an artifact that
\* replaces another gives each partition of it the id it had, and no other
\* partition that id (load_project_user_stories, build_user_stories_artifact).
THEOREM IdsKept == Spec => IdentityKept
<1>1. Init => Loop /\ IdInv
  BY LoopInit, IdInit
<1>2. Loop /\ IdInv /\ [Next]_vars => (Loop /\ IdInv)'
  BY LoopStep, IdStep
<1>3. IdInv /\ [Next]_vars =>
        [\A s \in Stages : master[s] # None /\ master'[s] # None =>
           \A n \in DOMAIN master[s], k \in DOMAIN master'[s] :
             master[s][n].id = master'[s][k].id
               <=> Partition(master[s][n]) = Partition(master'[s][k])]_vars
  BY KeepsIds DEF Agree
<1> QED
  BY <1>1, <1>2, <1>3, PTL DEF Spec, IdentityKept
=============================================================================
