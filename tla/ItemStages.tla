----------------------------- MODULE ItemStages -----------------------------
(***************************************************************************)
(* Stages 2 and 3 of one run: workflows/user_story_graph.py and            *)
(* test_scenario_graph.py.  A stage loops over its items (requirements,    *)
(* or the stories of Stage 2), groups what the model answered into         *)
(* elements (stories, scenarios) and publishes them to PostgreSQL and to a *)
(* file.  The loop's channels are checkpointed after every node, and the   *)
(* next invocation starts from them: only those that its input names are   *)
(* overwritten.  Nothing keeps Stage 2, Stage 3 and a reset of the run     *)
(* apart.  A story has one acceptance criterion, named like the story.     *)
(***************************************************************************)
EXTENDS Naturals, Sequences, FiniteSets

CONSTANTS
  Requirements,  \* requirements.json: ids in order
  Sources,       \* values of source_req_id
  StoryKeys, ScenarioKeys,  \* canonical keys of what is generated
  None,
  MaxCandidates, MaxStarts, MaxResets   \* bounds

Stages == {2, 3}
ReqIds == {Requirements[n] : n \in DOMAIN Requirements}
Keys(s) == IF s = 2 THEN StoryKeys ELSE ScenarioKeys
AllKeys == StoryKeys \cup ScenarioKeys
ItemIds == ReqIds \cup Nat   \* stories are numbered in the order of their creation

ASSUME ConstantsAssumption ==
  /\ Requirements \in Seq(ReqIds)
  /\ None \notin ItemIds
  /\ MaxCandidates \in Nat /\ MaxStarts \in Nat /\ MaxResets \in Nat

Answers(keys) == UNION {[1 .. n -> keys] : n \in 0 .. MaxCandidates}

\* What the agent returned for an item, stamped with that item's source.
Response == [about : ItemIds, src : Sources, context : ItemIds, keys : Answers(AllKeys)]
Candidate == [item : ItemIds, about : ItemIds, src : Sources, context : ItemIds, key : AllKeys]
Channels == [index : Nat \ {0}, context : ItemIds \cup {None},
             response : Response \cup {None}, candidates : Seq(Candidate)]
Kept == [context : ItemIds \cup {None}, response : Response \cup {None}]
Carried(channels) == [context |-> channels.context, response |-> channels.response]
NoChannels == [index |-> 1, context |-> None, response |-> None, candidates |-> <<>>]

\* A story or a scenario: items are its requirement_ids or story_ids, about the
\* items it was written for (of a scenario: the criteria it covers), evidence
\* the items whose contexts it cites.
Element == [id : Nat, src : Sources, key : AllKeys,
            items : SUBSET ItemIds, about : SUBSET ItemIds, evidence : SUBSET ItemIds]
Artifact == Seq(Element)

Pcs == {"down", "load", "restore", "check", "retrieve", "generate", "record",
        "build", "persist", "write", "gate", "complete"}

VARIABLES
  source,         \* source_req_id of each requirement: an input, never changed
  master, rows,   \* master_artifacts; ids in user_stories and test_scenarios
  status,         \* workflow_runs
  file,           \* user-stories.json, test-scenarios.json
  saved,          \* the channels an invocation takes over from the loop's checkpoint
  pc, mem, loaded, built,      \* the processes; loaded: the stories of Stage 3
  next,                        \* the next id that was never used
  resetting, overlapped,       \* a reset's stage; invocations or a reset overlapped
  starts, resets               \* counters of the bounds

tables == <<master, rows>>
proc == <<pc, mem, loaded, built>>
maintenance == <<source, resetting, overlapped, starts, resets>>
vars == <<tables, status, file, saved, proc, next, maintenance>>

Other(s) == 5 - s
Items(s) ==
  IF s = 2 THEN [n \in DOMAIN Requirements |->
                   [id |-> Requirements[n], src |-> source[Requirements[n]]]]
  ELSE loaded
Current(s) == Items(s)[mem[s].index]
Ids(a) == {a[n].id : n \in DOMAIN a}

Init ==
  /\ source \in [ReqIds -> Sources]
  /\ master = [s \in Stages |-> None] /\ rows = [s \in Stages |-> {}]
  /\ status = [s \in Stages |-> "none"] /\ file = [s \in Stages |-> None]
  /\ saved = [s \in Stages |-> Carried(NoChannels)]
  /\ pc = [s \in Stages |-> "down"] /\ mem = [s \in Stages |-> NoChannels]
  /\ loaded = <<>> /\ built = [s \in Stages |-> <<>>]
  /\ next = 1 /\ resetting = 0 /\ overlapped = FALSE /\ starts = 0 /\ resets = 0
-----------------------------------------------------------------------------
Goto(s, where) == pc' = [pc EXCEPT ![s] = where]

\* The process is gone, and what it had in memory.
Stop(s) ==
  /\ Goto(s, "down") /\ mem' = [mem EXCEPT ![s] = NoChannels]
  /\ loaded' = IF s = 3 THEN <<>> ELSE loaded
  /\ built' = [built EXCEPT ![s] = <<>>]

Record(s, what) == status' = [status EXCEPT ![s] = what]

\* Mutant: the status of the last invocation stays.
StartSilently(s) ==
  /\ pc[s] = "down" /\ Goto(s, "load") /\ starts < MaxStarts /\ starts' = starts + 1
  /\ overlapped' = (overlapped \/ pc[Other(s)] # "down" \/ resetting # 0)
  /\ UNCHANGED <<tables, status, file, saved, mem, loaded, built, next, source, resetting, resets>>

Start(s) ==
  /\ pc[s] = "down" /\ Goto(s, "load") /\ Record(s, "started")
  /\ starts < MaxStarts /\ starts' = starts + 1
  /\ overlapped' = (overlapped \/ pc[Other(s)] # "down" \/ resetting # 0)
  /\ UNCHANGED <<tables, file, saved, mem, loaded, built, next, source, resetting, resets>>

\* The loop's graph is invoked: its input sets the index and the lists, the
\* other channels are those of the checkpoint.  Without items it is not invoked.
Invoke(s, items) ==
  IF items = <<>> THEN /\ Goto(s, "build") /\ mem' = [mem EXCEPT ![s] = NoChannels]
  ELSE /\ Goto(s, "retrieve")
       /\ mem' = [mem EXCEPT ![s] = [NoChannels EXCEPT !.context = saved[s].context,
                                                       !.response = saved[s].response]]

LoadRequirements ==
  /\ pc[2] = "load" /\ Invoke(2, Items(2))
  /\ UNCHANGED <<tables, status, file, saved, loaded, built, next, maintenance>>

\* _load_stories: the file, or else the artifact in PostgreSQL, which is written
\* to the file again.
LoadFile ==
  /\ pc[3] = "load" /\ file[2] # None
  /\ loaded' = file[2] /\ Goto(3, "check")
  /\ UNCHANGED <<tables, status, file, saved, mem, built, next, maintenance>>

LoadMaster ==
  /\ pc[3] = "load" /\ file[2] = None /\ master[2] # None
  /\ loaded' = master[2] /\ Goto(3, "restore")
  /\ UNCHANGED <<tables, status, file, saved, mem, built, next, maintenance>>

Restore ==
  /\ pc[3] = "restore"
  /\ file' = [file EXCEPT ![2] = loaded] /\ Goto(3, "check")
  /\ UNCHANGED <<tables, status, saved, mem, loaded, built, next, maintenance>>

\* A story must have the source of every requirement it is linked to.
CheckStories ==
  /\ pc[3] = "check"
  /\ \A n \in DOMAIN loaded : \A r \in loaded[n].items : r \in ReqIds /\ source[r] = loaded[n].src
  /\ Invoke(3, loaded)
  /\ UNCHANGED <<tables, status, file, saved, loaded, built, next, maintenance>>
-----------------------------------------------------------------------------
\* A node's update of the channels, checkpointed.
Update(s, channels, where) ==
  /\ mem' = [mem EXCEPT ![s] = channels] /\ saved' = [saved EXCEPT ![s] = Carried(channels)]
  /\ Goto(s, where)
  /\ UNCHANGED <<tables, status, file, loaded, built, next, maintenance>>

Retrieve(s) ==
  /\ pc[s] = "retrieve"
  /\ Update(s, [mem[s] EXCEPT !.context = IF @ = None THEN Current(s).id ELSE @], "generate")

Generate(s) ==
  /\ pc[s] = "generate"
  /\ \/ mem[s].response # None /\ Update(s, mem[s], "record")
     \/ /\ mem[s].response = None
        /\ \E keys \in Answers(Keys(s)) :
             Update(s, [mem[s] EXCEPT !.response =
               [about |-> Current(s).id, src |-> Current(s).src,
                context |-> mem[s].context, keys |-> keys]], "record")

Candidates(item, response) ==
  [n \in DOMAIN response.keys |->
     [item |-> item, about |-> response.about, src |-> response.src,
      context |-> response.context, key |-> response.keys[n]]]

AfterItem(s) == IF mem[s].index >= Len(Items(s)) THEN "build" ELSE "retrieve"

\* Mutant: the item's context stays for the next item.
RecordKeepsContext(s) ==
  /\ pc[s] = "record"
  /\ Update(s, [mem[s] EXCEPT !.index = @ + 1, !.response = None,
                  !.candidates = @ \o Candidates(Current(s).id, mem[s].response)], AfterItem(s))

RecordResult(s) ==
  /\ pc[s] = "record"
  /\ Update(s, [index |-> mem[s].index + 1, context |-> None, response |-> None,
                candidates |-> mem[s].candidates \o Candidates(Current(s).id, mem[s].response)],
            AfterItem(s))
-----------------------------------------------------------------------------
Partition(c) == <<c.src, c.key>>
Firsts(cs) ==
  LET first == {n \in DOMAIN cs : \A k \in 1 .. n - 1 : Partition(cs[k]) # Partition(cs[n])}
      Rank(n) == Cardinality({m \in first : m <= n})
  IN [k \in 1 .. Cardinality(first) |-> CHOOSE n \in first : Rank(n) = k]
Group(cs, n) == {cs[k] : k \in {m \in DOMAIN cs : Partition(cs[m]) = Partition(cs[n])}}
Existing(a, p) == IF a = None THEN {} ELSE {a[n].id : n \in {m \in DOMAIN a : Partition(a[m]) = p}}

\* One element per partition, in order of appearance; its id is the one the
\* partition has in the stored artifact, or a new one.
Build(cs, existing, fresh) ==
  LET firsts == Firsts(cs) IN
  [n \in DOMAIN firsts |->
     LET group == Group(cs, firsts[n])
         prior == Existing(existing, Partition(cs[firsts[n]]))
     IN [id |-> IF prior = {} THEN fresh + n - 1 ELSE CHOOSE id \in prior : TRUE,
         src |-> cs[firsts[n]].src, key |-> cs[firsts[n]].key,
         items |-> {c.item : c \in group}, about |-> {c.about : c \in group},
         evidence |-> {c.context : c \in group}]]

\* Mutant: ids are not looked up.
BuildArtifactAnew(s) ==
  /\ pc[s] = "build" /\ Goto(s, "persist")
  /\ built' = [built EXCEPT ![s] = Build(mem[s].candidates, None, next)]
  /\ next' = next + Len(built'[s])
  /\ UNCHANGED <<tables, status, file, saved, mem, loaded, maintenance>>

BuildArtifact(s) ==
  /\ pc[s] = "build" /\ Goto(s, "persist")
  /\ built' = [built EXCEPT ![s] = Build(mem[s].candidates, master[s], next)]
  /\ next' = next + Len(built'[s])
  /\ UNCHANGED <<tables, status, file, saved, mem, loaded, maintenance>>

\* Mutant: no foreign keys.
PersistUnchecked(s) ==
  /\ pc[s] = "persist" /\ Goto(s, "write")
  /\ master' = [master EXCEPT ![s] = built[s]]
  /\ rows' = [rows EXCEPT ![s] = @ \cup Ids(built[s])]
  /\ UNCHANGED <<status, file, saved, mem, loaded, built, next, maintenance>>

\* One transaction; links and criteria of scenarios refer to rows of stories.
\* Rows of elements that the artifact no longer has stay.
Persist(s) ==
  /\ pc[s] = "persist" /\ Goto(s, "write")
  /\ s = 3 => \A n \in DOMAIN built[3] : built[3][n].items \cup built[3][n].about \subseteq rows[2]
  /\ master' = [master EXCEPT ![s] = built[s]]
  /\ rows' = [rows EXCEPT ![s] = @ \cup Ids(built[s])]
  /\ UNCHANGED <<status, file, saved, mem, loaded, built, next, maintenance>>

Write(s) ==
  /\ pc[s] = "write" /\ Goto(s, "gate")
  /\ file' = [file EXCEPT ![s] = built[s]]
  /\ UNCHANGED <<tables, status, saved, mem, loaded, built, next, maintenance>>

Published(s) == file[s] # None /\ master[s] = file[s]

\* Mutant: the criteria of a scenario are not compared.
TraceableByStory(s, e) == e.items \subseteq Ids(Items(s))

\* What _validate_exit_gate asks of an element.
Traceable(s, e) ==
  /\ e.items \subseteq Ids(Items(s))
  /\ s = 3 => \A story \in e.items : e.about \subseteq {story}

ExitGate(s) ==
  /\ pc[s] = "gate" /\ Goto(s, "complete") /\ Published(s)
  /\ \A n \in DOMAIN file[s] : Traceable(s, file[s][n])
  /\ UNCHANGED <<tables, status, file, saved, mem, loaded, built, next, maintenance>>

Complete(s) ==
  /\ pc[s] = "complete" /\ Record(s, "completed") /\ Stop(s)
  /\ UNCHANGED <<tables, file, saved, next, maintenance>>
-----------------------------------------------------------------------------
\* Any exception: of a service, a refusal, a foreign key, the exit gate.
Fail(s) ==
  /\ pc[s] \notin {"down", "record", "complete"} /\ Record(s, "failed") /\ Stop(s)
  /\ UNCHANGED <<tables, file, saved, next, maintenance>>

Crash(s) ==
  /\ pc[s] # "down" /\ Stop(s)
  /\ UNCHANGED <<tables, status, file, saved, next, maintenance>>

\* Somebody removes user-stories.json between two invocations: Stage 3 can do
\* without it.
LoseFile ==
  /\ \A s \in Stages : pc[s] = "down"
  /\ file[2] # None /\ file' = [file EXCEPT ![2] = None]
  /\ UNCHANGED <<tables, status, saved, proc, next, maintenance>>

\* reset_stage_run of stage r: the tables in one transaction, then the files,
\* which may fail.
From(r, f, none) == [s \in Stages |-> IF s >= r THEN none ELSE f[s]]

ResetRows(r) ==
  /\ resetting = 0 /\ resetting' = r
  /\ resets < MaxResets /\ resets' = resets + 1
  /\ overlapped' = (overlapped \/ \E s \in Stages : pc[s] # "down")
  /\ master' = From(r, master, None) /\ rows' = From(r, rows, {})
  /\ status' = From(r, status, "none") /\ saved' = From(r, saved, Carried(NoChannels))
  /\ UNCHANGED <<file, proc, next, source, starts>>

ResetFiles ==
  /\ resetting # 0 /\ resetting' = 0
  /\ file' \in {file, From(resetting, file, None)}
  /\ UNCHANGED <<tables, status, saved, proc, next, source, overlapped, starts, resets>>

Advance(s) ==
  \/ Retrieve(s) \/ Generate(s) \/ RecordResult(s) \/ BuildArtifact(s) \/ Persist(s)
  \/ Write(s) \/ ExitGate(s) \/ Complete(s) \/ Fail(s) \/ Crash(s)
  \/ s = 2 /\ LoadRequirements
  \/ s = 3 /\ (LoadFile \/ LoadMaster \/ Restore \/ CheckStories)

Next ==
  \/ \E s \in Stages : Start(s) \/ Advance(s) \/ ResetRows(s)
  \/ LoseFile \/ ResetFiles

Spec == Init /\ [][Next]_vars

-----------------------------------------------------------------------------
OwnCandidate(c) == c.about = c.item /\ c.context = c.item

\* Whatever invocations were interrupted where, only the first item of the
\* current one can be recorded with the context or the response of another: the
\* channels are cleared with every item (record_requirement_result, :347-353).
MisplacedOnlyFirst == \A s \in Stages :
  \A n \in DOMAIN mem[s].candidates :
    ~OwnCandidate(mem[s].candidates[n]) => mem[s].candidates[n].item = Items(s)[1].id

\* A completed stage has published one artifact: the file is what PostgreSQL
\* has, or is gone, through failures and crashes of later invocations of the
\* other stage (_validate_exit_gate, :253-256).
CompletedIsPublished == ~overlapped => \A s \in Stages :
  status[s] = "completed" => master[s] # None /\ file[s] \in {None, master[s]}

\* No completed Stage 3 attributes a scenario to a story it was not written for,
\* whatever an interrupted invocation left in the channels (exit gate, :287-294).
ScenarioOfItsStory == ~overlapped =>
  (status[3] = "completed" => \A n \in DOMAIN master[3] : master[3][n].about = master[3][n].items)

\* The rows a stored artifact names are there, and the stories its scenarios are
\* linked to, also when resets and the other stage run in between.
ArtifactsHaveRows == \A s \in Stages : master[s] # None =>
  /\ Ids(master[s]) \subseteq rows[s]
  /\ s = 3 => \A n \in DOMAIN master[3] : master[3][n].items \subseteq rows[2]

\* A new artifact gives a partition of the one it replaces the id it had, and no
\* other partition that id (load_project_user_stories: "permanent-ID reuse").
IdentityKept == [][\A s \in Stages : master[s] # None /\ master'[s] # None =>
  \A n \in DOMAIN master[s], k \in DOMAIN master'[s] :
    master[s][n].id = master'[s][k].id <=> Partition(master[s][n]) = Partition(master'[s][k])]_vars

\* README.md:27: Stage 2 retrieves evidence for every requirement, so a
\* published story cites the contexts of its own requirements.
EvidenceIsOwn == ~overlapped =>
  (status[2] = "completed" => \A n \in DOMAIN master[2] : master[2][n].evidence \subseteq master[2][n].items)
=============================================================================
