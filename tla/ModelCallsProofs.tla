-------------------------- MODULE ModelCallsProofs --------------------------
(***************************************************************************)
(* Theorems about ModelCalls, for any number of items and of processes.    *)
(* The inductive invariant relates the replies of an item to the two       *)
(* attempt counters, which belong to different layers.                     *)
(***************************************************************************)
EXTENDS ModelCalls, TLAPS

Typed ==
  /\ kind \in Kinds /\ provider \in Providers /\ logging \in BOOLEAN /\ ready \in BOOLEAN
  /\ pc \in Pcs /\ item \in Items /\ outer \in 1 .. 2 /\ inner \in 1 .. AttemptLimit(kind)
  /\ prompt \in [agent : Nat, adapter : Nat]
  /\ replies \in Seq(Replies) /\ call \in Nat /\ asked \in Nat /\ lives \in 1 .. MaxLives
  /\ accepted \in [Items -> 0 .. asked] /\ recorded \subseteq 1 .. asked
  /\ files \subseteq [name : Names, content : 1 .. asked]

\* What the attempts before the current call of the adapter may have used up.
Before == IF outer = 1 THEN 0 ELSE AttemptLimit(kind)

Counted ==
  /\ pc \in {"call", "request"} => Len(replies) >= outer - 1
  /\ pc \in {"parse", "check", "raised", "failed"} => Len(replies) >= outer
  /\ pc = "call" => Len(replies) <= Before
  /\ pc = "request" => Len(replies) <= Before + inner - 1
  /\ pc \in {"parse", "check"} => Len(replies) <= Before + inner
  /\ pc \in {"raised", "failed"} => Len(replies) <= Before + AttemptLimit(kind)
  /\ pc = "finished" => Len(replies) = 0
  /\ prompt.agent <= Len(replies) /\ prompt.adapter <= Len(replies)
  /\ pc = "parse" => asked >= 1

LEMMA Limits ==
  ASSUME kind \in Kinds
  PROVE  /\ AttemptLimit(kind) \in 1 .. 2 /\ Budget(kind) = 2 * AttemptLimit(kind)
         /\ kind # "story" => AttemptLimit(kind) = 1
  BY DEF AttemptLimit, MaxAttempts, Budget

LEMMA Instance == NItems \in Nat \ {0} /\ MaxLives \in Nat \ {0} /\ 1 \in Items
  BY ConstantsAssumption DEF Items

LEMMA TypedInit == Init => Typed /\ Counted
<1> SUFFICES ASSUME Init PROVE Typed /\ Counted
  OBVIOUS
<1>1. AttemptLimit(kind) \in 1 .. 2
  BY Limits DEF Init
<1> QED
  BY <1>1, Instance DEF Init, Typed, Counted, NoPrompt, Pcs, Before

LEMMA NameTyped == ASSUME Typed PROVE ResponseName \in Names
<1>1. RequestId \in 0 .. NItems /\ inner \in 1 .. 2
  BY Limits, Instance DEF Typed, RequestId, Items
<1> QED
  BY <1>1 DEF ResponseName, Names, Operation, Typed

\* A file is written under a name of its own type.
LEMMA Recording ==
  ASSUME Typed, pc = "parse", asked >= 1, NEW failed \in BOOLEAN, RecordResponse(failed)
  PROVE  /\ recorded' \subseteq 1 .. asked
         /\ files' \subseteq [name : Names, content : 1 .. asked]
<1>1. CASE ~(failed \/ logging)
  BY <1>1 DEF RecordResponse, Typed
<1>2. CASE failed \/ logging
  <2>1. recorded' = recorded \cup {asked} /\ asked \in 1 .. asked
    BY <1>2 DEF RecordResponse, Typed
  <2>2. files' = {f \in files : f.name # ResponseName}
                   \cup {[name |-> ResponseName, content |-> asked]}
    BY <1>2 DEF RecordResponse, Write
  <2>3. [name |-> ResponseName, content |-> asked] \in [name : Names, content : 1 .. asked]
    BY <2>1, NameTyped
  <2> QED
    BY <2>1, <2>2, <2>3 DEF Typed
<1> QED
  BY <1>1, <1>2

LEMMA TypedNext == Typed /\ Counted /\ [Next]_vars => Typed' /\ Counted'
<1> SUFFICES ASSUME Typed, Counted, [Next]_vars PROVE Typed' /\ Counted'
  OBVIOUS
<1>0. /\ AttemptLimit(kind) \in 1 .. 2 /\ 1 \in Items /\ 1 \in 1 .. AttemptLimit(kind)
      /\ Len(replies) \in Nat
  BY Limits, Instance DEF Typed
<1> USE DEF Goto, settings, progress, kept
<1>1. CASE NotReady
  <2>1. Len(replies') = Len(replies) + 1 /\ replies' \in Seq(Replies)
    BY <1>1 DEF NotReady, Typed, Replies
  <2> QED
    BY <1>0, <1>1, <2>1 DEF NotReady, Typed, Counted, Pcs, Before
<1>2. CASE GenerateStructured
  BY <1>0, <1>2 DEF GenerateStructured, Typed, Counted, Pcs, Before
<1>3. CASE RequestCompletion
  <2>1. Len(replies') = Len(replies) + 1 /\ replies' \in Seq(Replies)
        /\ asked' = asked + 1 /\ pc' \in {"raised", "parse"}
    BY <1>3 DEF RequestCompletion, Typed
  <2>2. /\ accepted' \in [Items -> 0 .. asked'] /\ recorded' \subseteq 1 .. asked'
        /\ files' \subseteq [name : Names, content : 1 .. asked']
    <3>1. 0 .. asked \subseteq 0 .. asked' /\ 1 .. asked \subseteq 1 .. asked'
      BY <2>1 DEF Typed
    <3>2. accepted' = accepted /\ recorded' = recorded /\ files' = files
      BY <1>3 DEF RequestCompletion
    <3> QED
      BY <3>1, <3>2 DEF Typed
  <2>3. Counted'
    BY <1>0, <1>3, <2>1 DEF RequestCompletion, Typed, Counted, Before
  <2> QED
    BY <1>3, <2>1, <2>2, <2>3 DEF RequestCompletion, Typed, Pcs
<1>4. CASE RepairPrompt
  <2>1. /\ recorded' \subseteq 1 .. asked
        /\ files' \subseteq [name : Names, content : 1 .. asked]
    BY <1>4, Recording DEF RepairPrompt, ParseRefused, Counted
  <2> QED
    BY <1>0, <1>4, <2>1 DEF RepairPrompt, ParseRefused, Typed, Counted, Pcs, Before
<1>5. CASE Malformed \/ Parsed
  <2>1. /\ recorded' \subseteq 1 .. asked
        /\ files' \subseteq [name : Names, content : 1 .. asked]
    BY <1>5, Recording DEF Malformed, Parsed, ParseRefused, Counted
  <2>2. pc = "parse" /\ pc' \in {"raised", "check"}
        /\ UNCHANGED <<settings, item, outer, inner, prompt, replies, call, asked, accepted, lives>>
    BY <1>5 DEF Malformed, Parsed, ParseRefused
  <2>3. Counted'
    BY <1>0, <2>2 DEF Typed, Counted, Before
  <2> QED
    BY <2>1, <2>2, <2>3 DEF Typed, Pcs
<1>6. CASE Invalid \/ StageFails
  <2>1. pc \in {"check", "raised"} /\ pc' \in {"raised", "failed"}
        /\ (pc = "check" => pc' = "raised")
        /\ UNCHANGED <<settings, item, outer, inner, prompt, replies, call, asked, kept>>
    BY <1>6 DEF Invalid, StageFails
  <2>2. Counted'
    BY <1>0, <2>1 DEF Typed, Counted, Before
  <2> QED
    BY <2>1, <2>2 DEF Typed, Pcs
<1>7. CASE Accept
  <2>1. accepted' \in [Items -> 0 .. asked] /\ item' \in Items /\ replies' = <<>>
    BY <1>7, Instance DEF Accept, Typed, Items
  <2> QED
    BY <1>0, <1>7, <2>1 DEF Accept, Typed, Counted, Pcs, Before, NoPrompt
<1>8. CASE RetryCall
  <2>1. prompt' \in [agent : Nat, adapter : Nat]
        /\ prompt'.agent <= Len(replies) /\ prompt'.adapter <= Len(replies)
    BY <1>0, <1>8 DEF RetryCall, Feedback, NoPrompt
  <2>2. outer = 1
    BY <1>8 DEF RetryCall, Retries
  <2> QED
    BY <1>0, <1>8, <2>1, <2>2 DEF RetryCall, Typed, Counted, Pcs, Before
<1>9. CASE Restart
  <2>1. accepted' \in [Items -> 0 .. asked]
    BY <1>9 DEF Restart, Typed
  <2>2. lives' \in 1 .. MaxLives
    BY <1>9, Instance DEF Restart, Typed
  <2>3. replies' = <<>> /\ recorded' = {} /\ prompt' \in [agent : Nat, adapter : Nat]
        /\ prompt'.agent = 0 /\ prompt'.adapter = 0
    BY <1>9 DEF Restart, NoPrompt
  <2>4. Counted'
    BY <1>0, <1>9, <2>3 DEF Restart, Counted, Before
  <2> QED
    BY <1>0, <1>9, <2>1, <2>2, <2>3, <2>4 DEF Restart, Typed, Pcs
<1>10. CASE UNCHANGED vars
  BY <1>10 DEF vars, Typed, Counted, Before
<1> QED
  BY <1>1, <1>2, <1>3, <1>4, <1>5, <1>6, <1>7, <1>8, <1>9, <1>10 DEF Next, Step, Over

LEMMA TypedAlways == Spec => [](Typed /\ Counted)
  BY TypedInit, TypedNext, PTL DEF Spec

\* THEOREM: types, and an item's budget of requests, whatever the two layers do.
THEOREM TypeCorrect == Spec => []TypeOK
<1>1. ASSUME Typed, Counted PROVE TypeOK
  <2>1. AttemptLimit(kind) \in 1 .. 2 /\ Budget(kind) = 2 * AttemptLimit(kind)
    BY <1>1, Limits DEF Typed
  <2>2. Len(replies) <= Budget(kind)
    BY <1>1, <2>1 DEF Typed, Counted, Before, Pcs
  <2> QED
    BY <1>1, <2>1, <2>2 DEF Typed, Counted, TypeOK
<1> QED
  BY <1>1, TypedAlways, PTL
-----------------------------------------------------------------------------
\* The second attempt of discovery follows a transient error.
AfterTransient ==
  kind = "discovery" /\ outer = 2 => replies # <<>> /\ IsTransient(replies[1])

LEMMA AppendKeepsFirst ==
  ASSUME NEW S, NEW s \in Seq(S), NEW e \in S
  PROVE  /\ s # <<>> => Append(s, e)[1] = s[1]
         /\ Append(s, e) # <<>>
<1>1. Len(Append(s, e)) = Len(s) + 1 /\ Len(s) \in Nat
  OBVIOUS
<1>2. ASSUME s # <<>> PROVE Append(s, e)[1] = s[1]
  <2>1. 1 \in 1 .. Len(s)
    BY <1>2
  <2> QED
    BY <2>1
<1>3. Append(s, e) # <<>>
  BY <1>1
<1> QED
  BY <1>2, <1>3

LEMMA AfterTransientNext ==
  Typed /\ Counted /\ AfterTransient /\ [Next]_vars => AfterTransient'
<1> SUFFICES ASSUME Typed, Counted, AfterTransient, [Next]_vars PROVE AfterTransient'
  OBVIOUS
<1> USE DEF Goto, settings, progress, kept, AfterTransient, IsTransient
<1>1. CASE NotReady
  BY <1>1, AppendKeepsFirst DEF NotReady, Typed, Replies
<1>2. CASE RequestCompletion
  <2>1. PICK e \in Replies : replies' = Append(replies, e)
    BY <1>2 DEF RequestCompletion
  <2> QED
    BY <1>2, <2>1, AppendKeepsFirst DEF RequestCompletion, Typed
<1>3. CASE RetryCall
  <2>1. kind = "discovery" => IsTransient(Last) /\ outer = 1
    BY <1>3 DEF RetryCall, Retries
  <2>2. ASSUME kind = "discovery" PROVE Len(replies) = 1
    <3>1. AttemptLimit(kind) = 1 /\ outer = 1 /\ Len(replies) \in Nat
      BY <2>1, <2>2, Limits DEF Typed
    <3>2. Len(replies) >= 1 /\ Len(replies) <= 1
      BY <1>3, <3>1 DEF RetryCall, Counted, Before
    <3> QED
      BY <3>1, <3>2
  <2> QED
    BY <1>3, <2>1, <2>2 DEF RetryCall, Last, Typed
<1>4. CASE GenerateStructured \/ RepairPrompt \/ Malformed \/ Parsed \/ Invalid \/ StageFails
  BY <1>4 DEF GenerateStructured, RepairPrompt, Malformed, Parsed, Invalid, StageFails
<1>5. CASE Accept \/ Restart
  BY <1>5 DEF Accept, Restart
<1>6. CASE UNCHANGED vars
  BY <1>6 DEF vars
<1> QED
  BY <1>1, <1>2, <1>3, <1>4, <1>5, <1>6 DEF Next, Step, Over

\* THEOREM: discovery makes a second request only after a transient error.
THEOREM ChunksAskedOnce == Spec => []OneAnswerPerChunk
<1>1. Init => AfterTransient
  BY DEF Init, AfterTransient
<1>2. ASSUME Typed, Counted, AfterTransient PROVE OneAnswerPerChunk
  <2> SUFFICES ASSUME kind = "discovery", pc \in {"call", "request"}, NEW n \in DOMAIN replies
               PROVE  IsTransient(replies[n])
    BY DEF OneAnswerPerChunk
  <2>1. Len(replies) <= outer - 1
    BY <1>2, Limits DEF Typed, Counted, Before
  <2>2. n = 1 /\ outer = 2
    BY <1>2, <2>1 DEF Typed
  <2> QED
    BY <1>2, <2>2 DEF AfterTransient
<1> QED
  BY <1>1, <1>2, TypedAlways, AfterTransientNext, PTL DEF Spec

\* What the next request of Stages 2 and 3 will quote.
Quoted ==
  kind \in {"story", "scenario"} =>
    /\ pc = "call" => outer = 1 \/ prompt.agent = Len(replies)
    /\ pc = "request" => \/ replies = <<>>
                         \/ Len(replies) \in {prompt.agent, prompt.adapter}

LEMMA QuotedNext == Typed /\ Counted /\ Quoted /\ [Next]_vars => Quoted'
<1> SUFFICES ASSUME Typed, Counted, Quoted, [Next]_vars PROVE Quoted'
  OBVIOUS
<1> USE DEF Goto, settings, progress, kept, Quoted
<1>1. CASE GenerateStructured
  <2>1. prompt'.agent = prompt.agent
    BY <1>1 DEF GenerateStructured, Typed
  <2>2. outer = 1 => replies = <<>>
    BY <1>1 DEF GenerateStructured, Typed, Counted, Before
  <2> QED
    BY <1>1, <2>1, <2>2 DEF GenerateStructured, Typed
<1>2. CASE RepairPrompt
  <2>1. prompt'.adapter = Len(replies)
    BY <1>2 DEF RepairPrompt, Typed
  <2> QED
    BY <1>2, <2>1 DEF RepairPrompt
<1>3. CASE RetryCall
  BY <1>3 DEF RetryCall, Feedback
<1>4. CASE NotReady \/ RequestCompletion \/ Malformed \/ Parsed \/ Invalid \/ StageFails
  <2>1. pc' \notin {"call", "request"}
    BY <1>4 DEF NotReady, RequestCompletion, Malformed, Parsed, Invalid, StageFails
  <2> QED
    BY <2>1
<1>5. CASE Accept \/ Restart
  BY <1>5 DEF Accept, Restart
<1>6. CASE UNCHANGED vars
  BY <1>6 DEF vars
<1> QED
  BY <1>1, <1>2, <1>3, <1>4, <1>5, <1>6 DEF Next, Step, Over

\* THEOREM: a request that repairs quotes the failure right before it.
THEOREM RepairsAreCurrent == Spec => []RepairQuotesLast
<1>1. Init => Quoted
  BY DEF Init, Quoted
<1>2. Quoted => RepairQuotesLast
  BY DEF Quoted, RepairQuotesLast
<1> QED
  BY <1>1, <1>2, TypedAlways, QuotedNext, PTL DEF Spec

Spent == pc = "failed" => outer = 2 \/ (kind = "discovery" /\ ~IsTransient(Last))

\* THEOREM: an item is given up only when no attempt is left for it.
THEOREM NoEarlyFailure == Spec => []GivesUpLate
<1>1. Init => Spent
  BY DEF Init, Spent
<1>2. ASSUME Typed, Spent, [Next]_vars PROVE Spent'
  <2> USE DEF Goto, Spent
  <2>1. CASE StageFails
    BY <1>2, <2>1 DEF StageFails, Retries, Typed, settings, IsTransient, Last
  <2>2. CASE UNCHANGED vars
    BY <1>2, <2>2 DEF vars, settings, progress, Last, IsTransient
  <2>3. CASE NotReady \/ GenerateStructured \/ RequestCompletion \/ RepairPrompt \/ Malformed
    BY <2>3 DEF NotReady, GenerateStructured, RequestCompletion, RepairPrompt, Malformed
  <2>4. CASE Parsed \/ Invalid \/ Accept \/ RetryCall \/ Restart
    BY <2>4 DEF Parsed, Invalid, Accept, RetryCall, Restart
  <2> QED
    BY <1>2, <2>1, <2>2, <2>3, <2>4 DEF Next, Step, Over
<1>3. Typed /\ Counted /\ Spent => GivesUpLate
  BY DEF Typed, Counted, Spent, GivesUpLate
<1> QED
  BY <1>1, <1>2, <1>3, TypedAlways, PTL DEF Spec

\* THEOREM: the second attempts are those that are worth their price, and no others.
THEOREM RetriesJustified == Spec => []RetriesAreJustified
<1>1. OneAnswerPerChunk /\ GivesUpLate => RetriesAreJustified
  BY DEF RetriesAreJustified
<1> QED
  BY <1>1, ChunksAskedOnce, NoEarlyFailure, PTL
-----------------------------------------------------------------------------
\* A name that the current attempt cannot take.
Taken(n) ==
  /\ n.call <= call
  /\ pc \in {"request", "parse"} /\ n.call = call => n.attempt < inner

Safe == \A c \in recorded : \E f \in files : f.content = c /\ Taken(f.name)

LEMMA TakenStays ==
  ASSUME Typed, NEW n \in Names, Taken(n), call' \in Nat, call' >= call,
         pc' \in {"request", "parse"} =>
           \/ call' > call
           \/ pc \in {"request", "parse"} /\ inner' \in Nat /\ inner' >= inner
  PROVE  Taken(n)'
  BY DEF Taken, Typed, Names

\* What is recorded now cannot be overwritten later, nor does it overwrite.
LEMMA RecordingIsSafe ==
  ASSUME Typed, Safe, pc = "parse", NEW failed \in BOOLEAN, RecordResponse(failed),
         call' = call, pc' \notin {"request", "parse"} \/ (pc' = "request" /\ inner' = inner + 1)
  PROVE  Safe'
<1>1. ASSUME NEW f \in files, Taken(f.name) PROVE f \in files' /\ Taken(f.name)'
  <2>1. f.name # ResponseName /\ f.name \in Names
    BY <1>1 DEF Taken, ResponseName, Typed
  <2>2. f \in files'
    <3>1. \/ files' = files
          \/ files' = {g \in files : g.name # ResponseName}
                        \cup {[name |-> ResponseName, content |-> asked]}
      BY DEF RecordResponse, Write
    <3> QED
      BY <1>1, <2>1, <3>1
  <2>3. Taken(f.name)'
    <3>1. call' \in Nat /\ call' >= call /\ inner \in Nat /\ inner + 1 >= inner
      BY Limits DEF Typed
    <3> QED
      BY <1>1, <2>1, <3>1, TakenStays
  <2> QED
    BY <2>2, <2>3
<1>2. CASE ~(failed \/ logging)
  BY <1>1, <1>2 DEF RecordResponse, Safe
<1>3. CASE failed \/ logging
  <2>1. PICK new : new = [name |-> ResponseName, content |-> asked]
    OBVIOUS
  <2>2. new \in files' /\ recorded' = recorded \cup {asked} /\ new.content = asked
    BY <1>3, <2>1 DEF RecordResponse, Write
  <2>3. new.name.call = call /\ new.name.attempt = inner
    BY <2>1 DEF ResponseName
  <2>4. Taken(new.name)'
    BY <2>3, Limits DEF Taken, Typed
  <2> QED
    BY <1>1, <2>2, <2>4 DEF Safe
<1> QED
  BY <1>2, <1>3

LEMMA SafeNext == Typed /\ Counted /\ Safe /\ [Next]_vars => Safe'
<1> SUFFICES ASSUME Typed, Counted, Safe, [Next]_vars PROVE Safe'
  OBVIOUS
<1> USE DEF Goto, settings, progress, kept
<1>1. ASSUME UNCHANGED <<recorded, files>>, call' \in Nat, call' >= call,
             pc' \in {"request", "parse"} =>
               \/ call' > call
               \/ pc \in {"request", "parse"} /\ inner' \in Nat /\ inner' >= inner
      PROVE  Safe'
  <2>1. ASSUME NEW f \in files, Taken(f.name) PROVE Taken(f.name)'
    BY <1>1, <2>1, TakenStays DEF Typed
  <2> QED
    BY <1>1, <2>1 DEF Safe
<1>2. CASE GenerateStructured
  <2>1. call' \in Nat /\ call' > call /\ UNCHANGED <<recorded, files>>
    BY <1>2 DEF GenerateStructured, Typed
  <2> QED
    BY <1>1, <2>1 DEF Typed
<1>3. CASE RequestCompletion
  <2>1. call' = call /\ inner' = inner /\ pc = "request" /\ UNCHANGED <<recorded, files>>
    BY <1>3 DEF RequestCompletion
  <2> QED
    BY <1>1, <2>1, Limits DEF Typed
<1>4. CASE NotReady \/ Invalid \/ Accept \/ RetryCall \/ StageFails
  <2>1. call' = call /\ pc' \notin {"request", "parse"} /\ UNCHANGED <<recorded, files>>
    BY <1>4 DEF NotReady, Invalid, Accept, RetryCall, StageFails
  <2> QED
    BY <1>1, <2>1 DEF Typed
<1>5. CASE RepairPrompt
  BY <1>5, RecordingIsSafe DEF RepairPrompt, ParseRefused
<1>6. CASE Malformed
  BY <1>6, RecordingIsSafe DEF Malformed, ParseRefused
<1>7. CASE Parsed
  BY <1>7, RecordingIsSafe DEF Parsed
<1>8. CASE Restart
  BY <1>8 DEF Restart, Safe
<1>9. CASE UNCHANGED vars
  <2>1. UNCHANGED <<recorded, files, pc, call, inner>>
    BY <1>9 DEF vars
  <2> QED
    BY <2>1 DEF Safe, Taken
<1> QED
  BY <1>2, <1>3, <1>4, <1>5, <1>6, <1>7, <1>8, <1>9 DEF Next, Step, Over

\* THEOREM: a process overwrites no response that it recorded.
THEOREM RecordsAreKept == Spec => []RecordedAreKept
<1>1. Init => Safe
  BY DEF Init, Safe
<1>2. Safe => RecordedAreKept
  BY DEF Safe, RecordedAreKept
<1> QED
  BY <1>1, <1>2, TypedAlways, SafeNext, PTL DEF Spec
=============================================================================
