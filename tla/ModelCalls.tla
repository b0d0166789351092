----------------------------- MODULE ModelCalls -----------------------------
(***************************************************************************)
(* How a stage talks to its reasoning model.  For each item (a chunk, a    *)
(* requirement, a story, or one structured call of Stage 4) an agent calls *)
(* generate_structured of an adapter (azure_openai.py, gemini.py), which   *)
(* may ask the provider again with the error of its schema; the agent may  *)
(* call the adapter again.  The layers count their attempts apart, and one *)
(* adapter instance serves all items of a process.  What the adapter keeps *)
(* of a refused completion is a file whose name must not be taken yet.     *)
(***************************************************************************)
EXTENDS Naturals, Sequences, FiniteSets

CONSTANTS
  NItems,      \* items of the stage, in order
  MaxLives     \* bound: processes of one run directory

ASSUME ConstantsAssumption == NItems \in Nat \ {0} /\ MaxLives \in Nat \ {0}

Items == 1 .. NItems
Kinds == {"discovery", "story", "scenario", "stage4"}
Providers == {"azure_openai", "gemini"}

\* What a request can come back with.  An error is a class the code tells apart;
\* a completion is malformed (the Python schema refuses it), unsound (about another
\* item, or not grounded: the agent refuses it) or sound.
Errors == {"timeout", "rate_limit", "rejected"}
Completions == {"malformed", "unsound", "sound"}
Unready == "unready"   \* the adapter itself refuses to ask
Replies == Errors \cup Completions \cup {Unready}

\* max_attempts, as the callers pass it, and what generate_structured makes of it.
MaxAttempts(k) == IF k = "story" THEN 2 ELSE 1
AttemptLimit(k) == IF MaxAttempts(k) > 2 THEN 2 ELSE MaxAttempts(k)
Budget(k) == 2 * AttemptLimit(k)

NoPrompt == [agent |-> 0, adapter |-> 0]
Pcs == {"call", "request", "parse", "check", "raised", "finished", "failed"}

VARIABLES
  kind, provider, logging,   \* the stage, its provider, log_llm_responses: settings
  ready,          \* the adapter's warmup passes (of Azure: the API version)
  pc, item,
  outer, inner,   \* attempts: of the agent, of the adapter
  prompt,         \* the replies whose errors the next request quotes; 0: none
  replies,        \* what came back for this item, in order
  call,           \* _structured_call_count of the adapter instance
  asked,          \* requests made in this run directory, over all processes
  accepted,       \* the completion that the agent returned, per item; 0: none
  recorded,       \* completions that this process was to keep in the run directory
  files,          \* the run directory: [name, content]
  lives

settings == <<kind, provider, logging, ready>>
progress == <<pc, item, outer, inner, prompt>>
kept == <<accepted, recorded, files, lives>>
vars == <<settings, progress, replies, call, asked, kept>>

Last == replies[Len(replies)]
Goto(where) == pc' = where

Init ==
  /\ kind \in Kinds /\ provider \in Providers /\ logging \in BOOLEAN
  /\ ready \in BOOLEAN /\ (provider = "gemini" => ready)   \* its factory has checked
  /\ pc = "call" /\ item = 1 /\ outer = 1 /\ inner = 1 /\ prompt = NoPrompt
  /\ replies = <<>> /\ call = 0 /\ asked = 0
  /\ accepted = [i \in Items |-> 0] /\ recorded = {} /\ files = {} /\ lives = 1
-----------------------------------------------------------------------------
\* retry.is_transient, after the adapter's classification: Gemini's 429 and 503
\* come out as ConfigurationError, Azure's rate limit is raised as it is.
IsTransient(error) ==
  error = "timeout" \/ (error = "rate_limit" /\ provider = "azure_openai")

Operation == IF kind \in {"story", "scenario"} /\ outer = 2 THEN "repair" ELSE "generate"
\* A case's repairs share operation and request id; the other requests name their item.
RequestId == IF kind = "stage4" THEN 0 ELSE item
\* Mutant: the name without the number of the call.
ResponseNameOfRequest ==
  [operation |-> Operation, request |-> RequestId, call |-> 0, attempt |-> inner]
\* _response_filename
ResponseName ==
  [operation |-> Operation, request |-> RequestId, call |-> call, attempt |-> inner]
Names == [operation : {"generate", "repair"}, request : 0 .. NItems, call : Nat, attempt : 1 .. 2]

\* The body of a file is replaced.
Write(name, content) == {f \in files : f.name # name} \cup {[name |-> name, content |-> content]}

\* _record_response
RecordResponse(failed) ==
  IF failed \/ logging
  THEN recorded' = recorded \cup {asked} /\ files' = Write(ResponseName, asked)
  ELSE UNCHANGED <<recorded, files>>

\* warmup raises ConfigurationError before the call is counted.
NotReady ==
  /\ pc = "call" /\ ~ready /\ Goto("raised") /\ replies' = Append(replies, Unready)
  /\ UNCHANGED <<settings, item, outer, inner, prompt, call, asked, kept>>

\* generate_structured: a new call of the adapter, with the agent's prompt.
GenerateStructured ==
  /\ pc = "call" /\ ready /\ Goto("request")
  /\ call' = call + 1 /\ inner' = 1 /\ prompt' = [prompt EXCEPT !.adapter = 0]
  /\ UNCHANGED <<settings, item, outer, replies, asked, kept>>

\* _request_completion: the provider answers or the SDK raises.
RequestCompletion ==
  /\ pc = "request"
  /\ \E r \in Replies \ {Unready} :
       /\ replies' = Append(replies, r) /\ asked' = asked + 1
       /\ Goto(IF r \in Errors THEN "raised" ELSE "parse")
  /\ UNCHANGED <<settings, item, outer, inner, prompt, call, kept>>

ParseRefused == pc = "parse" /\ Last = "malformed"

\* Mutant: the limit is tested before the attempt is counted.
RepairOnceMore ==
  /\ ParseRefused /\ inner <= AttemptLimit(kind) /\ RecordResponse(TRUE)
  /\ Goto("request") /\ inner' = inner + 1 /\ prompt' = [prompt EXCEPT !.adapter = Len(replies)]
  /\ UNCHANGED <<settings, item, outer, replies, call, asked, accepted, lives>>

\* The schema refuses the completion: ask again, with the error, ...
RepairPrompt ==
  /\ ParseRefused /\ inner < AttemptLimit(kind) /\ RecordResponse(TRUE)
  /\ Goto("request") /\ inner' = inner + 1 /\ prompt' = [prompt EXCEPT !.adapter = Len(replies)]
  /\ UNCHANGED <<settings, item, outer, replies, call, asked, accepted, lives>>

\* ... or raise MalformedModelOutputError.
Malformed ==
  /\ ParseRefused /\ inner >= AttemptLimit(kind) /\ RecordResponse(TRUE)
  /\ Goto("raised")
  /\ UNCHANGED <<settings, item, outer, inner, prompt, replies, call, asked, accepted, lives>>

Parsed ==
  /\ pc = "parse" /\ Last # "malformed" /\ RecordResponse(FALSE)
  /\ Goto("check")
  /\ UNCHANGED <<settings, item, outer, inner, prompt, replies, call, asked, accepted, lives>>

\* validate_response, _validate, _validate_plan, _validate_bundle: the answer is
\* about this item, and grounded in what the prompt carried.
Valid == Last = "sound"

Invalid ==
  /\ pc = "check" /\ ~Valid /\ Goto("raised")
  /\ UNCHANGED <<settings, item, outer, inner, prompt, replies, call, asked, kept>>

\* Mutant: the loop of the stage does not advance.
AcceptAndStay ==
  /\ pc = "check" /\ Valid
  /\ accepted' = [accepted EXCEPT ![item] = asked]
  /\ Goto(IF item = NItems THEN "finished" ELSE "call")
  /\ outer' = 1 /\ inner' = 1 /\ prompt' = NoPrompt /\ replies' = <<>> /\ call' = 0
  /\ asked' = 0 /\ recorded' = {} /\ files' = {}
  /\ UNCHANGED <<settings, item, lives>>

\* The agent returns, and the stage goes on with its next item.
Accept ==
  /\ pc = "check" /\ Valid
  /\ accepted' = [accepted EXCEPT ![item] = asked]
  /\ IF item = NItems THEN Goto("finished") /\ UNCHANGED item
     ELSE Goto("call") /\ item' = item + 1
  /\ outer' = 1 /\ inner' = 1 /\ prompt' = NoPrompt /\ replies' = <<>>
  /\ UNCHANGED <<settings, call, asked, recorded, files, lives>>

\* Mutants: every agent retries whatever was raised; the feedback is that of the
\* first reply.
RetryWhatever == outer = 1
FeedbackOfFirst == IF kind \in {"story", "scenario"} THEN [agent |-> 1, adapter |-> 0] ELSE NoPrompt

\* retry_transient_once in discovery, the two attempts of the other loops.
Retries == outer = 1 /\ (kind = "discovery" => IsTransient(Last))
\* str(exc) goes into the prompt of Stages 2 and 3; Stage 4 asks the same again.
Feedback ==
  IF kind \in {"story", "scenario"} THEN [agent |-> Len(replies), adapter |-> 0] ELSE NoPrompt

RetryCall ==
  /\ pc = "raised" /\ Retries
  /\ Goto("call") /\ outer' = 2 /\ prompt' = Feedback
  /\ UNCHANGED <<settings, item, inner, replies, call, asked, kept>>

\* The exception leaves the agent, the loop and the stage.
StageFails ==
  /\ pc = "raised" /\ ~Retries /\ Goto("failed")
  /\ UNCHANGED <<settings, item, outer, inner, prompt, replies, call, asked, kept>>

\* The command is run again after a failure or the death of its process, with a new
\* adapter and from the first item; an ingest would get another run and directory.
Restart ==
  /\ pc # "finished" /\ kind # "discovery" /\ lives < MaxLives /\ lives' = lives + 1
  /\ Goto("call") /\ item' = 1 /\ outer' = 1 /\ inner' = 1 /\ prompt' = NoPrompt
  /\ replies' = <<>> /\ call' = 0 /\ accepted' = [i \in Items |-> 0] /\ recorded' = {}
  /\ UNCHANGED <<settings, asked, files>>

Over == pc \in {"finished", "failed"} /\ UNCHANGED vars

Step ==
  \/ NotReady \/ GenerateStructured \/ RequestCompletion \/ RepairPrompt \/ Malformed
  \/ Parsed \/ Invalid \/ Accept \/ RetryCall \/ StageFails
Next == Step \/ Restart \/ Over

\* The SDK clients return or time out, and the process runs on.
Spec == Init /\ [][Next]_vars /\ WF_vars(Step)
-----------------------------------------------------------------------------
\* Types, and the budget of one item: with both layers retrying, a requirement costs
\* at most four requests and any other item at most two, in whatever order errors
\* and refused completions come.
TypeOK ==
  /\ kind \in Kinds /\ provider \in Providers /\ logging \in BOOLEAN /\ ready \in BOOLEAN
  /\ pc \in Pcs /\ item \in Items /\ outer \in 1 .. 2 /\ inner \in 1 .. AttemptLimit(kind)
  /\ prompt \in [agent : 0 .. Budget(kind), adapter : 0 .. Budget(kind)]
  /\ replies \in Seq(Replies) /\ Len(replies) <= Budget(kind)
  /\ call \in Nat /\ asked \in Nat /\ lives \in 1 .. MaxLives
  /\ accepted \in [Items -> 0 .. asked] /\ recorded \subseteq 1 .. asked
  /\ files \subseteq [name : Names, content : 1 .. asked]

\* Stage 1.2 asks again about a chunk only when the provider gave no answer at all:
\* a malformed, ungrounded or incomplete answer gets no second request.
OneAnswerPerChunk ==
  kind = "discovery" /\ pc \in {"call", "request"} =>
    \A n \in DOMAIN replies : IsTransient(replies[n])

\* A request of Stages 2 and 3 that follows a failure quotes the error of the reply
\* right before it, whichever of the two layers asks: no older error is the last word.
RepairQuotesLast ==
  kind \in {"story", "scenario"} /\ pc = "request" /\ replies # <<>> =>
    Len(replies) \in {prompt.agent, prompt.adapter}

\* Every completion that this process recorded, because its schema refused it or
\* because responses are logged, can be read in the run directory afterwards: no
\* later one of the same operation, item or case has taken its file.
RecordedAreKept == \A c \in recorded : \E f \in files : f.content = c

\* An item is given up only after a second attempt, or, in discovery, after an error
\* or an answer that may not be asked for again.
GivesUpLate ==
  pc = "failed" => \/ Len(replies) >= 2
                   \/ kind = "discovery" /\ ~IsTransient(Last)

\* An item costs a second attempt exactly where one is worth its price.
RetriesAreJustified == OneAnswerPerChunk /\ GivesUpLate

\* The layers of retries end: the stage answers all items or fails.
StageEnds == <>[](pc \in {"finished", "failed"})
=============================================================================
