---------------------------- MODULE Orchestrator ----------------------------
(***************************************************************************)
(* The orchestrator service: PlannerWorker (orchestrator_agent/worker.py), *)
(* one thread that takes Kafka records one at a time, and PlannerAgent     *)
(* (orchestrator_agent/agent.py), the LangGraph workflow that worker runs  *)
(* and resumes.  Every graph node is one action of the worker thread; an   *)
(* await node that runs out of resume values pauses the workflow and frees *)
(* the thread.  The RAG, teaching and quiz services are seen through their *)
(* contract only: a request is taken, and answered or not.                 *)
(*                                                                         *)
(* Text (prompts, materials, quizzes) is abstracted to what the code tests *)
(* of it: whether it is empty.  Progress updates are left out.             *)
(***************************************************************************)
EXTENDS Naturals, Sequences, FiniteSets

CONSTANTS
  Submission,    \* records of the init-planner topic
  Workflow,      \* the request ids that run() draws (uuid4().hex)
  RawLevel,      \* learner levels as users type them
  Level,         \* the levels after str.lower()
  Lower,         \* str.lower() on the levels in use
  EnumLevel,     \* UserLevelEnum: the levels the LLM may answer with
  UnknownLevel,  \* the default "unknown" of await_teaching
  Payload,       \* the PlannerRequestEvents users submit
  Faults,        \* which of the failures below may happen
  NoWorkflow, NoSubmission

PayloadType == [levels : Seq(RawLevel), files : BOOLEAN, injection : BOOLEAN,
                quizWords : BOOLEAN, blankPrompt : BOOLEAN, blankSid : BOOLEAN]

(***************************************************************************)
(* "publish_fails": producer.send or flush raises, and _publish swallows   *)
(* it.  "agent_silent": an agent takes a request and publishes nothing.    *)
(* "redelivery": a record handled since the last offset commit is read     *)
(* again (consumer group rebalance, agent restart).  "restart": the        *)
(* orchestrator process dies or is stopped, and is started again.          *)
(* "bad_record": a topic has a record that is no JSON object.              *)
(***************************************************************************)
FaultKind == {"publish_fails", "agent_silent", "redelivery", "restart", "bad_record"}

ASSUME ConstantsAssumption ==
  /\ NoWorkflow \notin Workflow
  /\ NoSubmission \notin Submission
  /\ Lower \in [RawLevel -> Level]
  /\ EnumLevel \subseteq Level
  /\ UnknownLevel \notin Level
  /\ Payload \subseteq PayloadType
  /\ Faults \subseteq FaultKind

AnyLevel == Level \cup {UnknownLevel}
Kind     == {"rag", "teaching", "quiz"}

\* A request to an agent: the idx-th level of workflow wf (idx = 1, level
\* UnknownLevel for RAG and quiz requests, which are not per level).
Request    == [kind : Kind, wf : Workflow, idx : Nat, level : AnyLevel]
\* Its completion: text is whether the material it carries is non-empty,
\* failed whether its status field says "failed".
Completion == [kind : Kind, wf : Workflow, idx : Nat, level : AnyLevel,
               text : BOOLEAN, failed : BOOLEAN]
\* The events that end a workflow for the user.
Terminal   == [event : {"workflow-complete", "clarify-user-level"},
               status : {"blocked", "clarifying", "failed", "partial", "complete"}]

AwaitNode == {"await_rag", "await_teaching", "await_quiz"}
Node == AwaitNode \cup {"infer_level", "clarify_and_end", "run_rag",
                        "dispatch_teaching", "run_quiz", "finish"}
\* "absent": no such thread; "END": the graph ended; "error": a node raised;
\* "lost": the process restarted and MemorySaver lost the thread.
Pc == Node \cup {"absent", "END", "error", "lost"}

VARIABLES
  queue,         \* init-planner records still to be read
  uncommitted,   \* init-planner records read since the last offset commit
  payload,       \* what each submission asks for
  requests,      \* agent requests not yet taken by an agent
  completions,   \* agent completions not yet read by the worker
  terminal,      \* terminal events published per workflow, oldest first
  busy,          \* the workflow the worker thread executes, or NoWorkflow
  active,        \* PlannerAgent._active_requests
  pc,            \* the next node of each LangGraph thread
  resumed,       \* resume values recorded for the thread's pending task
  origin,        \* the submission that each workflow runs
  levels, quizRequested, status, errors, rag, materials, quiz,  \* PlannerState
  issued,        \* requests each workflow has published, by kind
  replies        \* completions each workflow has consumed

channels == <<queue, uncommitted, payload, requests, completions, terminal>>
thread   == <<busy, active, pc, resumed, origin>>
state    == <<levels, quizRequested, status, errors, rag, materials, quiz>>
history  == <<issued, replies>>
vars     == <<channels, thread, state, history>>

-----------------------------------------------------------------------------
Init ==
  /\ queue = Submission
  /\ uncommitted = {}
  /\ payload \in [Submission -> Payload]
  /\ requests = {}
  /\ completions = {}
  /\ terminal = [w \in Workflow |-> <<>>]
  /\ busy = NoWorkflow
  /\ active = {}
  /\ pc = [w \in Workflow |-> "absent"]
  /\ resumed = [w \in Workflow |-> <<>>]
  /\ origin = [w \in Workflow |-> NoSubmission]
  /\ levels = [w \in Workflow |-> <<>>]
  /\ quizRequested = [w \in Workflow |-> FALSE]
  /\ status = [w \in Workflow |-> "active"]
  /\ errors = [w \in Workflow |-> FALSE]
  /\ rag = [w \in Workflow |-> FALSE]
  /\ materials = [w \in Workflow |-> [l \in AnyLevel |-> "absent"]]
  /\ quiz = [w \in Workflow |-> FALSE]
  /\ issued = [w \in Workflow |-> [k \in Kind |-> 0]]
  /\ replies = [w \in Workflow |-> {}]

InputOf(w) == payload[origin[w]]

-----------------------------------------------------------------------------
(* What several nodes do.                                                  *)

At(w, node) == busy = w /\ pc[w] = node

Goto(w, node) == pc' = [pc EXCEPT ![w] = node] /\ UNCHANGED busy

\* graph.invoke returns: the node reached interrupt() without a value, ...
Pause == busy' = NoWorkflow /\ UNCHANGED <<pc, resumed, active>>

\* Mutant: the finished request stays in _active_requests.
EndStillActive(w) ==
  /\ busy' = NoWorkflow
  /\ pc' = [pc EXCEPT ![w] = "END"]
  /\ UNCHANGED active

\* ... reached END, ...
End(w) ==
  /\ busy' = NoWorkflow
  /\ pc' = [pc EXCEPT ![w] = "END"]
  /\ active' = active \ {w}

\* ... or raised: run() and resume() log the error and forget the workflow.
Raise(w) ==
  /\ busy' = NoWorkflow
  /\ pc' = [pc EXCEPT ![w] = "error"]
  /\ active' = active \ {w}

\* _publish: each send may fail on its own, and nobody is told.
PublishRequests(w, kind, rs) ==
  /\ \E lost \in SUBSET rs :
       /\ lost # {} => "publish_fails" \in Faults
       /\ requests' = requests \cup (rs \ lost)
  /\ issued' = [issued EXCEPT ![w][kind] = @ + Cardinality(rs)]

\* Mutant: the event is sent again when flush raises after send.
PublishTwice(w, event, st) ==
  terminal' = [terminal EXCEPT ![w] =
                 @ \o [i \in 1..2 |-> [event |-> event, status |-> st]]]

PublishTerminal(w, event, st) ==
  \/ terminal' = [terminal EXCEPT ![w] =
                    Append(@, [event |-> event, status |-> st])]
  \/ "publish_fails" \in Faults /\ UNCHANGED terminal

\* A completed await node: its resume values are spent.
Consume(w) ==
  /\ resumed' = [resumed EXCEPT ![w] = <<>>]
  /\ replies' = [replies EXCEPT ![w] =
                   @ \cup {resumed[w][i] : i \in 1..Len(resumed[w])}]

-----------------------------------------------------------------------------
(* The nodes of the graph.                                                 *)

\* Mutant: produce and await are one node, which runs again on resume.
EdgeToProducer(node) ==
  CASE node = "run_rag"           -> "await_rag"
    [] node = "await_rag"         -> "run_rag"
    [] node = "dispatch_teaching" -> "await_teaching"
    [] node = "run_quiz"          -> "await_quiz"
    [] node = "await_quiz"        -> "finish"

\* The unconditional edges of the graph.
Edge(node) ==
  CASE node = "run_rag"           -> "await_rag"
    [] node = "await_rag"         -> "dispatch_teaching"
    [] node = "dispatch_teaching" -> "await_teaching"
    [] node = "run_quiz"          -> "await_quiz"
    [] node = "await_quiz"        -> "finish"

RouteAfterInfer(w) == IF InputOf(w).files THEN "run_rag" ELSE "dispatch_teaching"

\* The first progress update validates sid outside any try.
InferRaises(w) ==
  /\ InputOf(w).blankSid
  /\ Raise(w)
  /\ UNCHANGED <<levels, quizRequested, status, errors>>

InferBlocked(w) ==
  /\ ~InputOf(w).blankSid
  /\ InputOf(w).injection
  /\ status' = [status EXCEPT ![w] = "blocked"]
  /\ errors' = [errors EXCEPT ![w] = TRUE]
  /\ Goto(w, "clarify_and_end")
  /\ UNCHANGED <<active, levels, quizRequested>>

Lowered(ls) == [i \in 1..Len(ls) |-> Lower[ls[i]]]

InferProvided(w) ==
  /\ ~InputOf(w).blankSid /\ ~InputOf(w).injection
  /\ levels[w] # <<>>
  /\ levels' = [levels EXCEPT ![w] = Lowered(levels[w])]
  /\ quizRequested' = [quizRequested EXCEPT ![w] = InputOf(w).quizWords]
  /\ Goto(w, RouteAfterInfer(w))
  /\ UNCHANGED <<active, status, errors>>

\* One LLM call: it fails, is not confident enough, or names a level.
InferByLLM(w) ==
  /\ ~InputOf(w).blankSid /\ ~InputOf(w).injection
  /\ levels[w] = <<>>
  /\ UNCHANGED active
  /\ \/ \E failed \in BOOLEAN :
          /\ errors' = [errors EXCEPT ![w] = failed]
          /\ status' = [status EXCEPT ![w] = "clarifying"]
          /\ Goto(w, "clarify_and_end")
          /\ UNCHANGED <<levels, quizRequested>>
     \/ \E l \in EnumLevel, q \in BOOLEAN :
          /\ levels' = [levels EXCEPT ![w] = <<l>>]
          /\ quizRequested' = [quizRequested EXCEPT ![w] = q]
          /\ Goto(w, RouteAfterInfer(w))
          /\ UNCHANGED <<status, errors>>

InferLevel(w) ==
  /\ At(w, "infer_level")
  /\ InferRaises(w) \/ InferBlocked(w) \/ InferProvided(w) \/ InferByLLM(w)
  /\ UNCHANGED <<channels, resumed, origin, rag, materials, quiz, history>>

ClarifyAndEnd(w) ==
  /\ At(w, "clarify_and_end")
  /\ PublishTerminal(w, IF status[w] = "blocked" THEN "workflow-complete"
                                                 ELSE "clarify-user-level", status[w])
  /\ End(w)
  /\ UNCHANGED <<queue, uncommitted, payload, requests, completions, resumed,
                 origin, state, history>>

\* RAGRequestEvent refuses a blank user_request.
RunRag(w) ==
  /\ At(w, "run_rag")
  /\ \/ /\ InputOf(w).blankPrompt
        /\ Raise(w)
        /\ UNCHANGED <<requests, issued>>
     \/ /\ ~InputOf(w).blankPrompt
        /\ PublishRequests(w, "rag",
             {[kind |-> "rag", wf |-> w, idx |-> 1, level |-> UnknownLevel]})
        /\ Goto(w, Edge("run_rag"))
        /\ UNCHANGED active
  /\ UNCHANGED <<queue, uncommitted, payload, completions, terminal, resumed,
                 origin, state, replies>>

\* A payload without compiled_material reads as "".
RagText(m) == m.kind = "rag" /\ m.text

AwaitRag(w) ==
  /\ At(w, "await_rag")
  /\ \/ /\ resumed[w] = <<>>
        /\ Pause
        /\ UNCHANGED <<rag, replies>>
     \/ /\ resumed[w] # <<>>
        /\ rag' = [rag EXCEPT ![w] = RagText(resumed[w][1])]
        /\ Consume(w)
        /\ Goto(w, Edge("await_rag"))
        /\ UNCHANGED active
  /\ UNCHANGED <<channels, origin, levels, quizRequested, status, errors,
                 materials, quiz, issued>>

\* Mutant: the first level is skipped.
TeachingRequestsButFirst(w) ==
  {[kind |-> "teaching", wf |-> w, idx |-> i, level |-> levels[w][i]]
     : i \in 2..Len(levels[w])}

TeachingRequests(w) ==
  {[kind |-> "teaching", wf |-> w, idx |-> i, level |-> levels[w][i]]
     : i \in 1..Len(levels[w])}

DispatchTeaching(w) ==
  /\ At(w, "dispatch_teaching")
  /\ PublishRequests(w, "teaching", TeachingRequests(w))
  /\ Goto(w, Edge("dispatch_teaching"))
  /\ UNCHANGED <<queue, uncommitted, payload, completions, terminal, active,
                 resumed, origin, state, replies>>

\* Mutant: the level is looked up under a name the payload does not have.
LevelUnread(m) == UnknownLevel

\* A payload without user_level reads as level "unknown", content "".
LevelIn(m) == IF m.kind = "teaching" THEN m.level ELSE UnknownLevel
TeachingText(m) == m.kind = "teaching" /\ m.text

\* The materials dict after the loop: the last completion of a level wins.
MaterialFor(vals, l) ==
  LET Last(i) == /\ LevelIn(vals[i]) = l
                 /\ \A j \in (i + 1)..Len(vals) : LevelIn(vals[j]) # l
  IN  IF \A i \in 1..Len(vals) : LevelIn(vals[i]) # l THEN "absent"
      ELSE IF \E i \in 1..Len(vals) : Last(i) /\ TeachingText(vals[i])
           THEN "text" ELSE "empty"

RouteQuiz(w) == IF quizRequested[w] THEN "run_quiz" ELSE "finish"

\* Mutants: the loop gathers one reply only, or one too many.
GatheredOne(w) == Len(resumed[w]) >= 1
GatheredOneMore(w) == Len(resumed[w]) > Len(levels[w])

\* The loop has a value for every level.
Gathered(w) == Len(resumed[w]) >= Len(levels[w])

\* LangGraph runs the node from its first line on every resume: interrupt()
\* returns the recorded values again.
AwaitTeaching(w) ==
  /\ At(w, "await_teaching")
  /\ \/ /\ ~Gathered(w)
        /\ Pause
        /\ UNCHANGED <<materials, replies>>
     \/ /\ Gathered(w)
        /\ materials' = [materials EXCEPT ![w] =
                           [l \in AnyLevel |-> MaterialFor(resumed[w], l)]]
        /\ Consume(w)
        /\ Goto(w, RouteQuiz(w))
        /\ UNCHANGED active
  /\ UNCHANGED <<channels, origin, levels, quizRequested, status, errors, rag,
                 quiz, issued>>

RunQuiz(w) ==
  /\ At(w, "run_quiz")
  /\ PublishRequests(w, "quiz",
       {[kind |-> "quiz", wf |-> w, idx |-> 1, level |-> UnknownLevel]})
  /\ Goto(w, Edge("run_quiz"))
  /\ UNCHANGED <<queue, uncommitted, payload, completions, terminal, active,
                 resumed, origin, state, replies>>

\* A payload without quiz_content reads as json.dumps([]), which is not empty.
QuizText(m) == m.kind = "quiz" => m.text

AwaitQuiz(w) ==
  /\ At(w, "await_quiz")
  /\ \/ /\ resumed[w] = <<>>
        /\ Pause
        /\ UNCHANGED <<quiz, replies>>
     \/ /\ resumed[w] # <<>>
        /\ quiz' = [quiz EXCEPT ![w] = QuizText(resumed[w][1])]
        /\ Consume(w)
        /\ Goto(w, Edge("await_quiz"))
        /\ UNCHANGED active
  /\ UNCHANGED <<channels, origin, levels, quizRequested, status, errors, rag,
                 materials, issued>>

FinalStatus(w) ==
  IF ~ \/ \E l \in AnyLevel : materials[w][l] = "text"
       \/ rag[w]
       \/ quiz[w]
  THEN "failed"
  ELSE IF errors[w] THEN "partial" ELSE "complete"

Finish(w) ==
  /\ At(w, "finish")
  /\ PublishTerminal(w, "workflow-complete", FinalStatus(w))
  /\ status' = [status EXCEPT ![w] = "complete"]
  /\ End(w)
  /\ UNCHANGED <<queue, uncommitted, payload, requests, completions, resumed,
                 origin, levels, quizRequested, errors, rag, materials, quiz, history>>

GraphStep(w) ==
  \/ InferLevel(w) \/ ClarifyAndEnd(w)
  \/ RunRag(w) \/ AwaitRag(w)
  \/ DispatchTeaching(w) \/ AwaitTeaching(w)
  \/ RunQuiz(w) \/ AwaitQuiz(w) \/ Finish(w)

-----------------------------------------------------------------------------
(* PlannerWorker: one record at a time, run() or resume().                 *)

TakeRecord(s) == queue' = queue \ {s}

\* run(): a fresh id, a fresh PlannerState, and the graph starts.
Run(s, w) ==
  /\ busy = NoWorkflow
  /\ s \in queue /\ pc[w] = "absent"
  /\ TakeRecord(s)
  /\ uncommitted' = uncommitted \cup {s}
  /\ origin' = [origin EXCEPT ![w] = s]
  /\ levels' = [levels EXCEPT ![w] = payload[s].levels]
  /\ active' = active \cup {w}
  /\ pc' = [pc EXCEPT ![w] = "infer_level"]
  /\ busy' = w
  /\ UNCHANGED <<payload, requests, completions, terminal, resumed, quizRequested,
                 status, errors, rag, materials, quiz, history>>

\* The record is read; under redelivery it may be read once more.
TakeCompletion(m) ==
  /\ busy = NoWorkflow
  /\ m \in completions
  /\ \/ completions' = completions \ {m}
     \/ "redelivery" \in Faults /\ UNCHANGED completions

\* resume(): whatever the topic, the value goes to the pending interrupt().
Resume(m) ==
  /\ TakeCompletion(m)
  /\ m.wf \in active
  /\ resumed' = [resumed EXCEPT ![m.wf] = Append(@, m)]
  /\ busy' = m.wf
  /\ UNCHANGED <<queue, uncommitted, payload, requests, terminal, active, pc,
                 origin, state, history>>

\* resume() of an unknown or finished workflow warns and returns.
ResumeUnknown(m) ==
  /\ TakeCompletion(m)
  /\ m.wf \notin active
  /\ UNCHANGED <<queue, uncommitted, payload, requests, terminal, thread, state,
                 history>>

\* poll() commits the offsets of the records it returned before.
CommitOffsets ==
  /\ busy = NoWorkflow
  /\ uncommitted # {}
  /\ uncommitted' = {}
  /\ UNCHANGED <<queue, payload, requests, completions, terminal, thread, state,
                 history>>

\* A record that took longer than max_poll_interval: the group has rebalanced, the
\* process and its workflows live on, and its records are read once more.
Rebalance ==
  /\ "redelivery" \in Faults
  /\ busy = NoWorkflow
  /\ uncommitted # {}
  /\ queue' = queue \cup uncommitted
  /\ uncommitted' = {}
  /\ UNCHANGED <<payload, requests, completions, terminal, thread, state, history>>

\* Reading the request_id of such a record raises out of the loop over the batch:
\* whatever else the poll returned is given up, and read again after a restart only.
GiveUpBatch ==
  /\ "bad_record" \in Faults
  /\ busy = NoWorkflow
  /\ \E dropped \in SUBSET queue :
       /\ queue' = queue \ dropped
       /\ uncommitted' = uncommitted \cup dropped
  /\ \E dropped \in SUBSET completions : completions' = completions \ dropped
  /\ UNCHANGED <<payload, requests, terminal, thread, state, history>>

\* MemorySaver and _active_requests live in the process.  One that dies has its
\* records read again; one that is stopped commits all it has polled, in hand or not.
Restart ==
  /\ "restart" \in Faults
  /\ busy' = NoWorkflow
  /\ active' = {}
  /\ pc' = [w \in Workflow |-> IF pc[w] \in Node THEN "lost" ELSE pc[w]]
  /\ \/ queue' = queue \cup uncommitted /\ UNCHANGED completions
     \/ queue' \in SUBSET queue /\ completions' \in SUBSET completions
  /\ uncommitted' = {}
  /\ UNCHANGED <<payload, requests, terminal, resumed, origin, state, history>>

-----------------------------------------------------------------------------
(* The agents, as the orchestrator sees them.  A quiz completion carries   *)
(* no quiz_content; only RAG completions have a status.                    *)

AgentAnswers(r, text, failed) ==
  /\ r \in requests
  /\ r.kind = "quiz" => ~text
  /\ r.kind # "rag" => ~failed
  /\ requests' = requests \ {r}
  /\ completions' = completions \cup
       {[kind |-> r.kind, wf |-> r.wf, idx |-> r.idx, level |-> r.level,
         text |-> text, failed |-> failed]}
  /\ UNCHANGED <<queue, uncommitted, payload, terminal, thread, state, history>>

AgentSilent(r) ==
  /\ "agent_silent" \in Faults
  /\ r \in requests
  /\ requests' = requests \ {r}
  /\ UNCHANGED <<queue, uncommitted, payload, completions, terminal, thread,
                 state, history>>

-----------------------------------------------------------------------------
Worker ==
  \/ \E w \in Workflow : GraphStep(w)
  \/ \E s \in queue, w \in Workflow : Run(s, w)
  \/ \E m \in completions : Resume(m) \/ ResumeUnknown(m)
  \/ CommitOffsets

Agents ==
  \/ \E r \in requests, text \in BOOLEAN, failed \in BOOLEAN : AgentAnswers(r, text, failed)
  \/ \E r \in requests : AgentSilent(r)

Next == Worker \/ Agents \/ Rebalance \/ GiveUpBatch \/ Restart

Spec == Init /\ [][Next]_vars

\* The poll loop never stops, and every agent handles every request it is sent.
FairSpec == Spec /\ WF_vars(Worker) /\ WF_vars(Agents)

-----------------------------------------------------------------------------
(* Properties.                                                             *)

RawOrLower == RawLevel \cup Level

\* The shape of the state: PlannerState's fields (orchestrator_agent/agent.py:70-98),
\* the worker thread and the Kafka channels.
TypeOK ==
  /\ queue \subseteq Submission /\ uncommitted \subseteq Submission
  /\ payload \in [Submission -> Payload]
  /\ requests \subseteq Request
  /\ completions \subseteq Completion
  /\ terminal \in [Workflow -> Seq(Terminal)]
  /\ busy \in Workflow \cup {NoWorkflow}
  /\ active \subseteq Workflow
  /\ pc \in [Workflow -> Pc]
  /\ resumed \in [Workflow -> Seq(Completion)]
  /\ origin \in [Workflow -> Submission \cup {NoSubmission}]
  /\ levels \in [Workflow -> Seq(RawOrLower)]
  /\ quizRequested \in [Workflow -> BOOLEAN]
  /\ status \in [Workflow -> {"active", "clarifying", "blocked", "complete"}]
  /\ errors \in [Workflow -> BOOLEAN]
  /\ rag \in [Workflow -> BOOLEAN]
  /\ materials \in [Workflow -> [AnyLevel -> {"absent", "empty", "text"}]]
  /\ quiz \in [Workflow -> BOOLEAN]
  /\ issued \in [Workflow -> [Kind -> Nat]]
  /\ replies \in [Workflow -> SUBSET Completion]

KindOf(node) == CASE node = "await_rag"      -> "rag"
                  [] node = "await_teaching" -> "teaching"
                  [] node = "await_quiz"     -> "quiz"

\* How many resume values a workflow's await node takes.
Needed(w) == IF pc[w] = "await_teaching" THEN Len(levels[w]) ELSE 1

\* _active_requests (agent.py:145-148, the guard of resume) holds exactly the
\* workflows whose graph has not ended, and each of them that is not being
\* executed is paused at an await node that lacks at least one value: no live
\* workflow is forgotten, and none is paused where no completion can move it.
ActiveIffPaused ==
  /\ active = {w \in Workflow : pc[w] \in Node}
  /\ \A w \in active :
       busy # w => pc[w] \in AwaitNode /\ Len(resumed[w]) < Needed(w)

\* Every resume value a workflow holds is for the node that consumes it
\* (worker.py:11-13: "so resume() feeds the right awaiting node").
ResumeFeedsRightNode ==
  \A w \in Workflow : pc[w] \in AwaitNode =>
    \A i \in 1..Len(resumed[w]) : resumed[w][i].kind = KindOf(pc[w])

\* What the agents still owe workflow w.
Outstanding(w) == {r \in requests : r.wf = w} \cup {m \in completions : m.wf = w}

\* A paused workflow is owed exactly the replies it lacks: nothing else can
\* reach its interrupt(), and the replies that have not been consumed exist.
OwedWhatItLacks ==
  \A w \in active : busy # w =>
    /\ \A m \in Outstanding(w) : m.kind = KindOf(pc[w])
    /\ Cardinality(Outstanding(w)) = Needed(w) - Len(resumed[w])

\* A workflow publishes at most one terminal event, and none before its graph
\* has ended, whatever is lost, repeated or restarted.
AtMostOneAnswer ==
  \A w \in Workflow : /\ Len(terminal[w]) <= 1
                      /\ terminal[w] # <<>> => pc[w] = "END"

\* "request events are never re-published on resume" (agent.py:12-14): a workflow
\* asks once for RAG, once per level for teaching and once for a quiz.
NeverRepublished ==
  \A w \in Workflow : /\ issued[w]["rag"] <= 1
                      /\ issued[w]["teaching"] <= Len(levels[w])
                      /\ issued[w]["quiz"] <= 1

\* When the teaching stage is over there is one material per finalised level and
\* no other ("teaching_materials fully populated", agent.py:571-572), and every
\* level's own reply is among those consumed, in whatever order they arrived.
TeachingIsComplete ==
  \A w \in Workflow : pc[w] \in {"run_quiz", "await_quiz", "finish"} =>
    /\ {l \in AnyLevel : materials[w][l] # "absent"} =
         {levels[w][i] : i \in 1..Len(levels[w])}
    /\ \A i \in 1..Len(levels[w]) :
         \E m \in replies[w] : m.kind = "teaching" /\ m.idx = i

\* Every submission is answered.
Answered ==
  \A s \in Submission :
    s \in queue ~> \E w \in Workflow : origin[w] = s /\ terminal[w] # <<>>
=============================================================================
