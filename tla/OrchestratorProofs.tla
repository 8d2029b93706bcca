------------------------- MODULE OrchestratorProofs -------------------------
(***************************************************************************)
(* Theorems about Orchestrator, for any number of submissions, workflows   *)
(* and levels: its types, and which replies a paused node resumes with;    *)
(* then the path of one workflow through the graph, for any faults:        *)
(* nothing is asked for twice, every step is one of LearningWorkflow, a    *)
(* workflow is taught all its levels and, with reliable topics, owed       *)
(* exactly what it lacks.                                                  *)
(***************************************************************************)
EXTENDS OrchestratorRefinement, FiniteSetTheorems, SequenceTheorems, TLAPS

-----------------------------------------------------------------------------
(* Type correctness.                                                       *)

\* The levels of a thread are typed by users until infer_level has lowered
\* them, and only a blocked or unclear workflow reaches clarify_and_end.
StateInv ==
  \A w \in Workflow :
    /\ pc[w] \in Node => origin[w] \in Submission
    /\ pc[w] = "infer_level" => levels[w] \in Seq(RawLevel)
    /\ pc[w] \in Node \ {"infer_level", "clarify_and_end"} => levels[w] \in Seq(Level)
    /\ pc[w] = "clarify_and_end" => status[w] \in {"clarifying", "blocked"}

TypeInv == TypeOK /\ StateInv

\* A dispatch publishes finitely many requests, all of them well formed and
\* no more than there are levels.
LEMMA TeachingRequestsType ==
  ASSUME NEW w \in Workflow, levels[w] \in Seq(Level)
  PROVE  /\ TeachingRequests(w) \subseteq Request
         /\ IsFiniteSet(TeachingRequests(w))
         /\ Cardinality(TeachingRequests(w)) = Len(levels[w])
<1> DEFINE f == [i \in 1..Len(levels[w]) |->
                   [kind |-> "teaching", wf |-> w, idx |-> i, level |-> levels[w][i]]]
<1>1. Len(levels[w]) \in Nat /\ \A i \in 1..Len(levels[w]) : levels[w][i] \in Level
  OBVIOUS
<1>2. TeachingRequests(w) \subseteq Request
  BY <1>1 DEF TeachingRequests, Request, Kind, AnyLevel
<1>3. IsFiniteSet(1..Len(levels[w])) /\ Cardinality(1..Len(levels[w])) = Len(levels[w])
  BY <1>1, FS_Interval
<1>4. f \in Surjection(1..Len(levels[w]), TeachingRequests(w))
  BY DEF Surjection, TeachingRequests
<1>5. f \in Injection(1..Len(levels[w]), TeachingRequests(w))
  BY <1>4 DEF Injection, Surjection, IsInjective
<1>6. QED
  BY <1>2, <1>3, <1>4, <1>5, FS_Surjection

\* PublishRequests keeps the types of the two variables it changes.
LEMMA PublishRequestsType ==
  ASSUME TypeOK, NEW w \in Workflow, NEW k \in Kind, NEW rs \in SUBSET Request,
         IsFiniteSet(rs), PublishRequests(w, k, rs)
  PROVE  requests' \subseteq Request /\ issued' \in [Workflow -> [Kind -> Nat]]
<1>1. Cardinality(rs) \in Nat
  BY FS_CardinalityType
<1>2. QED
  BY <1>1 DEF PublishRequests, TypeOK

\* The event published is a terminal event.
LEMMA PublishTerminalType ==
  ASSUME TypeOK, NEW w \in Workflow,
         NEW e \in {"workflow-complete", "clarify-user-level"},
         NEW st \in {"blocked", "clarifying", "failed", "partial", "complete"},
         PublishTerminal(w, e, st)
  PROVE  terminal' \in [Workflow -> Seq(Terminal)]
<1> DEFINE ev == [event |-> e, status |-> st]
<1>1. ev \in Terminal
  BY DEF Terminal
<1>2. terminal[w] \in Seq(Terminal)
  BY DEF TypeOK
<1>3. Append(terminal[w], ev) \in Seq(Terminal)
  BY <1>1, <1>2
<1>4. QED
  BY <1>3 DEF PublishTerminal, TypeOK

LEMMA ConsumeType ==
  ASSUME TypeOK, NEW w \in Workflow, Consume(w)
  PROVE  /\ resumed' \in [Workflow -> Seq(Completion)]
         /\ replies' \in [Workflow -> SUBSET Completion]
<1>1. {resumed[w][i] : i \in 1..Len(resumed[w])} \subseteq Completion
  BY DEF TypeOK
<1>2. QED
  BY <1>1 DEF Consume, TypeOK

\* Every node of the graph keeps the types.
LEMMA InferLevelType ==
  ASSUME TypeInv, NEW w \in Workflow, InferLevel(w)
  PROVE  TypeInv'
<1> USE ConstantsAssumption DEF TypeInv, At, Goto, Raise, channels, history, Pc, Node, AwaitNode,
            ConstantsAssumption, RawOrLower
<1>1. origin[w] \in Submission /\ InputOf(w) \in Payload /\ InputOf(w) \in PayloadType
  BY DEF InferLevel, InputOf, TypeOK, StateInv
<1>2. levels[w] \in Seq(RawLevel)
  BY DEF InferLevel, StateInv
<1>3. RouteAfterInfer(w) \in {"run_rag", "dispatch_teaching"}
  BY DEF RouteAfterInfer
<1>4. CASE InferRaises(w)
  BY <1>4 DEF InferLevel, InferRaises, TypeOK, StateInv
<1>5. CASE InferBlocked(w)
  BY <1>5 DEF InferLevel, InferBlocked, TypeOK, StateInv
<1>6. CASE InferProvided(w)
  <2>1. Lowered(levels[w]) \in Seq(Level)
    BY <1>2 DEF Lowered
  <2>2. Lowered(levels[w]) \in Seq(RawLevel \cup Level)
    BY <2>1
  <2>3. InputOf(w).quizWords \in BOOLEAN
    BY <1>1 DEF PayloadType
  <2>4. TypeOK'
    BY <1>3, <1>6, <2>2, <2>3 DEF InferLevel, InferProvided, TypeOK
  <2>5. StateInv'
    BY <1>3, <1>6, <2>1 DEF InferLevel, InferProvided, TypeOK, StateInv
  <2>6. QED
    BY <2>4, <2>5
<1>7. CASE InferByLLM(w)
  <2>1. CASE \E failed \in BOOLEAN :
               /\ errors' = [errors EXCEPT ![w] = failed]
               /\ status' = [status EXCEPT ![w] = "clarifying"]
               /\ Goto(w, "clarify_and_end")
               /\ UNCHANGED <<active, levels, quizRequested>>
    BY <2>1 DEF InferLevel, TypeOK, StateInv
  <2>2. CASE \E l \in EnumLevel, q \in BOOLEAN :
               /\ levels' = [levels EXCEPT ![w] = <<l>>]
               /\ quizRequested' = [quizRequested EXCEPT ![w] = q]
               /\ Goto(w, RouteAfterInfer(w))
               /\ UNCHANGED <<active, status, errors>>
    <3>1. PICK l \in EnumLevel, q \in BOOLEAN :
               /\ levels' = [levels EXCEPT ![w] = <<l>>]
               /\ quizRequested' = [quizRequested EXCEPT ![w] = q]
               /\ Goto(w, RouteAfterInfer(w))
               /\ UNCHANGED <<active, status, errors>>
      BY <2>2
    <3>2. <<l>> \in Seq(Level) /\ <<l>> \in Seq(RawLevel \cup Level)
      OBVIOUS
    <3>3. TypeOK'
      BY <1>3, <3>1, <3>2 DEF InferLevel, TypeOK
    <3>4. StateInv'
      BY <1>3, <3>1, <3>2 DEF InferLevel, TypeOK, StateInv
    <3>5. QED
      BY <3>3, <3>4
  <2>3. QED
    BY <1>7, <2>1, <2>2 DEF InferByLLM
<1>8. QED
  BY <1>4, <1>5, <1>6, <1>7 DEF InferLevel

LEMMA ClarifyAndEndType ==
  ASSUME TypeInv, NEW w \in Workflow, ClarifyAndEnd(w)
  PROVE  TypeInv'
<1> USE ConstantsAssumption DEF TypeInv, At, End, state, history, Pc, Node, AwaitNode
<1>1. terminal' \in [Workflow -> Seq(Terminal)]
  BY PublishTerminalType DEF ClarifyAndEnd, StateInv
<1>2. TypeOK'
  BY <1>1 DEF ClarifyAndEnd, TypeOK, ConstantsAssumption
<1>3. StateInv'
  BY DEF ClarifyAndEnd, TypeOK, StateInv
<1>4. QED
  BY <1>2, <1>3

LEMMA RunRagType ==
  ASSUME TypeInv, NEW w \in Workflow, RunRag(w)
  PROVE  TypeInv'
<1> USE ConstantsAssumption DEF TypeInv, At, Goto, Raise, state, Pc, Node, AwaitNode, Edge
<1> DEFINE r == [kind |-> "rag", wf |-> w, idx |-> 1, level |-> UnknownLevel]
<1>1. {r} \in SUBSET Request /\ "rag" \in Kind
  BY DEF Request, Kind, AnyLevel
<1> HIDE DEF r
<1>r. IsFiniteSet({r})
  BY FS_Singleton
<1>2. requests' \subseteq Request /\ issued' \in [Workflow -> [Kind -> Nat]]
  BY <1>1, <1>r, PublishRequestsType DEF r, RunRag, TypeOK
<1>3. TypeOK'
  BY <1>2 DEF RunRag, TypeOK, ConstantsAssumption
<1>4. StateInv'
  BY DEF RunRag, TypeOK, StateInv
<1>5. QED
  BY <1>3, <1>4

LEMMA AwaitRagType ==
  ASSUME TypeInv, NEW w \in Workflow, AwaitRag(w)
  PROVE  TypeInv'
<1> USE ConstantsAssumption DEF TypeInv, At, Goto, Pause, channels, Pc, Node, AwaitNode, Edge
<1>1. CASE Pause /\ UNCHANGED <<rag, replies>>
  BY <1>1 DEF AwaitRag, TypeOK, StateInv
<1>2. CASE /\ resumed[w] # <<>>
           /\ rag' = [rag EXCEPT ![w] = RagText(resumed[w][1])]
           /\ Consume(w)
           /\ Goto(w, Edge("await_rag"))
           /\ UNCHANGED active
  <2>1. resumed[w][1] \in Completion
    BY <1>2 DEF TypeOK
  <2>2. RagText(resumed[w][1]) \in BOOLEAN
    BY <2>1 DEF RagText, Completion
  <2>3. TypeOK'
    BY <1>2, <2>2, ConsumeType DEF AwaitRag, TypeOK
  <2>4. StateInv'
    BY <1>2 DEF AwaitRag, TypeOK, StateInv
  <2>5. QED
    BY <2>3, <2>4
<1>3. QED
  BY <1>1, <1>2 DEF AwaitRag

LEMMA DispatchTeachingType ==
  ASSUME TypeInv, NEW w \in Workflow, DispatchTeaching(w)
  PROVE  TypeInv'
<1> USE ConstantsAssumption DEF TypeInv, At, Goto, state, Pc, Node, AwaitNode, Edge
<1>1. levels[w] \in Seq(Level) /\ "teaching" \in Kind
  BY DEF DispatchTeaching, StateInv, Kind
<1>2. requests' \subseteq Request /\ issued' \in [Workflow -> [Kind -> Nat]]
  BY <1>1, TeachingRequestsType, PublishRequestsType DEF DispatchTeaching
<1>3. TypeOK'
  BY <1>2 DEF DispatchTeaching, TypeOK
<1>4. StateInv'
  BY DEF DispatchTeaching, TypeOK, StateInv
<1>5. QED
  BY <1>3, <1>4

LEMMA AwaitTeachingType ==
  ASSUME TypeInv, NEW w \in Workflow, AwaitTeaching(w)
  PROVE  TypeInv'
<1> USE ConstantsAssumption DEF TypeInv, At, Goto, Pause, channels, Pc, Node, AwaitNode, RouteQuiz
<1>1. CASE Pause /\ UNCHANGED <<materials, replies>>
  BY <1>1 DEF AwaitTeaching, TypeOK, StateInv, ConstantsAssumption
<1>2. CASE /\ materials' = [materials EXCEPT ![w] =
                              [l \in AnyLevel |-> MaterialFor(resumed[w], l)]]
           /\ Consume(w)
           /\ Goto(w, RouteQuiz(w))
           /\ UNCHANGED active
  <2>1. \A l \in AnyLevel : MaterialFor(resumed[w], l) \in {"absent", "empty", "text"}
    BY DEF MaterialFor
  <2>2. TypeOK'
    BY <1>2, <2>1, ConsumeType DEF AwaitTeaching, TypeOK
  <2>3. StateInv'
    BY <1>2 DEF AwaitTeaching, TypeOK, StateInv
  <2>4. QED
    BY <2>2, <2>3
<1>3. QED
  BY <1>1, <1>2 DEF AwaitTeaching

LEMMA RunQuizType ==
  ASSUME TypeInv, NEW w \in Workflow, RunQuiz(w)
  PROVE  TypeInv'
<1> USE ConstantsAssumption DEF TypeInv, At, Goto, state, Pc, Node, AwaitNode, Edge
<1> DEFINE r == [kind |-> "quiz", wf |-> w, idx |-> 1, level |-> UnknownLevel]
<1>1. {r} \in SUBSET Request /\ "quiz" \in Kind
  BY DEF Request, Kind, AnyLevel
<1> HIDE DEF r
<1>r. IsFiniteSet({r})
  BY FS_Singleton
<1>2. requests' \subseteq Request /\ issued' \in [Workflow -> [Kind -> Nat]]
  BY <1>1, <1>r, PublishRequestsType DEF r, RunQuiz
<1>3. TypeOK'
  BY <1>2 DEF RunQuiz, TypeOK
<1>4. StateInv'
  BY DEF RunQuiz, TypeOK, StateInv
<1>5. QED
  BY <1>3, <1>4

LEMMA AwaitQuizType ==
  ASSUME TypeInv, NEW w \in Workflow, AwaitQuiz(w)
  PROVE  TypeInv'
<1> USE ConstantsAssumption DEF TypeInv, At, Goto, Pause, channels, Pc, Node, AwaitNode, Edge
<1>1. CASE Pause /\ UNCHANGED <<quiz, replies>>
  BY <1>1 DEF AwaitQuiz, TypeOK, StateInv
<1>2. CASE /\ resumed[w] # <<>>
           /\ quiz' = [quiz EXCEPT ![w] = QuizText(resumed[w][1])]
           /\ Consume(w)
           /\ Goto(w, Edge("await_quiz"))
           /\ UNCHANGED active
  <2>1. resumed[w][1] \in Completion
    BY <1>2 DEF TypeOK
  <2>2. QuizText(resumed[w][1]) \in BOOLEAN
    BY <2>1 DEF QuizText, Completion
  <2>3. TypeOK'
    BY <1>2, <2>2, ConsumeType DEF AwaitQuiz, TypeOK
  <2>4. StateInv'
    BY <1>2 DEF AwaitQuiz, TypeOK, StateInv
  <2>5. QED
    BY <2>3, <2>4
<1>3. QED
  BY <1>1, <1>2 DEF AwaitQuiz

LEMMA FinishType ==
  ASSUME TypeInv, NEW w \in Workflow, Finish(w)
  PROVE  TypeInv'
<1> USE ConstantsAssumption DEF TypeInv, At, End, history, Pc, Node, AwaitNode
<1>1. FinalStatus(w) \in {"failed", "partial", "complete"}
  BY DEF FinalStatus
<1>2. terminal' \in [Workflow -> Seq(Terminal)]
  BY <1>1, PublishTerminalType DEF Finish
<1>3. TypeOK'
  BY <1>2 DEF Finish, TypeOK, ConstantsAssumption
<1>4. StateInv'
  BY DEF Finish, TypeOK, StateInv
<1>5. QED
  BY <1>3, <1>4

\* The worker, Kafka and the agents keep them too.
LEMMA RunType ==
  ASSUME TypeInv, NEW s \in queue, NEW w \in Workflow, Run(s, w)
  PROVE  TypeInv'
<1> USE ConstantsAssumption DEF TypeInv, history, Pc, Node, AwaitNode, RawOrLower, ConstantsAssumption
<1>1. s \in Submission /\ payload[s] \in PayloadType
  BY DEF TypeOK
<1>2. payload[s].levels \in Seq(RawLevel) /\ payload[s].levels \in Seq(RawLevel \cup Level)
  BY <1>1 DEF PayloadType
<1>3. TypeOK'
  BY <1>1, <1>2 DEF Run, TakeRecord, TypeOK
<1>4. StateInv'
  BY <1>1, <1>2 DEF Run, TakeRecord, TypeOK, StateInv
<1>5. QED
  BY <1>3, <1>4

LEMMA ResumeType ==
  ASSUME TypeInv, NEW m \in completions, Resume(m) \/ ResumeUnknown(m)
  PROVE  TypeInv'
<1> USE ConstantsAssumption DEF TypeInv, TakeCompletion, state, thread, history
<1>1. m \in Completion /\ m.wf \in Workflow
  BY DEF TypeOK, Completion
<1>2. CASE Resume(m)
  BY <1>1, <1>2 DEF Resume, TypeOK, StateInv
<1>3. CASE ResumeUnknown(m)
  BY <1>1, <1>3 DEF ResumeUnknown, TypeOK, StateInv
<1>4. QED
  BY <1>2, <1>3

LEMMA AgentsType ==
  ASSUME TypeInv, Agents
  PROVE  TypeInv'
<1> USE ConstantsAssumption DEF TypeInv, state, thread, history
<1>1. ASSUME NEW r \in requests, NEW text \in BOOLEAN, NEW failed \in BOOLEAN,
             AgentAnswers(r, text, failed)
      PROVE  TypeInv'
  <2>1. r \in Request
    BY DEF TypeOK
  <2>2. [kind |-> r.kind, wf |-> r.wf, idx |-> r.idx, level |-> r.level,
         text |-> text, failed |-> failed] \in Completion
    BY <2>1 DEF Request, Completion
  <2>3. QED
    BY <1>1, <2>2 DEF AgentAnswers, TypeOK, StateInv
<1>2. ASSUME NEW r \in requests, AgentSilent(r)
      PROVE  TypeInv'
  BY <1>2 DEF AgentSilent, TypeOK, StateInv
<1>3. QED
  BY <1>1, <1>2 DEF Agents

LEMMA TypeInvStep ==
  ASSUME TypeInv, [Next]_vars
  PROVE  TypeInv'
<1>1. CASE \E w \in Workflow : GraphStep(w)
  BY <1>1, InferLevelType, ClarifyAndEndType, RunRagType, AwaitRagType,
     DispatchTeachingType, AwaitTeachingType, RunQuizType, AwaitQuizType, FinishType
     DEF GraphStep
<1>2. CASE \E s \in queue, w \in Workflow : Run(s, w)
  BY <1>2, RunType
<1>3. CASE \E m \in completions : Resume(m) \/ ResumeUnknown(m)
  BY <1>3, ResumeType
<1>4. CASE CommitOffsets
  BY <1>4 DEF CommitOffsets, TypeInv, TypeOK, StateInv, thread, state, history
<1>5. CASE Restart
  BY <1>5 DEF Restart, TypeInv, TypeOK, StateInv, state, history, Pc, Node, AwaitNode
<1>6. CASE Agents
  BY <1>6, AgentsType
<1>7. CASE UNCHANGED vars
  BY <1>7 DEF vars, channels, thread, state, history, TypeInv, TypeOK, StateInv
<1>8. CASE Rebalance \/ GiveUpBatch
  BY <1>8 DEF Rebalance, GiveUpBatch, TypeInv, TypeOK, StateInv, thread, state, history
<1>9. QED
  BY <1>1, <1>2, <1>3, <1>4, <1>5, <1>6, <1>7, <1>8 DEF Next, Worker

LEMMA TypeInvariant == Spec => []TypeInv
<1>1. Init => TypeInv
  BY ConstantsAssumption
     DEF Init, TypeInv, TypeOK, StateInv, ConstantsAssumption, Pc, Node, AwaitNode
<1>2. TypeInv /\ [Next]_vars => TypeInv'
  BY TypeInvStep
<1>3. QED
  BY <1>1, <1>2, PTL DEF Spec

\* The state of the orchestrator, its graph threads and its Kafka channels
\* (orchestrator_agent/agent.py:70-98) has its type in every behaviour.
THEOREM TypeCorrect == Spec => []TypeOK
<1>1. TypeInv => TypeOK
  BY DEF TypeInv
<1>2. QED
  BY <1>1, TypeInvariant, PTL

-----------------------------------------------------------------------------
(* Control: which workflows are live, and where they wait.                 *)

\* The worker thread executes a live workflow, a workflow that it does not
\* execute waits at an await node, and an answer comes with the end.
ControlInv ==
  /\ busy \in Workflow => pc[busy] \in Node
  /\ active = {w \in Workflow : pc[w] \in Node}
  /\ \A w \in Workflow :
       /\ pc[w] \in Node /\ busy # w =>
            pc[w] \in AwaitNode /\ Len(resumed[w]) < Needed(w)
       /\ Len(terminal[w]) <= 1
       /\ terminal[w] # <<>> => pc[w] = "END"

\* A node leaves the other workflows alone and ends, raises, pauses or goes on.
LEMMA GraphStepControl ==
  ASSUME TypeInv, ControlInv, NEW w \in Workflow, GraphStep(w)
  PROVE  ControlInv'
<1> USE ConstantsAssumption DEF At, Node, AwaitNode, Pc, Needed, ConstantsAssumption
<1>1. /\ busy = w /\ w # NoWorkflow /\ pc[w] \in Node
      /\ \A v \in Workflow \ {w} : pc[v] \in Node => pc[v] \in AwaitNode
      /\ terminal[w] = <<>>
  BY DEF GraphStep, InferLevel, ClarifyAndEnd, RunRag, AwaitRag, DispatchTeaching,
         AwaitTeaching, RunQuiz, AwaitQuiz, Finish, ControlInv, TypeInv, TypeOK
\* Going on: the thread keeps executing w.
<1>2. ASSUME NEW n \in Node, Goto(w, n), UNCHANGED <<active, terminal>>,
             resumed' = [resumed EXCEPT ![w] = resumed'[w]],
             levels' = [levels EXCEPT ![w] = levels'[w]]
      PROVE  ControlInv'
  BY <1>1, <1>2 DEF Goto, ControlInv, TypeInv, TypeOK
\* Pausing: w waits at its await node, which lacks a value.
<1>3. ASSUME Pause, UNCHANGED <<terminal, levels>>, pc[w] \in AwaitNode,
             Len(resumed[w]) < Needed(w)
      PROVE  ControlInv'
  BY <1>1, <1>3 DEF Pause, ControlInv, TypeInv, TypeOK
\* Ending: w leaves the active set, answered or not.
<1>4. ASSUME NEW e, NEW st, End(w), UNCHANGED <<resumed, levels>>, PublishTerminal(w, e, st)
      PROVE  ControlInv'
  <2> DEFINE ev == [event |-> e, status |-> st]
  <2>e. Len(Append(<<>>, ev)) = 1
    <3>1. <<>> \in Seq({ev}) /\ ev \in {ev}
      OBVIOUS
    <3>2. QED
      BY <3>1
  <2> DEFINE OneAtMost == /\ Len(terminal'[w]) <= 1
                          /\ \A v \in Workflow \ {w} : terminal'[v] = terminal[v]
  <2>t. ASSUME terminal' = [terminal EXCEPT ![w] = Append(@, ev)]
        PROVE  OneAtMost
    <3>1. terminal'[w] = Append(<<>>, ev)
      BY <1>1, <2>t DEF TypeInv, TypeOK
    <3>2. \A v \in Workflow \ {w} : terminal'[v] = terminal[v]
      BY <2>t DEF TypeInv, TypeOK
    <3>3. QED
      BY <2>e, <3>1, <3>2
  <2>u. ASSUME UNCHANGED terminal
        PROVE  OneAtMost
    BY <1>1, <2>u
  <2>1. OneAtMost
    BY <1>4, <2>t, <2>u DEF PublishTerminal
  <2>2. /\ pc'[w] = "END"
        /\ \A v \in Workflow \ {w} : pc'[v] = pc[v]
    BY <1>4 DEF End, TypeInv, TypeOK
  <2>3. active' = {v \in Workflow : pc'[v] \in Node}
    BY <1>4, <2>2 DEF End, ControlInv
  <2>4. QED
    BY <1>1, <1>4, <2>1, <2>2, <2>3 DEF End, ControlInv
\* Raising: the workflow is forgotten.
<1>5. ASSUME Raise(w), UNCHANGED <<resumed, levels, terminal>>
      PROVE  ControlInv'
  BY <1>1, <1>5 DEF Raise, ControlInv, TypeInv, TypeOK
<1> USE DEF channels, state, history
<1>6. CASE InferLevel(w)
  <2>1. CASE InferRaises(w)
    BY <1>5, <1>6, <2>1 DEF InferLevel, InferRaises
  <2>2. CASE InferBlocked(w) \/ InferProvided(w) \/ InferByLLM(w)
    <3>1. PICK n \in Node : Goto(w, n) /\ UNCHANGED <<active, terminal, resumed>>
                            /\ levels' = [levels EXCEPT ![w] = levels'[w]]
      BY <1>6, <2>2 DEF InferLevel, InferBlocked, InferProvided, InferByLLM,
                        RouteAfterInfer, TypeInv, TypeOK
    <3>2. QED
      BY <1>2, <3>1 DEF TypeInv, TypeOK
  <2>3. QED
    BY <1>6, <2>1, <2>2 DEF InferLevel
<1>7. CASE ClarifyAndEnd(w)
  BY <1>4, <1>7 DEF ClarifyAndEnd
<1>8. CASE RunRag(w)
  <2>1. CASE InputOf(w).blankPrompt
    BY <1>5, <1>8, <2>1 DEF RunRag
  <2>2. CASE ~InputOf(w).blankPrompt
    BY <1>2, <1>8, <2>2 DEF RunRag, Edge, TypeInv, TypeOK
  <2>3. QED
    BY <2>1, <2>2
<1>9. CASE AwaitRag(w)
  <2>1. CASE resumed[w] = <<>>
    BY <1>3, <1>9, <2>1 DEF AwaitRag, TypeInv, TypeOK
  <2>2. CASE resumed[w] # <<>>
    BY <1>2, <1>9, <2>2 DEF AwaitRag, Consume, Edge, TypeInv, TypeOK
  <2>3. QED
    BY <2>1, <2>2
<1>10. CASE DispatchTeaching(w)
  BY <1>2, <1>10 DEF DispatchTeaching, Edge, TypeInv, TypeOK
<1>11. CASE AwaitTeaching(w)
  <2>1. CASE ~Gathered(w)
    BY <1>3, <1>11, <2>1 DEF AwaitTeaching, Gathered, TypeInv, TypeOK
  <2>2. CASE Gathered(w)
    BY <1>2, <1>11, <2>2 DEF AwaitTeaching, Consume, RouteQuiz, TypeInv, TypeOK
  <2>3. QED
    BY <2>1, <2>2
<1>12. CASE RunQuiz(w)
  BY <1>2, <1>12 DEF RunQuiz, Edge, TypeInv, TypeOK
<1>13. CASE AwaitQuiz(w)
  <2>1. CASE resumed[w] = <<>>
    BY <1>3, <1>13, <2>1 DEF AwaitQuiz, TypeInv, TypeOK
  <2>2. CASE resumed[w] # <<>>
    BY <1>2, <1>13, <2>2 DEF AwaitQuiz, Consume, Edge, TypeInv, TypeOK
  <2>3. QED
    BY <2>1, <2>2
<1>14. CASE Finish(w)
  BY <1>4, <1>14 DEF Finish
<1>15. QED
  BY <1>6, <1>7, <1>8, <1>9, <1>10, <1>11, <1>12, <1>13, <1>14 DEF GraphStep

\* A step of the worker between two graph executions, of Kafka or of an agent.
LEMMA OtherStepControl ==
  ASSUME TypeInv, ControlInv, Next \/ UNCHANGED vars, \A w \in Workflow : ~GraphStep(w)
  PROVE  ControlInv'
<1> USE ConstantsAssumption DEF Node, AwaitNode, Pc, Needed, ConstantsAssumption, ControlInv
<1>1. CASE \E s \in queue, w \in Workflow : Run(s, w)
  BY <1>1 DEF Run, history, TypeInv, TypeOK
<1>2. CASE \E m \in completions : Resume(m)
  <2>1. PICK m \in completions : Resume(m)
    BY <1>2
  <2>2. m.wf \in Workflow
    BY <2>1 DEF Resume, TypeInv, TypeOK
  <2>3. QED
    BY <2>1, <2>2 DEF Resume, TakeCompletion, state, history, TypeInv, TypeOK
<1>3. CASE \E m \in completions : ResumeUnknown(m)
  BY <1>3 DEF ResumeUnknown, thread, state, history
<1>4. CASE CommitOffsets
  BY <1>4 DEF CommitOffsets, thread, state, history
<1>5. CASE Restart
  BY <1>5 DEF Restart, state, history, TypeInv, TypeOK
<1>6. CASE Agents
  BY <1>6 DEF Agents, AgentAnswers, AgentSilent, thread, state, history
<1>7. CASE UNCHANGED vars
  BY <1>7 DEF vars, channels, thread, state, history
<1>8. CASE Rebalance \/ GiveUpBatch
  BY <1>8 DEF Rebalance, GiveUpBatch, thread, state, history
<1>9. QED
  BY <1>1, <1>2, <1>3, <1>4, <1>5, <1>6, <1>7, <1>8 DEF Next, Worker

LEMMA ControlInvariant == Spec => []ControlInv
<1>1. Init => ControlInv
  BY ConstantsAssumption DEF Init, ControlInv, Node, AwaitNode, ConstantsAssumption
<1>2. TypeInv /\ ControlInv /\ [Next]_vars => ControlInv'
  BY GraphStepControl, OtherStepControl
<1>3. QED
  BY <1>1, <1>2, TypeInvariant, PTL DEF Spec

\* The guard of resume (agent.py:837-842) never turns away a live workflow and
\* no live workflow waits where a completion could not move it.
THEOREM ActiveIffPausedAlways == Spec => []ActiveIffPaused
<1>1. ControlInv => ActiveIffPaused
  BY DEF ControlInv, ActiveIffPaused
<1>2. QED
  BY <1>1, ControlInvariant, PTL

\* A workflow answers its user at most once, whatever fails.
THEOREM AtMostOneAnswerAlways == Spec => []AtMostOneAnswer
<1>1. ControlInv => AtMostOneAnswer
  BY DEF ControlInv, AtMostOneAnswer
<1>2. QED
  BY <1>1, ControlInvariant, PTL

-----------------------------------------------------------------------------
(* Delivery: with each completion read once, a workflow is fed what it     *)
(* asked for.                                                              *)

RequestsOf(w)    == {r \in requests : r.wf = w}
CompletionsOf(w) == {m \in completions : m.wf = w}

\* A paused workflow is owed and holds replies of its own kind only, no more
\* of them than it needs; any other live workflow is owed and holds nothing.
\* The bound is what lets an await node hand over: when it has all it needs,
\* nothing of its kind is left in flight that the next one could be given.
DeliveryOf(w) ==
  /\ IsFiniteSet(RequestsOf(w)) /\ IsFiniteSet(CompletionsOf(w))
  /\ pc[w] \in AwaitNode =>
       /\ \A m \in RequestsOf(w) \cup CompletionsOf(w) : m.kind = KindOf(pc[w])
       /\ \A i \in 1..Len(resumed[w]) : resumed[w][i].kind = KindOf(pc[w])
       /\ Cardinality(RequestsOf(w)) + Cardinality(CompletionsOf(w))
            + Len(resumed[w]) <= Needed(w)
  /\ pc[w] \in (Node \ AwaitNode) \cup {"absent"} =>
       RequestsOf(w) = {} /\ CompletionsOf(w) = {} /\ resumed[w] = <<>>

DeliveryInv == \A w \in Workflow : DeliveryOf(w)

\* A step that does not touch what DeliveryOf(v) speaks of preserves it.
LEMMA DeliveryFrame ==
  ASSUME NEW v \in Workflow, DeliveryOf(v),
         RequestsOf(v)' = RequestsOf(v), CompletionsOf(v)' = CompletionsOf(v),
         pc'[v] = pc[v], resumed'[v] = resumed[v], levels'[v] = levels[v]
  PROVE  DeliveryOf(v)'
BY DEF DeliveryOf, Needed

\* A workflow that is over has no obligations but finiteness.
LEMMA DeliveryOver ==
  ASSUME NEW v \in Workflow, DeliveryOf(v),
         RequestsOf(v)' \subseteq RequestsOf(v), CompletionsOf(v)' \subseteq CompletionsOf(v),
         pc'[v] \in {"END", "error", "lost"}
  PROVE  DeliveryOf(v)'
BY FS_Subset DEF DeliveryOf, Node, AwaitNode

\* Publishing for w leaves the requests of the others alone.
LEMMA PublishOthers ==
  ASSUME NEW w \in Workflow, NEW k \in Kind, NEW rs, \A r \in rs : r.wf = w,
         PublishRequests(w, k, rs), NEW v \in Workflow \ {w}
  PROVE  RequestsOf(v)' = RequestsOf(v)
BY DEF PublishRequests, RequestsOf

\* A node that asks for replies, all of one kind, no more than its await node
\* needs, leads to a state that satisfies DeliveryOf.
LEMMA DeliveryAsk ==
  ASSUME TypeInv, NEW w \in Workflow, DeliveryOf(w), NEW k \in Kind,
         NEW rs \in SUBSET Request, IsFiniteSet(rs),
         \A r \in rs : r.wf = w /\ r.kind = k,
         pc[w] \in Node \ AwaitNode, pc'[w] \in AwaitNode, KindOf(pc'[w]) = k,
         PublishRequests(w, k, rs), UNCHANGED <<completions, resumed, levels>>,
         Cardinality(rs) <= Needed(w)'
  PROVE  DeliveryOf(w)'
<1>1. RequestsOf(w) = {} /\ CompletionsOf(w) = {} /\ resumed[w] = <<>>
  BY DEF DeliveryOf
<1>2. PICK lost \in SUBSET rs : requests' = requests \cup (rs \ lost)
  BY DEF PublishRequests
<1>3. RequestsOf(w)' = rs \ lost
  BY <1>1, <1>2 DEF RequestsOf
<1>4. IsFiniteSet(rs \ lost) /\ Cardinality(rs \ lost) <= Cardinality(rs)
  BY FS_Subset
<1>5. Cardinality(rs \ lost) \in Nat /\ Cardinality(rs) \in Nat
  BY <1>4, FS_CardinalityType
<1>6. CompletionsOf(w)' = {} /\ resumed'[w] = <<>>
  BY <1>1 DEF CompletionsOf
<1>7. Needed(w)' \in Nat
  BY DEF Needed, TypeInv, TypeOK
<1>8. IsFiniteSet({}) /\ Cardinality({}) = 0 /\ Len(<<>>) = 0
  BY FS_EmptySet
<1> HIDE DEF Needed, KindOf
<1>9. Cardinality(RequestsOf(w)') + Cardinality(CompletionsOf(w)') + Len(resumed'[w]) <= Needed(w)'
  BY <1>3, <1>4, <1>5, <1>6, <1>7, <1>8
<1>10. KindOf(pc[w])' = k
  BY DEF KindOf
<1>11. QED
  BY <1>3, <1>4, <1>6, <1>8, <1>9, <1>10 DEF DeliveryOf, Node, AwaitNode

\* An await node that has all it needs hands over an empty-handed workflow.
LEMMA DeliveryHandOver ==
  ASSUME TypeInv, NEW w \in Workflow, DeliveryOf(w),
         pc[w] \in AwaitNode, Len(resumed[w]) >= Needed(w),
         pc'[w] \in Node \ AwaitNode, UNCHANGED <<requests, completions>>,
         resumed'[w] = <<>>
  PROVE  DeliveryOf(w)'
<1>1. /\ Cardinality(RequestsOf(w)) \in Nat /\ Cardinality(CompletionsOf(w)) \in Nat
      /\ Len(resumed[w]) \in Nat /\ Needed(w) \in Nat
  BY FS_CardinalityType DEF DeliveryOf, TypeInv, TypeOK, Needed
<1>2. Cardinality(RequestsOf(w)) = 0 /\ Cardinality(CompletionsOf(w)) = 0
  BY <1>1 DEF DeliveryOf
<1>3. RequestsOf(w) = {} /\ CompletionsOf(w) = {}
  BY <1>2, FS_EmptySet DEF DeliveryOf
<1>4. RequestsOf(w)' = {} /\ CompletionsOf(w)' = {}
  BY <1>3 DEF RequestsOf, CompletionsOf
<1>5. QED
  BY <1>4, FS_EmptySet DEF DeliveryOf

\* A step between nodes that ask for nothing.
LEMMA DeliveryIdle ==
  ASSUME NEW w \in Workflow, DeliveryOf(w),
         pc[w] \in (Node \ AwaitNode) \cup {"absent"}, pc'[w] \in Pc \ AwaitNode,
         UNCHANGED <<requests, completions, resumed>>
  PROVE  DeliveryOf(w)'
<1>1. /\ RequestsOf(w) = {} /\ CompletionsOf(w) = {} /\ resumed[w] = <<>>
      /\ RequestsOf(w)' = RequestsOf(w) /\ CompletionsOf(w)' = CompletionsOf(w)
  BY DEF DeliveryOf, RequestsOf, CompletionsOf
<1>2. QED
  BY <1>1, FS_EmptySet DEF DeliveryOf, AwaitNode

\* The three requests of a fixed size.
LEMMA SingleRequest ==
  ASSUME NEW w \in Workflow, NEW k \in Kind
  PROVE  LET r == [kind |-> k, wf |-> w, idx |-> 1, level |-> UnknownLevel]
         IN  /\ {r} \in SUBSET Request /\ IsFiniteSet({r}) /\ Cardinality({r}) = 1
             /\ \A q \in {r} : q.wf = w /\ q.kind = k
<1> DEFINE r == [kind |-> k, wf |-> w, idx |-> 1, level |-> UnknownLevel]
<1>1. r \in Request /\ r.wf = w /\ r.kind = k
  BY DEF Request, AnyLevel
<1> HIDE DEF r
<1>2. IsFiniteSet({r}) /\ Cardinality({r}) = 1
  BY FS_Singleton
<1>3. QED
  BY <1>1, <1>2 DEF r

\* The node that w executes keeps w's delivery in order.
LEMMA DeliveryNode ==
  ASSUME TypeInv, NEW w \in Workflow, DeliveryOf(w), GraphStep(w)
  PROVE  DeliveryOf(w)'
<1> USE DEF At, Goto, channels, history, state
<1>1. pc \in [Workflow -> Pc] /\ levels[w] \in Seq(RawLevel \cup Level)
  BY DEF TypeInv, TypeOK, RawOrLower
<1>2. CASE InferLevel(w)
  <2>1. pc'[w] \in Pc \ AwaitNode
    BY <1>1, <1>2 DEF InferLevel, InferRaises, InferBlocked, InferProvided, InferByLLM,
                      Raise, RouteAfterInfer, Pc, Node, AwaitNode
  <2>2. QED
    BY <1>2, <2>1, DeliveryIdle DEF InferLevel, Node, AwaitNode
<1>3. CASE ClarifyAndEnd(w)
  BY <1>1, <1>3, DeliveryIdle DEF ClarifyAndEnd, End, Pc, Node, AwaitNode
<1>4. CASE Finish(w)
  BY <1>1, <1>4, DeliveryIdle DEF Finish, End, Pc, Node, AwaitNode
<1>5. CASE RunRag(w)
  <2>1. CASE InputOf(w).blankPrompt
    <3>1. Raise(w) /\ UNCHANGED requests
      BY <1>5, <2>1 DEF RunRag
    <3>2. QED
      BY <1>1, <1>5, <3>1, DeliveryIdle DEF RunRag, Raise, Pc, Node, AwaitNode
  <2>2. CASE ~InputOf(w).blankPrompt
    <3> DEFINE rs == {[kind |-> "rag", wf |-> w, idx |-> 1, level |-> UnknownLevel]}
    <3>1. PublishRequests(w, "rag", rs) /\ pc' = [pc EXCEPT ![w] = "await_rag"]
      BY <1>5, <2>2 DEF RunRag, Edge
    <3>2. /\ rs \in SUBSET Request /\ IsFiniteSet(rs) /\ Cardinality(rs) = 1
          /\ \A q \in rs : q.wf = w /\ q.kind = "rag"
      BY SingleRequest DEF Kind
    <3>3. pc[w] = "run_rag" /\ UNCHANGED <<completions, resumed, levels>>
      BY <1>5 DEF RunRag
    <3>4. pc'[w] = "await_rag"
      BY <1>1, <3>1
    <3>5. KindOf(pc'[w]) = "rag" /\ Needed(w)' = 1
      BY <3>4 DEF KindOf, Needed
    <3> HIDE DEF rs
    <3>6. QED
      BY <3>1, <3>2, <3>3, <3>4, <3>5, DeliveryAsk DEF Node, AwaitNode, Kind
  <2>3. QED
    BY <2>1, <2>2
<1>6. CASE DispatchTeaching(w)
  <2>1. /\ PublishRequests(w, "teaching", TeachingRequests(w))
        /\ pc' = [pc EXCEPT ![w] = "await_teaching"] /\ pc[w] = "dispatch_teaching"
        /\ UNCHANGED <<completions, resumed, levels>>
    BY <1>6 DEF DispatchTeaching, Edge
  <2>2. levels[w] \in Seq(Level)
    BY <2>1 DEF TypeInv, StateInv, Node, AwaitNode
  <2>3. /\ TeachingRequests(w) \in SUBSET Request /\ IsFiniteSet(TeachingRequests(w))
        /\ Cardinality(TeachingRequests(w)) = Len(levels[w])
    BY <2>2, TeachingRequestsType
  <2>4. \A q \in TeachingRequests(w) : q.wf = w /\ q.kind = "teaching"
    BY DEF TeachingRequests
  <2>5. pc'[w] = "await_teaching"
    BY <1>1, <2>1
  <2>6. KindOf(pc'[w]) = "teaching" /\ Needed(w)' = Len(levels[w])
    BY <2>1, <2>5 DEF KindOf, Needed
  <2>7. Len(levels[w]) \in Nat
    BY <2>2
  <2>8. QED
    BY <2>1, <2>3, <2>4, <2>5, <2>6, <2>7, DeliveryAsk DEF Node, AwaitNode, Kind
<1>7. CASE RunQuiz(w)
  <2> DEFINE rs == {[kind |-> "quiz", wf |-> w, idx |-> 1, level |-> UnknownLevel]}
  <2>1. PublishRequests(w, "quiz", rs) /\ pc' = [pc EXCEPT ![w] = "await_quiz"]
    BY <1>7 DEF RunQuiz, Edge
  <2>2. /\ rs \in SUBSET Request /\ IsFiniteSet(rs) /\ Cardinality(rs) = 1
        /\ \A q \in rs : q.wf = w /\ q.kind = "quiz"
    BY SingleRequest DEF Kind
  <2>3. pc[w] = "run_quiz" /\ UNCHANGED <<completions, resumed, levels>>
    BY <1>7 DEF RunQuiz
  <2>4. pc'[w] = "await_quiz"
    BY <1>1, <2>1
  <2>5. KindOf(pc'[w]) = "quiz" /\ Needed(w)' = 1
    BY <2>4 DEF KindOf, Needed
  <2> HIDE DEF rs
  <2>6. QED
    BY <2>1, <2>2, <2>3, <2>4, <2>5, DeliveryAsk DEF Node, AwaitNode, Kind
<1>8. CASE AwaitRag(w)
  <2>1. CASE resumed[w] = <<>>
    BY <1>8, <2>1, DeliveryFrame DEF AwaitRag, Pause, RequestsOf, CompletionsOf
  <2>2. CASE resumed[w] # <<>>
    <3>1. Len(resumed[w]) >= Needed(w)
      BY <1>8, <2>2 DEF AwaitRag, Needed, TypeInv, TypeOK
    <3>2. QED
      BY <1>1, <1>8, <2>2, <3>1, DeliveryHandOver
      DEF AwaitRag, Consume, Edge, TypeInv, TypeOK, Node, AwaitNode
  <2>3. QED
    BY <2>1, <2>2
<1>9. CASE AwaitTeaching(w)
  <2>1. CASE ~Gathered(w)
    BY <1>9, <2>1, DeliveryFrame DEF AwaitTeaching, Pause, RequestsOf, CompletionsOf
  <2>2. CASE Gathered(w)
    BY <1>1, <1>9, <2>2, DeliveryHandOver
    DEF AwaitTeaching, Gathered, Needed, Consume, RouteQuiz, TypeInv, TypeOK, Node, AwaitNode
  <2>3. QED
    BY <2>1, <2>2
<1>10. CASE AwaitQuiz(w)
  <2>1. CASE resumed[w] = <<>>
    BY <1>10, <2>1, DeliveryFrame DEF AwaitQuiz, Pause, RequestsOf, CompletionsOf
  <2>2. CASE resumed[w] # <<>>
    <3>1. Len(resumed[w]) >= Needed(w)
      BY <1>10, <2>2 DEF AwaitQuiz, Needed, TypeInv, TypeOK
    <3>2. QED
      BY <1>1, <1>10, <2>2, <3>1, DeliveryHandOver
      DEF AwaitQuiz, Consume, Edge, TypeInv, TypeOK, Node, AwaitNode
  <2>3. QED
    BY <2>1, <2>2
<1>11. QED
  BY <1>2, <1>3, <1>4, <1>5, <1>6, <1>7, <1>8, <1>9, <1>10 DEF GraphStep

\* The node that w executes leaves the deliveries of the others alone.
LEMMA DeliveryOthers ==
  ASSUME TypeInv, NEW w \in Workflow, GraphStep(w),
         NEW v \in Workflow \ {w}, DeliveryOf(v)
  PROVE  DeliveryOf(v)'
<1> USE DEF At, Goto, channels, history, state
<1>1. /\ pc \in [Workflow -> Pc] /\ DOMAIN levels = Workflow
      /\ resumed \in [Workflow -> Seq(Completion)]
      /\ levels \in [Workflow -> Seq(RawOrLower)]
  BY DEF TypeInv, TypeOK
<1>2. /\ pc'[v] = pc[v] /\ resumed'[v] = resumed[v] /\ levels'[v] = levels[v]
      /\ completions' = completions
  BY <1>1 DEF GraphStep, InferLevel, InferRaises, InferBlocked, InferProvided, InferByLLM,
      ClarifyAndEnd, Finish, RunRag, DispatchTeaching, RunQuiz, AwaitRag, AwaitTeaching,
      AwaitQuiz, Raise, End, Pause, Consume
<1>3. CASE RunRag(w) \/ DispatchTeaching(w) \/ RunQuiz(w)
  <2>1. PICK k \in Kind : \E rs : /\ \A r \in rs : r.wf = w
                                  /\ PublishRequests(w, k, rs) \/ requests' = requests
    BY <1>3 DEF RunRag, DispatchTeaching, RunQuiz, TeachingRequests, Kind
  <2>2. PICK rs : /\ \A r \in rs : r.wf = w
                  /\ PublishRequests(w, k, rs) \/ requests' = requests
    BY <2>1
  <2>3. RequestsOf(v)' = RequestsOf(v)
    BY <2>2, PublishOthers DEF RequestsOf
  <2>4. QED
    BY <1>2, <2>3, DeliveryFrame DEF CompletionsOf
<1>4. CASE ~(RunRag(w) \/ DispatchTeaching(w) \/ RunQuiz(w))
  <2>1. requests' = requests
    BY <1>4 DEF GraphStep, InferLevel, ClarifyAndEnd, Finish, AwaitRag, AwaitTeaching, AwaitQuiz
  <2>2. QED
    BY <1>2, <2>1, DeliveryFrame DEF RequestsOf, CompletionsOf
<1>5. QED
  BY <1>3, <1>4

\* A completion read once moves from the channel to the workflow it is for.
LEMMA DeliveryResume ==
  ASSUME TypeInv, NEW m \in completions, Resume(m), "redelivery" \notin Faults,
         DeliveryOf(m.wf)
  PROVE  DeliveryOf(m.wf)'
<1> DEFINE w == m.wf
<1>1. w \in Workflow /\ resumed[w] \in Seq(Completion) /\ m \in Completion
      /\ levels \in [Workflow -> Seq(RawOrLower)] /\ w \in DOMAIN resumed
  BY DEF Resume, TypeInv, TypeOK
<1>2. /\ completions' = completions \ {m} /\ UNCHANGED <<requests, pc, levels>>
      /\ resumed'[w] = Append(resumed[w], m)
  BY <1>1 DEF Resume, TakeCompletion, state
<1>3. m \in CompletionsOf(w)
  BY DEF CompletionsOf
<1>4. CompletionsOf(w)' = CompletionsOf(w) \ {m} /\ RequestsOf(w)' = RequestsOf(w)
  BY <1>2 DEF CompletionsOf, RequestsOf
<1>5. /\ IsFiniteSet(CompletionsOf(w)) /\ IsFiniteSet(RequestsOf(w))
      /\ IsFiniteSet(CompletionsOf(w) \ {m})
      /\ Cardinality(CompletionsOf(w) \ {m}) = Cardinality(CompletionsOf(w)) - 1
  BY <1>3, FS_RemoveElement DEF DeliveryOf
<1>6. CASE pc[w] \in AwaitNode
  <2>1. /\ Cardinality(CompletionsOf(w)) \in Nat /\ Cardinality(RequestsOf(w)) \in Nat
        /\ Len(resumed[w]) \in Nat /\ Needed(w) \in Nat
    BY <1>1, <1>5, FS_CardinalityType DEF Needed
  <2>2. Len(resumed'[w]) = Len(resumed[w]) + 1 /\ Needed(w)' = Needed(w)
    BY <1>1, <1>2 DEF Needed
  <2>3. Cardinality(RequestsOf(w)) + Cardinality(CompletionsOf(w)) + Len(resumed[w]) <= Needed(w)
    BY <1>6 DEF DeliveryOf
  <2>4. Cardinality(RequestsOf(w)') + Cardinality(CompletionsOf(w)') + Len(resumed'[w]) <= Needed(w)'
    <3> HIDE DEF Needed, w
    <3>1. QED
      BY <1>4, <1>5, <2>1, <2>2, <2>3
  <2>5. m.kind = KindOf(pc[w])
    BY <1>3, <1>6 DEF DeliveryOf
  <2>6. \A i \in 1..Len(resumed'[w]) : resumed'[w][i].kind = KindOf(pc[w])
    BY <1>1, <1>2, <1>6, <2>5 DEF DeliveryOf
  <2>7. \A q \in RequestsOf(w)' \cup CompletionsOf(w)' : q.kind = KindOf(pc[w])
    BY <1>4, <1>6 DEF DeliveryOf
  <2>8. KindOf(pc[w])' = KindOf(pc[w]) /\ pc'[w] = pc[w]
    BY <1>2 DEF KindOf
  <2>9. QED
    BY <1>4, <1>5, <1>6, <2>4, <2>6, <2>7, <2>8 DEF DeliveryOf, Node, AwaitNode
<1>7. CASE pc[w] \notin AwaitNode
  BY <1>2, <1>3, <1>4, <1>5, <1>7 DEF DeliveryOf, Node, AwaitNode
<1>8. QED
  BY <1>6, <1>7

\* A completion of an unknown workflow is dropped.
LEMMA DeliveryDrop ==
  ASSUME TypeInv, NEW w \in Workflow, DeliveryOf(w),
         RequestsOf(w)' \subseteq RequestsOf(w), CompletionsOf(w)' \subseteq CompletionsOf(w),
         UNCHANGED <<pc, resumed, levels>>
  PROVE  DeliveryOf(w)'
<1>1. /\ IsFiniteSet(RequestsOf(w)') /\ IsFiniteSet(CompletionsOf(w)')
      /\ Cardinality(RequestsOf(w)') <= Cardinality(RequestsOf(w))
      /\ Cardinality(CompletionsOf(w)') <= Cardinality(CompletionsOf(w))
  BY FS_Subset DEF DeliveryOf
<1>2. /\ Cardinality(RequestsOf(w)') \in Nat /\ Cardinality(RequestsOf(w)) \in Nat
      /\ Cardinality(CompletionsOf(w)') \in Nat /\ Cardinality(CompletionsOf(w)) \in Nat
      /\ Len(resumed[w]) \in Nat /\ Needed(w) \in Nat /\ Needed(w)' = Needed(w)
  BY <1>1, FS_CardinalityType DEF DeliveryOf, Needed, TypeInv, TypeOK
<1>3. CASE pc[w] \in AwaitNode
  <2>1. Cardinality(RequestsOf(w)) + Cardinality(CompletionsOf(w)) + Len(resumed[w]) <= Needed(w)
    BY <1>3 DEF DeliveryOf
  <2>2. Cardinality(RequestsOf(w)') + Cardinality(CompletionsOf(w)') + Len(resumed'[w]) <= Needed(w)'
    <3> HIDE DEF Needed
    <3>1. QED
      BY <1>1, <1>2, <2>1
  <2>3. KindOf(pc[w])' = KindOf(pc[w])
    BY DEF KindOf
  <2>4. QED
    BY <1>1, <1>3, <2>2, <2>3 DEF DeliveryOf, Node, AwaitNode
<1>4. CASE pc[w] \notin AwaitNode
  BY <1>1, <1>4 DEF DeliveryOf, Node, AwaitNode
<1>5. QED
  BY <1>3, <1>4

\* An answer turns a request into a completion of the same kind.
LEMMA DeliveryAnswer ==
  ASSUME TypeInv, NEW r \in requests, NEW text \in BOOLEAN, NEW failed \in BOOLEAN,
         AgentAnswers(r, text, failed), DeliveryOf(r.wf)
  PROVE  DeliveryOf(r.wf)'
<1> DEFINE w == r.wf
           c == [kind |-> r.kind, wf |-> r.wf, idx |-> r.idx, level |-> r.level,
                 text |-> text, failed |-> failed]
<1>1. /\ w \in Workflow /\ r \in RequestsOf(w) /\ c.wf = w /\ c.kind = r.kind
      /\ Len(resumed[w]) \in Nat /\ Needed(w) \in Nat
  BY DEF TypeInv, TypeOK, Request, RequestsOf, Needed
<1>2. /\ requests' = requests \ {r} /\ completions' = completions \cup {c}
      /\ UNCHANGED <<pc, resumed, levels>>
  BY DEF AgentAnswers, thread, state
<1>3. RequestsOf(w)' = RequestsOf(w) \ {r} /\ CompletionsOf(w)' = CompletionsOf(w) \cup {c}
  BY <1>1, <1>2 DEF RequestsOf, CompletionsOf
<1>4. CASE pc[w] \in AwaitNode
  <2> HIDE DEF w, c
  <2>1. /\ IsFiniteSet(RequestsOf(w)) /\ IsFiniteSet(CompletionsOf(w))
        /\ IsFiniteSet(RequestsOf(w)') /\ Cardinality(RequestsOf(w)') = Cardinality(RequestsOf(w)) - 1
        /\ IsFiniteSet(CompletionsOf(w)')
        /\ Cardinality(CompletionsOf(w)') <= Cardinality(CompletionsOf(w)) + 1
    <3>1. IsFiniteSet(RequestsOf(w)) /\ IsFiniteSet(CompletionsOf(w))
      BY DEF DeliveryOf, w
    <3>2. IsFiniteSet(RequestsOf(w) \ {r}) /\ Cardinality(RequestsOf(w) \ {r}) = Cardinality(RequestsOf(w)) - 1
      BY <1>1, <3>1, FS_RemoveElement
    <3>3. /\ IsFiniteSet(CompletionsOf(w) \cup {c})
          /\ Cardinality(CompletionsOf(w) \cup {c}) =
               IF c \in CompletionsOf(w) THEN Cardinality(CompletionsOf(w))
                                         ELSE Cardinality(CompletionsOf(w)) + 1
      BY <3>1, FS_AddElement
    <3>4. Cardinality(CompletionsOf(w)) \in Nat
      BY <3>1, FS_CardinalityType
    <3>5. QED
      BY <1>3, <3>1, <3>2, <3>3, <3>4
  <2>2. /\ Cardinality(RequestsOf(w)) \in Nat /\ Cardinality(CompletionsOf(w)) \in Nat
        /\ Cardinality(CompletionsOf(w)') \in Nat
    BY <2>1, FS_CardinalityType
  <2>3. /\ Cardinality(RequestsOf(w)) + Cardinality(CompletionsOf(w)) + Len(resumed[w]) <= Needed(w)
        /\ \A q \in RequestsOf(w) \cup CompletionsOf(w) : q.kind = KindOf(pc[w])
        /\ \A i \in 1..Len(resumed[w]) : resumed[w][i].kind = KindOf(pc[w])
    BY <1>4 DEF DeliveryOf, w
  <2>4. Needed(w)' = Needed(w) /\ KindOf(pc[w])' = KindOf(pc[w])
    BY <1>2 DEF Needed, KindOf, w
  <2>5. Cardinality(RequestsOf(w)') + Cardinality(CompletionsOf(w)') + Len(resumed'[w]) <= Needed(w)'
    <3> HIDE DEF Needed
    <3>1. QED
      BY <1>1, <1>2, <2>1, <2>2, <2>3, <2>4
  <2>6. \A q \in RequestsOf(w)' \cup CompletionsOf(w)' : q.kind = KindOf(pc[w])'
    BY <1>1, <1>3, <2>3, <2>4
  <2>7. QED
    BY <1>2, <1>4, <2>1, <2>3, <2>4, <2>5, <2>6 DEF DeliveryOf, Node, AwaitNode, w
<1>5. CASE pc[w] \notin AwaitNode
  <2>1. pc[w] \notin (Node \ AwaitNode) \cup {"absent"}
    BY <1>1 DEF DeliveryOf
  <2> HIDE DEF w, c
  <2>2. IsFiniteSet(RequestsOf(w)') /\ IsFiniteSet(CompletionsOf(w)')
    BY <1>3, FS_RemoveElement, FS_AddElement, FS_Subset DEF DeliveryOf, w
  <2>3. QED
    BY <1>2, <1>5, <2>1, <2>2 DEF DeliveryOf, Node, AwaitNode, w
<1>6. QED
  BY <1>4, <1>5

\* The next-state relation, when each completion is read once.
LEMMA DeliveryStep ==
  ASSUME TypeInv, DeliveryInv, [Next]_vars, "redelivery" \notin Faults
  PROVE  DeliveryInv'
<1> SUFFICES ASSUME NEW v \in Workflow
             PROVE  DeliveryOf(v)'
  BY DEF DeliveryInv
<1>1. DeliveryOf(v) /\ \A w \in Workflow : DeliveryOf(w)
  BY DEF DeliveryInv
<1>2. CASE \E w \in Workflow : GraphStep(w)
  <2>1. PICK w \in Workflow : GraphStep(w)
    BY <1>2
  <2>2. QED
    BY <1>1, <2>1, DeliveryNode, DeliveryOthers
<1>3. CASE \E s \in queue, w \in Workflow : Run(s, w)
  <2>1. PICK s \in queue, w \in Workflow : Run(s, w)
    BY <1>3
  <2>2. CASE v = w
    BY <1>1, <2>1, <2>2, DeliveryIdle DEF Run, TypeInv, TypeOK, Pc, Node, AwaitNode
  <2>3. CASE v # w
    BY <1>1, <2>1, <2>3, DeliveryFrame DEF Run, TypeInv, TypeOK, RequestsOf, CompletionsOf
  <2>4. QED
    BY <2>2, <2>3
<1>4. CASE \E m \in completions : Resume(m)
  <2>1. PICK m \in completions : Resume(m)
    BY <1>4
  <2>2. CASE v = m.wf
    BY <1>1, <2>1, <2>2, DeliveryResume
  <2>3. CASE v # m.wf
    BY <1>1, <2>1, <2>3, DeliveryFrame
    DEF Resume, TakeCompletion, state, TypeInv, TypeOK, RequestsOf, CompletionsOf
  <2>4. QED
    BY <2>2, <2>3
<1>5. CASE \E m \in completions : ResumeUnknown(m)
  BY <1>1, <1>5, DeliveryDrop
  DEF ResumeUnknown, TakeCompletion, thread, state, RequestsOf, CompletionsOf
<1>6. CASE CommitOffsets
  BY <1>1, <1>6, DeliveryFrame DEF CommitOffsets, thread, state, RequestsOf, CompletionsOf
<1>7. CASE \E r \in requests, text \in BOOLEAN, failed \in BOOLEAN : AgentAnswers(r, text, failed)
  <2>1. PICK r \in requests, text \in BOOLEAN, failed \in BOOLEAN : AgentAnswers(r, text, failed)
    BY <1>7
  <2>2. CASE v = r.wf
    BY <1>1, <2>1, <2>2, DeliveryAnswer
  <2>3. CASE v # r.wf
    BY <1>1, <2>1, <2>3, DeliveryFrame
    DEF AgentAnswers, thread, state, RequestsOf, CompletionsOf
  <2>4. QED
    BY <2>2, <2>3
<1>8. CASE \E r \in requests : AgentSilent(r)
  BY <1>1, <1>8, DeliveryDrop DEF AgentSilent, thread, state, RequestsOf, CompletionsOf
<1>9. CASE Restart
  <2>1. CASE pc[v] \in Node
    BY <1>1, <1>9, <2>1, DeliveryOver DEF Restart, RequestsOf, CompletionsOf
  <2>2. CASE pc[v] \notin Node
    <3>1. /\ pc'[v] = pc[v] /\ resumed' = resumed
          /\ RequestsOf(v)' = RequestsOf(v) /\ CompletionsOf(v)' \subseteq CompletionsOf(v)
      BY <1>9, <2>2 DEF Restart, RequestsOf, CompletionsOf, TypeInv, TypeOK
    <3>2. IsFiniteSet(CompletionsOf(v)')
      BY <1>1, <3>1, FS_Subset DEF DeliveryOf
    <3> QED
      BY <1>1, <2>2, <3>1, <3>2 DEF DeliveryOf, Node
  <2>3. QED
    BY <2>1, <2>2
<1>10. CASE UNCHANGED vars
  BY <1>1, <1>10, DeliveryFrame DEF vars, channels, thread, state, RequestsOf, CompletionsOf
<1>11. CASE Rebalance \/ GiveUpBatch
  BY <1>1, <1>11, DeliveryDrop DEF Rebalance, GiveUpBatch, thread, state, RequestsOf, CompletionsOf
<1>12. QED
  BY <1>2, <1>3, <1>4, <1>5, <1>6, <1>7, <1>8, <1>9, <1>10, <1>11 DEF Next, Worker, Agents

LEMMA DeliveryInvariant ==
  ASSUME "redelivery" \notin Faults
  PROVE  Spec => []DeliveryInv
<1>1. Init => DeliveryInv
  BY FS_EmptySet DEF Init, DeliveryInv, DeliveryOf, RequestsOf, CompletionsOf, AwaitNode
<1>2. TypeInv /\ DeliveryInv /\ [Next]_vars => DeliveryInv'
  BY DeliveryStep
<1>3. QED
  BY <1>1, <1>2, TypeInvariant, PTL DEF Spec

\* When each completion is read once, every value resume() hands to a workflow
\* (agent.py:844-847) is of the kind its await node reads, whatever is lost,
\* unanswered or restarted.
THEOREM ResumeFeedsRightNodeAlways ==
  ASSUME "redelivery" \notin Faults
  PROVE  Spec => []ResumeFeedsRightNode
<1>1. DeliveryInv => ResumeFeedsRightNode
  BY DEF DeliveryInv, DeliveryOf, ResumeFeedsRightNode
<1>2. QED
  BY <1>1, DeliveryInvariant, PTL

-----------------------------------------------------------------------------
(* What a node does to the workflow it runs for.                           *)

Same(w) == /\ pc'[w] = pc[w] /\ resumed'[w] = resumed[w] /\ levels'[w] = levels[w]
           /\ issued'[w] = issued[w] /\ terminal'[w] = terminal[w]

\* The level is not found, or found.
Unclear(w) ==
  /\ pc[w] = "infer_level" /\ pc'[w] \in {"error", "clarify_and_end"}
  /\ resumed'[w] = resumed[w] /\ issued'[w] = issued[w] /\ terminal'[w] = terminal[w]

Inferred(w) ==
  /\ pc[w] = "infer_level" /\ pc'[w] = RouteAfterInfer(w) /\ levels'[w] # <<>>
  /\ resumed'[w] = resumed[w] /\ issued'[w] = issued[w] /\ terminal'[w] = terminal[w]

Fails(w) ==
  /\ pc[w] = "run_rag" /\ pc'[w] = "error"
  /\ levels'[w] = levels[w] /\ issued'[w] = issued[w] /\ terminal'[w] = terminal[w]

\* n requests of a kind are published.
Asks(w, from, to, kind, n) ==
  /\ pc[w] = from /\ pc'[w] = to
  /\ issued'[w] = [issued[w] EXCEPT ![kind] = @ + n]
  /\ resumed'[w] = resumed[w] /\ levels'[w] = levels[w] /\ terminal'[w] = terminal[w]

HandsOver(w) ==
  /\ \/ pc[w] = "await_rag" /\ pc'[w] = "dispatch_teaching"
     \/ pc[w] = "await_teaching" /\ pc'[w] \in {"run_quiz", "finish"}
     \/ pc[w] = "await_quiz" /\ pc'[w] = "finish"
  /\ Len(resumed[w]) >= Needed(w) /\ resumed'[w] = <<>>
  /\ levels'[w] = levels[w] /\ issued'[w] = issued[w] /\ terminal'[w] = terminal[w]

Ends(w) ==
  /\ pc[w] \in {"clarify_and_end", "finish"} /\ pc'[w] = "END"
  /\ Len(terminal'[w]) \in {Len(terminal[w]), Len(terminal[w]) + 1}
  /\ levels'[w] = levels[w] /\ issued'[w] = issued[w]

Passage(w) ==
  \/ Same(w) \/ Unclear(w) \/ Inferred(w) \/ Fails(w)
  \/ Asks(w, "run_rag", "await_rag", "rag", 1)
  \/ Asks(w, "dispatch_teaching", "await_teaching", "teaching", Len(levels[w]))
  \/ Asks(w, "run_quiz", "await_quiz", "quiz", 1)
  \/ HandsOver(w) \/ Ends(w)

LEMMA InferPassage ==
  ASSUME TypeInv, NEW w \in Workflow, InferLevel(w)
  PROVE  Passage(w)
<1> USE DEF At, Goto, channels, history, TypeInv, TypeOK
<1>1. CASE InferRaises(w) \/ InferBlocked(w)
  <2>1. Unclear(w)
    BY <1>1 DEF InferLevel, InferRaises, InferBlocked, Raise, Unclear
  <2> QED
    BY <2>1 DEF Passage
<1>2. CASE InferProvided(w)
  <2>1. Len(levels[w]) \in Nat \ {0} /\ Len(Lowered(levels[w])) = Len(levels[w])
    BY <1>2, EmptySeq, LenProperties DEF InferProvided, Lowered
  <2>2. levels'[w] = Lowered(levels[w]) /\ levels'[w] # <<>>
    BY <1>2, <2>1 DEF InferProvided
  <2>3. Inferred(w)
    BY <1>2, <2>2 DEF InferLevel, InferProvided, Inferred
  <2> QED
    BY <2>3 DEF Passage
<1>3. CASE InferByLLM(w)
  <2>1. CASE Goto(w, "clarify_and_end")
    <3>1. Unclear(w)
      BY <1>3, <2>1 DEF InferLevel, Unclear
    <3> QED
      BY <3>1 DEF Passage
  <2>2. CASE \E l \in EnumLevel : levels' = [levels EXCEPT ![w] = <<l>>] /\ Goto(w, RouteAfterInfer(w))
    <3>1. Inferred(w)
      BY <1>3, <2>2 DEF InferLevel, Inferred
    <3> QED
      BY <3>1 DEF Passage
  <2> QED
    BY <1>3, <2>1, <2>2 DEF InferByLLM
<1> QED
  BY <1>1, <1>2, <1>3 DEF InferLevel

LEMMA AskPassage ==
  ASSUME TypeInv, NEW w \in Workflow, RunRag(w) \/ DispatchTeaching(w) \/ RunQuiz(w)
  PROVE  Passage(w)
<1> USE DEF At, Goto, state
<1>1. CASE RunRag(w)
  <2>1. CASE Raise(w) /\ UNCHANGED <<requests, issued>>
    <3>1. Fails(w)
      BY <1>1, <2>1 DEF RunRag, Raise, Fails, TypeInv, TypeOK
    <3> QED
      BY <3>1 DEF Passage
  <2>2. CASE ~InputOf(w).blankPrompt
    <3> DEFINE rs == {[kind |-> "rag", wf |-> w, idx |-> 1, level |-> UnknownLevel]}
    <3>1. PublishRequests(w, "rag", rs) /\ pc' = [pc EXCEPT ![w] = "await_rag"]
      BY <1>1, <2>2 DEF RunRag, Edge
    <3>2. Cardinality(rs) = 1
      BY SingleRequest DEF Kind
    <3> HIDE DEF rs
    <3>3. issued'[w] = [issued[w] EXCEPT !["rag"] = @ + 1]
      BY <3>1, <3>2 DEF PublishRequests, TypeInv, TypeOK
    <3>4. Asks(w, "run_rag", "await_rag", "rag", 1)
      BY <1>1, <3>1, <3>3 DEF RunRag, Asks, TypeInv, TypeOK
    <3> QED
      BY <3>4 DEF Passage
  <2> QED
    BY <1>1, <2>1, <2>2 DEF RunRag
<1>2. CASE DispatchTeaching(w)
  <2>1. Cardinality(TeachingRequests(w)) = Len(levels[w])
    BY <1>2, TeachingRequestsType DEF DispatchTeaching, TypeInv, StateInv, Node, AwaitNode
  <2>2. issued'[w] = [issued[w] EXCEPT !["teaching"] = @ + Len(levels[w])]
    BY <1>2, <2>1 DEF DispatchTeaching, PublishRequests, TypeInv, TypeOK
  <2>3. Asks(w, "dispatch_teaching", "await_teaching", "teaching", Len(levels[w]))
    BY <1>2, <2>2 DEF DispatchTeaching, Edge, Asks, TypeInv, TypeOK
  <2> QED
    BY <2>3 DEF Passage
<1>3. CASE RunQuiz(w)
  <2> DEFINE rs == {[kind |-> "quiz", wf |-> w, idx |-> 1, level |-> UnknownLevel]}
  <2>1. PublishRequests(w, "quiz", rs) /\ pc' = [pc EXCEPT ![w] = "await_quiz"]
    BY <1>3 DEF RunQuiz, Edge
  <2>2. Cardinality(rs) = 1
    BY SingleRequest DEF Kind
  <2> HIDE DEF rs
  <2>3. issued'[w] = [issued[w] EXCEPT !["quiz"] = @ + 1]
    BY <2>1, <2>2 DEF PublishRequests, TypeInv, TypeOK
  <2>4. Asks(w, "run_quiz", "await_quiz", "quiz", 1)
    BY <1>3, <2>1, <2>3 DEF RunQuiz, Asks, TypeInv, TypeOK
  <2> QED
    BY <2>4 DEF Passage
<1> QED
  BY <1>1, <1>2, <1>3

LEMMA AwaitPassage ==
  ASSUME TypeInv, NEW w \in Workflow, AwaitRag(w) \/ AwaitTeaching(w) \/ AwaitQuiz(w)
  PROVE  Passage(w)
<1> USE DEF At, Goto, channels
<1>0. resumed[w] \in Seq(Completion)
  BY DEF TypeInv, TypeOK
<1>1. CASE /\ AwaitRag(w) \/ AwaitQuiz(w)
           /\ resumed[w] = <<>> /\ Pause
  <2>1. Same(w)
    BY <1>1 DEF AwaitRag, AwaitQuiz, Pause, Same
  <2> QED
    BY <2>1 DEF Passage
<1>2. CASE AwaitTeaching(w) /\ Pause
  <2>1. Same(w)
    BY <1>2 DEF AwaitTeaching, Pause, Same
  <2> QED
    BY <2>1 DEF Passage
<1>3. CASE AwaitRag(w) /\ resumed[w] # <<>>
  <2>1. HandsOver(w)
    BY <1>0, <1>3 DEF AwaitRag, HandsOver, Consume, Edge, Needed, TypeInv, TypeOK
  <2> QED
    BY <2>1 DEF Passage
<1>4. CASE AwaitTeaching(w) /\ Gathered(w)
  <2>1. HandsOver(w)
    BY <1>0, <1>4 DEF AwaitTeaching, HandsOver, Consume, RouteQuiz, Gathered, Needed, TypeInv, TypeOK
  <2> QED
    BY <2>1 DEF Passage
<1>5. CASE AwaitQuiz(w) /\ resumed[w] # <<>>
  <2>1. HandsOver(w)
    BY <1>0, <1>5 DEF AwaitQuiz, HandsOver, Consume, Edge, Needed, TypeInv, TypeOK
  <2> QED
    BY <2>1 DEF Passage
<1> QED
  BY <1>1, <1>2, <1>3, <1>4, <1>5 DEF AwaitRag, AwaitTeaching, AwaitQuiz

LEMMA EndPassage ==
  ASSUME TypeInv, NEW w \in Workflow, ClarifyAndEnd(w) \/ Finish(w)
  PROVE  Passage(w)
<1>1. ASSUME NEW e, NEW st, PublishTerminal(w, e, st)
      PROVE  Len(terminal'[w]) \in {Len(terminal[w]), Len(terminal[w]) + 1}
  <2> DEFINE ev == [event |-> e, status |-> st]
  <2>1. terminal[w] \in Seq(Terminal \cup {ev}) /\ ev \in Terminal \cup {ev}
    BY SeqMonotonic DEF TypeInv, TypeOK
  <2> HIDE DEF ev
  <2>2. Len(Append(terminal[w], ev)) = Len(terminal[w]) + 1
    BY <2>1, AppendProperties
  <2>3. terminal'[w] \in {terminal[w], Append(terminal[w], ev)}
    BY <1>1 DEF PublishTerminal, TypeInv, TypeOK, ev
  <2> QED
    BY <2>2, <2>3
<1>2. Len(terminal'[w]) \in {Len(terminal[w]), Len(terminal[w]) + 1}
  BY <1>1 DEF ClarifyAndEnd, Finish
<1>3. Ends(w)
  BY <1>2 DEF ClarifyAndEnd, Finish, At, End, Ends, state, history, TypeInv, TypeOK
<1> QED
  BY <1>3 DEF Passage

LEMMA NodePassage ==
  ASSUME TypeInv, NEW w \in Workflow, GraphStep(w)
  PROVE  Passage(w)
BY InferPassage, AskPassage, AwaitPassage, EndPassage DEF GraphStep

\* It leaves the other workflows alone.
LEMMA OthersStay ==
  ASSUME TypeInv, NEW w \in Workflow, GraphStep(w), NEW v \in Workflow \ {w}
  PROVE  Same(v)
<1> USE DEF At, Goto, channels, history, state, TypeInv, TypeOK, Same
<1>1. CASE InferLevel(w)
  BY <1>1 DEF InferLevel, InferRaises, InferBlocked, InferProvided, InferByLLM, Raise
<1>2. CASE ClarifyAndEnd(w) \/ Finish(w)
  BY <1>2 DEF ClarifyAndEnd, Finish, PublishTerminal, End
<1>3. CASE RunRag(w) \/ DispatchTeaching(w) \/ RunQuiz(w)
  BY <1>3 DEF RunRag, DispatchTeaching, RunQuiz, PublishRequests, Raise
<1>4. CASE AwaitRag(w) \/ AwaitTeaching(w) \/ AwaitQuiz(w)
  BY <1>4 DEF AwaitRag, AwaitTeaching, AwaitQuiz, Pause, Consume
<1> QED
  BY <1>1, <1>2, <1>3, <1>4 DEF GraphStep

LEMMA InputsStay ==
  ASSUME NEW w \in Workflow, GraphStep(w)
  PROVE  UNCHANGED <<origin, payload>>
BY DEF GraphStep, InferLevel, ClarifyAndEnd, Finish, RunRag, DispatchTeaching, RunQuiz,
       AwaitRag, AwaitTeaching, AwaitQuiz, channels

\* What starts, resumes or loses no workflow leaves all of them alone.
Elsewhere ==
  \/ CommitOffsets \/ Rebalance \/ GiveUpBatch \/ Agents
  \/ (\E m \in completions : ResumeUnknown(m)) \/ UNCHANGED vars

LEMMA ElsewhereStays ==
  ASSUME Elsewhere
  PROVE  UNCHANGED <<pc, resumed, levels, issued, terminal, origin, payload>>
BY DEF Elsewhere, CommitOffsets, Rebalance, GiveUpBatch, Agents, AgentAnswers, AgentSilent, ResumeUnknown,
       vars, channels, thread, state, history

LEMMA NextSteps ==
  ASSUME [Next]_vars
  PROVE  \/ \E w \in Workflow : GraphStep(w)
         \/ \E s \in queue, w \in Workflow : Run(s, w)
         \/ \E m \in completions : Resume(m)
         \/ Restart \/ Elsewhere
BY DEF Next, Worker, Elsewhere

-----------------------------------------------------------------------------
(* Nothing is asked for twice.                                             *)

\* What a workflow has asked for, by the node it is at: nothing of what is still
\* to come, and afterwards what NeverRepublished allows.
AskedOf(w) ==
  /\ pc[w] \in {"absent", "infer_level", "run_rag"} => issued[w]["rag"] = 0
  /\ pc[w] \in {"absent", "infer_level", "run_rag", "await_rag", "dispatch_teaching"} =>
       issued[w]["teaching"] = 0
  /\ pc[w] \notin {"await_quiz", "finish", "END", "error", "lost"} => issued[w]["quiz"] = 0
  /\ issued[w]["rag"] <= 1
  /\ issued[w]["teaching"] <= Len(levels[w])
  /\ issued[w]["quiz"] <= 1

AskedInv == \A w \in Workflow : AskedOf(w)

LEMMA AskedPassage ==
  ASSUME TypeInv, TypeInv', NEW w \in Workflow, AskedOf(w), Passage(w)
  PROVE  AskedOf(w)'
<1>0. levels[w] \in Seq(RawOrLower) /\ levels'[w] \in Seq(RawOrLower)
  BY DEF TypeInv, TypeOK, RawOrLower
<1>1. /\ issued[w] \in [Kind -> Nat] /\ Kind = {"rag", "teaching", "quiz"}
      /\ Len(levels[w]) \in Nat /\ Len(levels'[w]) \in Nat
      /\ RouteAfterInfer(w) \in {"run_rag", "dispatch_teaching"}
  BY <1>0, LenProperties DEF TypeInv, TypeOK, Kind, RouteAfterInfer
<1>2. CASE Same(w)
  BY <1>2 DEF Same, AskedOf
<1>3. CASE Unclear(w) \/ Inferred(w)
  <2>1. /\ issued'[w] = issued[w]
        /\ issued[w]["rag"] = 0 /\ issued[w]["teaching"] = 0 /\ issued[w]["quiz"] = 0
    BY <1>3 DEF Unclear, Inferred, AskedOf
  <2> QED
    BY <1>1, <2>1 DEF AskedOf
<1>4. CASE Fails(w) \/ HandsOver(w) \/ Ends(w)
  BY <1>1, <1>4 DEF Fails, HandsOver, Ends, AskedOf
<1>5. CASE Asks(w, "run_rag", "await_rag", "rag", 1)
  BY <1>1, <1>5 DEF Asks, AskedOf
<1>6. CASE Asks(w, "dispatch_teaching", "await_teaching", "teaching", Len(levels[w]))
  BY <1>1, <1>6 DEF Asks, AskedOf
<1>7. CASE Asks(w, "run_quiz", "await_quiz", "quiz", 1)
  BY <1>1, <1>7 DEF Asks, AskedOf
<1> QED
  BY <1>2, <1>3, <1>4, <1>5, <1>6, <1>7 DEF Passage

LEMMA AskedStep ==
  ASSUME TypeInv, TypeInv', AskedInv, [Next]_vars
  PROVE  AskedInv'
<1> SUFFICES ASSUME NEW v \in Workflow  PROVE AskedOf(v)'
  BY DEF AskedInv
<1>1. AskedOf(v)
  BY DEF AskedInv
<1>2. CASE \E w \in Workflow : GraphStep(w)
  <2>1. PICK w \in Workflow : GraphStep(w)
    BY <1>2
  <2>2. Passage(v)
    BY <2>1, NodePassage, OthersStay DEF Passage
  <2> QED
    BY <1>1, <2>2, AskedPassage
<1>3. CASE \E s \in queue, w \in Workflow : Run(s, w)
  <2>1. PICK s \in queue, w \in Workflow : Run(s, w)
    BY <1>3
  <2>2. issued' = issued
    BY <2>1 DEF Run, history
  <2>3. CASE v = w
    <3>1. pc'[v] = "infer_level" /\ \A k \in Kind : issued[v][k] = 0
      BY <1>1, <2>1, <2>3 DEF Run, AskedOf, TypeInv, TypeOK, Kind
    <3>2. Len(levels'[v]) \in Nat
      BY DEF TypeInv, TypeOK
    <3> QED
      BY <2>2, <3>1, <3>2 DEF AskedOf, Kind
  <2>4. CASE v # w
    BY <1>1, <2>1, <2>2, <2>4 DEF Run, AskedOf, TypeInv, TypeOK
  <2> QED
    BY <2>3, <2>4
<1>4. CASE \E m \in completions : Resume(m)
  BY <1>1, <1>4 DEF Resume, AskedOf, state, history
<1>5. CASE Restart
  BY <1>1, <1>5 DEF Restart, AskedOf, state, history, Node, AwaitNode
<1>6. CASE Elsewhere
  BY <1>1, <1>6, ElsewhereStays DEF AskedOf
<1> QED
  BY <1>2, <1>3, <1>4, <1>5, <1>6, NextSteps

\* "request events are never re-published on resume" (agent.py:12-14): once for
\* RAG, once per level for teaching, once for a quiz, whatever fails.
THEOREM NeverRepublishedAlways == Spec => []NeverRepublished
<1>1. Init => AskedInv
  BY DEF Init, AskedInv, AskedOf, Kind
<1>2. TypeInv /\ TypeInv' /\ AskedInv /\ [Next]_vars => AskedInv'
  BY AskedStep
<1>3. AskedInv => NeverRepublished
  BY DEF AskedInv, AskedOf, NeverRepublished
<1> QED
  BY <1>1, <1>2, <1>3, TypeInvariant, PTL DEF Spec

-----------------------------------------------------------------------------
(* Every step is one of LearningWorkflow.                                  *)

\* A workflow holds no more values than its await node takes and enters it with
\* none; it reads files only if there are some, and teaches at one level at least.
FlowOf(w) ==
  /\ pc[w] \in (Node \ AwaitNode) \cup {"absent"} => resumed[w] = <<>>
  /\ pc[w] \in AwaitNode => Len(resumed[w]) <= Needed(w)
  /\ pc[w] \in {"run_rag", "await_rag"} => InputOf(w).files
  /\ pc[w] \in {"run_rag", "await_rag", "dispatch_teaching", "await_teaching"} =>
       levels[w] # <<>>

FlowInv == \A w \in Workflow : FlowOf(w)

LEMMA FlowPassage ==
  ASSUME TypeInv, TypeInv', NEW w \in Workflow, FlowOf(w), Passage(w),
         UNCHANGED <<origin, payload>>
  PROVE  FlowOf(w)'
<1> USE DEF Node, AwaitNode
<1>1. /\ InputOf(w)' = InputOf(w) /\ Len(levels[w]) \in Nat /\ Len(levels'[w]) \in Nat
      /\ Len(<<>>) = 0
  BY DEF InputOf, TypeInv, TypeOK, RawOrLower
<1>2. CASE Same(w)
  BY <1>1, <1>2 DEF Same, FlowOf, Needed
<1>3. CASE Unclear(w)
  BY <1>3 DEF Unclear, FlowOf
<1>4. CASE Inferred(w)
  BY <1>1, <1>4 DEF Inferred, FlowOf, RouteAfterInfer
<1>5. CASE Fails(w) \/ Ends(w)
  BY <1>5 DEF Fails, Ends, FlowOf
<1>6. CASE \/ Asks(w, "run_rag", "await_rag", "rag", 1)
           \/ Asks(w, "dispatch_teaching", "await_teaching", "teaching", Len(levels[w]))
           \/ Asks(w, "run_quiz", "await_quiz", "quiz", 1)
  BY <1>1, <1>6 DEF Asks, FlowOf, Needed
<1>7. CASE HandsOver(w)
  BY <1>7 DEF HandsOver, FlowOf
<1> QED
  BY <1>2, <1>3, <1>4, <1>5, <1>6, <1>7 DEF Passage

\* A completion reaches a workflow that lacks one.
LEMMA ResumeMoves ==
  ASSUME TypeInv, ControlInv, NEW m \in completions, Resume(m)
  PROVE  /\ m.wf \in Workflow /\ pc[m.wf] \in AwaitNode
         /\ Len(resumed[m.wf]) \in Nat /\ Len(resumed[m.wf]) < Needed(m.wf)
         /\ Len(resumed'[m.wf]) = Len(resumed[m.wf]) + 1
         /\ \A v \in Workflow \ {m.wf} : resumed'[v] = resumed[v]
         /\ UNCHANGED <<pc, levels, issued, terminal, origin, payload>>
<1>1. m \in Completion /\ m.wf \in Workflow /\ resumed[m.wf] \in Seq(Completion)
  BY DEF Resume, TypeInv, TypeOK
<1>2. pc[m.wf] \in AwaitNode /\ Len(resumed[m.wf]) < Needed(m.wf)
  BY <1>1, ConstantsAssumption DEF Resume, TakeCompletion, ControlInv, ConstantsAssumption
<1>3. resumed'[m.wf] = Append(resumed[m.wf], m) /\ \A v \in Workflow \ {m.wf} : resumed'[v] = resumed[v]
  BY <1>1 DEF Resume, TypeInv, TypeOK
<1> QED
  BY <1>1, <1>2, <1>3 DEF Resume, state, history

LEMMA FlowStep ==
  ASSUME TypeInv, TypeInv', ControlInv, FlowInv, [Next]_vars
  PROVE  FlowInv'
<1> SUFFICES ASSUME NEW v \in Workflow  PROVE FlowOf(v)'
  BY DEF FlowInv
<1>1. FlowOf(v)
  BY DEF FlowInv
<1>2. CASE \E w \in Workflow : GraphStep(w)
  <2>1. PICK w \in Workflow : GraphStep(w)
    BY <1>2
  <2>2. Passage(v) /\ UNCHANGED <<origin, payload>>
    BY <2>1, NodePassage, OthersStay, InputsStay DEF Passage
  <2> QED
    BY <1>1, <2>2, FlowPassage
<1>3. CASE \E s \in queue, w \in Workflow : Run(s, w)
  <2>1. PICK s \in queue, w \in Workflow : Run(s, w)
    BY <1>3
  <2>2. CASE v = w
    BY <1>1, <2>1, <2>2 DEF Run, FlowOf, Node, AwaitNode, TypeInv, TypeOK
  <2>3. CASE v # w
    BY <1>1, <2>1, <2>3 DEF Run, FlowOf, InputOf, Needed, TypeInv, TypeOK
  <2> QED
    BY <2>2, <2>3
<1>4. CASE \E m \in completions : Resume(m)
  <2>1. PICK m \in completions : Resume(m)
    BY <1>4
  <2>2. CASE v = m.wf
    <3>1. /\ Len(resumed[v]) \in Nat /\ Len(resumed[v]) < Needed(v) /\ Needed(v) \in Nat
          /\ Len(resumed'[v]) = Len(resumed[v]) + 1
          /\ Needed(v)' = Needed(v) /\ InputOf(v)' = InputOf(v)
          /\ pc'[v] = pc[v] /\ pc[v] \in AwaitNode /\ levels'[v] = levels[v]
      BY <2>1, <2>2, ResumeMoves DEF Needed, InputOf, TypeInv, TypeOK
    <3> HIDE DEF Needed
    <3>2. Len(resumed'[v]) <= Needed(v)'
      BY <3>1
    <3> QED
      BY <1>1, <3>1, <3>2 DEF FlowOf, AwaitNode, Node
  <2>3. CASE v # m.wf
    BY <1>1, <2>1, <2>3, ResumeMoves DEF FlowOf, Needed, InputOf
  <2> QED
    BY <2>2, <2>3
<1>5. CASE Restart
  BY <1>1, <1>5 DEF Restart, FlowOf, state, history, Node, AwaitNode
<1>6. CASE Elsewhere
  BY <1>1, <1>6, ElsewhereStays DEF FlowOf, Needed, InputOf
<1> QED
  BY <1>2, <1>3, <1>4, <1>5, <1>6, NextSteps

LEMMA FlowInvariant == Spec => []FlowInv
<1>1. Init => FlowInv
  BY DEF Init, FlowInv, FlowOf, Node, AwaitNode
<1>2. TypeInv /\ TypeInv' /\ ControlInv /\ FlowInv /\ [Next]_vars => FlowInv'
  BY FlowStep
<1> QED
  BY <1>1, <1>2, TypeInvariant, ControlInvariant, PTL DEF Spec

\* What LearningWorkflow sees of a workflow.
AnswersTo(w) == Len(terminal[w])
Unseen(w) == StageOf(w)' = StageOf(w) /\ OwedTo(w)' = OwedTo(w) /\ AnswersTo(w)' = AnswersTo(w)

LEMMA SameUnseen ==
  ASSUME NEW w \in Workflow, Same(w), UNCHANGED <<origin, payload>>
  PROVE  Unseen(w)
BY DEF Same, Unseen, StageOf, OwedTo, AnswersTo, Needed, InputOf

\* One workflow moves from a stage to another.
Moves(w, from, to) == StageOf(w) = from /\ StageOf(w)' = to

\* The moves of one workflow that LearningWorkflow has.
LEMMA OneMoves ==
  ASSUME NEW w \in Workflow, \A v \in Workflow \ {w} : Unseen(v), OwedTo(w) = 0,
         \/ Moves(w, "absent", "planning") /\ OwedTo(w)' = 0 /\ AnswersTo(w)' = AnswersTo(w)
         \/ /\ \/ Moves(w, "planning", "rag") /\ OwedTo(w)' = 1
               \/ Moves(w, "planning", "teaching") \/ Moves(w, "rag", "teaching")
               \/ Moves(w, "teaching", "quiz") /\ OwedTo(w)' = 1
            /\ OwedTo(w)' \in Nat \ {0} /\ AnswersTo(w)' = AnswersTo(w)
         \/ /\ Moves(w, "planning", "closing") \/ Moves(w, "teaching", "closing")
               \/ Moves(w, "quiz", "closing")
            /\ OwedTo(w)' = 0 /\ AnswersTo(w)' = AnswersTo(w)
         \/ /\ Moves(w, "closing", "over") /\ OwedTo(w)' = 0
            /\ AnswersTo(w)' \in {AnswersTo(w), AnswersTo(w) + 1}
  PROVE  LW!Next
<1> DEFINE stage   == [v \in Workflow |-> StageOf(v)]
           owed    == [v \in Workflow |-> OwedTo(v)]
           answers == [v \in Workflow |-> Len(terminal[v])]
<1> USE DEF Unseen, AnswersTo, Moves
<1>1. /\ stage' = [stage EXCEPT ![w] = StageOf(w)'] /\ stage[w] = StageOf(w)
      /\ owed' = [owed EXCEPT ![w] = OwedTo(w)'] /\ owed[w] = OwedTo(w) /\ owed'[w] = OwedTo(w)'
      /\ answers' = [answers EXCEPT ![w] = Len(terminal'[w])] /\ answers[w] = Len(terminal[w])
  OBVIOUS
<1>2. OwedTo(w)' = 0 => owed' = owed
  BY <1>1
<1>3. Len(terminal'[w]) = Len(terminal[w]) => answers' = answers
  BY <1>1
<1> HIDE DEF stage, owed, answers
<1>4. CASE Moves(w, "absent", "planning")
  <2>1. LW!Begin(w)
    BY <1>1, <1>2, <1>3, <1>4 DEF LW!Begin, LW!Move, stage, owed, answers
  <2> QED
    BY <2>1 DEF LW!Next, LW!Step
<1>5. CASE \/ Moves(w, "planning", "rag") \/ Moves(w, "planning", "teaching")
           \/ Moves(w, "rag", "teaching") \/ Moves(w, "teaching", "quiz")
  <2>1. /\ OwedTo(w)' \in Nat \ {0} /\ AnswersTo(w)' = AnswersTo(w)
        /\ Moves(w, "planning", "rag") \/ Moves(w, "teaching", "quiz") => OwedTo(w)' = 1
    BY <1>5
  <2>2. LW!AskRag(w) \/ LW!AskTeaching(w) \/ LW!AskQuiz(w)
    BY <1>1, <1>3, <1>5, <2>1
       DEF LW!AskRag, LW!AskTeaching, LW!AskQuiz, LW!Ask, LW!Move, stage, owed, answers
  <2> QED
    BY <2>2 DEF LW!Next, LW!Step
<1>6. CASE \/ Moves(w, "planning", "closing") \/ Moves(w, "teaching", "closing")
           \/ Moves(w, "quiz", "closing")
  <2>1. OwedTo(w)' = 0 /\ AnswersTo(w)' = AnswersTo(w)
    BY <1>6
  <2>2. LW!Close(w)
    BY <1>1, <1>2, <1>3, <1>6, <2>1 DEF LW!Close, LW!Move, stage, owed, answers
  <2> QED
    BY <2>2 DEF LW!Next, LW!Step
<1>7. CASE Moves(w, "closing", "over")
  <2>1. OwedTo(w)' = 0 /\ AnswersTo(w)' \in {AnswersTo(w), AnswersTo(w) + 1}
    BY <1>7
  <2>2. CASE AnswersTo(w)' = AnswersTo(w)
    <3>1. LW!Mute(w)
      BY <1>1, <1>2, <1>3, <1>7, <2>1, <2>2 DEF LW!Mute, LW!Move, stage, owed, answers
    <3> QED
      BY <3>1 DEF LW!Next, LW!Step
  <2>3. CASE AnswersTo(w)' = AnswersTo(w) + 1
    <3>1. LW!Answer(w)
      BY <1>1, <1>2, <1>7, <2>1, <2>3 DEF LW!Answer, LW!Move, stage, owed, answers
    <3> QED
      BY <3>1 DEF LW!Next, LW!Step
  <2> QED
    BY <2>1, <2>2, <2>3
<1> QED
  BY <1>4, <1>5, <1>6, <1>7

\* Nothing that LearningWorkflow sees changes.
LEMMA NothingMoves ==
  ASSUME \A v \in Workflow : Unseen(v)
  PROVE  UNCHANGED LW!vars
BY DEF Unseen, AnswersTo, LW!vars

\* A workflow is handed a reply.
LEMMA OneReplied ==
  ASSUME NEW w \in Workflow, \A v \in Workflow \ {w} : Unseen(v),
         StageOf(w)' = StageOf(w), AnswersTo(w)' = AnswersTo(w),
         OwedTo(w) \in Nat \ {0}, OwedTo(w)' = OwedTo(w) - 1
  PROVE  LW!Next
<1> DEFINE stage   == [v \in Workflow |-> StageOf(v)]
           owed    == [v \in Workflow |-> OwedTo(v)]
           answers == [v \in Workflow |-> Len(terminal[v])]
<1> USE DEF Unseen, AnswersTo
<1>1. /\ stage' = stage /\ answers' = answers /\ owed[w] = OwedTo(w)
      /\ owed' = [owed EXCEPT ![w] = OwedTo(w)']
  OBVIOUS
<1> HIDE DEF stage, owed, answers
<1>2. LW!Reply(w)
  BY <1>1 DEF LW!Reply, stage, owed, answers
<1> QED
  BY <1>2 DEF LW!Next, LW!Step

\* Workflows that are under way are given up.
LEMMA SomeDropped ==
  ASSUME NEW ws \in SUBSET Workflow, \A v \in Workflow \ ws : Unseen(v),
         \A v \in ws : /\ StageOf(v) \in {"planning", "rag", "teaching", "quiz", "closing"}
                       /\ StageOf(v)' = "dropped" /\ OwedTo(v)' = 0
                       /\ AnswersTo(v)' = AnswersTo(v)
  PROVE  LW!Next
<1>1. LW!Drop(ws)
  BY DEF LW!Drop, LW!Live, Unseen, AnswersTo
<1> QED
  BY <1>1 DEF LW!Next

LEMMA NodeImplements ==
  ASSUME TypeInv, TypeInv', FlowInv, FlowInv', NEW w \in Workflow, GraphStep(w)
  PROVE  LW!Next \/ UNCHANGED LW!vars
<1>1. Passage(w) /\ UNCHANGED <<origin, payload>>
  BY NodePassage, InputsStay
<1>2. \A v \in Workflow \ {w} : Unseen(v)
  BY <1>1, OthersStay, SameUnseen
<1>3. /\ FlowOf(w) /\ FlowOf(w)' /\ InputOf(w)' = InputOf(w)
      /\ resumed[w] \in Seq(Completion) /\ resumed'[w] \in Seq(Completion)
      /\ levels[w] \in Seq(RawOrLower) /\ levels'[w] \in Seq(RawOrLower)
  BY <1>1 DEF FlowInv, TypeInv, TypeOK, RawOrLower, InputOf
<1>4. /\ Len(levels[w]) \in Nat /\ (levels[w] # <<>> => Len(levels[w]) # 0)
      /\ Len(resumed[w]) \in Nat /\ Len(<<>>) = 0
  BY <1>3, LenProperties, EmptySeq
<1> USE DEF AwaitNode, Node, AnswersTo
<1>5. CASE Same(w)
  BY <1>1, <1>2, <1>5, SameUnseen, NothingMoves
<1>6. CASE (Unclear(w) \/ Fails(w)) /\ pc'[w] = "error"
  <2>1. /\ StageOf(w) = "planning" /\ StageOf(w)' = "dropped" /\ OwedTo(w)' = 0
        /\ AnswersTo(w)' = AnswersTo(w)
    BY <1>6 DEF Unclear, Fails, StageOf, OwedTo
  <2> QED
    BY <1>2, <2>1, SomeDropped, {w} \in SUBSET Workflow
<1>7. CASE Unclear(w) /\ pc'[w] = "clarify_and_end"
  <2>1. /\ Moves(w, "planning", "closing") /\ OwedTo(w) = 0 /\ OwedTo(w)' = 0
        /\ AnswersTo(w)' = AnswersTo(w)
    BY <1>7 DEF Unclear, StageOf, OwedTo, Moves
  <2> QED
    BY <1>2, <2>1, OneMoves
<1>8. CASE Inferred(w)
  <2>1. Unseen(w)
    BY <1>3, <1>8 DEF Inferred, Unseen, StageOf, OwedTo, RouteAfterInfer
  <2> QED
    BY <1>2, <2>1, NothingMoves
<1>9. CASE Asks(w, "run_rag", "await_rag", "rag", 1)
  <2>1. /\ Moves(w, "planning", "rag") /\ OwedTo(w) = 0 /\ OwedTo(w)' = 1
        /\ AnswersTo(w)' = AnswersTo(w)
    BY <1>3, <1>4, <1>9 DEF Asks, FlowOf, StageOf, OwedTo, Needed, Moves
  <2> QED
    BY <1>2, <2>1, OneMoves
<1>10. CASE Asks(w, "dispatch_teaching", "await_teaching", "teaching", Len(levels[w]))
  <2>1. /\ Moves(w, "planning", "teaching") \/ Moves(w, "rag", "teaching")
        /\ OwedTo(w) = 0 /\ OwedTo(w)' = Len(levels[w]) /\ Len(levels[w]) \in Nat \ {0}
        /\ AnswersTo(w)' = AnswersTo(w)
    <3>1. /\ pc[w] = "dispatch_teaching" /\ pc'[w] = "await_teaching"
          /\ levels'[w] = levels[w] /\ terminal'[w] = terminal[w]
          /\ resumed'[w] = <<>> /\ Len(resumed'[w]) = 0 /\ Len(levels[w]) \in Nat \ {0}
      BY <1>3, <1>4, <1>10 DEF Asks, FlowOf
    <3>2. OwedTo(w)' = Len(levels[w]) - 0
      BY <3>1 DEF OwedTo, Needed
    <3>3. Moves(w, "planning", "teaching") \/ Moves(w, "rag", "teaching")
      BY <3>1 DEF StageOf, Moves
    <3> QED
      BY <3>1, <3>2, <3>3 DEF OwedTo
  <2> QED
    BY <1>2, <2>1, OneMoves
<1>11. CASE Asks(w, "run_quiz", "await_quiz", "quiz", 1)
  <2>1. /\ Moves(w, "teaching", "quiz") /\ OwedTo(w) = 0 /\ OwedTo(w)' = 1
        /\ AnswersTo(w)' = AnswersTo(w)
    BY <1>3, <1>4, <1>11 DEF Asks, FlowOf, StageOf, OwedTo, Needed, Moves
  <2> QED
    BY <1>2, <2>1, OneMoves
<1>12. CASE HandsOver(w)
  <2>1. /\ OwedTo(w) = 0 /\ OwedTo(w)' = 0 /\ AnswersTo(w)' = AnswersTo(w)
    <3>1. Needed(w) \in Nat /\ Len(resumed[w]) = Needed(w)
      BY <1>3, <1>4, <1>12 DEF HandsOver, FlowOf, Needed
    <3> QED
      BY <1>12, <3>1 DEF HandsOver, OwedTo
  <2>2. CASE pc[w] = "await_rag" \/ pc'[w] = "run_quiz"
    <3>1. Unseen(w)
      BY <1>3, <1>12, <2>1, <2>2 DEF HandsOver, FlowOf, Unseen, StageOf
    <3> QED
      BY <1>2, <3>1, NothingMoves
  <2>3. CASE pc'[w] = "finish"
    <3>1. Moves(w, "teaching", "closing") \/ Moves(w, "quiz", "closing")
      BY <1>12, <2>3 DEF HandsOver, StageOf, Moves
    <3> QED
      BY <1>2, <2>1, <3>1, OneMoves
  <2> QED
    BY <1>12, <2>2, <2>3 DEF HandsOver
<1>13. CASE Ends(w)
  <2>1. /\ Moves(w, "closing", "over") /\ OwedTo(w) = 0 /\ OwedTo(w)' = 0
        /\ AnswersTo(w)' \in {AnswersTo(w), AnswersTo(w) + 1}
    BY <1>13 DEF Ends, StageOf, OwedTo, Moves
  <2> QED
    BY <1>2, <2>1, OneMoves
<1> QED
  BY <1>1, <1>5, <1>6, <1>7, <1>8, <1>9, <1>10, <1>11, <1>12, <1>13
     DEF Passage, Unclear, Fails

LEMMA StepImplements ==
  ASSUME TypeInv, TypeInv', ControlInv, FlowInv, FlowInv', [Next]_vars
  PROVE  LW!Next \/ UNCHANGED LW!vars
<1>1. CASE \E w \in Workflow : GraphStep(w)
  BY <1>1, NodeImplements
<1>2. CASE \E s \in queue, w \in Workflow : Run(s, w)
  <2>1. PICK s \in queue, w \in Workflow : Run(s, w)
    BY <1>2
  <2>2. \A v \in Workflow \ {w} : Unseen(v)
    BY <2>1 DEF Run, Unseen, StageOf, OwedTo, AnswersTo, Needed, InputOf, TypeInv, TypeOK
  <2>3. pc'[w] = "infer_level" /\ pc[w] = "absent" /\ terminal' = terminal
    BY <2>1 DEF Run, TypeInv, TypeOK
  <2>4. /\ Moves(w, "absent", "planning") /\ OwedTo(w) = 0 /\ OwedTo(w)' = 0
        /\ AnswersTo(w)' = AnswersTo(w)
    BY <2>3 DEF StageOf, OwedTo, AnswersTo, AwaitNode, Moves
  <2> QED
    BY <2>2, <2>4, OneMoves
<1>3. CASE \E m \in completions : Resume(m)
  <2>1. PICK m \in completions : Resume(m)
    BY <1>3
  <2> DEFINE w == m.wf
  <2>2. /\ w \in Workflow /\ pc[w] \in AwaitNode
        /\ Len(resumed[w]) \in Nat /\ Len(resumed[w]) < Needed(w)
        /\ Len(resumed'[w]) = Len(resumed[w]) + 1
        /\ \A v \in Workflow \ {w} : resumed'[v] = resumed[v]
        /\ UNCHANGED <<pc, levels, terminal, origin, payload>>
    BY <2>1, ResumeMoves
  <2> HIDE DEF w
  <2>3. \A v \in Workflow \ {w} : Unseen(v)
    BY <2>2 DEF Unseen, StageOf, OwedTo, AnswersTo, Needed, InputOf
  <2>4. /\ StageOf(w)' = StageOf(w) /\ AnswersTo(w)' = AnswersTo(w)
        /\ Needed(w)' = Needed(w) /\ Needed(w) \in Nat
    BY <2>2 DEF StageOf, AnswersTo, Needed, InputOf, TypeInv, TypeOK
  <2>5. OwedTo(w) \in Nat \ {0} /\ OwedTo(w)' = OwedTo(w) - 1
    <3> HIDE DEF Needed
    <3> QED
      BY <2>2, <2>4 DEF OwedTo
  <2> QED
    BY <2>2, <2>3, <2>4, <2>5, OneReplied
<1>4. CASE Restart
  <2> DEFINE ws == {w \in Workflow : pc[w] \in Node}
  <2>1. \A v \in Workflow \ ws : Unseen(v)
    BY <1>4 DEF Restart, Unseen, StageOf, OwedTo, AnswersTo, Needed, InputOf, state, history
  <2>2. \A v \in ws : /\ StageOf(v) \in {"planning", "rag", "teaching", "quiz", "closing"}
                      /\ StageOf(v)' = "dropped" /\ OwedTo(v)' = 0
                      /\ AnswersTo(v)' = AnswersTo(v)
    BY <1>4 DEF Restart, StageOf, OwedTo, AnswersTo, Node, AwaitNode
  <2> HIDE DEF ws
  <2>3. ws \in SUBSET Workflow
    BY DEF ws
  <2> QED
    BY <2>1, <2>2, <2>3, SomeDropped
<1>5. CASE Elsewhere
  <2>1. \A v \in Workflow : Unseen(v)
    BY <1>5, ElsewhereStays DEF Unseen, StageOf, OwedTo, AnswersTo, Needed, InputOf
  <2> QED
    BY <2>1, NothingMoves
<1> QED
  BY <1>1, <1>2, <1>3, <1>4, <1>5, NextSteps

\* The worker and its graph (worker.py:102-150, agent.py:200-245) implement
\* LearningWorkflow for any number of workflows and levels, whatever is lost,
\* repeated or restarted.
THEOREM Refinement == Spec => ImplementsLearningWorkflow
<1>1. Init => LW!Init
  <2>1. ASSUME Init
        PROVE  \A w \in Workflow : StageOf(w) = "absent" /\ OwedTo(w) = 0 /\ Len(terminal[w]) = 0
    BY <2>1 DEF Init, StageOf, OwedTo, AwaitNode
  <2> QED
    BY <2>1 DEF LW!Init
<1>2. TypeInv /\ TypeInv' /\ ControlInv /\ FlowInv /\ FlowInv' /\ [Next]_vars => [LW!Next]_(LW!vars)
  BY StepImplements
<1> QED
  BY <1>1, <1>2, TypeInvariant, ControlInvariant, FlowInvariant, PTL
     DEF Spec, ImplementsLearningWorkflow, LW!Spec

-----------------------------------------------------------------------------
(* The teaching is complete: what await_teaching gathers is one reply of   *)
(* every level.  PlacedOf says where the reply of a level can be, once and *)
(* in one place: asked for, answered, or taken.                            *)

IsOf(x, w) == x.idx \in 1..Len(levels[w]) /\ x.level = levels[w][x.idx]

PlacedOf(w) == pc[w] = "await_teaching" =>
  /\ \A x \in RequestsOf(w) \cup CompletionsOf(w) : IsOf(x, w)
  /\ \A i \in 1..Len(resumed[w]) : IsOf(resumed[w][i], w)
  /\ \A q, r \in RequestsOf(w) : q.idx = r.idx => q = r
  /\ \A c, d \in CompletionsOf(w) : c.idx = d.idx => c = d
  /\ \A q \in RequestsOf(w), c \in CompletionsOf(w) : q.idx # c.idx
  /\ \A i \in 1..Len(resumed[w]), x \in RequestsOf(w) \cup CompletionsOf(w) :
       x.idx # resumed[w][i].idx
  /\ \A i, j \in 1..Len(resumed[w]) : resumed[w][i].idx = resumed[w][j].idx => i = j

\* TeachingIsComplete for one workflow.
TaughtOf(w) == pc[w] \in {"run_quiz", "await_quiz", "finish"} =>
  /\ {l \in AnyLevel : materials[w][l] # "absent"} = {levels[w][i] : i \in 1..Len(levels[w])}
  /\ \A i \in 1..Len(levels[w]) : \E m \in replies[w] : m.kind = "teaching" /\ m.idx = i

CompleteInv == \A w \in Workflow : PlacedOf(w) /\ TaughtOf(w)

\* What is lost or dropped displaces nothing.
LEMMA PlacedFewer ==
  ASSUME NEW v \in Workflow, PlacedOf(v),
         RequestsOf(v)' \subseteq RequestsOf(v), CompletionsOf(v)' \subseteq CompletionsOf(v),
         pc'[v] = pc[v] \/ pc'[v] # "await_teaching",
         resumed'[v] = resumed[v], levels'[v] = levels[v]
  PROVE  PlacedOf(v)'
BY DEF PlacedOf, IsOf

\* A dispatch asks for one reply a level.
LEMMA PlacedAsk ==
  ASSUME TypeInv, NEW w \in Workflow, DeliveryOf(w), DispatchTeaching(w)
  PROVE  PlacedOf(w)'
<1>1. RequestsOf(w) = {} /\ CompletionsOf(w) = {} /\ resumed[w] = <<>>
  BY DEF DeliveryOf, DispatchTeaching, At, Node, AwaitNode
<1>2. /\ UNCHANGED <<completions, resumed, levels>>
      /\ \E lost \in SUBSET TeachingRequests(w) : requests' = requests \cup (TeachingRequests(w) \ lost)
  BY DEF DispatchTeaching, PublishRequests, state
<1>3. CompletionsOf(w)' = {} /\ resumed'[w] = <<>> /\ levels' = levels
  BY <1>1, <1>2 DEF CompletionsOf
<1>4. RequestsOf(w)' \subseteq TeachingRequests(w)
  BY <1>1, <1>2 DEF RequestsOf
<1>5. \A r \in TeachingRequests(w) : IsOf(r, w)
  BY DEF TeachingRequests, IsOf
<1>6. \A q, r \in TeachingRequests(w) : q.idx = r.idx => q = r
  BY DEF TeachingRequests
<1>7. \A x : IsOf(x, w)' <=> IsOf(x, w)
  BY <1>3 DEF IsOf
<1>8. 1..Len(resumed'[w]) = {}
  BY <1>3
<1> QED
  BY <1>3, <1>4, <1>5, <1>6, <1>7, <1>8 DEF PlacedOf

\* A reply that is read moves to the workflow.
LEMMA PlacedResume ==
  ASSUME TypeInv, NEW m \in completions, Resume(m), "redelivery" \notin Faults, PlacedOf(m.wf)
  PROVE  PlacedOf(m.wf)'
<1> DEFINE w == m.wf
           n == Len(resumed[w])
<1>1. w \in Workflow /\ resumed[w] \in Seq(Completion) /\ w \in DOMAIN resumed /\ m \in CompletionsOf(w)
  BY DEF Resume, TypeInv, TypeOK, CompletionsOf
<1>2. /\ completions' = completions \ {m} /\ UNCHANGED <<requests, pc, levels>>
      /\ resumed'[w] = Append(resumed[w], m)
  BY <1>1 DEF Resume, TakeCompletion, state
<1>3. CompletionsOf(w)' = CompletionsOf(w) \ {m} /\ RequestsOf(w)' = RequestsOf(w)
  BY <1>2 DEF CompletionsOf, RequestsOf
<1>4. /\ n \in Nat /\ Len(resumed'[w]) = n + 1 /\ resumed'[w][n + 1] = m
      /\ \A i \in 1..n : resumed'[w][i] = resumed[w][i]
  BY <1>1, <1>2
<1>5. pc'[w] = pc[w] /\ \A x : IsOf(x, w)' <=> IsOf(x, w)
  BY <1>2 DEF IsOf
<1> SUFFICES ASSUME pc[w] = "await_teaching"
             PROVE  PlacedOf(w)'
  BY <1>5 DEF PlacedOf
<1>6. /\ \A x \in RequestsOf(w) \cup CompletionsOf(w) : IsOf(x, w)
      /\ \A i \in 1..n : IsOf(resumed[w][i], w)
      /\ \A q, r \in RequestsOf(w) : q.idx = r.idx => q = r
      /\ \A c, d \in CompletionsOf(w) : c.idx = d.idx => c = d
      /\ \A q \in RequestsOf(w), c \in CompletionsOf(w) : q.idx # c.idx
      /\ \A i \in 1..n, x \in RequestsOf(w) \cup CompletionsOf(w) : x.idx # resumed[w][i].idx
      /\ \A i, j \in 1..n : resumed[w][i].idx = resumed[w][j].idx => i = j
  BY DEF PlacedOf
<1>7. \A i \in 1..(n + 1) : i \in 1..n \/ i = n + 1
  BY <1>4
<1> HIDE DEF n, w
<1>8. \A i \in 1..(n + 1) : IsOf(resumed'[w][i], w)
  BY <1>1, <1>4, <1>6, <1>7
<1>9. \A i \in 1..(n + 1), x \in RequestsOf(w) \cup (CompletionsOf(w) \ {m}) :
        x.idx # resumed'[w][i].idx
  BY <1>1, <1>4, <1>6, <1>7
<1>10. \A i, j \in 1..(n + 1) : resumed'[w][i].idx = resumed'[w][j].idx => i = j
  <2>1. \A i \in 1..n : resumed[w][i].idx # m.idx
    BY <1>1, <1>6
  <2> QED
    BY <1>4, <1>6, <1>7, <2>1
<1>11. \A x \in RequestsOf(w)' \cup CompletionsOf(w)' : IsOf(x, w)'
  BY <1>3, <1>5, <1>6
<1>12. \A i \in 1..(n + 1) : IsOf(resumed[w][i], w)'
  BY <1>5, <1>8
<1>13. PlacedOf(w)'
  BY <1>3, <1>4, <1>6, <1>9, <1>10, <1>11, <1>12 DEF PlacedOf
<1> QED
  BY <1>13 DEF w

\* An agent's answer takes the place of its request.
LEMMA PlacedAnswer ==
  ASSUME TypeInv, NEW r \in requests, NEW text \in BOOLEAN, NEW failed \in BOOLEAN,
         AgentAnswers(r, text, failed), PlacedOf(r.wf)
  PROVE  PlacedOf(r.wf)'
<1> DEFINE w == r.wf
<1>1. w \in Workflow /\ r \in RequestsOf(w)
  BY DEF TypeInv, TypeOK, Request, RequestsOf
<1>2. PICK c : /\ c.wf = w /\ c.idx = r.idx /\ c.level = r.level
               /\ completions' = completions \cup {c}
  <2> DEFINE c == [kind |-> r.kind, wf |-> r.wf, idx |-> r.idx, level |-> r.level,
                   text |-> text, failed |-> failed]
  <2>1. c.wf = w /\ c.idx = r.idx /\ c.level = r.level /\ completions' = completions \cup {c}
    BY DEF AgentAnswers
  <2> HIDE DEF c
  <2> QED
    BY <2>1
<1>3. requests' = requests \ {r} /\ UNCHANGED <<pc, resumed, levels>>
  BY DEF AgentAnswers, thread, state
<1>4. RequestsOf(w)' = RequestsOf(w) \ {r} /\ CompletionsOf(w)' = CompletionsOf(w) \cup {c}
  BY <1>1, <1>2, <1>3 DEF RequestsOf, CompletionsOf
<1>5. IsOf(c, w) <=> IsOf(r, w)
  BY <1>2 DEF IsOf
<1>6. pc' = pc /\ resumed' = resumed /\ levels' = levels /\ \A x : IsOf(x, w)' <=> IsOf(x, w)
  BY <1>3 DEF IsOf
<1> SUFFICES ASSUME pc[w] = "await_teaching"
             PROVE  PlacedOf(w)'
  BY <1>6 DEF PlacedOf
<1>7. /\ \A x \in RequestsOf(w) \cup CompletionsOf(w) : IsOf(x, w)
      /\ \A i \in 1..Len(resumed[w]) : IsOf(resumed[w][i], w)
      /\ \A q, s \in RequestsOf(w) : q.idx = s.idx => q = s
      /\ \A a, d \in CompletionsOf(w) : a.idx = d.idx => a = d
      /\ \A q \in RequestsOf(w), a \in CompletionsOf(w) : q.idx # a.idx
      /\ \A i \in 1..Len(resumed[w]), x \in RequestsOf(w) \cup CompletionsOf(w) :
           x.idx # resumed[w][i].idx
      /\ \A i, j \in 1..Len(resumed[w]) : resumed[w][i].idx = resumed[w][j].idx => i = j
  BY DEF PlacedOf
<1> HIDE DEF w
<1>8. \A a \in CompletionsOf(w) : a.idx # c.idx
  BY <1>1, <1>2, <1>7
<1>9. \A q \in RequestsOf(w) \ {r} : q.idx # c.idx
  BY <1>1, <1>2, <1>7
<1>10. \A i \in 1..Len(resumed[w]) : c.idx # resumed[w][i].idx
  BY <1>1, <1>2, <1>7
<1>11. \A x \in (RequestsOf(w) \ {r}) \cup CompletionsOf(w) \cup {c} : IsOf(x, w)
  BY <1>1, <1>5, <1>7
<1>12. PlacedOf(w)'
  BY <1>4, <1>6, <1>7, <1>8, <1>9, <1>10, <1>11 DEF PlacedOf
<1> QED
  BY <1>12 DEF w

\* As many replies as levels, each of another level: there is one of every level.
LEMMA GatheredIsAll ==
  ASSUME TypeInv, NEW w \in Workflow, DeliveryOf(w), FlowOf(w), PlacedOf(w),
         AwaitTeaching(w), Gathered(w)
  PROVE  TaughtOf(w)'
<1> DEFINE n == Len(levels[w])
           got == resumed[w]
<1>1. /\ pc[w] = "await_teaching" /\ levels[w] \in Seq(RawOrLower) /\ got \in Seq(Completion)
      /\ levels[w] \in Seq(Level)
  BY DEF AwaitTeaching, At, TypeInv, TypeOK, StateInv, Node, AwaitNode
<1>2. n \in Nat /\ Len(got) = n
  BY <1>1 DEF FlowOf, Needed, AwaitNode, Gathered
<1>3. \A i \in 1..n : IsOf(got[i], w) /\ got[i].kind = "teaching"
  BY <1>1, <1>2 DEF PlacedOf, DeliveryOf, KindOf, AwaitNode
<1>4. \A i, j \in 1..n : got[i].idx = got[j].idx => i = j
  BY <1>1, <1>2 DEF PlacedOf
<1>5. \A k \in 1..n : \E i \in 1..n : got[i].idx = k
  <2> DEFINE f == [i \in 1..n |-> got[i].idx]
  <2>1. f \in Injection(1..n, 1..n)
    BY <1>3, <1>4 DEF Injection, IsInjective, IsOf
  <2>2. IsFiniteSet(1..n)
    BY <1>2, FS_Interval
  <2>3. f \in Surjection(1..n, 1..n)
    BY <2>1, <2>2, FS_Injection
  <2> QED
    BY <2>3 DEF Surjection
<1>6. \A i \in 1..n : LevelIn(got[i]) = levels[w][got[i].idx] /\ got[i].idx \in 1..n
  BY <1>3 DEF IsOf, LevelIn
<1>7. ASSUME NEW l
      PROVE  (\E i \in 1..n : LevelIn(got[i]) = l) <=> l \in {levels[w][i] : i \in 1..n}
  <2> HIDE DEF got, n
  <2>1. ASSUME NEW k \in 1..n, l = levels[w][k]
        PROVE  \E i \in 1..n : LevelIn(got[i]) = l
    <3>1. PICK i \in 1..n : got[i].idx = k
      BY <1>5
    <3> QED
      BY <1>6, <2>1, <3>1
  <2> QED
    BY <1>6, <2>1
<1>8. \A l : MaterialFor(got, l) # "absent" <=> \E i \in 1..n : LevelIn(got[i]) = l
  BY <1>2 DEF MaterialFor
<1>9. \A i \in 1..n : levels[w][i] \in AnyLevel
  BY <1>1 DEF AnyLevel
<1>10. /\ materials'[w] = [l \in AnyLevel |-> MaterialFor(got, l)]
       /\ replies'[w] = replies[w] \cup {got[i] : i \in 1..Len(got)}
       /\ levels' = levels
  BY DEF AwaitTeaching, Consume, TypeInv, TypeOK
<1> HIDE DEF got, n
<1>11. {l \in AnyLevel : materials'[w][l] # "absent"} = {levels[w][i] : i \in 1..n}
  BY <1>7, <1>8, <1>9, <1>10
<1>12. \A k \in 1..n : \E m \in replies'[w] : m.kind = "teaching" /\ m.idx = k
  <2> SUFFICES ASSUME NEW k \in 1..n
               PROVE  \E m \in replies'[w] : m.kind = "teaching" /\ m.idx = k
    OBVIOUS
  <2>1. PICK i \in 1..n : got[i].idx = k
    BY <1>5
  <2> QED
    BY <1>2, <1>3, <1>10, <2>1
<1>13. levels'[w] = levels[w] /\ n = Len(levels'[w])
  BY <1>10 DEF n
<1>14. /\ {l \in AnyLevel : materials'[w][l] # "absent"}
            = {levels'[w][i] : i \in 1..Len(levels'[w])}
       /\ \A k \in 1..Len(levels'[w]) : \E m \in replies'[w] : m.kind = "teaching" /\ m.idx = k
  BY <1>11, <1>12, <1>13
<1> QED
  BY <1>14 DEF TaughtOf

\* What a node does to the materials and replies it has.
LEMMA TaughtNode ==
  ASSUME TypeInv, NEW w \in Workflow, GraphStep(w), DeliveryOf(w), FlowOf(w), PlacedOf(w), TaughtOf(w)
  PROVE  TaughtOf(w)'
<1> USE DEF At, Goto, Raise, End, TypeInv, TypeOK
<1>1. CASE InferLevel(w)
  BY <1>1 DEF InferLevel, InferRaises, InferBlocked, InferProvided, InferByLLM, RouteAfterInfer, TaughtOf
<1>2. CASE ClarifyAndEnd(w) \/ Finish(w) \/ RunRag(w) \/ DispatchTeaching(w)
  BY <1>2 DEF ClarifyAndEnd, Finish, RunRag, DispatchTeaching, Edge, TaughtOf
<1>3. CASE AwaitRag(w)
  BY <1>3 DEF AwaitRag, Pause, Edge, TaughtOf
<1>4. CASE AwaitTeaching(w)
  <2>1. CASE Gathered(w)
    BY <1>4, <2>1, GatheredIsAll
  <2>2. CASE ~Gathered(w)
    BY <1>4, <2>2 DEF AwaitTeaching, Pause, TaughtOf
  <2> QED
    BY <2>1, <2>2
<1>5. CASE RunQuiz(w)
  BY <1>5 DEF RunQuiz, Edge, TaughtOf, state
<1>6. CASE AwaitQuiz(w)
  <2>1. /\ pc[w] = "await_quiz" /\ UNCHANGED <<materials, levels>>
        /\ replies[w] \subseteq replies'[w]
    BY <1>6 DEF AwaitQuiz, Consume
  <2> QED
    BY <2>1 DEF TaughtOf
<1> QED
  BY <1>1, <1>2, <1>3, <1>4, <1>5, <1>6 DEF GraphStep

LEMMA TaughtOthers ==
  ASSUME TypeInv, NEW w \in Workflow, GraphStep(w), NEW v \in Workflow \ {w}
  PROVE  materials'[v] = materials[v] /\ replies'[v] = replies[v]
<1> USE DEF At, TypeInv, TypeOK
<1>1. CASE InferLevel(w)
  BY <1>1 DEF InferLevel, history
<1>2. CASE ClarifyAndEnd(w) \/ Finish(w)
  BY <1>2 DEF ClarifyAndEnd, Finish, history, state
<1>3. CASE RunRag(w) \/ DispatchTeaching(w) \/ RunQuiz(w)
  BY <1>3 DEF RunRag, DispatchTeaching, RunQuiz, state
<1>4. CASE AwaitRag(w) \/ AwaitTeaching(w) \/ AwaitQuiz(w)
  BY <1>4 DEF AwaitRag, AwaitTeaching, AwaitQuiz, Consume
<1> QED
  BY <1>1, <1>2, <1>3, <1>4 DEF GraphStep

\* Nodes other than the dispatch ask for nothing in await_teaching.
LEMMA PlacedNode ==
  ASSUME TypeInv, NEW w \in Workflow, GraphStep(w), DeliveryOf(w), PlacedOf(w)
  PROVE  PlacedOf(w)'
<1> USE DEF At, Goto, Raise, End, TypeInv, TypeOK
<1>1. CASE DispatchTeaching(w)
  BY <1>1, PlacedAsk
<1>2. CASE AwaitTeaching(w)
  <2>1. CASE Gathered(w)
    BY <1>2, <2>1 DEF AwaitTeaching, RouteQuiz, PlacedOf
  <2>2. CASE ~Gathered(w)
    BY <1>2, <2>2, PlacedFewer DEF AwaitTeaching, Pause, RequestsOf, CompletionsOf, channels
  <2> QED
    BY <2>1, <2>2
<1>3. CASE InferLevel(w)
  BY <1>3 DEF InferLevel, InferRaises, InferBlocked, InferProvided, InferByLLM, RouteAfterInfer, PlacedOf
<1>4. CASE ClarifyAndEnd(w) \/ Finish(w) \/ RunRag(w) \/ RunQuiz(w)
  BY <1>4 DEF ClarifyAndEnd, Finish, RunRag, RunQuiz, Edge, PlacedOf
<1>5. CASE AwaitRag(w) \/ AwaitQuiz(w)
  BY <1>5 DEF AwaitRag, AwaitQuiz, Pause, Edge, PlacedOf
<1> QED
  BY <1>1, <1>2, <1>3, <1>4, <1>5 DEF GraphStep

\* A node publishes for its own workflow.
LEMMA PlacedOthers ==
  ASSUME TypeInv, NEW w \in Workflow, GraphStep(w), NEW v \in Workflow \ {w}
  PROVE  RequestsOf(v)' = RequestsOf(v) /\ CompletionsOf(v)' = CompletionsOf(v)
<1>1. CASE RunRag(w) \/ DispatchTeaching(w) \/ RunQuiz(w)
  <2>1. completions' = completions
    BY <1>1 DEF RunRag, DispatchTeaching, RunQuiz
  <2>2. PICK k \in Kind : \E rs : /\ \A r \in rs : r.wf = w
                                  /\ PublishRequests(w, k, rs) \/ requests' = requests
    BY <1>1 DEF RunRag, DispatchTeaching, RunQuiz, TeachingRequests, Kind
  <2>3. PICK rs : /\ \A r \in rs : r.wf = w
                  /\ PublishRequests(w, k, rs) \/ requests' = requests
    BY <2>2
  <2> QED
    BY <2>1, <2>3, PublishOthers DEF RequestsOf, CompletionsOf
<1>2. CASE ~(RunRag(w) \/ DispatchTeaching(w) \/ RunQuiz(w))
  <2>1. UNCHANGED <<requests, completions>>
    BY <1>2 DEF GraphStep, InferLevel, ClarifyAndEnd, Finish, AwaitRag, AwaitTeaching, AwaitQuiz,
                channels
  <2> QED
    BY <2>1 DEF RequestsOf, CompletionsOf
<1> QED
  BY <1>1, <1>2

LEMMA CompleteStep ==
  ASSUME TypeInv, ControlInv, DeliveryInv, FlowInv, CompleteInv, [Next]_vars, "redelivery" \notin Faults
  PROVE  CompleteInv'
<1> SUFFICES ASSUME NEW v \in Workflow  PROVE PlacedOf(v)' /\ TaughtOf(v)'
  BY DEF CompleteInv
<1>1. \A w \in Workflow : DeliveryOf(w) /\ FlowOf(w) /\ PlacedOf(w) /\ TaughtOf(w)
  BY DEF CompleteInv, DeliveryInv, FlowInv
<1>2. CASE \E w \in Workflow : GraphStep(w)
  <2>1. PICK w \in Workflow : GraphStep(w)
    BY <1>2
  <2>2. CASE v = w
    BY <1>1, <2>1, <2>2, PlacedNode, TaughtNode
  <2>3. CASE v # w
    <3>1. Same(v) /\ materials'[v] = materials[v] /\ replies'[v] = replies[v]
      BY <2>1, <2>3, OthersStay, TaughtOthers
    <3>2. RequestsOf(v)' = RequestsOf(v) /\ CompletionsOf(v)' = CompletionsOf(v)
      BY <2>1, <2>3, PlacedOthers
    <3>3. PlacedOf(v)'
      BY <1>1, <3>1, <3>2, PlacedFewer DEF Same
    <3> QED
      BY <1>1, <3>1, <3>3 DEF Same, TaughtOf
  <2> QED
    BY <2>2, <2>3
<1>3. CASE \E s \in queue, w \in Workflow : Run(s, w)
  <2>1. PICK s \in queue, w \in Workflow : Run(s, w)
    BY <1>3
  <2>2. CASE v = w
    BY <2>1, <2>2 DEF Run, PlacedOf, TaughtOf, TypeInv, TypeOK
  <2>3. CASE v # w
    <3>1. /\ pc'[v] = pc[v] /\ levels'[v] = levels[v]
          /\ UNCHANGED <<requests, completions, resumed, materials, replies>>
      BY <2>1, <2>3 DEF Run, history, TypeInv, TypeOK
    <3>2. PlacedOf(v)'
      BY <1>1, <3>1, PlacedFewer DEF RequestsOf, CompletionsOf
    <3> QED
      BY <1>1, <3>1, <3>2 DEF TaughtOf
  <2> QED
    BY <2>2, <2>3
<1>4. ASSUME UNCHANGED <<pc, levels, materials, replies>>
      PROVE  TaughtOf(v)'
  BY <1>1, <1>4 DEF TaughtOf
<1>5. CASE \E m \in completions : Resume(m)
  <2>1. PICK m \in completions : Resume(m)
    BY <1>5
  <2>2. UNCHANGED <<pc, levels, materials, replies>>
    BY <2>1 DEF Resume, state, history
  <2>3. CASE v = m.wf
    BY <1>1, <1>4, <2>1, <2>2, <2>3, PlacedResume
  <2>4. CASE v # m.wf
    <3>1. resumed'[v] = resumed[v] /\ requests' = requests /\ CompletionsOf(v)' = CompletionsOf(v)
      BY <2>1, <2>4 DEF Resume, TakeCompletion, CompletionsOf, TypeInv, TypeOK
    <3>2. PlacedOf(v)'
      BY <1>1, <2>2, <3>1, PlacedFewer DEF RequestsOf
    <3> QED
      BY <1>4, <2>2, <3>2
  <2> QED
    BY <2>3, <2>4
<1>6. CASE \E r \in requests, text \in BOOLEAN, failed \in BOOLEAN : AgentAnswers(r, text, failed)
  <2>1. PICK r \in requests, text \in BOOLEAN, failed \in BOOLEAN : AgentAnswers(r, text, failed)
    BY <1>6
  <2>2. UNCHANGED <<pc, levels, materials, replies, resumed>>
    BY <2>1 DEF AgentAnswers, thread, state, history
  <2>3. CASE v = r.wf
    BY <1>1, <1>4, <2>1, <2>2, <2>3, PlacedAnswer
  <2>4. CASE v # r.wf
    <3>1. RequestsOf(v)' = RequestsOf(v) /\ CompletionsOf(v)' = CompletionsOf(v)
      BY <2>1, <2>4 DEF AgentAnswers, RequestsOf, CompletionsOf
    <3>2. PlacedOf(v)'
      BY <1>1, <2>2, <3>1, PlacedFewer
    <3> QED
      BY <1>4, <2>2, <3>2
  <2> QED
    BY <2>3, <2>4
<1>7. CASE \/ CommitOffsets \/ Rebalance \/ GiveUpBatch \/ UNCHANGED vars
           \/ \E m \in completions : ResumeUnknown(m)
           \/ \E r \in requests : AgentSilent(r)
  <2>1. /\ UNCHANGED <<pc, levels, materials, replies, resumed>>
        /\ requests' \subseteq requests /\ completions' \subseteq completions
    BY <1>7 DEF CommitOffsets, Rebalance, GiveUpBatch, ResumeUnknown, TakeCompletion, AgentSilent, vars,
                channels, thread, state, history
  <2>2. PlacedOf(v)'
    BY <1>1, <2>1, PlacedFewer DEF RequestsOf, CompletionsOf
  <2> QED
    BY <1>4, <2>1, <2>2
<1>8. CASE Restart
  <2>1. /\ pc'[v] \in {pc[v], "lost"}
        /\ UNCHANGED <<levels, materials, replies, resumed, requests>>
        /\ completions' \subseteq completions
    BY <1>8 DEF Restart, state, history
  <2>2. PlacedOf(v)'
    BY <1>1, <2>1, PlacedFewer DEF RequestsOf, CompletionsOf
  <2> QED
    BY <1>1, <2>1, <2>2 DEF TaughtOf
<1> QED
  BY <1>2, <1>3, <1>5, <1>6, <1>7, <1>8 DEF Next, Worker, Agents

LEMMA CompleteInvariant ==
  ASSUME "redelivery" \notin Faults
  PROVE  Spec => []CompleteInv
<1>1. Init => CompleteInv
  BY DEF Init, CompleteInv, PlacedOf, TaughtOf
<1>2. TypeInv /\ ControlInv /\ DeliveryInv /\ FlowInv /\ CompleteInv /\ [Next]_vars => CompleteInv'
  BY CompleteStep
<1> QED
  BY <1>1, <1>2, TypeInvariant, ControlInvariant, DeliveryInvariant, FlowInvariant, PTL DEF Spec

\* As long as no completion is read twice, a workflow that has left await_teaching
\* (agent.py:559-600) has the materials of exactly the levels asked for and has
\* consumed the reply of each, in whatever order they came and whatever was lost.
THEOREM TeachingIsCompleteAlways ==
  ASSUME "redelivery" \notin Faults
  PROVE  Spec => []TeachingIsComplete
<1>1. CompleteInv => TeachingIsComplete
  BY DEF CompleteInv, TaughtOf, TeachingIsComplete
<1> QED
  BY <1>1, CompleteInvariant, PTL

-----------------------------------------------------------------------------
(* What a workflow is owed, when nothing on the way loses or repeats it.   *)

Reliable == Faults \subseteq {"restart"}

\* The bound of DeliveryInv is reached: what is asked for, answered and taken is
\* all that the await node needs.
OwedOf(w) == pc[w] \in AwaitNode =>
  Cardinality(RequestsOf(w)) + Cardinality(CompletionsOf(w)) + Len(resumed[w]) = Needed(w)

OwedInv == \A w \in Workflow : OwedOf(w)

LEMMA OwedFrame ==
  ASSUME NEW v \in Workflow, OwedOf(v),
         RequestsOf(v)' = RequestsOf(v), CompletionsOf(v)' = CompletionsOf(v),
         pc'[v] = pc[v] \/ pc'[v] \notin AwaitNode,
         resumed'[v] = resumed[v], levels'[v] = levels[v]
  PROVE  OwedOf(v)'
BY DEF OwedOf, Needed, AwaitNode

LEMMA OwedAsk ==
  ASSUME NEW w \in Workflow, DeliveryOf(w), NEW k \in Kind, NEW rs, IsFiniteSet(rs),
         \A r \in rs : r.wf = w, pc[w] \in Node \ AwaitNode,
         PublishRequests(w, k, rs), Reliable, UNCHANGED <<completions, resumed>>,
         Cardinality(rs) = Needed(w)'
  PROVE  OwedOf(w)'
<1>1. RequestsOf(w) = {} /\ CompletionsOf(w) = {} /\ resumed[w] = <<>>
  BY DEF DeliveryOf
<1>2. requests' = requests \cup rs
  BY DEF PublishRequests, Reliable
<1>3. RequestsOf(w)' = rs /\ CompletionsOf(w)' = {} /\ resumed'[w] = <<>>
  BY <1>1, <1>2 DEF RequestsOf, CompletionsOf
<1>4. Cardinality({}) = 0 /\ Len(<<>>) = 0 /\ Cardinality(rs) \in Nat
  BY FS_EmptySet, FS_CardinalityType
<1> HIDE DEF Needed
<1>5. Cardinality(RequestsOf(w)') + Cardinality(CompletionsOf(w)') + Len(resumed'[w]) = Needed(w)'
  BY <1>3, <1>4
<1> QED
  BY <1>5 DEF OwedOf

LEMMA OwedNode ==
  ASSUME TypeInv, NEW w \in Workflow, GraphStep(w), DeliveryOf(w), OwedOf(w), Reliable
  PROVE  OwedOf(w)'
<1> USE DEF At, Goto
<1>0. pc \in [Workflow -> Pc]
  BY DEF TypeInv, TypeOK
<1>1. CASE InferLevel(w) \/ ClarifyAndEnd(w) \/ Finish(w)
  <2>1. pc'[w] \notin AwaitNode
    BY <1>0, <1>1 DEF InferLevel, InferRaises, InferBlocked, InferProvided, InferByLLM, ClarifyAndEnd,
                      Finish, Raise, End, RouteAfterInfer, AwaitNode
  <2> QED
    BY <2>1 DEF OwedOf
<1>2. CASE RunRag(w)
  <2>1. CASE InputOf(w).blankPrompt
    BY <1>0, <1>2, <2>1 DEF RunRag, Raise, OwedOf, AwaitNode
  <2>2. CASE ~InputOf(w).blankPrompt
    <3> DEFINE rs == {[kind |-> "rag", wf |-> w, idx |-> 1, level |-> UnknownLevel]}
    <3>1. PublishRequests(w, "rag", rs) /\ pc'[w] = "await_rag"
      BY <1>0, <1>2, <2>2 DEF RunRag, Edge
    <3>2. IsFiniteSet(rs) /\ Cardinality(rs) = 1 /\ \A q \in rs : q.wf = w
      BY SingleRequest DEF Kind
    <3>3. pc[w] = "run_rag" /\ UNCHANGED <<completions, resumed>> /\ Needed(w)' = 1
      BY <1>2, <3>1 DEF RunRag, Needed
    <3> HIDE DEF rs
    <3> QED
      BY <3>1, <3>2, <3>3, OwedAsk DEF Node, AwaitNode, Kind
  <2> QED
    BY <2>1, <2>2
<1>3. CASE DispatchTeaching(w)
  <2>1. /\ PublishRequests(w, "teaching", TeachingRequests(w)) /\ pc'[w] = "await_teaching"
        /\ pc[w] = "dispatch_teaching" /\ UNCHANGED <<completions, resumed, levels>>
    BY <1>0, <1>3 DEF DispatchTeaching, Edge, state
  <2>2. levels[w] \in Seq(Level)
    BY <2>1 DEF TypeInv, StateInv, Node, AwaitNode
  <2>3. IsFiniteSet(TeachingRequests(w)) /\ Cardinality(TeachingRequests(w)) = Len(levels[w])
    BY <2>2, TeachingRequestsType
  <2>4. \A q \in TeachingRequests(w) : q.wf = w
    BY DEF TeachingRequests
  <2>5. Needed(w)' = Len(levels[w])
    BY <2>1 DEF Needed
  <2> QED
    BY <2>1, <2>3, <2>4, <2>5, OwedAsk DEF Node, AwaitNode, Kind
<1>4. CASE RunQuiz(w)
  <2> DEFINE rs == {[kind |-> "quiz", wf |-> w, idx |-> 1, level |-> UnknownLevel]}
  <2>1. PublishRequests(w, "quiz", rs) /\ pc'[w] = "await_quiz"
    BY <1>0, <1>4 DEF RunQuiz, Edge
  <2>2. IsFiniteSet(rs) /\ Cardinality(rs) = 1 /\ \A q \in rs : q.wf = w
    BY SingleRequest DEF Kind
  <2>3. pc[w] = "run_quiz" /\ UNCHANGED <<completions, resumed>> /\ Needed(w)' = 1
    BY <1>4, <2>1 DEF RunQuiz, Needed
  <2> HIDE DEF rs
  <2> QED
    BY <2>1, <2>2, <2>3, OwedAsk DEF Node, AwaitNode, Kind
<1>5. CASE AwaitRag(w) \/ AwaitTeaching(w) \/ AwaitQuiz(w)
  <2>1. CASE Pause
    BY <1>5, <2>1, OwedFrame DEF AwaitRag, AwaitTeaching, AwaitQuiz, Pause, channels, RequestsOf,
                                 CompletionsOf
  <2>2. CASE ~Pause
    <3>1. pc'[w] \notin AwaitNode
      BY <1>0, <1>5, <2>2 DEF AwaitRag, AwaitTeaching, AwaitQuiz, Edge, RouteQuiz, AwaitNode
    <3> QED
      BY <3>1 DEF OwedOf
  <2> QED
    BY <2>1, <2>2
<1> QED
  BY <1>1, <1>2, <1>3, <1>4, <1>5 DEF GraphStep

LEMMA OwedResume ==
  ASSUME TypeInv, NEW m \in completions, Resume(m), Reliable, DeliveryOf(m.wf), OwedOf(m.wf)
  PROVE  OwedOf(m.wf)'
<1> DEFINE w == m.wf
<1>1. w \in Workflow /\ resumed[w] \in Seq(Completion) /\ w \in DOMAIN resumed
      /\ m \in CompletionsOf(w) /\ levels \in [Workflow -> Seq(RawOrLower)]
  BY DEF Resume, TypeInv, TypeOK, CompletionsOf
<1>2. /\ completions' = completions \ {m} /\ UNCHANGED <<requests, pc, levels>>
      /\ Len(resumed'[w]) = Len(resumed[w]) + 1
  BY <1>1 DEF Resume, TakeCompletion, state, Reliable
<1>3. CompletionsOf(w)' = CompletionsOf(w) \ {m} /\ RequestsOf(w)' = RequestsOf(w)
  BY <1>2 DEF CompletionsOf, RequestsOf
<1>4. /\ Cardinality(CompletionsOf(w)') = Cardinality(CompletionsOf(w)) - 1
      /\ Cardinality(CompletionsOf(w)) \in Nat /\ Cardinality(RequestsOf(w)) \in Nat
      /\ Len(resumed[w]) \in Nat /\ Needed(w)' = Needed(w) /\ pc'[w] = pc[w]
  BY <1>1, <1>2, <1>3, FS_RemoveElement, FS_CardinalityType DEF DeliveryOf, Needed
<1> HIDE DEF Needed, w
<1>5. OwedOf(w)'
  BY <1>2, <1>3, <1>4 DEF OwedOf, w
<1> QED
  BY <1>5 DEF w

\* The answer is not there yet: an await node that needs one reply has had none,
\* and the replies of other levels have other places.
LEMMA OwedAnswer ==
  ASSUME TypeInv, NEW r \in requests, NEW text \in BOOLEAN, NEW failed \in BOOLEAN,
         AgentAnswers(r, text, failed), DeliveryOf(r.wf), PlacedOf(r.wf), OwedOf(r.wf)
  PROVE  OwedOf(r.wf)'
<1> DEFINE w == r.wf
<1>1. w \in Workflow /\ r \in RequestsOf(w) /\ Len(resumed[w]) \in Nat
  BY DEF TypeInv, TypeOK, Request, RequestsOf
<1>2. PICK c : c.wf = w /\ c.idx = r.idx /\ completions' = completions \cup {c}
  <2> DEFINE c == [kind |-> r.kind, wf |-> r.wf, idx |-> r.idx, level |-> r.level,
                   text |-> text, failed |-> failed]
  <2>1. c.wf = w /\ c.idx = r.idx /\ completions' = completions \cup {c}
    BY DEF AgentAnswers
  <2> HIDE DEF c
  <2> QED
    BY <2>1
<1>3. requests' = requests \ {r} /\ UNCHANGED <<pc, resumed, levels>>
  BY DEF AgentAnswers, thread, state
<1>4. RequestsOf(w)' = RequestsOf(w) \ {r} /\ CompletionsOf(w)' = CompletionsOf(w) \cup {c}
  BY <1>1, <1>2, <1>3 DEF RequestsOf, CompletionsOf
<1>5. Needed(w)' = Needed(w) /\ pc'[w] = pc[w] /\ resumed'[w] = resumed[w]
  BY <1>3 DEF Needed
<1> SUFFICES ASSUME pc[w] \in AwaitNode
             PROVE  OwedOf(w)'
  BY <1>5 DEF OwedOf
<1>6. IsFiniteSet(RequestsOf(w)) /\ IsFiniteSet(CompletionsOf(w))
  BY DEF DeliveryOf
<1>7. /\ Cardinality(RequestsOf(w)) \in Nat /\ Cardinality(CompletionsOf(w)) \in Nat
      /\ Cardinality(RequestsOf(w) \ {r}) = Cardinality(RequestsOf(w)) - 1
      /\ Cardinality(RequestsOf(w) \ {r}) \in Nat
  BY <1>1, <1>6, FS_RemoveElement, FS_CardinalityType
<1>8. Cardinality(RequestsOf(w)) + Cardinality(CompletionsOf(w)) + Len(resumed[w]) = Needed(w)
  BY DEF OwedOf
<1>9. c \notin CompletionsOf(w)
  <2>1. CASE pc[w] = "await_teaching"
    BY <1>1, <1>2, <2>1 DEF PlacedOf
  <2>2. CASE pc[w] # "await_teaching"
    <3>1. Needed(w) = 1
      BY <2>2 DEF Needed
    <3> HIDE DEF w
    <3>2. Cardinality(CompletionsOf(w)) = 0
      BY <1>1, <1>7, <1>8, <3>1
    <3> QED
      BY <1>6, <3>2, FS_EmptySet
  <2> QED
    BY <2>1, <2>2
<1> HIDE DEF w
<1>10. Cardinality(CompletionsOf(w) \cup {c}) = Cardinality(CompletionsOf(w)) + 1
  BY <1>6, <1>9, FS_AddElement
<1> HIDE DEF Needed
<1>11. Cardinality(RequestsOf(w)') + Cardinality(CompletionsOf(w)') + Len(resumed'[w]) = Needed(w)'
  BY <1>1, <1>4, <1>5, <1>7, <1>8, <1>10
<1>12. OwedOf(w)'
  BY <1>11 DEF OwedOf
<1> QED
  BY <1>12 DEF w

LEMMA OwedStep ==
  ASSUME TypeInv, ControlInv, DeliveryInv, CompleteInv, OwedInv, [Next]_vars, Reliable
  PROVE  OwedInv'
<1> SUFFICES ASSUME NEW v \in Workflow  PROVE OwedOf(v)'
  BY DEF OwedInv
<1>1. \A w \in Workflow : DeliveryOf(w) /\ PlacedOf(w) /\ OwedOf(w)
  BY DEF DeliveryInv, CompleteInv, OwedInv
<1>2. CASE \E w \in Workflow : GraphStep(w)
  <2>1. PICK w \in Workflow : GraphStep(w)
    BY <1>2
  <2>2. CASE v = w
    BY <1>1, <2>1, <2>2, OwedNode
  <2>3. CASE v # w
    BY <1>1, <2>1, <2>3, OthersStay, PlacedOthers, OwedFrame DEF Same
  <2> QED
    BY <2>2, <2>3
<1>3. CASE \E s \in queue, w \in Workflow : Run(s, w)
  <2>1. PICK s \in queue, w \in Workflow : Run(s, w)
    BY <1>3
  <2>2. CASE v = w
    BY <2>1, <2>2 DEF Run, OwedOf, AwaitNode, TypeInv, TypeOK
  <2>3. CASE v # w
    BY <1>1, <2>1, <2>3, OwedFrame DEF Run, RequestsOf, CompletionsOf, TypeInv, TypeOK
  <2> QED
    BY <2>2, <2>3
<1>4. CASE \E m \in completions : Resume(m)
  <2>1. PICK m \in completions : Resume(m)
    BY <1>4
  <2>2. CASE v = m.wf
    BY <1>1, <2>1, <2>2, OwedResume
  <2>3. CASE v # m.wf
    BY <1>1, <2>1, <2>3, OwedFrame
       DEF Resume, TakeCompletion, state, TypeInv, TypeOK, RequestsOf, CompletionsOf
  <2> QED
    BY <2>2, <2>3
<1>5. CASE \E m \in completions : ResumeUnknown(m)
  <2>1. PICK m \in completions : ResumeUnknown(m)
    BY <1>5
  <2>2. UNCHANGED <<pc, resumed, levels, requests>>
    BY <2>1 DEF ResumeUnknown, thread, state
  <2>3. CASE pc[v] \in AwaitNode
    <3>1. v # m.wf
      BY <2>1, <2>3 DEF ResumeUnknown, ControlInv, Node
    <3>2. CompletionsOf(v)' = CompletionsOf(v) /\ RequestsOf(v)' = RequestsOf(v)
      BY <2>1, <2>2, <3>1 DEF ResumeUnknown, TakeCompletion, CompletionsOf, RequestsOf
    <3> QED
      BY <1>1, <2>2, <3>2, OwedFrame
  <2>4. CASE pc[v] \notin AwaitNode
    BY <2>2, <2>4 DEF OwedOf, AwaitNode
  <2> QED
    BY <2>3, <2>4
<1>6. CASE \E r \in requests, text \in BOOLEAN, failed \in BOOLEAN : AgentAnswers(r, text, failed)
  <2>1. PICK r \in requests, text \in BOOLEAN, failed \in BOOLEAN : AgentAnswers(r, text, failed)
    BY <1>6
  <2>2. CASE v = r.wf
    BY <1>1, <2>1, <2>2, OwedAnswer
  <2>3. CASE v # r.wf
    BY <1>1, <2>1, <2>3, OwedFrame DEF AgentAnswers, thread, state, RequestsOf, CompletionsOf
  <2> QED
    BY <2>2, <2>3
<1>7. CASE CommitOffsets \/ UNCHANGED vars
  BY <1>1, <1>7, OwedFrame DEF CommitOffsets, vars, channels, thread, state, RequestsOf, CompletionsOf
<1>8. CASE Restart
  <2>1. pc'[v] \notin AwaitNode
    BY <1>8 DEF Restart, Node, AwaitNode
  <2> QED
    BY <2>1 DEF OwedOf
<1>9. ~Rebalance /\ ~GiveUpBatch /\ \A r \in requests : ~AgentSilent(r)
  BY DEF Rebalance, GiveUpBatch, AgentSilent, Reliable
<1> QED
  BY <1>2, <1>3, <1>4, <1>5, <1>6, <1>7, <1>8, <1>9 DEF Next, Worker, Agents

\* With reliable topics and agents, and even if the process is restarted, what a
\* paused workflow is still sent are the replies it lacks, no more, no fewer and of no
\* other kind: nothing it waits for was forgotten, nothing else can reach its
\* interrupt() (agent.py:478-497, 559-566, 640-645).
THEOREM OwedWhatItLacksAlways ==
  ASSUME Faults \subseteq {"restart"}
  PROVE  Spec => []OwedWhatItLacks
<1>0. Reliable /\ "redelivery" \notin Faults
  BY DEF Reliable
<1>1. Init => OwedInv
  BY DEF Init, OwedInv, OwedOf, AwaitNode
<1>2. TypeInv /\ ControlInv /\ DeliveryInv /\ CompleteInv /\ OwedInv /\ [Next]_vars => OwedInv'
  BY <1>0, OwedStep
<1>3. TypeInv /\ ControlInv /\ DeliveryInv /\ OwedInv => OwedWhatItLacks
  <2> SUFFICES ASSUME TypeInv, ControlInv, DeliveryInv, OwedInv, NEW w \in active, busy # w
               PROVE  /\ \A m \in Outstanding(w) : m.kind = KindOf(pc[w])
                      /\ Cardinality(Outstanding(w)) = Needed(w) - Len(resumed[w])
    BY DEF OwedWhatItLacks
  <2>1. w \in Workflow /\ pc[w] \in AwaitNode /\ DeliveryOf(w) /\ OwedOf(w)
    BY DEF ControlInv, DeliveryInv, OwedInv
  <2>2. Outstanding(w) = RequestsOf(w) \cup CompletionsOf(w)
    BY DEF Outstanding, RequestsOf, CompletionsOf
  <2>3. RequestsOf(w) \cap CompletionsOf(w) = {}
    <3>1. RequestsOf(w) \subseteq Request /\ CompletionsOf(w) \subseteq Completion
      BY DEF RequestsOf, CompletionsOf, TypeInv, TypeOK
    <3>2. \A x \in Request : "text" \notin DOMAIN x
      BY DEF Request
    <3>3. \A x \in Completion : "text" \in DOMAIN x
      BY DEF Completion
    <3> QED
      BY <3>1, <3>2, <3>3
  <2>4. IsFiniteSet(RequestsOf(w)) /\ IsFiniteSet(CompletionsOf(w))
    BY <2>1 DEF DeliveryOf
  <2>5. Cardinality(RequestsOf(w) \cup CompletionsOf(w))
          = Cardinality(RequestsOf(w)) + Cardinality(CompletionsOf(w)) - Cardinality({})
    BY <2>3, <2>4, FS_Union
  <2>6. /\ Cardinality({}) = 0 /\ Cardinality(RequestsOf(w)) \in Nat
        /\ Cardinality(CompletionsOf(w)) \in Nat /\ Len(resumed[w]) \in Nat /\ Needed(w) \in Nat
    BY <2>1, <2>4, FS_EmptySet, FS_CardinalityType DEF Needed, TypeInv, TypeOK
  <2>7. Cardinality(RequestsOf(w)) + Cardinality(CompletionsOf(w)) + Len(resumed[w]) = Needed(w)
    BY <2>1 DEF OwedOf
  <2>8. Cardinality(Outstanding(w)) = Needed(w) - Len(resumed[w])
    <3> HIDE DEF Needed, Outstanding
    <3> QED
      BY <2>2, <2>5, <2>6, <2>7
  <2> QED
    BY <2>1, <2>2, <2>8 DEF DeliveryOf
<1> QED
  BY <1>0, <1>1, <1>2, <1>3, TypeInvariant, ControlInvariant, DeliveryInvariant, CompleteInvariant, PTL
     DEF Spec
=============================================================================
