----------------------- MODULE OrchestratorRefinement -----------------------
(***************************************************************************)
(* The orchestrator as an implementation of LearningWorkflow: the stage a  *)
(* workflow is in is read off the next node of its graph, and what it is   *)
(* owed is what its await node lacks.                                      *)
(***************************************************************************)
EXTENDS Orchestrator

StageOf(w) ==
  CASE pc[w] = "absent" -> "absent"
    [] pc[w] \in {"infer_level", "run_rag"} -> "planning"
    [] pc[w] = "await_rag" -> "rag"
    [] pc[w] = "dispatch_teaching" -> IF InputOf(w).files THEN "rag" ELSE "planning"
    [] pc[w] \in {"await_teaching", "run_quiz"} -> "teaching"
    [] pc[w] = "await_quiz" -> "quiz"
    [] pc[w] \in {"clarify_and_end", "finish"} -> "closing"
    [] pc[w] = "END" -> "over"
    [] pc[w] \in {"error", "lost"} -> "dropped"

OwedTo(w) == IF pc[w] \in AwaitNode THEN Needed(w) - Len(resumed[w]) ELSE 0

LW == INSTANCE LearningWorkflow WITH
        stage   <- [w \in Workflow |-> StageOf(w)],
        owed    <- [w \in Workflow |-> OwedTo(w)],
        answers <- [w \in Workflow |-> Len(terminal[w])]

\* The worker and the graph (orchestrator_agent/worker.py:102-150, agent.py:200-245)
\* keep the promise of LearningWorkflow whatever is lost, repeated or restarted:
\* stages in order, none left before all its replies, one answer.
ImplementsLearningWorkflow == LW!Spec
=============================================================================
