-------------------------- MODULE LearningWorkflow --------------------------
(***************************************************************************)
(* What the orchestrator promises for a learning workflow, without its     *)
(* worker thread, its graph library, or Kafka: a workflow goes through the *)
(* stages planning, RAG, teaching, quiz, closing in this order, it leaves  *)
(* a stage only when every reply that the stage asked for has come, and    *)
(* it answers its user at most once.  A workflow can be dropped.           *)
(***************************************************************************)
EXTENDS Naturals

CONSTANT Workflow

VARIABLES
  stage,   \* where each workflow is
  owed,    \* replies its stage still waits for
  answers  \* terminal events its user was sent

vars == <<stage, owed, answers>>

Live  == {"planning", "rag", "teaching", "quiz", "closing"}
Stage == Live \cup {"absent", "over", "dropped"}

TypeOK ==
  /\ stage \in [Workflow -> Stage]
  /\ owed \in [Workflow -> Nat]
  /\ answers \in [Workflow -> Nat]

Init ==
  /\ stage = [w \in Workflow |-> "absent"]
  /\ owed = [w \in Workflow |-> 0]
  /\ answers = [w \in Workflow |-> 0]

Move(w, from, to) ==
  /\ stage[w] = from
  /\ owed[w] = 0
  /\ stage' = [stage EXCEPT ![w] = to]

Begin(w) == Move(w, "absent", "planning") /\ UNCHANGED <<owed, answers>>

\* A stage that asks agents for replies: one, or one per learner level.
Ask(w, from, to) ==
  /\ Move(w, from, to)
  /\ owed'[w] \in Nat \ {0}
  /\ to # "teaching" => owed'[w] = 1
  /\ owed' = [owed EXCEPT ![w] = owed'[w]]
  /\ UNCHANGED answers

AskRag(w)      == Ask(w, "planning", "rag")
AskTeaching(w) == Ask(w, "planning", "teaching") \/ Ask(w, "rag", "teaching")
AskQuiz(w)     == Ask(w, "teaching", "quiz")

Reply(w) ==
  /\ owed[w] > 0
  /\ owed' = [owed EXCEPT ![w] = @ - 1]
  /\ UNCHANGED <<stage, answers>>

Close(w) ==
  /\ \E from \in {"planning", "teaching", "quiz"} : Move(w, from, "closing")
  /\ UNCHANGED <<owed, answers>>

Answer(w) ==
  /\ Move(w, "closing", "over")
  /\ answers' = [answers EXCEPT ![w] = @ + 1]
  /\ UNCHANGED owed

\* The answer may be lost on its way.
Mute(w) == Move(w, "closing", "over") /\ UNCHANGED <<owed, answers>>

Drop(ws) ==
  /\ \A w \in ws : stage[w] \in Live
  /\ stage' = [w \in Workflow |-> IF w \in ws THEN "dropped" ELSE stage[w]]
  /\ owed' = [w \in Workflow |-> IF w \in ws THEN 0 ELSE owed[w]]
  /\ UNCHANGED answers

Step(w) ==
  \/ Begin(w) \/ AskRag(w) \/ AskTeaching(w) \/ AskQuiz(w)
  \/ Reply(w) \/ Close(w) \/ Answer(w) \/ Mute(w)

Next ==
  \/ \E w \in Workflow : Step(w)
  \/ \E ws \in SUBSET Workflow : Drop(ws)

Spec == Init /\ [][Next]_vars
=============================================================================
