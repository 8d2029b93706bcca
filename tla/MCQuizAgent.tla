----------------------------- MODULE MCQuizAgent -----------------------------
(* QuizAgent on a few records. *)
EXTENDS QuizAgent

Request(id, content) ==
  [id |-> id, topic |-> "quiz-request", valid |-> TRUE, content |-> content,
   descriptive |-> FALSE]
Evaluation(id, descriptive) ==
  [id |-> id, topic |-> "quiz-evaluate", valid |-> TRUE, content |-> "blank",
   descriptive |-> descriptive]

Logs(requests, evaluations) ==
  [t \in Topic |-> IF t = "quiz-request" THEN requests ELSE evaluations]

\* One generation with three multiple-choice stems.
Pool ==
  [log |-> Logs(<<Request(1, "long")>>, <<>>), mcq |-> 3, replies |-> {"fails", "bad"},
   settings |-> {"ok"}, faults |-> {}]

\* Records of both topics; the process may die at any point.
Mortal ==
  [log |-> Logs(<<Request(1, "long"), Request(2, "short")>>, <<Evaluation(3, FALSE)>>),
   mcq |-> 2, replies |-> {"bad"}, settings |-> {"ok"}, faults |-> {"crash"}]

\* Records that end the process, unusable answers, bad settings, failed publishes.
Poisoned ==
  [log |-> Logs(<<Request(1, "long"), [Request(2, "long") EXCEPT !.valid = FALSE]>>,
                <<Evaluation(3, TRUE)>>),
   mcq |-> 1, replies |-> {"fails", "bad", "odd"}, settings |-> {"ok", "missing", "malformed"},
   faults |-> {"publish_fails", "crash"}]

\* The same records and answers, with nothing else going wrong.
Unusable == [Poisoned EXCEPT !.settings = {"ok"}, !.faults = {}]

MCWorlds == {Pool, Mortal, Poisoned}
UnusableOnly == {Unusable}
=============================================================================
