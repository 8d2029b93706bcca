----------------------------- MODULE MCQuizPage -----------------------------
(* QuizPage with a few quizzes, changes of answers, evaluations and        *)
(* restarts of the quiz service.                                           *)
EXTENDS QuizPage

EveryWorld == {{"refused"}, {"refused", "unconfirmed", "workflow"},
               {"workflow", "swallowed", "reordered"}, {"reordered"}, {"ends"}}

\* Where the quiz service is started again, the learner asks for one quiz.
OneQuiz == "ends" \in world => asked <= 1
=============================================================================
