--------------------------- MODULE MCQuizEvaluation ---------------------------
(* A bounded instance of QuizEvaluation. *)
EXTENDS QuizEvaluation

FourOptions == {"a", "b", "c", "d"}

Question(id, type, points, concepts, correct) ==
  {[id |-> id, type |-> type, concept |-> c, points |-> p, correct |-> s] :
     c \in concepts, p \in points, s \in correct}

\* The model may give a single-answer question more points than the prompt asks for.
Single(id) == Question(id, "mcq-single", {1, 4}, {"c1", "c2"}, {{"a"}})

\* The correct options up to their names.
Multi(id) == Question(id, "mcq-multi", {2}, {"c1"}, {{"a"}, {"a", "b"}, {"a", "b", "c"}})

\* Worth 3 points instead of 5.
Written(id) == Question(id, "descriptive", {3}, {"c1", "c2"}, {{}})

\* A single- and a multiple-answer question among two descriptive ones.
FourQuestions == <<Single("q1") \cup Written("q1"), Multi("q2"), Single("q3") \cup Written("q3"),
                   Written("q4")>>

\* Below nothing, below and above half, more than the question is worth; no mark
\* scores as 0 does.
SomeMarks == {-1, 1, 2, 4}
=============================================================================
