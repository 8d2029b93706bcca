---------------------------- MODULE QuizEvaluation ----------------------------
(***************************************************************************)
(* What one evaluation computes (quiz_agent/agent.py, evaluate): the       *)
(* multiple-choice questions are graded one by one, the descriptive ones   *)
(* by one call of the model, and the result is assembled from the totals.  *)
(* The quiz is one that generation accepts (validators.py and the stem     *)
(* validation), sent back by the page with the learner's answers.          *)
(*                                                                         *)
(* Scores are counted in 60ths of a point, so that partial credit with up  *)
(* to six correct options is exact.  An answer that is missing and one     *)
(* that selects nothing are the same to the code, and here.                *)
(***************************************************************************)
EXTENDS Integers, Sequences, SequencesExt

CONSTANTS
  Options,     \* the options of a multiple-choice question
  Candidates,  \* per place of the quiz, the questions that may stand there
  MinSingle, MinMulti, Descriptive,  \* how many of each type a quiz must have
  Points        \* the whole points the grading model may give

Unit == 60

Multiple == {"mcq-single", "mcq-multi"}
QType == Multiple \cup {"descriptive"}

\* correct: the options marked is_correct.
IsQuestion(q) ==
  /\ DOMAIN q = {"id", "type", "concept", "points", "correct"}
  /\ q.type \in QType /\ q.points \in Nat \ {0} /\ q.correct \subseteq Options

ASSUME EvaluationAssumption ==
  /\ {MinSingle, MinMulti, Descriptive} \subseteq Nat
  /\ Points \subseteq Int
  /\ IsFiniteSet(Options)
  /\ Len(Candidates) \in Nat \ {0} /\ DOMAIN Candidates = 1..Len(Candidates)
  /\ \A i \in DOMAIN Candidates : \A q \in Candidates[i] : IsQuestion(q)

VARIABLES
  quiz, answers,     \* what is evaluated: per id, the selected options
  phase,
  cursor,          \* the loop over the quiz's questions
  deferred,          \* descriptive_questions, by place
  results,           \* question_results
  mcq, descriptive,  \* the subtotals
  grades,            \* grades_by_qid
  weak, strong,      \* weak_sub_concepts; strong_concepts of the SWOT prompt
  action             \* recommended_action

input == <<quiz, answers>>
vars  == <<input, phase, cursor, deferred, results, mcq, descriptive, grades,
           weak, strong, action>>

-----------------------------------------------------------------------------
Count(qs, type) == Len(SelectSeq(qs, LAMBDA q : q.type = type))

OptionsSound(q) ==
  /\ q.type = "mcq-single" => \E o \in Options : q.correct = {o}
  /\ q.type = "mcq-multi"  => \E o, p \in q.correct : o # p

\* No error from validate_question_set: nothing looks at the ids or the points.
Accepted(qs) ==
  /\ \A i \in DOMAIN qs : OptionsSound(qs[i])
  /\ Count(qs, "mcq-single") >= MinSingle
  /\ Count(qs, "mcq-multi") >= MinMulti
  /\ Count(qs, "descriptive") = Descriptive

Ids(qs) == {qs[i].id : i \in DOMAIN qs}
Concepts(qs) == {qs[i].concept : i \in DOMAIN qs}

\* The page lets the learner select one option of an mcq-single question.
AnswersTo(qs) ==
  {a \in [Ids(qs) -> SUBSET Options] :
     \A i \in DOMAIN qs :
       /\ qs[i].type = "descriptive" => a[qs[i].id] = {}
       /\ qs[i].type = "mcq-single" =>
            a[qs[i].id] = {} \/ \E o \in Options : a[qs[i].id] = {o}}

Quizzes == {qs \in [DOMAIN Candidates -> UNION {Candidates[i] : i \in DOMAIN Candidates}] :
              /\ \A i \in DOMAIN Candidates : qs[i] \in Candidates[i]
              /\ Accepted(qs)}

Init ==
  /\ quiz \in Quizzes
  /\ answers \in AnswersTo(quiz)
  /\ phase = "choices" /\ cursor = 1
  /\ deferred = <<>> /\ results = <<>>
  /\ mcq = 0 /\ descriptive = 0
  /\ grades = [id \in {} |-> 0]
  /\ weak = <<>> /\ strong = <<>>
  /\ action = "none"

-----------------------------------------------------------------------------
\* explained: the options the result shows an explanation of.
Result(q, score, explained) ==
  [id |-> q.id, type |-> q.type, score |-> score, max |-> q.points, explained |-> explained]

\* One point, whatever max_points is.
ScoreSingle(q, selected) == IF selected \cap q.correct # {} THEN Unit ELSE 0

\* Mutant: wrong selections cost nothing.
ScoreMultiForgiving(q, selected) ==
  (Cardinality(selected \cap q.correct) * Unit * q.points) \div Cardinality(q.correct)

\* Partial credit: wrong selections are taken off the right ones.
ScoreMulti(q, selected) ==
  LET gained == Cardinality(selected \cap q.correct) - Cardinality(selected \ q.correct)
  IN  IF gained <= 0 THEN 0 ELSE (gained * Unit * q.points) \div Cardinality(q.correct)

\* mcq-single: the wrong option selected; mcq-multi: also the correct ones missed.
Explained(q, selected) ==
  (selected \ q.correct)
    \cup (IF q.type = "mcq-multi" THEN q.correct \ selected ELSE {})

Here == quiz[cursor]
AtQuestion(types) == phase = "choices" /\ cursor <= Len(quiz) /\ Here.type \in types

\* Mutant: the subtotal keeps the last score only.
GradeChoiceForgetting ==
  /\ AtQuestion(Multiple)
  /\ LET selected == answers[Here.id]
         score == IF Here.type = "mcq-single" THEN ScoreSingle(Here, selected)
                                              ELSE ScoreMulti(Here, selected)
     IN  /\ mcq' = score
         /\ results' = Append(results, Result(Here, score, Explained(Here, selected)))
  /\ cursor' = cursor + 1
  /\ UNCHANGED <<input, phase, deferred, descriptive, grades, weak, strong, action>>

GradeChoice ==
  /\ AtQuestion(Multiple)
  /\ LET selected == answers[Here.id]
         score == IF Here.type = "mcq-single" THEN ScoreSingle(Here, selected)
                                              ELSE ScoreMulti(Here, selected)
     IN  /\ mcq' = mcq + score
         /\ results' = Append(results, Result(Here, score, Explained(Here, selected)))
  /\ cursor' = cursor + 1
  /\ UNCHANGED <<input, phase, deferred, descriptive, grades, weak, strong, action>>

\* Mutant: a descriptive question is put in front of the others.
DeferInFront ==
  /\ AtQuestion({"descriptive"})
  /\ deferred' = <<cursor>> \o deferred
  /\ cursor' = cursor + 1
  /\ UNCHANGED <<input, phase, results, mcq, descriptive, grades, weak, strong, action>>

Defer ==
  /\ AtQuestion({"descriptive"})
  /\ deferred' = Append(deferred, cursor)
  /\ cursor' = cursor + 1
  /\ UNCHANGED <<input, phase, results, mcq, descriptive, grades, weak, strong, action>>

\* The model's grades, for some of the questions; or no answer it can use.
AskGrader ==
  /\ phase = "choices" /\ cursor > Len(quiz)
  /\ \/ /\ deferred # <<>>
        /\ \E S \in SUBSET {quiz[deferred[k]].id : k \in DOMAIN deferred} :
             \E g \in [S -> Points] : grades' = g
        /\ phase' = "grades" /\ cursor' = 1
     \/ deferred # <<>> /\ phase' = "error" /\ UNCHANGED <<grades, cursor>>
     \/ deferred = <<>> /\ phase' = "assemble" /\ UNCHANGED <<grades, cursor>>
  /\ UNCHANGED <<input, deferred, results, mcq, descriptive, weak, strong, action>>

\* A question without a grade scores 0; a mark is clipped from above only.
Mark(q) ==
  LET given == IF q.id \in DOMAIN grades THEN grades[q.id] ELSE 0
  IN  Unit * (IF given > q.points THEN q.points ELSE given)

\* QuestionResult refuses a negative score: the exception leaves evaluate.
GradeText ==
  /\ phase = "grades" /\ cursor <= Len(deferred)
  /\ LET q == quiz[deferred[cursor]]
     IN  \/ /\ Mark(q) >= 0
            /\ descriptive' = descriptive + Mark(q)
            /\ results' = Append(results, Result(q, Mark(q), {}))
            /\ cursor' = cursor + 1
            /\ UNCHANGED phase
         \/ /\ Mark(q) < 0
            /\ descriptive' = descriptive + Mark(q)
            /\ phase' = "raised"
            /\ UNCHANGED <<results, cursor>>
  /\ UNCHANGED <<input, deferred, mcq, grades, weak, strong, action>>

TextGraded ==
  /\ phase = "grades" /\ cursor > Len(deferred)
  /\ phase' = "assemble"
  /\ UNCHANGED <<input, cursor, deferred, results, mcq, descriptive, grades, weak, strong,
                 action>>

-----------------------------------------------------------------------------
Overall == mcq + descriptive

\* What a loop of n rounds makes of the value it starts with; step[k] is what the
\* k-th round does to it.
Loop(step, start, n) ==
  LET after[k \in 0..n] == IF k = 0 THEN start ELSE step[k][after[k - 1]]
  IN  after[n]

TotalOf(w) == Loop([k \in DOMAIN w |-> [sum \in Int |-> sum + w[k]]], 0, Len(w))

Worth(qs) == TotalOf([k \in DOMAIN qs |-> qs[k].points])
MaxScore == Worth(quiz)

\* round(overall / max * 100, 1) in tenths of a percent, a tie going either way.
Percentages(overall, max) ==
  {p \in 0..1000 : LET off == 2 * p * max - 2000 * overall IN -max <= off /\ off <= max}

\* Mutant: the threshold of the middle band is exclusive.
ActionAbove(p) == IF p >= 750 THEN "Move to next Topic"
                  ELSE IF p > 500 THEN "Review Notes and Retake Quiz"
                  ELSE "Retake the Course"

ActionFor(p) == IF p >= 750 THEN "Move to next Topic"
                ELSE IF p >= 500 THEN "Review Notes and Retake Quiz"
                ELSE "Retake the Course"

\* questions_by_id: of two questions with one id, the later.
QuestionById(id) ==
  LET last == CHOOSE i \in DOMAIN quiz :
                quiz[i].id = id /\ \A j \in DOMAIN quiz : quiz[j].id = id => j <= i
  IN  quiz[last]

Low(r) == 2 * r.score < Unit * r.max

\* A sub-concept is noted once.
Noted(cs, c) == IF c \in Range(cs) THEN cs ELSE Append(cs, c)

\* Mutant: a score of exactly half is weak as well.
WeakUpToHalf ==
  Loop([k \in DOMAIN results |-> [cs \in Seq(Concepts(quiz)) |->
          IF 2 * results[k].score <= Unit * results[k].max
            THEN Noted(cs, QuestionById(results[k].id).concept) ELSE cs]],
       <<>>, Len(results))

\* The sub-concepts of the questions below half of their points.
WeakConcepts ==
  Loop([k \in DOMAIN results |-> [cs \in Seq(Concepts(quiz)) |->
          IF Low(results[k]) THEN Noted(cs, QuestionById(results[k].id).concept) ELSE cs]],
       <<>>, Len(results))

Assemble ==
  /\ phase = "assemble"
  /\ phase' = "done"
  /\ weak' = WeakConcepts
  /\ \E p \in Percentages(Overall, Unit * MaxScore) : action' = ActionFor(p)
  /\ UNCHANGED <<input, cursor, deferred, results, mcq, descriptive, grades, strong>>

\* generate_swot asks about the result; its strong concepts are question ids.
Swot ==
  /\ phase = "done"
  /\ phase' = "swot"
  /\ strong' = FoldLeft(LAMBDA ids, r : IF Low(r) THEN ids ELSE Append(ids, r.id), <<>>, results)
  /\ UNCHANGED <<input, cursor, deferred, results, mcq, descriptive, grades, weak, action>>

Next == GradeChoice \/ Defer \/ AskGrader \/ GradeText \/ TextGraded \/ Assemble \/ Swot

Spec == Init /\ [][Next]_vars

-----------------------------------------------------------------------------
(* Properties                                                              *)

ResultType == [id : Ids(quiz), type : QType, score : Nat, max : Nat \ {0},
               explained : SUBSET Options]

TypeOK ==
  /\ quiz \in Quizzes /\ answers \in AnswersTo(quiz)
  /\ phase \in {"choices", "grades", "assemble", "done", "swot", "error", "raised"}
  /\ cursor \in 1..(Len(quiz) + 1)
  /\ Range(deferred) \subseteq DOMAIN quiz
  /\ Range(results) \subseteq ResultType
  /\ mcq \in Nat /\ descriptive \in Int
  /\ DOMAIN grades \subseteq Ids(quiz) /\ Range(grades) \subseteq Points
  /\ Range(weak) \subseteq Concepts(quiz)
  /\ Range(strong) \subseteq Ids(quiz)
  /\ action \in {"none", "Move to next Topic", "Review Notes and Retake Quiz",
                 "Retake the Course"}

Scored == phase \in {"done", "swot"}
DistinctIds(qs) == \A i, j \in DOMAIN qs : qs[i].id = qs[j].id => i = j

\* Question j is graded before question i: the multiple-choice ones come first.
GradedBefore(j, i) ==
  IF quiz[j].type \in Multiple <=> quiz[i].type \in Multiple
    THEN j < i ELSE quiz[j].type \in Multiple

\* Every question of the quiz has exactly one result: the multiple-choice ones
\* first, then the descriptive ones, each in the order of the quiz.
ResultsCoverQuiz ==
  Scored =>
    /\ Len(results) = Len(quiz)
    /\ \A i \in DOMAIN quiz :
         results[Cardinality({j \in DOMAIN quiz : GradedBefore(j, i)}) + 1].id = quiz[i].id

\* The totals are those of the results, and the learner never gets more than
\* the quiz is worth, nor QuizResult a percentage outside 0..100.
TotalsAgree ==
  Scored =>
    /\ Overall = TotalOf([k \in DOMAIN results |-> results[k].score])
    /\ Overall \in 0..(Unit * MaxScore)
    /\ \A k \in DOMAIN results : results[k].score <= Unit * results[k].max

\* A multiple-choice question of the prompt's points has full marks exactly when
\* it was answered right, and otherwise an option is explained, unless nothing
\* was selected of a single-answer question (agent.py:363-371, 394-417).
LossIsExplained ==
  \A k \in DOMAIN results :
    LET r == results[k] IN
    /\ r.type = "mcq-multi" => (r.score = Unit * r.max <=> r.explained = {})
    /\ r.type = "mcq-single" /\ r.max = 1 /\ r.score < Unit =>
         (r.explained = {} <=> answers[r.id] = {})

\* A sub-concept is weak exactly when some question about it scored below half
\* of its points (agent.py:520-529), as long as the ids are distinct.
WeakIsBelowHalf ==
  Scored /\ DistinctIds(quiz) =>
    Range(weak) = {c \in Concepts(quiz) :
                     \E k \in DOMAIN results, i \in DOMAIN quiz :
                       /\ results[k].id = quiz[i].id /\ quiz[i].concept = c
                       /\ results[k].score < Unit * results[k].max - results[k].score}

\* The report is of one piece: its results are those of the quiz, its totals and
\* its weak sub-concepts are theirs, and what costs marks is explained, whatever
\* types of questions come in whatever order with whatever marks.
ReportIsConsistent ==
  ResultsCoverQuiz /\ TotalsAgree /\ LossIsExplained /\ WeakIsBelowHalf

\* The rounding to a tenth of a percent never moves a learner across a
\* threshold (helpers.py:245-255), for a quiz of up to 33 points; one of the
\* counts generation asks for has 31.
ActionFollowsScore ==
  Scored /\ MaxScore \in 1..33 =>
    /\ action = "Move to next Topic" <=> 4 * Overall >= 3 * (Unit * MaxScore)
    /\ action = "Retake the Course"  <=> 2 * Overall < Unit * MaxScore
=============================================================================
