------------------------------- MODULE QuizPage -------------------------------
(***************************************************************************)
(* The quiz and evaluation pages (react_ui), the backend's quiz endpoints  *)
(* (api/quiz_request.py) and, behind them, the quiz service with its two   *)
(* topics and the orchestrator, whose workflows ask for quizzes of their   *)
(* own.  Progress updates and results come over two Kafka topics; the      *)
(* backend's consumer keeps the order within a topic only.                 *)
(*                                                                         *)
(* A quiz is a number, the order in which it was made; a sheet <<quiz, n>> *)
(* is that quiz with the answers after the learner's n-th change.  One     *)
(* connection; the connection's own life is in ChatPage.  What the service *)
(* publishes is stored: a delivery that fails is QuizAgent's Refuse.       *)
(***************************************************************************)
EXTENDS Naturals, Sequences, SequencesExt

CONSTANTS
  Worlds,       \* the sets of things that may happen together: see Happening
  MaxQuizzes, MaxWorkflows, MaxEdits, MaxSubmits, MaxRestarts   \* bounds

\* "refused": a post that is not published; "unconfirmed": one that is, and is
\* answered with an error; "workflow": a quiz the orchestrator asks for;
\* "swallowed": such a request that is not published; "reordered": an event of
\* one topic overtakes an earlier one of the other; "ends": the quiz service's
\* process ends, as it does when an evaluation fails.
Happening == {"refused", "unconfirmed", "workflow", "swallowed", "reordered", "ends"}

ASSUME PageAssumption ==
  /\ Worlds \subseteq SUBSET Happening
  /\ {MaxQuizzes, MaxWorkflows, MaxEdits, MaxSubmits, MaxRestarts} \subseteq Nat

VARIABLES
  world,            \* what may happen in this behaviour, one of Worlds
  quiz, edits,      \* the quiz shown, 0 for none; changes of its answers
  isLoading, quizError, isRequesting,
  evaluation,       \* its status, and the sheet that was evaluated
  quizPost,         \* the generation request: "none", "sent", "ok" or "error"
  evalPosts,        \* the evaluation requests, each [sheet, status]
  quizRequests, evalRequests,   \* Kafka: what the quiz service has yet to handle
  job,              \* what it is handling
  handled,          \* what it has handled and not committed: [quizzes, evals]
  restarts,         \* how often its process was started again
  events,           \* Kafka: what the backend has yet to forward, oldest first
  asked, workflows, \* quizzes asked for by the learner and by workflows
  made,             \* quizzes made
  wanted,           \* history: the learner has asked for one since the last came
  repeated,         \* history: the pages whose answered requests were read again
  overtaken         \* history: the pages whose result came before a progress update

page    == <<quiz, edits, isLoading, quizError, evaluation, wanted>>
posts   == <<isRequesting, quizPost, evalPosts>>
position == <<handled, restarts, repeated>>
service == <<quizRequests, evalRequests, job, position>>
stream  == <<events, overtaken>>
counts  == <<asked, workflows, made>>
vars    == <<world, page, posts, service, stream, counts>>

Sheet   == Nat \X (0..MaxEdits)
NoSheet == <<0, 0>>        \* also the result of a generation that failed
Status  == {"sent", "ok", "error", "replied"}
Event   == [topic : {"progress", "tokens"}, page : {"quiz", "eval"}, sheet : Sheet]
NoJob   == [kind |-> "none", sheet |-> NoSheet]
Nothing == [quizzes |-> 0, evals |-> <<>>]

TypeOK ==
  /\ world \in Worlds
  /\ quiz \in Nat /\ edits \in 0..MaxEdits
  /\ {isLoading, quizError, isRequesting} \subseteq BOOLEAN
  /\ evaluation \in [status : {"idle", "loading", "ready", "error"}, sheet : Sheet]
  /\ isRequesting = (quizPost # "none")
  /\ evalPosts \in Seq([sheet : Sheet, status : Status])
  /\ quizRequests \in 0..(asked + workflows) /\ evalRequests \in Seq(Sheet)
  /\ job \in [kind : {"none", "quiz", "eval"}, sheet : Sheet]
  /\ handled \in [quizzes : 0..(asked + workflows), evals : Seq(Sheet)]
  /\ restarts \in 0..MaxRestarts
  /\ events \in Seq(Event)
  /\ made <= (asked + workflows) * (restarts + 1) /\ wanted \in BOOLEAN
  /\ repeated \subseteq {"quiz", "eval"} /\ overtaken \subseteq {"quiz", "eval"}

Init ==
  /\ world \in Worlds
  /\ quiz = 0 /\ edits = 0 /\ isLoading = FALSE /\ quizError = FALSE /\ isRequesting = FALSE
  /\ evaluation = [status |-> "idle", sheet |-> NoSheet]
  /\ quizPost = "none" /\ evalPosts = <<>>
  /\ quizRequests = 0 /\ evalRequests = <<>> /\ job = NoJob
  /\ handled = Nothing /\ restarts = 0 /\ repeated = {}
  /\ events = <<>> /\ overtaken = {}
  /\ asked = 0 /\ workflows = 0 /\ made = 0 /\ wanted = FALSE
-----------------------------------------------------------------------------
(* The quiz page.                                                          *)

\* The quiz and the button to submit it are rendered.
QuizShown == quiz # 0 /\ ~isLoading /\ ~quizError

\* handleGenerateQuiz; without a question or an answer in the chat there is no
\* material, and no post.
Generate ==
  /\ ~isRequesting /\ ~isLoading /\ asked + workflows < MaxQuizzes
  /\ \/ /\ quizError' = FALSE /\ isLoading' = TRUE /\ isRequesting' = TRUE
        /\ quizPost' = "sent" /\ asked' = asked + 1 /\ wanted' = TRUE
     \/ /\ quizError' = TRUE
        /\ UNCHANGED <<isLoading, isRequesting, quizPost, asked, wanted>>
  /\ UNCHANGED <<world, quiz, edits, evaluation, evalPosts, service, stream, workflows, made>>

\* Mutant: an error of the request leaves the page loading.
QuizReplyKeepsLoading ==
  /\ quizPost \in {"ok", "error"}
  /\ quizPost' = "none" /\ isRequesting' = FALSE
  /\ quizError' = (quizError \/ quizPost = "error")
  /\ UNCHANGED <<world, quiz, edits, isLoading, evaluation, wanted, evalPosts, service, stream, counts>>

\* The reply to the post of handleQuizRequest.
QuizReply ==
  /\ quizPost \in {"ok", "error"}
  /\ quizPost' = "none" /\ isRequesting' = FALSE
  /\ quizError' = (quizError \/ quizPost = "error")
  /\ isLoading' = (isLoading /\ quizPost = "ok")
  /\ UNCHANGED <<world, quiz, edits, evaluation, wanted, evalPosts, service, stream, counts>>

\* The learner answers a question.
Edit ==
  /\ QuizShown /\ edits < MaxEdits
  /\ edits' = edits + 1
  /\ UNCHANGED <<world, quiz, isLoading, quizError, evaluation, wanted, posts, service, stream, counts>>

\* Mutant: the button is not disabled while an evaluation is under way.
SubmitTwice ==
  /\ QuizShown /\ Len(evalPosts) < MaxSubmits
  /\ quizError' = FALSE
  /\ evaluation' = [status |-> "loading", sheet |-> NoSheet]
  /\ evalPosts' = Append(evalPosts, [sheet |-> <<quiz, edits>>, status |-> "sent"])
  /\ UNCHANGED <<world, quiz, edits, isLoading, wanted, isRequesting, quizPost, service, stream, counts>>

\* handleSubmitAnswers and handleSubmitQuizEvaluation.
Submit ==
  /\ QuizShown /\ evaluation.status # "loading" /\ Len(evalPosts) < MaxSubmits
  /\ quizError' = FALSE
  /\ evaluation' = [status |-> "loading", sheet |-> NoSheet]
  /\ evalPosts' = Append(evalPosts, [sheet |-> <<quiz, edits>>, status |-> "sent"])
  /\ UNCHANGED <<world, quiz, edits, isLoading, wanted, isRequesting, quizPost, service, stream, counts>>

\* Mutant: an error of the post is shown on the quiz page only.
EvalReplyElsewhere ==
  /\ \E k \in DOMAIN evalPosts :
       /\ evalPosts[k].status \in {"ok", "error"}
       /\ evalPosts' = [evalPosts EXCEPT ![k].status = "replied"]
       /\ quizError' = (quizError \/ evalPosts[k].status = "error")
  /\ UNCHANGED <<world, quiz, edits, isLoading, evaluation, wanted, isRequesting, quizPost, service,
                 stream, counts>>

\* The reply to that post; its error is shown on both pages.
EvalReply ==
  /\ \E k \in DOMAIN evalPosts :
       /\ evalPosts[k].status \in {"ok", "error"}
       /\ evalPosts' = [evalPosts EXCEPT ![k].status = "replied"]
       /\ IF evalPosts[k].status = "error"
          THEN evaluation' = [status |-> "error", sheet |-> NoSheet] /\ quizError' = TRUE
          ELSE UNCHANGED <<evaluation, quizError>>
  /\ UNCHANGED <<world, quiz, edits, isLoading, wanted, isRequesting, quizPost, service, stream, counts>>
-----------------------------------------------------------------------------
(* The socket's events.                                                    *)

\* Progress of an evaluation: a page that is not loading forgets what it shows.
OnEvalProgress ==
  /\ evaluation' = IF evaluation.status = "loading" THEN evaluation
                   ELSE [status |-> "loading", sheet |-> NoSheet]
  /\ UNCHANGED <<world, quiz, edits, isLoading, quizError, wanted>>

OnQuizProgress == isLoading' = TRUE /\ UNCHANGED <<world, quiz, edits, quizError, evaluation, wanted>>

\* A quiz replaces the one shown and its answers; NoSheet is a failed generation.
OnQuiz(sheet) ==
  /\ isLoading' = FALSE /\ wanted' = FALSE
  /\ IF sheet = NoSheet THEN quizError' = TRUE /\ UNCHANGED <<world, quiz, edits>>
     ELSE quiz' = sheet[1] /\ edits' = 0 /\ quizError' = FALSE
  /\ UNCHANGED evaluation

\* Mutant: the answers are cleared as their result comes.
OnEvaluationClearing(sheet) ==
  /\ evaluation' = [status |-> "ready", sheet |-> sheet]
  /\ edits' = 0
  /\ UNCHANGED <<world, quiz, isLoading, quizError, wanted>>

OnEvaluation(sheet) ==
  /\ evaluation' = [status |-> "ready", sheet |-> sheet]
  /\ UNCHANGED <<world, quiz, edits, isLoading, quizError, wanted>>

Handle(e) ==
  CASE e.topic = "progress" /\ e.page = "quiz" -> OnQuizProgress
    [] e.topic = "progress" /\ e.page = "eval" -> OnEvalProgress
    [] e.topic = "tokens"   /\ e.page = "quiz" -> OnQuiz(e.sheet)
    [] e.topic = "tokens"   /\ e.page = "eval" -> OnEvaluation(e.sheet)

\* A result comes before a progress update of its page that was published earlier.
Overtakes(k) ==
  events[k].topic = "tokens" /\ \E j \in 1..(k - 1) : events[j].page = events[k].page

\* run_consumer forwards the oldest record of a topic.
Forward ==
  /\ \E k \in DOMAIN events :
       /\ \A j \in 1..(k - 1) : events[j].topic # events[k].topic /\ "reordered" \in world
       /\ Handle(events[k])
       /\ events' = RemoveAt(events, k)
       /\ overtaken' = overtaken \cup (IF Overtakes(k) THEN {events[k].page} ELSE {})
  /\ UNCHANGED <<world, posts, service, counts>>
-----------------------------------------------------------------------------
(* The endpoints, the orchestrator and the quiz service.                   *)

\* What the client is told of a record that was, or was not, published.
Told(published) == IF published THEN {"ok"} \cup (IF "unconfirmed" \in world THEN {"error"} ELSE {})
                   ELSE IF "refused" \in world THEN {"error"} ELSE {}

\* create_quiz_request.
AcceptQuiz ==
  /\ quizPost = "sent"
  /\ \E published \in BOOLEAN :
       /\ \E s \in Told(published) : quizPost' = s
       /\ quizRequests' = quizRequests + (IF published THEN 1 ELSE 0)
  /\ UNCHANGED <<world, page, isRequesting, evalPosts, evalRequests, job, position, stream, counts>>

\* create_quiz_evaluate_request.
AcceptEval ==
  /\ \E k \in DOMAIN evalPosts, published \in BOOLEAN :
       /\ evalPosts[k].status = "sent"
       /\ \E s \in Told(published) : evalPosts' = [evalPosts EXCEPT ![k].status = s]
       /\ evalRequests' = IF published THEN Append(evalRequests, evalPosts[k].sheet)
                          ELSE evalRequests
  /\ UNCHANGED <<world, page, isRequesting, quizPost, quizRequests, job, position, stream, counts>>

Progress(p)      == [topic |-> "progress", page |-> p, sheet |-> NoSheet]
Tokens(p, sheet) == [topic |-> "tokens", page |-> p, sheet |-> sheet]

\* _run_quiz: a workflow of the same session says that it asks for a quiz, and
\* asks; a failure to ask is swallowed.
WorkflowQuiz ==
  /\ "workflow" \in world /\ workflows < MaxWorkflows
  /\ asked + workflows < MaxQuizzes
  /\ workflows' = workflows + 1
  /\ events' = Append(events, Progress("quiz"))
  /\ \/ quizRequests' = quizRequests + 1
     \/ "swallowed" \in world /\ UNCHANGED quizRequests
  /\ UNCHANGED <<world, page, posts, evalRequests, job, position, overtaken, asked, made>>

\* The service reads a record of either topic and reports that it has begun.
Begin ==
  /\ job = NoJob
  /\ \/ /\ quizRequests > 0
        /\ quizRequests' = quizRequests - 1 /\ UNCHANGED evalRequests
        /\ job' = [kind |-> "quiz", sheet |-> NoSheet]
        /\ events' = Append(events, Progress("quiz"))
     \/ /\ evalRequests # <<>>
        /\ evalRequests' = Tail(evalRequests) /\ UNCHANGED quizRequests
        /\ job' = [kind |-> "eval", sheet |-> Head(evalRequests)]
        /\ events' = Append(events, Progress("eval"))
  /\ UNCHANGED <<world, page, posts, position, overtaken, counts>>

\* It publishes its last progress update and then what came of the request; an
\* evaluation that fails is a Restart.
Finish ==
  /\ \/ /\ job.kind = "quiz"
        /\ \/ /\ made' = made + 1
              /\ events' = events \o <<Progress("quiz"), Tokens("quiz", <<made + 1, 0>>)>>
           \/ /\ events' = events \o <<Progress("quiz"), Tokens("quiz", NoSheet)>>
              /\ UNCHANGED made
        /\ handled' = [handled EXCEPT !.quizzes = @ + 1]
     \/ /\ job.kind = "eval"
        /\ events' = events \o <<Progress("eval"), Tokens("eval", job.sheet)>>
        /\ handled' = [handled EXCEPT !.evals = Append(@, job.sheet)]
        /\ UNCHANGED made
  /\ job' = NoJob
  /\ UNCHANGED <<world, page, posts, quizRequests, evalRequests, restarts, repeated, overtaken,
                 asked, workflows>>

\* A poll of the consumer commits what was handled; where no process ends, nothing
\* depends on it.
Commit ==
  /\ "ends" \in world /\ job = NoJob /\ handled # Nothing
  /\ handled' = Nothing
  /\ UNCHANGED <<world, page, posts, quizRequests, evalRequests, job, restarts, repeated, stream, counts>>

\* The process ends and is started again: it reads again what it had not committed,
\* the record in hand last.  One way to end is an evaluation that fails: it says so,
\* and the payload of its result does not validate; nothing is published.
Restart ==
  /\ "ends" \in world /\ restarts < MaxRestarts
  /\ restarts' = restarts + 1
  /\ \/ job.kind = "eval" /\ events' = Append(events, Progress("eval"))
     \/ UNCHANGED events
  /\ quizRequests' = quizRequests + handled.quizzes + (IF job.kind = "quiz" THEN 1 ELSE 0)
  /\ evalRequests' = handled.evals \o (IF job.kind = "eval" THEN <<job.sheet>> ELSE <<>>)
                       \o evalRequests
  /\ repeated' = repeated \cup (IF handled.quizzes > 0 THEN {"quiz"} ELSE {})
                         \cup (IF handled.evals # <<>> THEN {"eval"} ELSE {})
  /\ job' = NoJob /\ handled' = Nothing
  /\ UNCHANGED <<world, page, posts, overtaken, counts>>

Next ==
  \/ Generate \/ QuizReply \/ Edit \/ Submit \/ EvalReply \/ Forward
  \/ AcceptQuiz \/ AcceptEval \/ WorkflowQuiz \/ Begin \/ Finish
  \/ Commit \/ Restart

Spec == Init /\ [][Next]_vars

\* Every post gets a reply, the consumer loop goes on, and the service handles
\* its records.
FairSpec ==
  Spec /\ WF_vars(QuizReply) /\ WF_vars(EvalReply) /\ WF_vars(Forward)
       /\ WF_vars(AcceptQuiz) /\ WF_vars(AcceptEval) /\ WF_vars(Begin) /\ WF_vars(Finish)
-----------------------------------------------------------------------------
\* The evaluations that are under way, from the click to the result.
UnderWay ==
  Cardinality({k \in DOMAIN evalPosts : evalPosts[k].status \in {"sent", "error"}})
    + Len(evalRequests) + (IF job.kind = "eval" THEN 1 ELSE 0)
    + Cardinality({k \in DOMAIN events : events[k].topic = "tokens" /\ events[k].page = "eval"})

\* The submit button is disabled (isSubmittingEvaluation) exactly while an
\* evaluation is under way, of which there is at most one: no answer sheet is
\* graded behind another's back, and no learner locked out; as long as posts tell
\* the truth, until an answered evaluation is repeated or a result overtakes.
LockedWhileUnderWay ==
  "unconfirmed" \notin world /\ "eval" \notin repeated \cup overtaken =>
    /\ UnderWay <= 1
    /\ evaluation.status = "loading" <=> UnderWay = 1

\* The result shown is that of the sheet submitted last, as long as posts tell the
\* truth and until an answered evaluation is repeated.
ResultIsOfTheLast ==
  evaluation.status = "ready" /\ "unconfirmed" \notin world /\ "eval" \notin repeated =>
    evaluation.sheet = Last(evalPosts).sheet

\* Waiting for an evaluation ends, and so does waiting for a quiz, unless its result
\* overtakes its progress; a workflow may announce a quiz that never comes.
LoadingEnds ==
  /\ (isLoading /\ "swallowed" \notin world) ~> (~isLoading \/ "quiz" \in overtaken)
  /\ evaluation.status = "loading" ~> (evaluation.status # "loading" \/ "eval" \in overtaken)

\* Answers go only with the quiz they are for, and only to a newer quiz: one that the
\* learner asked for and is waiting for; or, where there are such, one of a workflow
\* of the session, or the second one of a learner whose first post was answered with
\* an error although it was published; or one made again for a repeated request.
AnswersPreserved ==
  [][edits' < edits => /\ quiz' > quiz
                       /\ \/ wanted
                          \/ world \cap {"workflow", "unconfirmed"} # {}
                          \/ "quiz" \in repeated]_vars
=============================================================================
