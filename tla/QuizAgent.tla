------------------------------ MODULE QuizAgent ------------------------------
(***************************************************************************)
(* The quiz service (quiz_agent/worker.py): one process that reads two     *)
(* topics, generates a quiz for a record of quiz-request and grades the    *)
(* answers of a record of quiz-evaluate (quiz_agent/agent.py).  Generation *)
(* asks the model for question stems and then, in a pool of threads, for   *)
(* the options of every multiple-choice stem.                              *)
(*                                                                         *)
(* Nothing around a handler catches an exception: it ends the process,     *)
(* which is restarted (docker-compose.yaml:131) and reads again from the   *)
(* offset it last committed.  The progress updates that matter are the     *)
(* worker's own, which may raise; those of the agent are swallowed and     *)
(* left out.                                                               *)
(***************************************************************************)
EXTENDS Naturals, Sequences, FiniteSets

CONSTANTS
  Worlds,       \* what the service may meet, each a WorldType
  MaxAttempts,  \* _MAX_VALIDATION_RETRIES + 1
  MaxTries,     \* _MAX_LLM_RETRIES + 1
  PoolSize,     \* _MAX_MCQ_EXPANSION_WORKERS
  MaxDeaths,    \* bound of the times the process dies
  NoJob

Topic == {"quiz-request", "quiz-evaluate"}

\* content is that of a quiz request, descriptive whether the quiz of an
\* evaluation has descriptive questions; valid: the schema accepts the record.
JobType == [id : Nat, topic : Topic, valid : BOOLEAN,
            content : {"blank", "short", "long"}, descriptive : BOOLEAN]

\* The LLM settings: usable, without key and address, or with a malformed number.
Settings == {"ok", "missing", "malformed"}

\* log: per topic, the records published to it; mcq: the multiple-choice stems of
\* a quiz; replies: what the model may do besides answering well; settings: the
\* states the LLM settings may be in.
WorldType == [log : [Topic -> Seq(JobType)], mcq : Nat \ {0},
              replies : SUBSET {"fails", "bad", "odd"},
              settings : SUBSET Settings,
              faults : SUBSET {"publish_fails", "crash"}]

ASSUME QuizAssumption ==
  /\ Worlds \subseteq WorldType
  /\ \A w \in Worlds, t \in Topic : \A k \in DOMAIN w.log[t] : w.log[t][k].topic = t
  /\ {MaxAttempts, MaxTries, PoolSize} \subseteq Nat \ {0}
  /\ MaxDeaths \in Nat
  /\ NoJob \notin JobType

\* The phases inside QuizAgent.generate and QuizAgent.evaluate.
AgentPhase == {"input", "stems", "expand", "assemble", "grade", "swot"}
Phase == {"idle", "start", "report", "tokens", "complete", "down"} \cup AgentPhase

NoTask == [st |-> "none", attempt |-> 0, tries |-> 0, tokens |-> 0, sound |-> TRUE]
Stem   == [of |-> 0, sound |-> TRUE]   \* a question that is still a stem

VARIABLES
  world,                \* the one of Worlds this behaviour is in
  committed, position,  \* per topic, the records read for good, and read
  settings,             \* the environment: the LLM settings, QUIZ_MODEL and numbers
  job, phase,           \* the record being handled, and where its handling is
  attempt, tries,       \* of the stems: rejected answers, failed calls in a row
  tasks, questions,     \* the pool's tasks; the expanded question of each stem
  failing,              \* a task has failed: the pool is being left
  tokens,               \* tokens_used, in calls
  tried, returned,      \* LLM calls for the record, and those that returned
  outcome,              \* status of the QuizAgentOutput
  published, completed, \* stream-tokens events; jobs with a quiz-complete event
  refused,              \* the publishes the broker refused and nobody heard of
  deaths

environment == <<world, settings>>

Log   == world.log
Stems == 1..world.mcq

reading == <<committed, position, environment>>
locals  == <<attempt, tries, tasks, questions, failing, tokens, tried, returned, outcome>>
output  == <<published, completed, refused>>
vars    == <<reading, job, phase, locals, output, deaths>>

Goto(p) == phase' = p

Init ==
  /\ committed = [t \in Topic |-> 0] /\ position = [t \in Topic |-> 0]
  /\ world \in Worlds /\ settings \in world.settings
  /\ job = NoJob /\ phase = "idle"
  /\ attempt = 0 /\ tries = 0
  /\ tasks = [i \in Stems |-> NoTask] /\ questions = [i \in Stems |-> Stem]
  /\ failing = FALSE /\ tokens = 0 /\ tried = 0 /\ returned = 0
  /\ outcome = "none"
  /\ published = {} /\ completed = {} /\ refused = {}
  /\ deaths = 0

\* The locals of a handler that has returned or died.
Forget ==
  /\ job' = NoJob
  /\ attempt' = 0 /\ tries' = 0
  /\ tasks' = [i \in Stems |-> NoTask] /\ questions' = [i \in Stems |-> Stem]
  /\ failing' = FALSE /\ tokens' = 0 /\ tried' = 0 /\ returned' = 0
  /\ outcome' = "none"

\* An exception nobody catches.
Raise ==
  /\ Goto("down") /\ deaths' = deaths + 1
  /\ Forget
  /\ UNCHANGED <<reading, output>>

\* A publish of the worker's own fails in send(), which raises ...
PublishFails == "publish_fails" \in world.faults /\ Raise

\* ... or behind it: the future of send() is dropped and flush() does not raise for
\* it, so that the handler goes on.  That a progress update is refused changes nothing.
Refuse(what) ==
  "publish_fails" \in world.faults /\ refused' = refused \cup {[job |-> job, what |-> what]}

Error == outcome' = "error" /\ Goto("report")

\* Mutant: only the tokens of the last call are kept.
CallsOverwrite(n) == tried' = tried + n /\ returned' = returned + n /\ tokens' = n

\* n calls that return; their tokens are counted.
Calls(n) == tried' = tried + n /\ returned' = returned + n /\ tokens' = tokens + n

-----------------------------------------------------------------------------
\* Mutant: the offset is committed as the record is read.
PollCommitting(t) ==
  /\ phase = "idle" /\ position[t] < Len(Log[t])
  /\ position' = [position EXCEPT ![t] = @ + 1]
  /\ committed' = position'
  /\ job' = Log[t][position'[t]]
  /\ Goto("start")
  /\ UNCHANGED <<environment, locals, output, deaths>>

\* The consumer hands over the next record of a topic.
Poll(t) ==
  /\ phase = "idle" /\ position[t] < Len(Log[t])
  /\ position' = [position EXCEPT ![t] = @ + 1]
  /\ job' = Log[t][position'[t]]
  /\ Goto("start")
  /\ UNCHANGED <<committed, environment, locals, output, deaths>>

\* The next poll commits what was handled before it, at the latest.
Commit ==
  /\ phase = "idle" /\ committed # position
  /\ committed' = position
  /\ UNCHANGED <<position, environment, job, phase, locals, output, deaths>>

\* The event is validated, unguarded, and its first progress update published.
Start ==
  /\ phase = "start"
  /\ \/ /\ job.valid
        /\ Goto(IF job.topic = "quiz-request" THEN "input" ELSE "grade")
        /\ UNCHANGED <<reading, job, locals, output, deaths>>
     \/ ~job.valid /\ Raise
     \/ PublishFails

-----------------------------------------------------------------------------
(* generate()                                                              *)

\* call_llm raises without trying when there is neither a key nor an address.
MayFail   == "fails" \in world.replies \/ settings = "missing"
MayReturn == settings # "missing"

\* Topic and content are checked, then the settings, in which a malformed
\* number is a ValueError; only a RuntimeError would be caught.
Input ==
  /\ phase = "input"
  /\ \/ /\ job.content # "long"
        /\ Error
        /\ UNCHANGED <<reading, job, attempt, tries, tasks, questions, failing, tokens,
                       tried, returned, output, deaths>>
     \/ /\ job.content = "long" /\ settings # "malformed"
        /\ Goto("stems")
        /\ UNCHANGED <<reading, job, locals, output, deaths>>
     \/ job.content = "long" /\ settings = "malformed" /\ Raise

\* _call_llm_with_retry: the call fails, once too often or not.
StemFails ==
  /\ phase = "stems" /\ MayFail
  /\ tried' = tried + 1
  /\ \/ tries + 1 < MaxTries /\ tries' = tries + 1 /\ UNCHANGED <<phase, outcome>>
     \/ tries + 1 = MaxTries /\ Error /\ UNCHANGED tries
  /\ UNCHANGED <<reading, job, attempt, tasks, questions, failing, tokens, returned,
                 output, deaths>>

\* The answer does not parse, or not as enough stems of each type.
StemBad ==
  /\ phase = "stems" /\ MayReturn /\ "bad" \in world.replies
  /\ Calls(1)
  /\ tries' = 0
  /\ \/ attempt + 1 < MaxAttempts /\ attempt' = attempt + 1 /\ UNCHANGED <<phase, outcome>>
     \/ attempt + 1 = MaxAttempts /\ Error /\ UNCHANGED attempt
  /\ UNCHANGED <<reading, job, tasks, questions, failing, output, deaths>>

StemGood ==
  /\ phase = "stems" /\ MayReturn
  /\ Calls(1)
  /\ tasks' = [i \in Stems |-> [NoTask EXCEPT !.st = "waiting"]]
  /\ Goto("expand")
  /\ UNCHANGED <<reading, job, attempt, tries, questions, failing, outcome, output, deaths>>

Set(i, changed) == tasks' = [tasks EXCEPT ![i] = changed]

\* A thread of the pool takes the oldest task that waits.
TaskStarts(i) ==
  /\ tasks[i].st = "waiting"
  /\ \A j \in 1..(i - 1) : tasks[j].st # "waiting"
  /\ Cardinality({j \in Stems : tasks[j].st = "running"}) < PoolSize
  /\ Set(i, [tasks[i] EXCEPT !.st = "running"])
  /\ UNCHANGED <<reading, job, phase, attempt, tries, questions, failing, tokens, tried,
                 returned, outcome, output, deaths>>

\* Mutant: one retry too many.
TaskFailsOnceMore(i) ==
  /\ tasks[i].st = "running" /\ MayFail
  /\ tried' = tried + 1
  /\ Set(i, IF tasks[i].tries < MaxTries
              THEN [tasks[i] EXCEPT !.tries = @ + 1]
              ELSE [tasks[i] EXCEPT !.st = "failed"])
  /\ UNCHANGED <<reading, job, phase, attempt, tries, questions, failing, tokens,
                 returned, outcome, output, deaths>>

TaskFails(i) ==
  /\ tasks[i].st = "running" /\ MayFail
  /\ tried' = tried + 1
  /\ Set(i, IF tasks[i].tries + 1 < MaxTries
              THEN [tasks[i] EXCEPT !.tries = @ + 1]
              ELSE [tasks[i] EXCEPT !.st = "failed"])
  /\ UNCHANGED <<reading, job, phase, attempt, tries, questions, failing, tokens,
                 returned, outcome, output, deaths>>

\* The options do not parse or do not validate.
TaskBad(i) ==
  /\ tasks[i].st = "running" /\ "bad" \in world.replies
  /\ tried' = tried + 1 /\ returned' = returned + 1
  /\ Set(i, [tasks[i] EXCEPT
               !.tries = 0, !.tokens = @ + 1,
               !.attempt = IF @ + 1 < MaxAttempts THEN @ + 1 ELSE @,
               !.st = IF tasks[i].attempt + 1 < MaxAttempts THEN "running" ELSE "failed"])
  /\ UNCHANGED <<reading, job, phase, attempt, tries, questions, failing, tokens,
                 outcome, output, deaths>>

\* The options validate; unsound when an explanation is not a string, which
\* the task's validator converts and that of the whole set does not.
TaskGood(i) ==
  /\ tasks[i].st = "running"
  /\ tried' = tried + 1 /\ returned' = returned + 1
  /\ \E sound \in BOOLEAN :
       /\ sound \/ "odd" \in world.replies
       /\ Set(i, [tasks[i] EXCEPT !.st = "done", !.tokens = @ + 1, !.sound = sound])
  /\ UNCHANGED <<reading, job, phase, attempt, tries, questions, failing, tokens,
                 outcome, output, deaths>>

\* Mutant: results are stored in the order in which they complete.
CollectInTurn(i) ==
  /\ phase = "expand" /\ ~failing /\ tasks[i].st \in {"done", "failed"}
  /\ Set(i, [tasks[i] EXCEPT !.st = "collected"])
  /\ \/ /\ tasks[i].st = "done"
        /\ LET k == 1 + Cardinality({j \in Stems : tasks[j].st = "collected"})
           IN  questions' = [questions EXCEPT ![k] = [of |-> i, sound |-> tasks[i].sound]]
        /\ tokens' = tokens + tasks[i].tokens
        /\ UNCHANGED failing
     \/ /\ tasks[i].st = "failed"
        /\ failing' = TRUE
        /\ UNCHANGED <<questions, tokens>>
  /\ UNCHANGED <<reading, job, phase, attempt, tries, tried, returned, outcome, output, deaths>>

\* as_completed hands over a task; result() raises when it failed.
Collect(i) ==
  /\ phase = "expand" /\ ~failing /\ tasks[i].st \in {"done", "failed"}
  /\ Set(i, [tasks[i] EXCEPT !.st = "collected"])
  /\ \/ /\ tasks[i].st = "done"
        /\ questions' = [questions EXCEPT ![i] = [of |-> i, sound |-> tasks[i].sound]]
        /\ tokens' = tokens + tasks[i].tokens
        /\ UNCHANGED failing
     \/ /\ tasks[i].st = "failed"
        /\ failing' = TRUE
        /\ UNCHANGED <<questions, tokens>>
  /\ UNCHANGED <<reading, job, phase, attempt, tries, tried, returned, outcome, output, deaths>>

\* Mutant: the pool is left without waiting for its tasks.
LeavePoolAtOnce ==
  /\ phase = "expand"
  /\ \/ failing /\ Error
     \/ /\ ~failing /\ \A i \in Stems : tasks[i].st = "collected"
        /\ Goto("assemble") /\ UNCHANGED outcome
  /\ UNCHANGED <<reading, job, attempt, tries, tasks, questions, failing, tokens, tried,
                 returned, output, deaths>>

\* The end of the with block waits for every task, those not begun included.
LeavePool ==
  /\ phase = "expand"
  /\ \/ /\ failing /\ \A i \in Stems : tasks[i].st \notin {"waiting", "running"}
        /\ Error
     \/ /\ ~failing /\ \A i \in Stems : tasks[i].st = "collected"
        /\ Goto("assemble") /\ UNCHANGED outcome
  /\ UNCHANGED <<reading, job, attempt, tries, tasks, questions, failing, tokens, tried,
                 returned, output, deaths>>

\* The set is validated again and built; an explanation that is no string raises.
Assemble ==
  /\ phase = "assemble"
  /\ \/ /\ \A i \in Stems : questions[i].sound
        /\ \/ outcome' = "generated" /\ Goto("report")
           \/ "bad" \in world.replies /\ Error
        /\ UNCHANGED <<reading, job, attempt, tries, tasks, questions, failing, tokens,
                       tried, returned, output, deaths>>
     \/ /\ \E i \in Stems : ~questions[i].sound
        /\ Raise

-----------------------------------------------------------------------------
(* evaluate() and generate_swot()                                          *)

\* The settings are read, then the descriptive answers, if any, are graded in one
\* call: it may fail, be no JSON, or hold a grade that cannot be used, which raises.
Grade ==
  /\ phase = "grade"
  /\ \/ /\ settings # "malformed"
        /\ \/ /\ job.descriptive /\ MayFail
              /\ Error /\ tried' = tried + 1 /\ UNCHANGED <<returned, tokens>>
           \/ /\ job.descriptive /\ MayReturn /\ "bad" \in world.replies
              /\ Error /\ Calls(1)
           \/ /\ job.descriptive => MayReturn
              /\ Calls(IF job.descriptive THEN 1 ELSE 0)
              /\ outcome' = "evaluated" /\ Goto("swot")
        /\ UNCHANGED <<reading, job, attempt, tries, tasks, questions, failing, output, deaths>>
     \/ settings = "malformed" /\ Raise
     \/ settings = "ok" /\ job.descriptive /\ "odd" \in world.replies /\ Raise

\* Whatever the model answers there is a SWOT, if need be a canned one; its
\* tokens are not counted.  The progress update before it may raise.
Swot ==
  /\ phase = "swot"
  /\ \/ /\ Goto("report")
        /\ tried' = tried + 1
        /\ UNCHANGED <<reading, job, attempt, tries, tasks, questions, failing, tokens,
                       returned, outcome, output, deaths>>
     \/ PublishFails

-----------------------------------------------------------------------------
\* The last progress update.  A failed evaluation then has no result and no
\* SWOT, of which the payload cannot be built.
Report ==
  /\ phase = "report"
  /\ \/ /\ job.topic = "quiz-request" \/ outcome = "evaluated"
        /\ Goto("tokens")
        /\ UNCHANGED <<reading, job, locals, output, deaths>>
     \/ job.topic = "quiz-evaluate" /\ outcome = "error" /\ Raise
     \/ PublishFails

\* stream-tokens carries the whole QuizAgentOutput, or the evaluation.
Tokens ==
  /\ phase = "tokens"
  /\ \/ /\ \/ /\ published' = published \cup {[job |-> job, status |-> outcome]}
              /\ UNCHANGED refused
           \/ Refuse("tokens") /\ UNCHANGED published
        /\ Goto("complete")
        /\ UNCHANGED <<reading, job, locals, completed, deaths>>
     \/ PublishFails

Complete ==
  /\ phase = "complete"
  /\ \/ /\ \/ completed' = completed \cup {job} /\ UNCHANGED refused
           \/ Refuse("complete") /\ UNCHANGED completed
        /\ Goto("idle")
        /\ Forget
        /\ UNCHANGED <<reading, published, deaths>>
     \/ PublishFails

Crash ==
  /\ "crash" \in world.faults /\ deaths < MaxDeaths
  /\ phase # "down"
  /\ Raise

\* Mutant: reading goes on behind the record that was lost.
RestartAhead ==
  /\ phase = "down" /\ deaths <= MaxDeaths
  /\ Goto("idle")
  /\ UNCHANGED <<reading, job, locals, output, deaths>>

\* restart: unless-stopped.
Restart ==
  /\ phase = "down" /\ deaths <= MaxDeaths
  /\ position' = committed
  /\ Goto("idle")
  /\ UNCHANGED <<committed, environment, job, locals, output, deaths>>

Task(i) == TaskStarts(i) \/ TaskFails(i) \/ TaskBad(i) \/ TaskGood(i)

Generate ==
  \/ Input \/ StemFails \/ StemBad \/ StemGood
  \/ \E i \in Stems : Task(i) \/ Collect(i)
  \/ LeavePool \/ Assemble

Work ==
  \/ \E t \in Topic : Poll(t)
  \/ Commit \/ Start
  \/ Generate
  \/ Grade \/ Swot
  \/ Report \/ Tokens \/ Complete \/ Restart

Next == Work \/ Crash

Spec == Init /\ [][Next]_vars

\* The process goes on as long as it lives, and is restarted when it does not.
FairSpec == Spec /\ WF_vars(Work)

-----------------------------------------------------------------------------
(* Properties.                                                             *)

Jobs == UNION {{Log[t][k] : k \in DOMAIN Log[t]} : t \in Topic}

TaskType == [st : {"none", "waiting", "running", "done", "failed", "collected"},
             attempt : 0..MaxAttempts, tries : 0..MaxTries, tokens : Nat, sound : BOOLEAN]

\* The shape of the process's state.
TypeOK ==
  /\ committed \in [Topic -> Nat] /\ position \in [Topic -> Nat]
  /\ world \in Worlds /\ settings \in world.settings
  /\ job \in Jobs \cup {NoJob} /\ phase \in Phase
  /\ (job = NoJob <=> phase \in {"idle", "down"})
  /\ attempt \in 0..MaxAttempts /\ tries \in 0..MaxTries
  /\ tasks \in [Stems -> TaskType]
  /\ questions \in [Stems -> [of : 0..world.mcq, sound : BOOLEAN]]
  /\ failing \in BOOLEAN
  /\ tokens \in Nat /\ tried \in Nat /\ returned \in Nat /\ deaths \in Nat
  /\ outcome \in {"none", "generated", "evaluated", "error"}
  /\ published \subseteq [job : Jobs, status : {"generated", "evaluated", "error"}]
  /\ completed \subseteq Jobs
  /\ refused \subseteq [job : Jobs, what : {"tokens", "complete"}]

\* What became of a job's two publishes: done, or refused by the broker.
TokensSent(a)     == (\E e \in published : e.job = a) \/ [job |-> a, what |-> "tokens"] \in refused
CompletionSent(a) == a \in completed \/ [job |-> a, what |-> "complete"] \in refused

\* However often the process dies, and wherever, a record it will not read again
\* has been handled to its end: its tokens and its completion are published, unless
\* the broker refused that very publish.
CommittedIsAnswered ==
  \A t \in Topic : \A k \in 1..committed[t] : /\ TokensSent(Log[t][k])
                                              /\ CompletionSent(Log[t][k])

\* Whatever the order in which the threads finish, question i of a generated
\* quiz is the expansion of stem i (agent.py:829-838).
QuizIsTheStems ==
  outcome = "generated" => \A i \in Stems : questions[i] = [of |-> i, sound |-> TRUE]

\* tokens_used of a generated quiz counts every call that returned, rejected
\* answers of the stems and of every thread included (agent.py:204, 270, 761, 837).
TokensAddUp == outcome = "generated" => tokens = returned

\* No retry within a retry runs away: a generation makes at most MaxAttempts *
\* MaxTries calls for the stems and as many for each of them.
CallBudget == tried <= MaxAttempts * MaxTries * (1 + world.mcq)

\* What a generation comes to does not depend on the order of its threads and
\* calls, failed ones included: the questions, their order and the tokens are the
\* stems', and the calls made keep their budget.
GenerationIsSound == QuizIsTheStems /\ TokensAddUp /\ CallBudget

\* No call of one request is running when the handling has gone past the pool,
\* be it to an answer, to an error or to the next record.
PoolDrained ==
  phase # "expand" => \A i \in Stems : tasks[i].st \notin {"waiting", "running"}

\* Wherever the process dies and whatever else the model does, every record the
\* schema accepts is answered, as long as no answer, setting or failed publish
\* ends the process each time the record is tried.
Answered ==
  (/\ "odd" \notin world.replies /\ "publish_fails" \notin world.faults
   /\ settings # "malformed" /\ \A a \in Jobs : a.valid /\ ~a.descriptive)
  => <>(Jobs \subseteq completed)

\* "No unhandled exceptions propagate" (agent.py:93) out of generate, evaluate
\* and generate_swot.
NothingPropagates == [][phase' = "down" => phase \notin AgentPhase]_vars
=============================================================================
