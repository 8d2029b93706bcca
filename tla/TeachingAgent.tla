---------------------------- MODULE TeachingAgent ----------------------------
(***************************************************************************)
(* The teaching service: TeachingWorker (teaching_agent/worker.py), one    *)
(* thread that takes one teaching request at a time, the handler around it *)
(* (handlers.py) and the pipeline of TeachingAgent.run (agent.py): a       *)
(* guardrail for the first question of a session, a streamed answer, a     *)
(* diagram, a reflection loop.  Every LLM call is a step of its own: time  *)
(* passes, sessions expire and the process may die between two of them.    *)
(*                                                                         *)
(* Progress updates are left out, and no producer sends a chat_history of  *)
(* its own.  Texts are told apart by where they come from.                 *)
(***************************************************************************)
EXTENDS ConversationStore, FiniteSets

CONSTANTS
  Ask,             \* the teaching requests
  Raw,             \* the markdown the model streams
  Revised,         \* the content a reflection round has revised
  Canned,          \* the guardrail's reply to a greeting
  Worlds,          \* the requests, what may happen and the settings
  MaxTokens, MaxTime, MaxCrashes,   \* bounds
  NoTask

\* level: "beginner", any "other" OutputMode, a name that is "unknown", or
\* "blank".  object: whether the record is a JSON object at all; valid: whether
\* TeachingRequestEvent accepts it.
AskType == [id : Nat, sid : Sid, prompt : Text,
            level : {"beginner", "other", "unknown", "blank"},
            object : BOOLEAN, valid : BOOLEAN]

Config == {"ok", "missing", "malformed"}

ASSUME TeachingAssumption ==
  /\ Ask \subseteq AskType
  /\ \A a \in Ask : a.valid => a.object
  /\ {Raw, Revised, Canned} \subseteq Text \ {Empty, Blanks}
  /\ Worlds \subseteq
       [ask : SUBSET Ask, may : SUBSET {"publish_fails", "crash", "stop", "pause"},
        config : SUBSET Config, reflections : Nat]
  /\ NoTask \notin AskType

Phase == {"idle", "guardrail", "generate", "stream", "diagram", "retry", "reflect",
          "revise", "remember", "sentinel", "complete"}

VARIABLES
  world,               \* what may happen in this behaviour
  inbox, uncommitted,   \* requests to be read; read since the last commit
  givenUp,              \* requests that were read and dropped unhandled
  guardrail, config, reflections,    \* the environment: TEACHING_GUARDRAIL_ENABLED,
                        \* the LLM settings, TEACHING_MAX_REFLECTION_ITERATIONS
  task, phase,          \* the request being handled, and where its handling is
  history,              \* the chat_history of the task
  outcome,              \* what run() returns: an answer, an error, or it raises
  draft,                \* raw_markdown
  content,              \* the content of the TeachingAgentOutput
  revising, rounds,     \* the diagram is that of a revision; completed rounds
  streamed,             \* tokens of the task so far
  calls, counted,       \* LLM calls that returned, and those in tokens_used
  stream,               \* the stream-tokens events of each session
  completions,          \* the teaching-complete events
  crashes              \* deaths and stops of the process

settings == <<world, guardrail, config, reflections>>
input   == <<settings, inbox, uncommitted, givenUp>>
working == <<history, outcome, draft, content, revising, rounds, streamed, calls, counted>>
output  == <<stream, completions>>
vars    == <<storeVars, input, task, phase, working, output, crashes>>

\* get_llm_config, get_guardrail_config, get_max_reflection_iterations: what the
\* environment of the process makes of them, the same for all its requests.
Configured(w) == config \in w.config /\ guardrail \in BOOLEAN /\ reflections = w.reflections

Init ==
  /\ StoreInit
  /\ \E w \in Worlds : inbox = w.ask /\ world = w.may /\ Configured(w)
  /\ uncommitted = {} /\ givenUp = {}
  /\ task = NoTask /\ phase = "idle"
  /\ history = <<>> /\ outcome = "none" /\ draft = Empty /\ content = Empty
  /\ revising = FALSE /\ rounds = 0 /\ streamed = 0 /\ calls = 0 /\ counted = 0
  /\ stream = [s \in Sid |-> <<>>]
  /\ completions = <<>>
  /\ crashes = 0

-----------------------------------------------------------------------------
\* token_callback and the sentinel: a publish that fails is logged, no more.
Emit(kind) ==
  \/ stream' = [stream EXCEPT ![task.sid] = Append(@, [ask |-> task, kind |-> kind])]
  \/ "publish_fails" \in world /\ UNCHANGED stream

Goto(p) == phase' = p

\* A call of the LLM that returns, its tokens counted or not.
Called(c) == calls' = calls + 1 /\ counted' = counted + c
NotCalled == UNCHANGED <<calls, counted>>

\* The handler returns, or dies: the locals of the task are gone.
Release ==
  /\ phase' = "idle" /\ task' = NoTask
  /\ history' = <<>> /\ outcome' = "none" /\ draft' = Empty /\ content' = Empty
  /\ revising' = FALSE /\ rounds' = 0 /\ streamed' = 0 /\ calls' = 0 /\ counted' = 0

\* run() returns an error output.
Fail ==
  /\ outcome' = "error" /\ draft' = Empty /\ content' = Empty
  /\ Goto("remember")

Unusable(a) == a.level \in {"unknown", "blank"} \/ a.prompt \in {Empty, Blanks}

\* Mutant: the record counts as read before it is handled.
ReadOnce(a) == inbox' = inbox \ {a} /\ UNCHANGED uncommitted

\* poll() returns the record; its offset is committed by a later poll.
Read(a) == inbox' = inbox \ {a} /\ uncommitted' = uncommitted \cup {a}

Reject(a) ==
  /\ phase = "idle"
  /\ a \in inbox /\ a.object /\ ~a.valid
  /\ Read(a)
  /\ UNCHANGED <<storeVars, settings, givenUp, task, phase, working, output, crashes>>

\* _extract_request_id stands before the try: a record that is no object has no
\* get(), the exception leaves process_consumer_batch, and the records polled
\* with it go unhandled.  The poll loop logs it and polls on behind them.
GiveUp(a) ==
  /\ phase = "idle"
  /\ a \in inbox /\ ~a.object
  /\ \E rest \in SUBSET (inbox \ {a}) :
       /\ inbox' = inbox \ (rest \cup {a})
       /\ uncommitted' = uncommitted \cup rest \cup {a}
       /\ givenUp' = givenUp \cup rest
  /\ UNCHANGED <<storeVars, settings, task, phase, working, output, crashes>>

Take(a) ==
  /\ phase = "idle"
  /\ a \in inbox /\ a.valid
  /\ Read(a)
  /\ task' = a
  /\ ReadHistory(a.sid)
  /\ history' = HistoryOf(a.sid)
  /\ outcome' = IF Unusable(a) THEN "error" ELSE "none"
  /\ Goto(IF Unusable(a) THEN "remember"
          ELSE IF history' = <<>> /\ guardrail THEN "guardrail" ELSE "generate")
  /\ UNCHANGED <<settings, givenUp, draft, content, revising, rounds, streamed,
                 calls, counted, output, crashes>>

\* The classifier: a canned reply, or on with the question; a call that fails
\* is a question too.
Classify ==
  /\ phase = "guardrail"
  /\ \/ /\ Emit("token")
        /\ outcome' = "canned" /\ draft' = Canned /\ content' = Canned
        /\ Called(0)
        /\ Goto("remember")
     \/ /\ Called(0) \/ NotCalled
        /\ Goto("generate")
        /\ UNCHANGED <<stream, outcome, draft, content>>
  /\ UNCHANGED <<storeVars, input, task, history, revising, rounds, streamed,
                 completions, crashes>>

\* get_llm_config: no model raises RuntimeError, which run() turns into an
\* error; a number that does not parse raises ValueError, which it does not.
Configure ==
  /\ phase = "generate"
  /\ \/ config = "ok" /\ Goto("stream") /\ UNCHANGED <<outcome, draft, content>>
     \/ config = "missing" /\ Fail
     \/ config = "malformed" /\ outcome' = "raised" /\ Goto("remember")
                             /\ UNCHANGED <<draft, content>>
  /\ UNCHANGED <<storeVars, input, task, history, revising, rounds, streamed, calls,
                 counted, output, crashes>>

StreamToken ==
  /\ phase = "stream"
  /\ streamed < MaxTokens
  /\ Emit("token")
  /\ streamed' = streamed + 1
  /\ UNCHANGED <<storeVars, input, task, phase, history, outcome, draft, content,
                 revising, rounds, calls, counted, completions, crashes>>

\* The stream breaks, or ends in text that does or does not parse.
StreamEnd ==
  /\ phase = "stream"
  /\ \/ NotCalled /\ Fail
     \/ Called(1) /\ Fail
     \/ /\ Called(1)
        /\ streamed > 0
        /\ draft' = Raw
        /\ Goto("diagram")
        /\ UNCHANGED <<outcome, content>>
  /\ UNCHANGED <<storeVars, input, task, history, revising, rounds, streamed, output,
                 crashes>>

\* The diagram is settled: a first answer shows it and becomes the content, a
\* revision replaces the content and completes a round.
Settle(valid) ==
  /\ IF valid /\ ~revising THEN Emit("token") ELSE UNCHANGED stream
  /\ content' = IF revising THEN Revised ELSE Raw
  /\ rounds' = IF revising THEN rounds + 1 ELSE rounds
  /\ Goto("reflect")

Diagram ==
  /\ phase = "diagram"
  /\ \/ \E valid \in BOOLEAN : (valid \/ task.level # "beginner") /\ Settle(valid)
     \/ /\ task.level = "beginner"
        /\ Goto("retry")
        /\ UNCHANGED <<stream, content, rounds>>
  /\ UNCHANGED <<storeVars, input, task, history, outcome, draft, revising, streamed,
                 calls, counted, completions, crashes>>

\* The tokens of the retry are dropped.
RetryDiagram ==
  /\ phase = "retry"
  /\ \/ Called(0) /\ \E valid \in BOOLEAN : Settle(valid)
     \/ NotCalled /\ Settle(FALSE)
  /\ UNCHANGED <<storeVars, input, task, history, outcome, draft, revising, streamed,
                 completions, crashes>>

\* Mutant: the loop is run once more.
RoundsLeftOneMore == rounds <= reflections

RoundsLeft == rounds < reflections

\* A round: a critique, ...
Reflect ==
  /\ phase = "reflect"
  /\ \/ /\ RoundsLeft
        /\ Called(1)
        /\ Goto("revise")
        /\ UNCHANGED outcome
     \/ /\ \/ NotCalled
           \/ RoundsLeft /\ Called(1)
        /\ outcome' = "ok"
        /\ Goto("remember")
  /\ UNCHANGED <<storeVars, input, task, history, draft, content, revising, rounds,
                 streamed, output, crashes>>

\* ... then a revision of the content; either may fail and end the loop.
Revise ==
  /\ phase = "revise"
  /\ \/ /\ Called(1)
        /\ revising' = TRUE
        /\ Goto("diagram")
        /\ UNCHANGED outcome
     \/ /\ Called(1) \/ NotCalled
        /\ outcome' = "ok"
        /\ Goto("remember")
        /\ UNCHANGED revising
  /\ UNCHANGED <<storeVars, input, task, history, draft, content, rounds, streamed,
                 output, crashes>>

-----------------------------------------------------------------------------
(* The handler, once run() is over.                                        *)

\* A blank level: neither completion event can be built, and the exception
\* leaves the handler for the worker's log.
Abandon ==
  /\ phase = "remember" /\ task.level = "blank"
  /\ Release
  /\ UNCHANGED <<storeVars, input, output, crashes>>

\* Mutant: a canned reply is not streamed, so its stream is not ended.
RememberQuickly ==
  /\ phase = "remember" /\ task.level # "blank"
  /\ IF outcome \in {"ok", "canned"}
       THEN AppendTurn(task.sid, task.prompt, draft)
       ELSE UNCHANGED storeVars
  /\ Goto(IF outcome = "canned" THEN "complete" ELSE "sentinel")
  /\ UNCHANGED <<input, task, working, output, crashes>>

\* content is not None and raw_markdown is not empty.
Remember ==
  /\ phase = "remember" /\ task.level # "blank"
  /\ IF outcome \in {"ok", "canned"}
       THEN AppendTurn(task.sid, task.prompt, draft)
       ELSE UNCHANGED storeVars
  /\ Goto("sentinel")
  /\ UNCHANGED <<input, task, working, output, crashes>>

Sentinel ==
  /\ phase = "sentinel"
  /\ Emit("done")
  /\ Goto("complete")
  /\ UNCHANGED <<storeVars, input, task, working, completions, crashes>>

Complete ==
  /\ phase = "complete"
  /\ \/ completions' = Append(completions, [ask |-> task, text |-> draft])
     \/ "publish_fails" \in world /\ UNCHANGED completions
  /\ Release
  /\ UNCHANGED <<storeVars, input, stream, crashes>>

CommitOffsets ==
  /\ phase = "idle" /\ uncommitted # {}
  /\ uncommitted' = {}
  /\ UNCHANGED <<storeVars, settings, inbox, givenUp, task, phase, working, output,
                 crashes>>

\* Mutant: the sessions outlive the process.
KeepSessions == UNCHANGED <<known, turns, lastActive>>

LoseSessions ==
  /\ known' = {}
  /\ turns' = [s \in Sid |-> <<>>]
  /\ UNCHANGED lastActive

\* The process ends and another takes over; its sessions are gone.
Ends(how) ==
  /\ how \in world /\ crashes < MaxCrashes
  /\ crashes' = crashes + 1
  /\ LoseSessions
  /\ Release
  /\ uncommitted' = {}
  /\ UNCHANGED <<settings, now, output>>

\* It dies: what it had read since the last commit is read again.
Crash ==
  /\ Ends("crash")
  /\ inbox' = inbox \cup uncommitted
  /\ givenUp' = givenUp \ uncommitted

\* It is stopped: stop() waits two seconds for the thread, which may be in the
\* middle of a batch, and close() commits all that was polled.
Stop ==
  /\ Ends("stop")
  /\ \E rest \in SUBSET inbox :
       /\ inbox' = inbox \ rest
       /\ givenUp' = givenUp \cup rest \cup ({task} \ {NoTask})

Pass == "pause" \in world /\ now < MaxTime /\ Tick
        /\ UNCHANGED <<input, task, phase, working, output, crashes>>

Work ==
  \/ \E a \in Ask : Reject(a) \/ GiveUp(a) \/ Take(a)
  \/ Classify \/ Configure \/ StreamToken \/ StreamEnd \/ Diagram \/ RetryDiagram
  \/ Reflect \/ Revise
  \/ Abandon \/ Remember \/ Sentinel \/ Complete \/ CommitOffsets

Next == Work \/ Crash \/ Stop \/ Pass

Spec == Init /\ [][Next]_vars

\* The poll loop never stops, and every LLM call returns or fails.
FairSpec == Spec /\ WF_vars(Work)

-----------------------------------------------------------------------------
(* Properties.                                                             *)

EventType == [ask : Ask, kind : {"token", "done"}]

\* The shape of the worker's state and of what it publishes.
TypeOK ==
  /\ StoreTypeOK
  /\ inbox \cup uncommitted \cup givenUp \subseteq Ask
  /\ task \in Ask \cup {NoTask} /\ phase \in Phase
  /\ history \in Seq(Turn)
  /\ outcome \in {"none", "ok", "canned", "error", "raised"}
  /\ draft \in Text /\ content \in Text
  /\ {rounds, streamed, calls, counted} \subseteq Nat
  /\ stream \in [Sid -> Seq(EventType)]
  /\ completions \in Seq([ask : Ask, text : Text])

\* While no publish is lost, a completion is published after its request's
\* sentinel, wherever the process ends and however often the request is handled
\* again (handlers.py:177-194): the orchestrator never goes on while the user's
\* stream is still open.  Where no crash has a request handled again, the sentinel
\* is its only one and its last event.
StreamEndsFirst ==
  "publish_fails" \notin world =>
  /\ "crash" \notin world =>
       \A s \in Sid : \A i, j \in 1..Len(stream[s]) :
         stream[s][i].kind = "done" /\ stream[s][j].ask = stream[s][i].ask => j <= i
  /\ \A k \in 1..Len(completions) :
       LET a == completions[k].ask
       IN  \E i \in 1..Len(stream[a.sid]) : stream[a.sid][i] = [ask |-> a, kind |-> "done"]

\* While nothing is lost but the process, what a session remembers of an answer
\* has been completed, or is about to be: memory never runs ahead of delivery.
RememberedIsDelivered ==
  "publish_fails" \notin world =>
  \A s \in Sid : \A i \in 1..Len(turns[s]) : turns[s][i].role = "assistant" =>
    \/ \E k \in 1..Len(completions) :
         completions[k].ask.sid = s /\ completions[k].text = turns[s][i].content
    \/ phase \in {"sentinel", "complete"} /\ task.sid = s

\* One request never costs more LLM calls than the guardrail, the answer with
\* one retry of its diagram, and for each round a critique and a revision with
\* one retry of its own (agent.py:89-204).
CallBudget ==
  LET retry == IF task # NoTask /\ task.level = "beginner" THEN 1 ELSE 0
  IN  task # NoTask => calls <= 2 + retry + reflections * (2 + retry)

\* Every request the schema accepts, with a level that is not blank, is
\* completed, even if the process dies while it is being handled; only the batch
\* of a record that is no object and a stop may drop it.
Completed ==
  \A a \in Ask : a.valid /\ a.level # "blank" =>
    (a \in inbox /\ "publish_fails" \notin world
       ~> a \in givenUp \/ \E k \in 1..Len(completions) : completions[k].ask = a)
=============================================================================
