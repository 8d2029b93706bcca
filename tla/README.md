# A TLA+ model of the AI tutor

The repository is a set of Python services that talk over Kafka, a FastAPI
backend with a Socket.IO connection to the browser, and a React UI. A learner
asks a question, optionally with PDF files; an orchestrator infers the level,
has the files read, has every level taught, may have a quiz made, and the
answer is streamed to the page. The learner can then answer the quiz and have
it evaluated.

This directory holds TLA+ modules translated from that code, configurations
with which TLC checks them on small instances, theorems about them that TLAPS
proves for every value of the constants, and `PROJECT.json`, which says which
lines each definition models, what each run checks, and which mutation of the
code each property catches.

- `tlc -workers 2 -config orch_live.cfg MCOrchestrator.tla` checks one instance;
- `tlapm OrchestratorProofs.tla` checks the proofs of one module.

## The system

| component | state it keeps | operations | talks to |
|---|---|---|---|
| Orchestrator (`orchestrator_agent/agent.py`, `worker.py`) | LangGraph threads in `MemorySaver`, `_active_requests`, Kafka offsets | `run`, `resume`, the graph's nodes | init-planner, rag, teaching, quiz-request topics and their completions |
| Level inference (`classifier.py`, `rewriter.py`) | none | level, injection, quiz intent | the LLM |
| Retrieval (`rag_agent/`) | offsets, the pool of pages, `sys.stdout` | start, poll, stop, `RAGAgent.run` | topic rag, rag-complete; LLM and embedding |
| Teaching (`teaching_agent/`) | sessions (`session_memory.py`), offsets, the parser's buffer | `process_request`, `TeachingAgent.run` | topic teaching, teaching-complete, stream-tokens |
| Quiz (`quiz_agent/`) | offsets of two topics, the pool of expansions | `generate`, `evaluate`, `generate_swot` | quiz-request, quiz-evaluate, quiz-complete, stream-tokens |
| Backend (`backend_service/`) | connections by sid, the consumer task, topics, uploaded files | start-up, HTTP endpoints, event forwarding | all UI-facing topics, Socket.IO |
| React UI (`react_ui/`) | messages, the active stream box, the form's lock, quiz, answers, evaluation | submit, stream, answer, evaluate | HTTP, Socket.IO |
| Streamlit UI (`ui_frontend/`) | the client's connection and streams, a queue, session state | connect, route, drain, submit | HTTP, Socket.IO |
| Planner (`planner_agent/`) | as the orchestrator | as the orchestrator | not started by `docker-compose.yaml` |
| Shared (`project/`) | none | event schemas, topic names | everyone |

Hard in it: workflows paused between Kafka records and resumed by whatever
arrives; records read at least once, processes that die and are restarted with
their memory gone; publishes that fail silently; thread pools that finish in
any order; LLM calls that fail, are retried and validated inside one another;
sessions that expire during an answer; header markup cut anywhere between
stream chunks; HTTP replies and socket events that race; two topics without a
common order; a client thread and a script thread that share a queue; a broker
that comes and goes during a start-up. `hazards` in `PROJECT.json` lists them line by line.

What makes each component correct:

- the orchestrator answers each workflow once, feeds each reply to the node
  that asked for it, asks for nothing twice and forgets no live workflow;
- the retrieval, teaching and quiz services handle every record they commit to its
  end, but for the ways their code drops one, put parallel results in the order of their source, and bound their retries;
- memory holds the recent tail of what was said, and never an answer that was
  not delivered;
- the parser's output does not depend on how the stream is cut;
- scoring adds up and a recommendation is that of the exact score;
- the backend comes to serve, with its topics, and says "accepted" only of what
  it published whole;
- a page shows each answer under its own question, loses none of it, is locked
  while it waits, stops waiting, and shows the connection it has.

## The modules

| module | models | its state and actions in the code |
|---|---|---|
| `Orchestrator` | worker thread and graph | one action per node, `Run`, `Resume`, `ResumeUnknown`; `busy` is the thread, `pc` the next node of a LangGraph thread, `resumed` the values its pending task holds, `active` is `_active_requests` |
| `LearningWorkflow` | what a workflow promises | stages in order, replies owed, one answer; the abstract specification of `Orchestrator` |
| `OrchestratorRefinement` | how the one is the other | the refinement mapping: a stage is read off the next node, what is owed off the await node |
| `RagAgent` | retrieval service | main thread, poll loop, one state per page of the pool |
| `ConversationStore` | `session_memory.py` | `ReadHistory`, `AppendTurn`, `Clear`, `Tick` |
| `TeachingAgent` | teaching service, EXTENDS `ConversationStore` | `phase` is where the handler is; every LLM call a step |
| `StreamParser` | `stream_parser.py` | `Feed`, `Flush`, `NextHeader`, `Finalize` over characters |
| `QuizAgent` | quiz service | `phase` of the handler, one record per task of the pool |
| `QuizEvaluation` | scoring | one action per question, then `Assemble`, `Swot` |
| `ChatPage` | chat page and backend | the page's refs and state, posts, the two topics the backend forwards |
| `QuizPage` | quiz and evaluation pages, backend and the services behind | the same for quizzes and evaluations |
| `BackendService` | the backend's process | `phase` is where `lifespan` is; topics, consumer task, connections, and the files of each post |
| `StreamlitChat` | Streamlit's chat tab, EXTENDS `BackendService` | the Socket.IO client's thread, the queue, the reducer and the messages of the script thread |
| `MC*` | instances for TLC | values of the constants, histories; `MCAlgorithms` has `ConversationStore`, `StreamParser` and `QuizEvaluation` side by side |
| `*Proofs` | theorems | see below |

Conventions. A definition has the name the source has, where there is one.
Mutations of the code that the properties must catch stand before the
definition they mutate, marked `Mutant`; nothing else uses them. Texts are
abstracted to what the code tests of them. Where one configuration explores
several situations (settings, failures, records), the module has a constant
`Worlds` and a variable `world`, chosen in `Init` and never changed; a property
that holds in some situations only says so in its own text.

Details worth knowing when reading them:

- `Orchestrator`: the thread handles one record at a time, node by node, and
  LangGraph re-executes an await node on every resume with the values recorded
  so far. `Faults` says which failures may happen; redelivery means that a
  completion stays in its topic after it was read and that a submission may be read
  again beside the live workflow it has begun (`Rebalance`); a bad record
  (`bad_record`) that `GiveUpBatch` gives up any part of what was polled. `Restart`
  is a process that dies, which reads again what it had not committed, or one that
  is stopped, whose `consumer.close` commits any part of that. Progress updates are
  left out. The agents are their contract: a request is answered or not.
- `TeachingAgent`: `Release` drops the locals of a handled request. A `Crash`
  loses the sessions and returns what was read since the last commit; a `Stop`
  joins the loop for two seconds and closes the consumer, so that any part of what
  was polled, the request in hand included, is committed and `givenUp`. So is the
  rest of a batch behind a JSON record that is no object (`GiveUp`). No
  producer sends a `chat_history` of its own, so the handler's is the store's.
- `QuizAgent`: an exception ends the process; a restart reads from the
  committed offset. A publish may fail in `send`, which raises (`PublishFails`);
  one the broker refuses later raises nothing, for the future of `send` is dropped
  and `flush` does not look at it: the handler goes on (`Refuse`, `refused`). `call_llm` raises when neither a key nor an address is set
  (`settings = "missing"`), which retries do not help; a malformed number is a
  `ValueError` nobody catches.
- `RagAgent`: `MaxErrors` stands for the 10 of `errors[:10]`. A page is told
  apart by what extraction makes of it. A stop is that of `KeyboardInterrupt`.
  A completion the broker refuses is logged and forgotten (`unpublished`).
- `StreamParser`: one letter per field name. A newline is a class of its own, since
  the `$` of a pattern allows one behind it. A character carries its place in the
  text, which no step looks at, so that the properties can tell one `x` from
  another; `out` has an event for each character a callback is given. Blanks do not
  count in comparisons: whether one is sent depends on the chunks.
- `ChatPage`: one assistant message per question; a token is one tick of the
  typewriter; forwarding and delivery are one step. Uploads are left out.
- `QuizEvaluation`: scores in sixtieths, so that partial credit and grades are
  integers; option ids are unique within a question; a missing answer is an
  empty one.
- `BackendService`: `created`, `existed` and `failed` hold positions in the list
  of names, since the registry has one name twice. A topic also appears when a
  service uses it. To create one may fail in any way, its answer lost included. `Die` may strike while the process serves; `restart:
  unless-stopped` starts it again. A failed `send` may have published.
- `StreamlitChat`: the services behind the backend are what they promise: a
  question is taught at some levels, clarified or lost. The script handles one
  item of the queue at a time and none while it waits for a post. The code takes
  the sid a page posts from `sio.sid`, which the pinned library makes the id of the
  transport and not the one the backend registers and emits to. `SameId` says which
  of the two it is: FALSE is the code with its pinned library, TRUE what
  `socket.py:8` says of it, under which the rest of the page can be looked at.
  `crowded` and `broken` name the questions that were not alone and the levels
  that were not delivered whole, for the properties that exempt them.
- `QuizPage`: one connection; a sheet `<<quiz, n>>` is a quiz with the answers
  after the learner's n-th change. An evaluation that fails publishes "Evaluation
  failed" and then raises, for its payload does not validate; `Restart` is this and
  every other end of the quiz service. It reads again what it had not committed
  (`handled`), the record in hand last. `repeated` and `overtaken` remember the
  pages for which an answered request was read again and for which a result came
  before its progress.

## What the runs check

Each run is a `.cfg` over an `MC` module. `CHECK_DEADLOCK FALSE` stands where
the instance really stops: its submissions, records, questions or texts are
finite, and when all are dealt with nothing is left to do.

| run | instance | what it shows |
|---|---|---|
| `orch_live` | two submissions for two workflows; one has files, one two levels and a quiz, one a level twice; no faults; fair | `OwedWhatItLacks`: a paused workflow is owed exactly the replies it lacks, asked for, under way or waiting to be read. `ResumeFeedsRightNode`: a value is for the node that consumes it. `TeachingIsComplete`: a workflow past the teaching has the materials of the finalised levels, no fewer and no others. `Answered`: every submission read is answered |
| `orch_faults` | one submission read up to twice, so two workflows (`SecondRuns`: the second one for requests of one level without files); lost publishes, silent agents, repeated completions, rebalances, bad records, deaths and stops | `ActiveIffPaused`: `_active_requests` holds exactly the workflows that are alive. `NeverRepublished`: no node of a workflow asks twice. `AtMostOneAnswer`: no workflow answers twice. `ImplementsLearningWorkflow`: the refinement |
| `algorithms` | memory: two sessions and none, `MaxMessages` 3, `TTL` 1; parser: every text of an opening and up to four pieces (headers, other bold words, stray stars, letters, blanks, newlines), cut into chunks of one to three characters in every way; scoring: quizzes of four questions of every type, every selection, whole marks below and above the worth of a question | `HistoryIsRecentTail`: what is remembered is the newest part of what a log of everything said would give. `ChunksDoNotMatter`: what is heard, and what is drawn, is character by character what the whole text says. `LagIsOneHeader`: what is held back may be the beginning of a header, and all that the text says before it has been heard. `ReportIsConsistent`: results cover the quiz in order, totals and weak sub-concepts are theirs, and what costs marks is explained. `ActionFollowsScore`: rounding moves nobody across a threshold |
| `teach` | one question at two levels with a crash or with a stop; a batch with a record that is no object, with a crash; the question with lost publishes, expiry and a reflection; odd requests under every setting; fair | `StreamEndsFirst`: a completion is published after a sentinel of its stream, which is the one and the last event where no process dies. `CallBudget`. `RememberedIsDelivered`: sessions hold nothing that was not streamed. `Completed`: every usable request is completed, or was given up by a stop or with the batch of a bad record |
| `quiz` | three situations: three stems on two threads; records on both topics with a process that dies; invalid records, unusable answers, broken settings; fair | `CommittedIsAnswered`: what is committed was handled to its end, and lacks of its answer only what the broker refused. `GenerationIsSound`: question i is stem i's, every call that returned is counted, retries within retries stay bounded. `PoolDrained`: no task outlives its request. `Answered` |
| `rag` | four situations: five pages in three threads; failing embeddings; a process killed amid batches with completions that are refused; stop and start again with a record that is no object; fair | `SourceOrder`: the material is that of reading the files one page after another. `NoPageLost`. `CommittedIsCompleted`: what will not be read again was completed, or its completion was refused. `StopRepeatsNothing`. `EveryRequestCompleted` |
| `chat` | two questions, two levels, two tokens a level, two lost connections | `AnswerIsItsOwn`: a finished message holds the whole first part of the answer to its own question. `LockedWhileActive`: the form is locked only while a box waits, and open under a waiting box only after a failed post. `FormReopens` |
| `quizpage` | two quizzes, at most one of a workflow, one change of answers, two submissions; posts refused or unconfirmed, topics that overtake each other, or a quiz service that ends once (there one quiz, `OneQuiz`); fair | `LockedWhileUnderWay`: the button is locked exactly while an evaluation is under way, of which there is one. `ResultIsOfTheLast`: the result is that of the sheet submitted last. `LoadingEnds`: every wait ends. `AnswersPreserved`: answers go only for a newer quiz. Each exempts what breaks it in the code: unconfirmed posts, `repeated`, `overtaken` |
| `streamlit` | the registry's two topics under three names, two attempts; two questions, two levels, two tokens, one file; one outage, death or lost connection with a question, all of them without; fair | `ShownIsTheLink`: with its queue drained, the page shows the state of the link and has its sid. `NothingLost`: every token taken of a level stands in some message. `AnswerIsItsOwn`: an answer that had the page to itself is complete and unmixed. `BootstrapAccounts`: every name is tried once and accounted for. `AcceptedIsWhole`: accepted is published, and an event names only saved files. `ServesInTheEnd` |
| `streamlit_sid` | `SameId` FALSE, otherwise as `streamlit` without faults; violation | `AnswerCompletes`, which `backend_service/app/socket.py:8` implies, does not hold: the stream of a question is emitted to a session nobody has |
| `quiz_propagates` | violation | `NothingPropagates`, which `quiz_agent/agent.py:93` promises, does not hold |
| `chat_levels` | violation | `AllRendered`, which `specs/006-react-ui/spec.md:130` asks for, does not hold |

Each module states its type invariant as `TypeOK` (`StoreTypeOK`, `ParserTypeOK`,
`BackendTypeOK`). Those of `Orchestrator` and `StreamParser` are proved; no run
spends a property on one.

### Bounds

- Two workflows are the fewest that can be confused, and two levels the fewest
  whose replies can come in the wrong order or be one key. A third workflow or
  level adds nothing a node tests: nodes look at one workflow, and
  `await_teaching` counts. Faults come with one submission, whose second reading
  makes a second workflow; `SecondRuns` follows that one for requests of one
  level without files. More of both is left to the proofs, which bound neither.
- `MaxMessages` 3 is odd, so that the tail cuts an exchange in half, and less
  than two exchanges. `MaxClock` lets a session expire and begin again.
- `TTL` 0 in `teach` makes a session expire with the one tick it has, at any
  step of a request. `MaxTokens`, `MaxCrashes` 1: a further token or crash
  finds the same state.
- `MaxAttempts`, `MaxTries` and `PoolSize` 2 give one retry of each kind and a
  stem that waits for a thread. `MaxDeaths` 2: the process that was started
  again may end on the same record.
- `MaxPieces` 4: two headers with something between and behind them.
- `MaxErrors` 2 for three bad pages or files reaches the cut of `errors[:10]`;
  `MaxStarts` 3 allows two restarts.
- A header has at least five characters, so chunks of three cut one in two or
  three places, and two neighbours can be cut at once.
- One lost connection changes the sid; with two lost, answers to two earlier
  sids are under way. `Attempts` 2 lets the reconnection give up after a retry.
- `streamlit`: two attempts are one retry, in the start-up and in the client.
  `MCNext` names what is explored together: every start-up, and the page only
  behind the one that created its topics; one fault in all (`MaxFaults`) once a
  question is asked; files for the first question alone and before it is taught;
  two questions at a time without a fault, of which the second is taught at one
  level, and one token but for the first level. Two tokens tell order and
  repetition apart, two levels the streams of one connection. What is left out
  is two faults with a question, which the proofs of the four invariants have no
  bound for.
- Descriptive questions are worth 3 points instead of 5, single ones 1 or 4:
  what matters is a worth of one and of more than two (half is then above one
  point). The theorem of `EvaluationProofs` has no such bound.
- One workflow, one changed answer and two submissions: a result that is late,
  one that is early, and a quiz that replaces the one in hand. One restart of the
  quiz service finds a record in hand and one that was answered; with it the
  learner asks for one quiz, which the restart may make again. `Generate` is not
  fair, so that to bound it takes nothing from `LoadingEnds`.

### Fairness

Weak fairness of what the code repeats unasked, and nothing else; crashes, lost
publishes, submissions and a learner's actions are never fair.

- `Orchestrator`: the poll loop (`worker.py:102-115`) reads while there is
  something to read, a node that may run runs, and an agent answers what it
  takes. The last is the agents' `Answered` and its like, and it is why
  `Answered` is checked without `agent_silent`: the code waits without a
  timeout.
- `TeachingAgent`, `QuizAgent`, `RagAgent`: the loop takes steps while it can,
  every LLM call returns or raises, and a process that ended is started again
  (`docker-compose.yaml`, `restart: unless-stopped`).
- `ChatPage`: the typewriter's timer, the consumer loop while it is alive, the
  agents' answers and the replies to posts. `FormReopens` says what else is
  needed for the form to open: a connection that lasts, a workflow that says
  something, a consumer task that lives.
- `QuizPage`: posts are replied to, and the quiz service handles its records; it ends
  `MaxRestarts` times at most, so `LoadingEnds` says nothing of an evaluation that
  fails each time it is read.
- `StreamlitChat`: the backend's process goes on or is started again, the library
  tries to connect until it gives up (and notices a dead backend), the services
  send what they owe, the page polls its queue (`app.py` reruns itself) and a
  post ends in a reply or its timeout. The broker's return is not fair:
  `ServesInTheEnd` assumes it.

## What is proved

TLAPS proves the following for every value of the constants that satisfies the
named assumptions (`ConstantsAssumption`, `TeachingAssumption`,
`StoreAssumption`, `ParserAssumption`, `QuizAssumption`, `RagAssumption`, `EvaluationAssumption`,
`ChatAssumption`, `PageAssumption`, `BackendAssumption`, `StreamlitAssumption`;
TLC evaluates each in a run).

- **`OrchestratorProofs`**. `TypeCorrect`: `TypeOK` is not inductive, for a
  workflow's levels are raw names until `infer_level` lowers them; `TypeInv`
  adds which it is at which node. `ActiveIffPausedAlways` and
  `AtMostOneAnswerAlways` follow from `ControlInv`, which relates `pc`, `busy`,
  `active`, `resumed` and the events published: the thread executes at most one
  workflow, one that waits is at an await node and lacks a reply, and nothing
  is published before the graph has ended. Both hold with any mixture of
  faults. `ResumeFeedsRightNodeAlways` is proved as long as completions are not
  read twice (`"redelivery" \notin Faults`), with restarts, lost publishes and
  silent agents allowed: `DeliveryInv` says that what is asked for, under way,
  waiting and already taken, kind by kind, is never more than the node the
  workflow stands at asked for. The proof has a lemma for each group of
  actions; requests are finite sets, and the cardinality of what a dispatch
  adds (`TeachingRequestsType`) is that of an injection from the levels.

  `Refinement`: every step of `Orchestrator`, with any
  mixture of faults, is one of `LearningWorkflow` or a stutter. The lemmas on the
  nodes say what one node does to one workflow (`Passage`: ask, hand over, fail,
  end), `OthersStay` that it does nothing to another; `FlowInv` says that a
  workflow holds no more values than its node lacks and none when it enters it.
  `OneMoves`, `OneReplied` and `SomeDropped` are the three ways the abstract state
  changes. `NeverRepublishedAlways`: `AskedInv` says which requests are out at
  which node. `TeachingIsCompleteAlways`, unless a completion is
  read twice: `CompleteInv` says that the reply of each level is in at most one
  place, asked for, under way, waiting or taken (`PlacedOf`, `TaughtOf`); as many
  replies as there are levels, each of another level, are all of them
  (`GatheredIsAll`). `OwedWhatItLacksAlways`, when nothing is lost or repeated but
  the worker may restart: `OwedInv` says that the bound of `DeliveryInv` is
  reached.
- **`TeachingProofs`**. `CallBudgetAlways`: `BudgetInv` has what may have been
  called at each phase of the handler, as a function of the rounds of reflection
  so far; `HeldInv` is the part of the type invariant it needs.
  `RememberedIsDeliveredAlways`: every turn of a session is sound, that is, a
  question, an answer completed, or the answer in hand; trimming and appending
  keep that, and a crash forgets the sessions. `StreamEndsFirstAlways`, where
  publishing does not fail: `SentInv` says that a request past its stream, and one
  that is completed, has a sentinel, which a crash does not take back; `EndInv`, for
  the worlds without a crash, that every request is read once, that nothing is
  published for one before it is read, and no sentinel before it is handled.
  `BoundedAlways`: no session remembers more than the bound, by `StoreInv` and
  `TrimType`, which says what the negative slice of `append_turn` leaves.
  `HistoryIsRecentTailAlways`: the log gives the place of every turn of the
  conversation a session is in (`Spoken`), and a turn with n others after it is
  the n-th before the last of what is remembered (`EndsWith`), which the next turn
  and the slice keep (`TailSaid`, `TailTrimmed`). `LogInv` says it as of the last
  turn, before the clock runs on, and that nothing was said in a forgotten session
  or too long ago (`SpokenOrGone`, `HeldAfter`).
  `ChunksDoNotMatterAlways` and `LagIsOneHeaderAlways`, for every text and chunks of
  any length: `ParserInv` relates the extractor to the reading of the whole text
  at the cut, the place up to which the chunk buffer has been dealt with.
  `ShapeInv`: the buffer is the piece of the text behind the cut, and between two
  chunks it has no header and may become one. `CutInv`: the cut splits no mark, the
  field in hand is that of the section, and the fields begun are those announced.
  `HeardInv`: what was heard is what the text says up to the cut, in its order.
  `DiagramInv`: the diagram buffer is the diagram text no mark has ended, and
  `final` the last stretch of the rest. A text has one reading, by a least
  counterexample (`ReadOneMore`, `ReadingExists`, `MarksAre`). Two headers share at most
  stars (`HeadersOverlap`), so the first header the buffer shows is the next
  mark of the text (`FirstIsMark`); the beginning of a header is a tail
  (`HeaderBegins`), so what is let go touches none (`FlushCutsNone`). A step is then a
  passage through text without a mark (`PassageHeard`, `PassageKept`, `PassageCut`)
  and, in `NextHeader`, one mark (`SaidAtMark`, `BegunAtMark`, `OpenAtMark`).
- **`RagProofs`**. `CommittedIsCompletedAlways`: `BatchInv` places what was polled,
  what is left of it and the record in hand in the log, `FinishInv` says that all
  that was begun but for the latter is finished. `StopRepeatsNothingAlways`:
  `OnceInv` says that without kills the process ends with its offset committed.
  `SourceOrderAlways` and `NoPageLostAlways`: `PoolInv` says that no page has two
  results and that what a page comes to fits its kind, whichever thread ends
  first. So, once all are in, the results are a permutation of the pages, put in
  order they are the pages (`OrderedResults`), and what is reduced from them is
  right (`ReductionIsRight`). That the pages of the files are a sequence
  (`PointersType`) rests on what `FlattenSeq` computes, by a least counterexample.
- **`QuizProofs`**. `CommittedIsAnsweredAlways`: what is committed was handled to
  its end: of its tokens and its completion each was published, or refused by the
  broker with nobody told (`refused`). `ReadInv` says it of all that was read but
  for the record in hand. It holds with crashes and raising calls, because an
  exception ends the process before the next `poll` commits.
  `PoolDrainedAlways`: `PoolInv` says that tasks move only while the pool is open
  and that what was handed over is at the place of its stem.
  `GenerationIsSoundAlways` adds `CountInv`: the tokens of every call that returned
  are counted, or held by a task that is still to be collected, and no task has
  made more calls than its attempts and tries so far stand for. A sum over the
  stems is the number of points under the graph of a function (`Total`), so that
  its laws are those of cardinality and need no induction (`TotalAdds`,
  `TotalIsBounded`).
- **`EvaluationProofs`**. `ActionFollowsScoreAlways`: for quizzes worth up to 33
  points (a count that generation may ask for has 31; from 34 points on half a
  tenth of a percent can cross a threshold) a rounded
  percentage is on the same side of 50 and 75 as the exact score. The invariant
  is `Totals /\ ActionFollowsScore`; the arithmetic is
  `RoundingKeepsThresholds`.
  `ReportIsConsistentAlways`: `ReportInv` (`ReportFollows`) says of an evaluation
  under way what the property says of its end. A result or a deferred question
  stands behind as many others as there are questions of its kind before it in
  what was read (`Order`, counted by `HowMany`); the subtotals are those of the
  results so far, and leave room for the deferred questions within the points of
  what was read (`Sums`); and every result explains what it lacks (`Explains`;
  `ScoreIsShare` says that partial credit is full only for the right options).
  Sums and noted concepts are loops of the model (`Loop`): `RoundsExist` and
  `RoundsAgree` show, from the least counterexample and without an induction
  principle, that such a loop has one table of values, `LoopStep` that a round
  more does just that round.
- **`StreamlitProofs`**. `BootstrapAccountsAlways`: `StartInv` says it of the names
  tried so far. `AcceptedIsWholeAlways`: `UploadInv` adds that a question is
  handled once and published from there only. `ShownIsTheLinkAlways`: `LinkInv`
  says that the last report in the queue, or the page when there is none, tells
  the state of the link, and that the client counts the failures of one outage,
  which is what makes its `failed` and the library's last attempt coincide.
  `NothingLostAlways`: `DeliveryInv` follows the tokens from the services to the
  page. Sids and streams are numbered upwards (`SidInv`, `StreamInv`); a level is
  sent once, over the stream that was opened for it (`OwedInv`, `FreshInv`,
  `RouteInv`); the queue is in the order of sending and each token in it follows
  the one before (`QueueInv`, `FollowInv`); a message holds what was taken of its
  stream (`TextInv`); a new stream comes behind the end of the one shown
  (`OpenInv`, `SlotInv`), and only a message nobody needs is overwritten
  (`HistoryInv`).
  `AnswerIsItsOwnAlways` adds `AnswerInv`: the first level of a question comes first
  (`BegunInv`, `FirstInv`); the end of an answer stands behind its tokens, and what
  has ended is owed no more (`DoneInv`); while a question is alone, services and
  queue know no other (`AloneInv`), and the slot below it is empty, being filled,
  filled or refused (`OwnInv`).
- **`ChatProofs`**. `AnswerIsItsOwnAlways`, `LockedWhileActiveAlways`: `LockInv` holds
  in every world: a locked form has an active box, and an active box under an open
  form a failed request. `PlainInv`, where posts tell the truth and a question has
  one level, says where the question in hand is (`Asked`, `Streaming`, `Noticed`,
  `Over`): its events stand in their topic one behind the other and the box has
  all those before them, as long as the connection is the one it was asked with;
  of every other question no more is to come (`Past`).
- **`QuizPageProofs`**. `ResultIsOfTheLastAlways`, `LockedWhileUnderWayAlways`,
  `AnswersPreservedAlways`: `PageInv` says that at most one evaluation
  is under way, as a post, a record, a job or a result (`EvalInv`, where posts tell
  the truth and no answered evaluation was repeated); the same of the
  quiz a learner asked for (`AskedInv`, without a workflow's quizzes besides); and
  that the quizzes on their way are newer than the one shown, each than the one
  before it (`OrderInv`, in every world). A restart amid a job is a job become a
  record again (`RestartGives`). Where `AskedInv` says nothing,
  `AnswersPreservedAlways` says no more than that the quiz is a newer one.

Two workflows with faults, three and more levels, any pool size, any number of
messages, faults and deaths are thereby covered for these properties.

So every invariant of a passing run is proved, with `NeverRepublished` and the
refinement, each under the hypotheses its theorem names.

Only model-checked: everything under fairness (`Answered`, `Completed`,
`EveryRequestCompleted`, `FormReopens`, `LoadingEnds`, `ServesInTheEnd`), which is out of TLAPS's reach, as are ENABLED and induction over
data through the library's theorems (what `FoldLeft`, `SelectSeq` or a recursive
definition computes for every input). Where a model had such an operator without
need it was restated over positions, as a loop, or by what characterises its
result (`Pick` in `RagAgent`, `StreamEndsFirst` in `TeachingAgent`, `Spoken` in
`MCConversationStore`, `Loop` in `QuizEvaluation`, `IsReading` in `StreamParser`).

## Divergences met while modelling

Three are the violation runs above. The others are read off the code and are in
the models as the code has them; no run is about them.

- `orchestrator_agent/agent.py:814`: `run` publishes nothing when a node raises.
- `orchestrator_agent/agent.py:565`: `await_teaching` announces itself again on
  every resume; it is a progress update only.
- `orchestrator_agent/agent.py:509`, `689-691`: a failed retrieval ends as
  "complete" when the teaching succeeds.
- A repeated completion is fed to whichever node waits next (`agent.py:822-856`);
  `worker.py:11-13` takes it for a harmless one.
- `teaching_agent/handlers.py:158-161`: canned replies are remembered as answers.
- `teaching_agent/handlers.py:177`: a request with a blank level ends without a
  sentinel.
- `teaching_agent/agent.py:171-172`: the tokens of the guardrail and of a
  diagram's retry are not in the totals.
- `project/schemas.py:426-427`: the second level of a question has the question
  itself in its history when the first was remembered in between.
- `rag_agent/utils/tools.py:47`: two pages whose table extraction overlaps may
  leave `sys.stdout` redirected.
- `rag_agent/worker.py:201`: a record that is no object drops the rest of its
  batch, of which `worker.py:225` commits what was not handled.
- `rag_agent/agent.py:346`: at most ten errors are reported.
- `teaching_agent/stream_parser.py:55-64`: bold words in an answer are swallowed,
  and one within a diagram starts it again.
- `quiz_agent/validators.py`: a set with an id twice is accepted.
- `quiz_agent/agent.py:524`: a right single answer to a question worth three
  points and more is "weak", for it scores one.
- `quiz_agent/agent.py:586`: the SWOT's strong concepts are question ids.
- `react_ui/src/components/Chat/ChatWindow.tsx:114`: the failure of a post that
  comes late unlocks the form of a later question.
- `backend_service/app/socket.py:129`: a record that is no JSON ends the consumer
  task.
- `react_ui/src/components/Evaluation/EvaluationPlaceholder.tsx:270`: a result is
  shown beside answers changed since; `QuizPlaceholder.tsx:107`: a workflow's
  quiz replaces the one in hand, answers included.
- `backend_service/app/main.py:70`: nobody looks at the consumer task; when it ends,
  requests are accepted and nothing is forwarded. `socket.py:109` says that the
  loop goes on.
- `backend_service/app/api/chat_request.py:111`: files saved before a failure stay.
- `project/topics.py:76-93`: the "union" of the topics has one name twice and not
  quiz-evaluate, which the broker creates by itself.
- `ui_frontend/app.py:98`: the end of a stream finalises the last message. With a
  second question asked meanwhile, or a clarification below, the answer's own
  message stays open for ever and the last one gets its text (`crowded` exempts
  them); so does the end of a level of which no token was sent: it writes the text
  of the answer before it (`broken`).
- `ui_frontend/socketio_client.py`: of a first attempt that fails the page shows
  "disconnected" and not "failed", for `run` reports last; nothing tries again.
- `ui_frontend/app.py:279-280`: files removed from the uploader are sent.
- `quiz_agent/worker.py:133-136`: the payload of an evaluation that failed has no
  result and no SWOT, which `project/schemas.py:706-715` require: nothing is
  published, the process ends, and its restart repeats what it had not committed.
  The page, told "Evaluation failed", waits until the evaluation succeeds.
- `quiz_agent/kafka.py:55-70`: a publish the broker refuses raises nothing and is
  committed; a page that waits for it waits for ever (`QuizAgent`; `QuizPage` takes
  what is published to be stored).
- A quiz service that is started again repeats answered requests: an evaluation's
  result is shown again in place of a newer wait, and a quiz is made anew and takes
  the answers to the first (`repeated`).
- A progress update that overtakes its result, on another topic, leaves the quiz
  page loading; `LoadingEnds` exempts that order (`overtaken`).
- `teaching_agent/worker.py:55-56`: a JSON record that is no object raises outside
  the `try`: the rest of its batch is dropped and committed by the next poll. A stop
  commits what was polled, whether it was handled or not.

## Not modelled

- The planner agent: not deployed, and the same graph as the orchestrator's.
- The PDF checks of the React page: a test of one file or list at a time, with no
  state, of which a model would repeat the conditions.
- Of Streamlit, the quiz tab and the diagnostics, `websocket_client.py`, which
  nothing starts, and that a rerun may break off a script amid an item.
- Of the backend, the endpoints that create a topic or publish an event by hand.
- Prompts, texts, the parsing of model answers, HTTP clients, images and PDF
  extraction: data that no property tells apart, or libraries.
- Progress updates, except where a page's state depends on them (`QuizPage`), and
  uploads in `ChatPage` (they are in `StreamlitChat`).
- The orchestrator's batches, but for what a bad record costs: it takes one record
  at a time, and its loop is that of `RagAgent`.
- A rebalance beside a live process in the retrieval, teaching and quiz services;
  the orchestrator's is modelled.
- A malformed confidence threshold, which makes the orchestrator's graph raise,
  and the retries within its Azure client.
- That two pages leave `sys.stdout` redirected (`rag_agent/utils/tools.py:47`) is
  in the model; it is what the code does, and no property says otherwise.

## Plan

What is left, the most important first.

1. Compose: `ConversationStore` shared by two levels of a question with
   `ChatPage`'s two streams; the quiz service's inner steps behind `QuizPage`.
2. Model: Streamlit's quiz tab; the agents' progress updates; batches in the
   orchestrator.
