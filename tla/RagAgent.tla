------------------------------ MODULE RagAgent -------------------------------
(***************************************************************************)
(* The retrieval service: RAGWorker (rag_agent/worker.py), whose main      *)
(* thread starts and stops a poll loop, and RAGAgent.run (agent.py), which *)
(* the loop calls for each request and which extracts the pages of its     *)
(* files in a pool of threads.                                             *)
(*                                                                         *)
(* A page is told apart by what extraction makes of it; images, scores and *)
(* the wording of the compiled material are left out.  Extraction of       *)
(* tables redirects sys.stdout (utils/tools.py:47), of which there is one. *)
(***************************************************************************)
EXTENDS Naturals, Sequences, FiniteSets, TLC, SequencesExt

CONSTANTS
  Worlds,       \* what the service may meet, each a WorldType
  MaxErrors,    \* how many errors a completion carries
  MaxStarts     \* bound of the times the service is started

PageKind == {"text", "off_topic", "empty", "broken"}
FileType == [name : STRING, readable : BOOLEAN, pages : Seq(PageKind)]

\* shape: a request, one RAGRequestEvent rejects, or JSON that is no object.
RecordType == [id : Nat, shape : {"request", "rejected", "no_object"}, files : Seq(FileType)]

\* The environment's settings: usable, no model, RAG_PAGE_PARALLELISM no number.
Settings == {"ok", "no_model", "bad_parallelism"}

\* log: the records published to the topic "rag"; parallelism: a usable
\* RAG_PAGE_PARALLELISM; settings: what the settings may be.
WorldType == [log : Seq(RecordType), parallelism : Nat \ {0},
              settings : SUBSET Settings,
              faults : SUBSET {"publish_fails", "embedding_fails", "stop", "kill"}]

ASSUME RagAssumption ==
  /\ Worlds \subseteq WorldType
  /\ {MaxErrors, MaxStarts} \subseteq Nat \ {0}

NoOutput == [status |-> "none", included |-> <<>>, processed |-> 0, errors |-> <<>>]
NewPage  == [st |-> "waiting", saved |-> 0, status |-> "none"]

VARIABLES
  world,                \* the one of Worlds this behaviour is in
  committed, position,  \* records read for good; records polled
  settings,             \* the environment
  main,                 \* the main thread: "off", "up", "stopping", "closing" or "closed"
  loop,                 \* where the poll loop's thread is
  batch, task,          \* polled records still to be handled; the one in hand
  pages,                \* the task's pages in pointer order, each with its thread
  stdout,               \* sys.stdout: 0, or the page whose buffer it is
  results,              \* page numbers in the order as_completed yields them
  output,               \* what run() returns
  dispatched,           \* how often each record was given to RAGAgent.run
  completions,          \* the rag-complete events
  unpublished,          \* the records whose completion could not be published
  starts

Log         == world.log
environment == <<world, settings>>

offsets   == <<committed, position>>
published == <<completions, unpublished>>
local     == <<batch, task, pages, results, output>>
vars      == <<offsets, environment, main, loop, local, stdout, dispatched, published, starts>>

Init ==
  /\ committed = 0 /\ position = 0
  /\ world \in Worlds /\ settings \in world.settings
  /\ main = "off" /\ loop = "off"
  /\ batch = <<>> /\ task = 0 /\ pages = <<>> /\ results = <<>> /\ output = NoOutput
  /\ stdout = 0
  /\ dispatched = [k \in DOMAIN Log |-> 0] /\ completions = {}
  /\ unpublished = {} /\ starts = 0

ForgetTask == task' = 0 /\ pages' = <<>> /\ results' = <<>> /\ output' = NoOutput

-----------------------------------------------------------------------------
(* The main thread.                                                        *)

\* Mutant: reading begins behind what was polled, not at what is committed.
StartAhead ==
  /\ main = "off" /\ starts < MaxStarts
  /\ main' = "up" /\ loop' = "poll"
  /\ stdout' = 0
  /\ starts' = starts + 1
  /\ UNCHANGED <<offsets, environment, local, dispatched, published>>

Start ==
  /\ main = "off" /\ starts < MaxStarts
  /\ main' = "up" /\ loop' = "poll"
  /\ position' = committed
  /\ stdout' = 0
  /\ starts' = starts + 1
  /\ UNCHANGED <<committed, environment, local, dispatched, published>>

\* stop(): the event is set and the loop's thread joined, for two seconds.
Stop ==
  /\ main = "up" /\ "stop" \in world.faults
  /\ main' = "stopping"
  /\ UNCHANGED <<offsets, environment, loop, local, stdout, dispatched, published, starts>>

\* Mutant: the consumer is closed without a commit.
CloseForgetting ==
  /\ main = "stopping"
  /\ main' = "closing"
  /\ UNCHANGED <<offsets, environment, loop, local, stdout, dispatched, published, starts>>

\* The consumer is closed, committing what it has polled, ...
CloseConsumer ==
  /\ main = "stopping"
  /\ main' = "closing"
  /\ committed' = position
  /\ UNCHANGED <<position, environment, loop, local, stdout, dispatched, published, starts>>

\* ... and the producer after it.
CloseProducer ==
  /\ main = "closing"
  /\ main' = "closed"
  /\ UNCHANGED <<offsets, environment, loop, local, stdout, dispatched, published, starts>>

\* The threads die with the process.
Vanish ==
  /\ main' = "off" /\ loop' = "off"
  /\ batch' = <<>> /\ ForgetTask
  /\ UNCHANGED <<offsets, environment, stdout, dispatched, published, starts>>

Exit == main = "closed" /\ Vanish
Kill == main # "off" /\ "kill" \in world.faults /\ starts < MaxStarts /\ Vanish

-----------------------------------------------------------------------------
(* The poll loop.                                                          *)

\* Mutant: the offsets of a batch are committed as it is polled.
PollCommitting ==
  /\ loop = "poll" /\ main = "up"
  /\ position < Len(Log)
  /\ \E n \in 1..(Len(Log) - position) :
       /\ batch' = [i \in 1..n |-> position + i]
       /\ position' = position + n
       /\ committed' = position'
  /\ loop' = "next"
  /\ UNCHANGED <<environment, main, task, pages, results, output, stdout, dispatched,
                 published, starts>>

\* poll() may commit what it returned before, and returns one record or more.
Poll ==
  /\ loop = "poll" /\ main = "up"
  /\ position < Len(Log)
  /\ committed' \in {committed, position}
  /\ \E n \in 1..(Len(Log) - position) :
       /\ batch' = [i \in 1..n |-> position + i]
       /\ position' = position + n
  /\ loop' = "next"
  /\ UNCHANGED <<environment, main, task, pages, results, output, stdout, dispatched,
                 published, starts>>

\* A poll with nothing to return commits too, in time.
IdlePoll ==
  /\ loop = "poll" /\ main = "up"
  /\ committed # position
  /\ committed' = position
  /\ UNCHANGED <<position, environment, main, loop, local, stdout, dispatched, published, starts>>

\* The event is looked at between two polls only.
EndLoop ==
  /\ loop = "poll" /\ main \notin {"off", "up"}
  /\ loop' = "off"
  /\ UNCHANGED <<offsets, environment, main, local, stdout, dispatched, published, starts>>

\* The next record of the batch: handled, rejected, or such that looking for
\* its request_id raises out of the whole batch.
NextRecord ==
  /\ loop = "next"
  /\ \/ /\ batch = <<>>
        /\ loop' = "poll"
        /\ UNCHANGED <<batch, task, dispatched>>
     \/ /\ batch # <<>> /\ Log[Head(batch)].shape = "no_object"
        /\ batch' = <<>> /\ loop' = "poll"
        /\ UNCHANGED <<task, dispatched>>
     \/ /\ batch # <<>> /\ Log[Head(batch)].shape = "rejected"
        /\ batch' = Tail(batch)
        /\ UNCHANGED <<loop, task, dispatched>>
     \/ /\ batch # <<>> /\ Log[Head(batch)].shape = "request"
        /\ task' = Head(batch) /\ batch' = Tail(batch)
        /\ dispatched' = [dispatched EXCEPT ![Head(batch)] = @ + 1]
        /\ loop' = "run"
  /\ UNCHANGED <<offsets, environment, main, pages, results, output, stdout, published, starts>>

-----------------------------------------------------------------------------
(* RAGAgent.run                                                            *)

\* The n-th of a set of numbers, in rising order.
Nth(S, n) == CHOOSE i \in S : Cardinality({j \in S : j <= i}) = n

\* The elements of a sequence at these places, in the order of the sequence.
Pick(s, places) == [n \in 1..Cardinality(places) |-> s[Nth(places, n)]]

Files == Log[task].files

\* _build_page_pointers: every page of every file that can be opened.
Pointers(files) ==
  FlattenSeq([f \in DOMAIN files |->
    IF files[f].readable
      THEN [p \in DOMAIN files[f].pages |->
              [file |-> files[f].name, page |-> p, kind |-> files[f].pages[p]]]
      ELSE <<>>])

FileErrors(files) ==
  Pick([f \in DOMAIN files |-> [file |-> files[f].name, page |-> 0, bad |-> TRUE]],
       {f \in DOMAIN files : ~files[f].readable})

\* The settings are read first: what is missing or no number raises, and the
\* worker answers for run().
Run ==
  /\ loop = "run"
  /\ \/ /\ settings = "ok"
        /\ pages' = [i \in DOMAIN Pointers(Files) |-> NewPage]
        /\ loop' = "pages"
        /\ UNCHANGED output
     \/ /\ settings # "ok"
        /\ output' = [NoOutput EXCEPT !.status = "failed",
                                      !.errors = <<[file |-> settings, page |-> 0, bad |-> TRUE]>>]
        /\ loop' = "publish"
        /\ UNCHANGED pages
  /\ UNCHANGED <<offsets, environment, main, batch, task, stdout, results, dispatched,
                 published, starts>>

InPool(i) == loop = "pages" /\ i \in DOMAIN pages
Page(i, changed) == pages' = [pages EXCEPT ![i] = changed]
PoolOnly == UNCHANGED <<offsets, environment, main, loop, batch, task, output, dispatched,
                        published, starts>>

\* A thread takes the oldest waiting page and opens the file.
PageStarts(i) ==
  /\ InPool(i) /\ pages[i].st = "waiting"
  /\ \A j \in 1..(i - 1) : pages[j].st # "waiting"
  /\ Cardinality({j \in DOMAIN pages : pages[j].st \in {"text", "tables", "score"}}) < world.parallelism
  /\ Page(i, [pages[i] EXCEPT !.st = "text"])
  /\ UNCHANGED <<stdout, results>> /\ PoolOnly

\* The text is extracted and sys.stdout redirected, unless the page raises.
RedirectStdout(i) ==
  /\ InPool(i) /\ pages[i].st = "text"
  /\ \/ /\ Pointers(Files)[i].kind = "broken"
        /\ Page(i, [pages[i] EXCEPT !.st = "done", !.status = "failed"])
        /\ UNCHANGED stdout
     \/ /\ Pointers(Files)[i].kind # "broken"
        /\ Page(i, [pages[i] EXCEPT !.st = "tables", !.saved = stdout])
        /\ stdout' = i
  /\ UNCHANGED results /\ PoolOnly

\* The tables are found and the stream that was there before put back.
RestoreStdout(i) ==
  /\ InPool(i) /\ pages[i].st = "tables"
  /\ stdout' = pages[i].saved
  /\ Page(i, [pages[i] EXCEPT !.st = "score", !.saved = 0])
  /\ UNCHANGED results /\ PoolOnly

\* Mutant: what cannot be scored is not relevant.
NeutralIsIrrelevant == "skipped"

\* The neutral score 0.6 reaches the threshold.
Neutral == "included"

StatusOf(kind) ==
  CASE kind = "empty" -> "failed" [] kind = "text" -> "included" [] OTHER -> "skipped"

\* The content is scored; where embedding fails it is taken for relevant.
Score(i) ==
  /\ InPool(i) /\ pages[i].st = "score"
  /\ LET kind == Pointers(Files)[i].kind IN
     \E status \in {StatusOf(kind)}
                     \cup IF "embedding_fails" \in world.faults /\ kind # "empty"
                            THEN {Neutral} ELSE {} :
       Page(i, [pages[i] EXCEPT !.st = "done", !.status = status])
  /\ UNCHANGED <<stdout, results>> /\ PoolOnly

\* as_completed yields a finished page.
CollectPage(i) ==
  /\ InPool(i) /\ pages[i].st = "done"
  /\ Page(i, [pages[i] EXCEPT !.st = "collected"])
  /\ results' = Append(results, i)
  /\ UNCHANGED stdout /\ PoolOnly

\* Mutant: the results stay in the order in which they came.
InCompletionOrder(rs) == rs

\* No page has two results.
InPointerOrder(rs) == [n \in DOMAIN rs |-> Nth(Range(rs), n)]

StatusOfRun(included, errors) ==
  CASE pages = <<>>                       -> "failed"
    [] included # <<>> /\ errors # <<>>   -> "partial"
    [] included # <<>> /\ errors = <<>>   -> "complete"
    [] OTHER                              -> "failed"

\* _reduce_page_results, _compile_material (there is a text whenever a page is
\* included) and _derive_status.
Reduction ==
  LET ordered  == InPointerOrder(results)
      pointer  == Pointers(Files)
      With(st) == Pick([n \in DOMAIN ordered |-> pointer[ordered[n]]],
                       {n \in DOMAIN ordered : pages[ordered[n]].status = st})
      failed   == With("failed")
      errors   == FileErrors(Files) \o
                  [k \in DOMAIN failed |-> [file |-> failed[k].file, page |-> failed[k].page,
                                            bad |-> TRUE]]
  IN  [status    |-> StatusOfRun(With("included"), errors),
       included  |-> With("included"),
       processed |-> Len(ordered) - Len(failed),
       errors    |-> SubSeq(errors, 1, Min({Len(errors), MaxErrors}))]

\* All pages are in.
Reduce ==
  /\ loop = "pages" /\ Len(results) = Len(pages)
  /\ output' = Reduction
  /\ loop' = "publish"
  /\ UNCHANGED <<offsets, environment, main, batch, task, pages, stdout, results, dispatched,
                 published, starts>>

\* The completion is published; a failure, as that of a closed producer, is logged.
Publish ==
  /\ loop = "publish"
  /\ \/ /\ main # "closed"
        /\ completions' = completions \cup {[record |-> task, output |-> output]}
        /\ UNCHANGED unpublished
     \/ /\ main = "closed" \/ "publish_fails" \in world.faults
        /\ unpublished' = unpublished \cup {task}
        /\ UNCHANGED completions
  /\ loop' = "next"
  /\ ForgetTask
  /\ UNCHANGED <<offsets, environment, main, batch, stdout, dispatched, starts>>

PagesStep ==
  \E i \in DOMAIN pages :
    PageStarts(i) \/ RedirectStdout(i) \/ RestoreStdout(i) \/ Score(i) \/ CollectPage(i)

Work ==
  \/ Start \/ CloseConsumer \/ CloseProducer \/ Exit
  \/ Poll \/ IdlePoll \/ EndLoop \/ NextRecord
  \/ Run \/ PagesStep \/ Reduce \/ Publish

Next == Work \/ Stop \/ Kill

Spec == Init /\ [][Next]_vars

\* The threads of a live process go on, and the service is started again.
FairSpec == Spec /\ WF_vars(Work)

-----------------------------------------------------------------------------
(* Properties.                                                             *)

ErrorType  == [file : STRING, page : Nat, bad : {TRUE}]
OutputType == [status : {"none", "complete", "partial", "failed"},
               included : Seq([file : STRING, page : Nat, kind : PageKind]),
               processed : Nat, errors : Seq(ErrorType)]

\* The shape of the service's state.
TypeOK ==
  /\ committed \in 0..position /\ position \in 0..Len(Log)
  /\ world \in Worlds /\ settings \in world.settings
  /\ main \in {"off", "up", "stopping", "closing", "closed"}
  /\ loop \in {"off", "poll", "next", "run", "pages", "publish"}
  /\ batch \in Seq(1..Len(Log)) /\ task \in 0..Len(Log)
  /\ (task = 0 <=> loop \in {"off", "poll", "next"})
  /\ \A i \in DOMAIN pages :
       pages[i] \in [st : {"waiting", "text", "tables", "score", "done", "collected"},
                     saved : 0..Len(pages), status : {"none", "included", "skipped", "failed"}]
  /\ stdout \in Nat
  /\ results \in Seq(1..Len(pages))
  /\ output \in OutputType
  /\ dispatched \in [1..Len(Log) -> Nat]
  /\ completions \subseteq [record : 1..Len(Log), output : OutputType]
  /\ unpublished \subseteq 1..Len(Log)

\* What a request should come to, read off its files page by page.
PagesOf(pointers, kinds) == {k \in DOMAIN pointers : pointers[k].kind \in kinds}

Kept(pointers)   == Pick(pointers, PagesOf(pointers, {"text"}))
Failed(pointers) == Pick(pointers, PagesOf(pointers, {"empty", "broken"}))

\* "Parallel runs over the same input MUST produce stable page ordering in
\* extracted/retained outputs, matching source page order" (spec.md:161), with the
\* failed pages excluded and the status and counts to match, whatever the
\* interleaving of the threads.
SourceOrder ==
  \A c \in completions : settings = "ok" /\ "embedding_fails" \notin world.faults =>
    LET files    == Log[c.record].files
        pointers == Pointers(files)
    IN  /\ c.output.included = Kept(pointers)
        /\ c.output.processed = Len(pointers) - Len(Failed(pointers))
        /\ c.output.status =
             IF Kept(pointers) = <<>> THEN "failed"
             ELSE IF Failed(pointers) # <<>> \/ \E f \in DOMAIN files : ~files[f].readable
               THEN "partial" ELSE "complete"

\* An embedding service that fails now and then adds pages to the material, none
\* of them unreadable: it never costs a relevant one, nor does it disturb the order.
NoPageLost ==
  \A c \in completions : settings = "ok" =>
    LET pointers == Pointers(Log[c.record].files) IN
      \E places \in SUBSET PagesOf(pointers, {"text", "off_topic"}) :
        /\ PagesOf(pointers, {"text"}) \subseteq places
        /\ c.output.included = Pick(pointers, places)

\* The service is not stopped, and no record of the topic makes it give up a batch.
NeverStopped ==
  /\ "stop" \notin world.faults
  /\ \A k \in DOMAIN Log : Log[k].shape # "no_object"

\* Its completion is published, or the log says that it could not be (worker.py:131-135).
Finished(k) == k \in unpublished \/ \E c \in completions : c.record = k

\* Killed at any point and started again, the service has finished every request
\* whose offset is committed: what is never read again was answered, but for the
\* completions that could not be published.
CommittedIsCompleted ==
  NeverStopped => \A k \in 1..committed : Log[k].shape = "request" => Finished(k)

\* Every request is finished in the end, however often the service is killed.
EveryRequestCompleted ==
  NeverStopped => <>(\A k \in DOMAIN Log : Log[k].shape = "request" => Finished(k))

\* A stop and a new start repeat no work: what was begun before is not begun
\* again, so that no request is answered twice, whatever was published.
StopRepeatsNothing ==
  "kill" \notin world.faults => \A k \in DOMAIN Log : dispatched[k] <= 1
=============================================================================
