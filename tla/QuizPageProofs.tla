--------------------------- MODULE QuizPageProofs ---------------------------
(***************************************************************************)
(* Theorems about QuizPage, for any number of quizzes, workflows, changes  *)
(* of answers, evaluations and restarts of the quiz service.               *)
(***************************************************************************)
EXTENDS QuizPage, SequenceTheorems, FiniteSetTheorems, TLAPS

-----------------------------------------------------------------------------
(* What the page, the topics and the service hold.                         *)

SheetType == Nat \X Nat
EventType == [topic : {"progress", "tokens"}, page : {"quiz", "eval"}, sheet : SheetType]
PostType  == [sheet : SheetType, status : Status]

ShapeInv ==
  /\ quiz \in Nat /\ edits \in Nat /\ quizRequests \in Nat /\ made \in Nat
  /\ quizPost \in {"none", "sent", "ok", "error"}
  /\ evaluation \in [status : {"idle", "loading", "ready", "error"}, sheet : SheetType]
  /\ evalPosts \in Seq(PostType) /\ evalRequests \in Seq(SheetType)
  /\ job \in [kind : {"none", "quiz", "eval"}, sheet : SheetType]
  /\ handled \in [quizzes : Nat, evals : Seq(SheetType)]
  /\ events \in Seq(EventType)

\* The result of an evaluation, and a quiz, on their way to the page.
IsResult(e) == e.topic = "tokens" /\ e.page = "eval"
IsQuiz(e)   == e.topic = "tokens" /\ e.page = "quiz"

Settled(k) == evalPosts[k].status \in {"ok", "replied"}
AllSettled == \A k \in 1..Len(evalPosts) : Settled(k)
NoResult   == \A i \in 1..Len(events) : ~IsResult(events[i])
NoNews     == "eval" \notin overtaken => \A i \in 1..Len(events) : events[i].page # "eval"
TheSheet   == evalPosts[Len(evalPosts)].sheet
Loading    == evaluation.status = "loading"

\* No evaluation is under way; its post is; its record is to be read; it is being
\* graded; its result is the k-th event.
Quiet  == AllSettled /\ evalRequests = <<>> /\ job.kind # "eval" /\ NoResult /\ NoNews
Posted == /\ Len(evalPosts) # 0 /\ evalPosts[Len(evalPosts)].status \in {"sent", "error"}
          /\ \A k \in 1..(Len(evalPosts) - 1) : Settled(k)
          /\ evalRequests = <<>> /\ job.kind # "eval" /\ NoResult /\ NoNews
Queued == AllSettled /\ evalRequests = <<TheSheet>> /\ job.kind # "eval" /\ NoResult
Graded == /\ AllSettled /\ evalRequests = <<>> /\ job.kind = "eval" /\ job.sheet = TheSheet
          /\ NoResult
OnlyResult(k) ==
  /\ k \in 1..Len(events) /\ IsResult(events[k])
  /\ \A i \in 1..Len(events) : i # k => ~IsResult(events[i])
  /\ "eval" \notin overtaken => \A i \in 1..Len(events) : i > k => events[i].page # "eval"
ArrivesAt(k) ==
  /\ AllSettled /\ evalRequests = <<>> /\ job.kind # "eval"
  /\ OnlyResult(k) /\ events[k].sheet = TheSheet

InProgress == Posted \/ Queued \/ Graded \/ \E k : ArrivesAt(k)

EvalHere ==
  \/ Quiet /\ (Loading => "eval" \in overtaken)
  \/ InProgress /\ Loading

ReadyInv == evaluation.status = "ready" => evaluation.sheet = TheSheet

EvalInv == "unconfirmed" \notin world /\ "eval" \notin repeated => EvalHere /\ ReadyInv

\* The quizzes on their way are newer than the one shown, each than the one before it.
OrderInv ==
  /\ quiz <= made
  /\ \A i \in 1..Len(events) : IsQuiz(events[i]) /\ events[i].sheet # NoSheet =>
       /\ quiz < events[i].sheet[1] /\ events[i].sheet[1] <= made
       /\ \A j \in 1..(i - 1) : IsQuiz(events[j]) => events[j].sheet[1] < events[i].sheet[1]

NoQuiz == \A i \in 1..Len(events) : ~IsQuiz(events[i])

\* No quiz is on its way; its post is; ...; it is the k-th event.
NoneAsked  == quizPost \in {"none", "ok"} /\ quizRequests = 0 /\ job.kind # "quiz" /\ NoQuiz
QuizPosted == /\ quizPost \in {"sent", "error"} /\ isLoading /\ wanted
              /\ quizRequests = 0 /\ job.kind # "quiz" /\ NoQuiz
Coming     == quizPost \in {"none", "ok"} /\ isLoading /\ wanted
QuizQueued == Coming /\ quizRequests = 1 /\ job.kind # "quiz" /\ NoQuiz
QuizMade   == Coming /\ quizRequests = 0 /\ job.kind = "quiz" /\ NoQuiz
OnlyQuiz(k) == /\ k \in 1..Len(events) /\ IsQuiz(events[k])
               /\ \A i \in 1..Len(events) : i # k => ~IsQuiz(events[i])
QuizAt(k)  == Coming /\ quizRequests = 0 /\ job.kind # "quiz" /\ OnlyQuiz(k)

AskedInv ==
  world \cap {"workflow", "unconfirmed"} = {} /\ "quiz" \notin repeated =>
    /\ isRequesting <=> quizPost # "none"
    /\ NoneAsked \/ QuizPosted \/ QuizQueued \/ QuizMade \/ \E k : QuizAt(k)

-----------------------------------------------------------------------------
(* The topics grow and shrink.                                             *)

LEMMA RemoveAtProperties ==
  ASSUME NEW S, NEW s \in Seq(S), NEW k \in 1..Len(s)
  PROVE  /\ RemoveAt(s, k) \in Seq(S) /\ Len(RemoveAt(s, k)) = Len(s) - 1
         /\ \A i \in 1..(Len(s) - 1) : RemoveAt(s, k)[i] = IF i < k THEN s[i] ELSE s[i + 1]
<1> DEFINE a == SubSeq(s, 1, k - 1)
           b == SubSeq(s, k + 1, Len(s))
<1>1. Len(s) \in Nat /\ \A i \in 1..Len(s) : s[i] \in S
  BY ElementOfSeq, LenProperties
<1>2. a \in Seq(S) /\ Len(a) = k - 1 /\ \A i \in 1..(k - 1) : a[i] = s[i]
  BY <1>1, SubSeqProperties
<1>3. b \in Seq(S) /\ Len(b) = Len(s) - k /\ \A i \in 1..(Len(s) - k) : b[i] = s[k + i]
  BY <1>1, SubSeqProperties
<1>4. RemoveAt(s, k) = a \o b
  BY DEF RemoveAt
<1> HIDE DEF a, b
<1>5. /\ a \o b \in Seq(S) /\ Len(a \o b) = Len(a) + Len(b)
      /\ \A i \in 1..(Len(a) + Len(b)) : (a \o b)[i] = IF i <= Len(a) THEN a[i] ELSE b[i - Len(a)]
  BY <1>2, <1>3, ConcatProperties
<1>6. Len(a) + Len(b) = Len(s) - 1
  BY <1>1, <1>2, <1>3
<1>7. ASSUME NEW i \in 1..(Len(s) - 1)
      PROVE  (a \o b)[i] = IF i < k THEN s[i] ELSE s[i + 1]
  <2>1. CASE i < k
    BY <1>1, <1>2, <1>5, <1>6, <2>1
  <2>2. CASE ~(i < k)
    <3>1. i - Len(a) \in 1..(Len(s) - k) /\ k + (i - Len(a)) = i + 1 /\ ~(i <= Len(a))
      BY <1>1, <1>2, <2>2
    <3>2. (a \o b)[i] = b[i - Len(a)]
      BY <1>5, <1>6, <3>1
    <3> QED
      BY <1>3, <2>2, <3>1, <3>2
  <2> QED
    BY <2>1, <2>2
<1> QED
  BY <1>4, <1>5, <1>6, <1>7

\* n events are added.
Grown(n) ==
  /\ events' \in Seq(EventType) /\ Len(events') = Len(events) + n
  /\ \A i \in 1..Len(events) : events'[i] = events[i]

\* The k-th event is taken away.
Taken(k) ==
  /\ events' \in Seq(EventType) /\ Len(events') = Len(events) - 1
  /\ k \in 1..Len(events)
  /\ \A i \in 1..Len(events') : events'[i] = IF i < k THEN events[i] ELSE events[i + 1]

LEMMA OneMore ==
  ASSUME ShapeInv, NEW a \in EventType, events' = Append(events, a)
  PROVE  Grown(1) /\ events'[Len(events) + 1] = a
BY AppendProperties DEF Grown, ShapeInv

LEMMA TwoMore ==
  ASSUME ShapeInv, NEW a \in EventType, NEW b \in EventType, events' = events \o <<a, b>>
  PROVE  Grown(2) /\ events'[Len(events) + 1] = a /\ events'[Len(events) + 2] = b
<1> DEFINE new == <<a, b>>
<1>1. new \in Seq(EventType) /\ Len(new) = 2 /\ new[1] = a /\ new[2] = b
  OBVIOUS
<1>2. events \in Seq(EventType) /\ Len(events) \in Nat
  BY LenProperties DEF ShapeInv
<1> HIDE DEF new
<1>3. events' = events \o new
  BY DEF new
<1> QED
  BY <1>1, <1>2, <1>3, ConcatProperties DEF Grown

LEMMA Records ==
  /\ \A p \in {"quiz", "eval"} : Progress(p) \in EventType /\ Progress(p).topic = "progress" /\ Progress(p).page = p
  /\ \A p \in {"quiz", "eval"}, s \in SheetType :
       Tokens(p, s) \in EventType /\ Tokens(p, s).topic = "tokens" /\ Tokens(p, s).page = p /\ Tokens(p, s).sheet = s
  /\ NoSheet \in SheetType
BY DEF Progress, Tokens, EventType, SheetType, NoSheet

\* What comes of the job: a new quiz or a failure to make one, or the sheet's evaluation.
Outcome(s) ==
  \/ job.kind = "quiz" /\ s = <<made + 1, 0>> /\ made' = made + 1
  \/ job.kind = "eval" /\ s = job.sheet /\ made' = made
  \/ job.kind = "quiz" /\ s = NoSheet /\ made' = made

\* The consumer forwards the oldest event of a topic.
LEMMA ForwardTakes ==
  ASSUME ShapeInv, Forward
  PROVE  \E k \in 1..Len(events) : /\ Taken(k) /\ Handle(events[k])
                                   /\ \A j \in 1..(k - 1) : events[j].topic # events[k].topic
                                   /\ overtaken' = overtaken \cup (IF Overtakes(k) THEN {events[k].page} ELSE {})
<1>1. PICK k \in DOMAIN events :
        /\ \A j \in 1..(k - 1) : events[j].topic # events[k].topic /\ "reordered" \in world
        /\ Handle(events[k])
        /\ events' = RemoveAt(events, k)
        /\ overtaken' = overtaken \cup (IF Overtakes(k) THEN {events[k].page} ELSE {})
  BY DEF Forward
<1>2. k \in 1..Len(events) /\ events \in Seq(EventType) /\ Len(events) \in Nat
  BY LenProperties DEF ShapeInv
<1>3. /\ events' \in Seq(EventType) /\ Len(events') = Len(events) - 1
      /\ \A i \in 1..(Len(events) - 1) : events'[i] = IF i < k THEN events[i] ELSE events[i + 1]
  BY <1>1, <1>2, RemoveAtProperties
<1>4. Taken(k)
  BY <1>2, <1>3 DEF Taken
<1> QED
  BY <1>1, <1>2, <1>4

\* What each step does to the topic of the events.
LEMMA EventsStep ==
  ASSUME ShapeInv, [Next]_vars
  PROVE  \/ events' = events /\ UNCHANGED <<quiz, made>>
         \/ WorkflowQuiz /\ Grown(1) /\ events'[Len(events) + 1] = Progress("quiz")
         \/ /\ Begin /\ Grown(1)
            /\ \/ events'[Len(events) + 1] = Progress("quiz") /\ job'.kind = "quiz"
               \/ events'[Len(events) + 1] = Progress("eval") /\ job'.kind = "eval"
         \/ /\ Finish /\ Grown(2) /\ events'[Len(events) + 1] = Progress(job.kind)
            /\ \E s \in SheetType : events'[Len(events) + 2] = Tokens(job.kind, s) /\ Outcome(s)
         \/ /\ Restart /\ Grown(1) /\ events'[Len(events) + 1] = Progress("eval")
            /\ UNCHANGED <<quiz, made>>
         \/ \E k \in 1..Len(events) : /\ Forward /\ Taken(k) /\ Handle(events[k])
                                      /\ \A j \in 1..(k - 1) : events[j].topic # events[k].topic
<1>1. CASE Generate \/ QuizReply \/ Edit \/ Submit \/ EvalReply \/ AcceptQuiz \/ AcceptEval
  BY <1>1 DEF Generate, QuizReply, Edit, Submit, EvalReply, AcceptQuiz, AcceptEval, page, service, position, stream, counts
<1>2. CASE WorkflowQuiz
  <2>1. events' = Append(events, Progress("quiz"))
    BY <1>2 DEF WorkflowQuiz
  <2> QED
    BY <1>2, <2>1, OneMore, Records
<1>3. CASE Begin
  <2>1. \/ events' = Append(events, Progress("quiz")) /\ job'.kind = "quiz"
        \/ events' = Append(events, Progress("eval")) /\ job'.kind = "eval"
    BY <1>3 DEF Begin
  <2> QED
    BY <1>3, <2>1, OneMore, Records
<1>4. CASE Finish
  <2>1. PICK s \in SheetType : /\ events' = events \o <<Progress(job.kind), Tokens(job.kind, s)>>
                              /\ Outcome(s)
    <3>1. <<made + 1, 0>> \in SheetType /\ NoSheet \in SheetType /\ job.sheet \in SheetType
      BY Records DEF ShapeInv, SheetType
    <3> QED
      BY <1>4, <3>1 DEF Finish, Outcome
  <2>2. job.kind \in {"quiz", "eval"}
    BY <1>4 DEF Finish
  <2>3. Progress(job.kind) \in EventType /\ Tokens(job.kind, s) \in EventType
    BY <2>2, Records
  <2> QED
    BY <1>4, <2>1, <2>3, TwoMore
<1>5. CASE Forward
  BY <1>5, ForwardTakes
<1>6. CASE Commit \/ UNCHANGED vars
  BY <1>6 DEF Commit, vars, page, service, position, stream, counts
<1>7. CASE Restart
  <2>1. /\ UNCHANGED <<quiz, made>>
        /\ events' = events \/ events' = Append(events, Progress("eval"))
    BY <1>7 DEF Restart, page, counts
  <2> QED
    BY <1>7, <2>1, OneMore, Records
<1> QED
  BY <1>1, <1>2, <1>3, <1>4, <1>5, <1>6, <1>7 DEF Next

LEMMA WorldStays ==
  [Next]_vars => world' = world /\ repeated \subseteq repeated' /\ overtaken \subseteq overtaken'
<1> USE DEF position, stream
<1>1. Generate \/ QuizReply \/ Edit \/ Submit \/ EvalReply
      => UNCHANGED <<world, repeated, overtaken>>
  BY DEF Generate, QuizReply, Edit, Submit, EvalReply, service
<1>2. AcceptQuiz \/ AcceptEval \/ WorkflowQuiz \/ Begin \/ Finish \/ Commit
      => UNCHANGED <<world, repeated, overtaken>>
  BY DEF AcceptQuiz, AcceptEval, WorkflowQuiz, Begin, Finish, Commit
<1>3. Forward => UNCHANGED <<world, repeated>> /\ overtaken \subseteq overtaken'
  BY DEF Forward, service
<1>4. Restart => UNCHANGED <<world, overtaken>> /\ repeated \subseteq repeated'
  BY DEF Restart
<1>5. UNCHANGED vars => UNCHANGED <<world, repeated, overtaken>>
  BY DEF vars, service
<1> QED
  BY <1>1, <1>2, <1>3, <1>4, <1>5 DEF Next

\* What a restart gives back, when nothing that was answered is read again.
LEMMA RestartGives ==
  ASSUME ShapeInv, Restart
  PROVE  /\ evalRequests' \in Seq(SheetType) /\ quizRequests' \in Nat /\ job' = NoJob
         /\ "eval" \notin repeated' =>
              evalRequests' = (IF job.kind = "eval" THEN <<job.sheet>> ELSE <<>>) \o evalRequests
         /\ "quiz" \notin repeated' =>
              quizRequests' = quizRequests + (IF job.kind = "quiz" THEN 1 ELSE 0)
<1> DEFINE hand == IF job.kind = "eval" THEN <<job.sheet>> ELSE <<>>
           q == IF job.kind = "quiz" THEN 1 ELSE 0
<1>1. /\ handled.evals \in Seq(SheetType) /\ evalRequests \in Seq(SheetType)
      /\ handled.quizzes \in Nat /\ quizRequests \in Nat /\ job.sheet \in SheetType
  BY DEF ShapeInv
<1>2. hand \in Seq(SheetType) /\ q \in Nat
  BY <1>1
<1>3. /\ evalRequests' = handled.evals \o hand \o evalRequests
      /\ quizRequests' = quizRequests + handled.quizzes + q /\ job' = NoJob
      /\ "quiz" \notin repeated' => ~(handled.quizzes > 0)
      /\ "eval" \notin repeated' => handled.evals = <<>>
  BY DEF Restart
<1> HIDE DEF hand, q
<1>4. handled.evals \o hand \in Seq(SheetType)
  BY <1>1, <1>2, ConcatProperties
<1>5. evalRequests' \in Seq(SheetType)
  BY <1>1, <1>3, <1>4, ConcatProperties
<1>6. <<>> \o hand = hand
  BY <1>2, ConcatEmptySeq
<1>7. "eval" \notin repeated' => evalRequests' = hand \o evalRequests
  BY <1>3, <1>6
<1>8. "quiz" \notin repeated' => quizRequests' = quizRequests + q
  BY <1>1, <1>2, <1>3
<1>9. quizRequests' \in Nat
  BY <1>1, <1>2, <1>3
<1> QED
  BY <1>3, <1>5, <1>7, <1>8, <1>9 DEF hand, q

\* The status of one evaluation request changes.
LEMMA StatusStep ==
  ASSUME ShapeInv, NEW r \in DOMAIN evalPosts, NEW s \in Status,
         evalPosts' = [evalPosts EXCEPT ![r].status = s]
  PROVE  /\ r \in 1..Len(evalPosts) /\ evalPosts[r] \in PostType
         /\ evalPosts' \in Seq(PostType) /\ Len(evalPosts') = Len(evalPosts)
         /\ \A k \in 1..Len(evalPosts) : /\ evalPosts'[k].sheet = evalPosts[k].sheet
                                         /\ evalPosts'[k].status = IF k = r THEN s ELSE evalPosts[k].status
<1> DEFINE p == [evalPosts[r] EXCEPT !.status = s]
<1>1. r \in 1..Len(evalPosts) /\ evalPosts[r] \in PostType
  BY ElementOfSeq, LenProperties DEF ShapeInv
<1>2. p \in PostType /\ p.sheet = evalPosts[r].sheet /\ p.status = s
  BY <1>1 DEF PostType
<1> HIDE DEF p
<1>3. evalPosts' = [evalPosts EXCEPT ![r] = p] /\ evalPosts \in Seq(PostType)
  BY DEF p, ShapeInv
<1>4. /\ evalPosts' \in Seq(PostType) /\ Len(evalPosts') = Len(evalPosts)
      /\ \A k \in 1..Len(evalPosts) : evalPosts'[k] = IF k = r THEN p ELSE evalPosts[k]
  BY <1>1, <1>2, <1>3, ExceptSeq
<1> QED
  BY <1>1, <1>2, <1>4

\* A request is added.
LEMMA SubmitAdds ==
  ASSUME ShapeInv, Submit
  PROVE  /\ evalPosts' \in Seq(PostType) /\ Len(evalPosts') = Len(evalPosts) + 1
         /\ \A k \in 1..Len(evalPosts) : evalPosts'[k] = evalPosts[k]
         /\ evalPosts'[Len(evalPosts) + 1].status = "sent"
<1> DEFINE p == [sheet |-> <<quiz, edits>>, status |-> "sent"]
<1>1. p \in PostType /\ p.status = "sent"
  BY DEF PostType, SheetType, Status, ShapeInv
<1>2. evalPosts' = Append(evalPosts, p)
  BY DEF Submit
<1> HIDE DEF p
<1> QED
  BY <1>1, <1>2, AppendProperties DEF ShapeInv

LEMMA ShapeStep == ShapeInv /\ [Next]_vars => ShapeInv'
<1> SUFFICES ASSUME ShapeInv, [Next]_vars
             PROVE  ShapeInv'
  OBVIOUS
<1> USE DEF page, posts, service, position, stream, counts
<1>0. events' \in Seq(EventType) /\ NoSheet \in SheetType
  BY EventsStep, Records DEF ShapeInv, Grown, Taken
<1>1. CASE Generate \/ QuizReply \/ Edit
  BY <1>0, <1>1 DEF ShapeInv, Generate, QuizReply, Edit
<1>2. CASE Submit
  BY <1>0, <1>2, SubmitAdds DEF ShapeInv, Submit
<1>3. CASE EvalReply
  <2>1. evalPosts' \in Seq(PostType)
    BY <1>3, StatusStep DEF EvalReply, Status
  <2> QED
    BY <1>0, <1>3, <2>1 DEF ShapeInv, EvalReply
<1>4. CASE AcceptQuiz
  BY <1>0, <1>4 DEF ShapeInv, AcceptQuiz, Told
<1>5. CASE AcceptEval
  <2>1. PICK r \in DOMAIN evalPosts, published \in BOOLEAN, s \in {"ok", "error"} :
          /\ evalPosts' = [evalPosts EXCEPT ![r].status = s]
          /\ evalRequests' = IF published THEN Append(evalRequests, evalPosts[r].sheet)
                             ELSE evalRequests
    BY <1>5 DEF AcceptEval, Told
  <2>2. evalPosts' \in Seq(PostType) /\ evalPosts[r].sheet \in SheetType
    BY <2>1, StatusStep DEF Status, PostType
  <2>3. evalRequests' \in Seq(SheetType)
    BY <2>1, <2>2, AppendProperties DEF ShapeInv
  <2> QED
    BY <1>0, <1>5, <2>2, <2>3 DEF ShapeInv, AcceptEval
<1>6. CASE WorkflowQuiz
  BY <1>0, <1>6 DEF ShapeInv, WorkflowQuiz
<1>7. CASE Begin
  <2>1. evalRequests # <<>> => Head(evalRequests) \in SheetType /\ Tail(evalRequests) \in Seq(SheetType)
    BY HeadTailProperties DEF ShapeInv
  <2>2. job' \in [kind : {"none", "quiz", "eval"}, sheet : SheetType]
    BY <1>0, <1>7, <2>1 DEF Begin
  <2>3. evalRequests' \in Seq(SheetType)
    BY <1>7, <2>1 DEF Begin, ShapeInv
  <2>4. quizRequests' \in Nat
    <3>1. quizRequests \in Nat
      BY DEF ShapeInv
    <3>2. quizRequests' = quizRequests \/ (quizRequests > 0 /\ quizRequests' = quizRequests - 1)
      BY <1>7 DEF Begin
    <3> QED
      BY <3>1, <3>2
  <2> QED
    BY <1>0, <1>7, <2>2, <2>3, <2>4 DEF ShapeInv, Begin
<1>8. CASE Finish
  <2>1. handled.quizzes \in Nat /\ handled.evals \in Seq(SheetType) /\ job.sheet \in SheetType
    BY DEF ShapeInv
  <2>2. handled.quizzes + 1 \in Nat /\ Append(handled.evals, job.sheet) \in Seq(SheetType)
    BY <2>1, AppendProperties
  <2>3. handled' \in [quizzes : Nat, evals : Seq(SheetType)]
    BY <1>8, <2>2 DEF Finish, ShapeInv
  <2> QED
    BY <1>0, <1>8, <2>3 DEF ShapeInv, Finish, NoJob
<1>9. CASE Forward
  <2>1. PICK k \in DOMAIN events : Handle(events[k])
    BY <1>9 DEF Forward
  <2>2. events[k] \in EventType
    BY ElementOfSeq, LenProperties DEF ShapeInv
  <2>3. events[k].sheet \in SheetType /\ events[k].sheet[1] \in Nat
    BY <2>2 DEF EventType, SheetType
  <2>4. /\ quiz' = quiz \/ quiz' = events[k].sheet[1]
        /\ edits' = edits \/ edits' = 0
        /\ \/ evaluation' = evaluation
           \/ evaluation' = [status |-> "loading", sheet |-> NoSheet]
           \/ evaluation' = [status |-> "ready", sheet |-> events[k].sheet]
    BY <2>1, <2>2 DEF Handle, EventType, OnQuizProgress, OnEvalProgress, OnQuiz, OnEvaluation
  <2>5. quiz' \in Nat /\ edits' \in Nat
    BY <2>3, <2>4 DEF ShapeInv
  <2>6. evaluation' \in [status : {"idle", "loading", "ready", "error"}, sheet : SheetType]
    BY <1>0, <2>3, <2>4 DEF ShapeInv
  <2> QED
    BY <1>0, <1>9, <2>5, <2>6 DEF ShapeInv, Forward
<1>10. CASE Commit \/ UNCHANGED vars
  <2>1. handled' \in [quizzes : Nat, evals : Seq(SheetType)]
    <3>1. handled' = handled \/ handled' = [quizzes |-> 0, evals |-> <<>>]
      BY <1>10 DEF Commit, Nothing, vars
    <3>2. [quizzes |-> 0, evals |-> <<>>] \in [quizzes : Nat, evals : Seq(SheetType)]
      OBVIOUS
    <3> QED
      BY <3>1, <3>2 DEF ShapeInv
  <2>2. UNCHANGED <<quiz, edits, evaluation, evalPosts, quizPost, quizRequests, evalRequests, job, made>>
    BY <1>10 DEF Commit, vars
  <2> QED
    BY <1>0, <2>1, <2>2 DEF ShapeInv
<1>11. CASE Restart
  <2>1. evalRequests' \in Seq(SheetType) /\ quizRequests' \in Nat
    BY <1>11, RestartGives
  <2>2. handled' \in [quizzes : Nat, evals : Seq(SheetType)] /\ job' = NoJob
    BY <1>11 DEF Restart, Nothing
  <2> QED
    BY <1>0, <1>11, <2>1, <2>2 DEF ShapeInv, Restart, NoJob
<1> QED
  BY <1>1, <1>2, <1>3, <1>4, <1>5, <1>6, <1>7, <1>8, <1>9, <1>10, <1>11 DEF Next

-----------------------------------------------------------------------------
(* The quizzes come in the order in which they were made.                  *)

LEMMA OrderStep == ShapeInv /\ OrderInv /\ [Next]_vars => OrderInv'
<1> SUFFICES ASSUME ShapeInv, OrderInv, [Next]_vars
             PROVE  OrderInv'
  OBVIOUS
<1> USE DEF page, posts, service, position, stream, counts
<1>0. /\ Len(events) \in Nat /\ made \in Nat /\ quiz \in Nat
      /\ \A i \in 1..Len(events) : events[i] \in EventType /\ events[i].sheet[1] \in Nat
  <2>1. Len(events) \in Nat /\ made \in Nat /\ quiz \in Nat
    BY LenProperties DEF ShapeInv
  <2>2. \A i \in 1..Len(events) : events[i] \in EventType
    BY ElementOfSeq DEF ShapeInv
  <2>3. \A e \in EventType : e.sheet[1] \in Nat
    BY DEF EventType, SheetType
  <2> QED
    BY <2>1, <2>2, <2>3
<1>1. CASE events' = events /\ UNCHANGED <<quiz, made>>
  BY <1>1 DEF OrderInv
<1>2. ASSUME NEW n \in {1, 2}, Grown(n), quiz' = quiz, made' = made,
             \A i \in 1..n : ~IsQuiz(events'[Len(events) + i]) \/ events'[Len(events) + i].sheet = NoSheet
      PROVE  OrderInv'
  <2>1. ASSUME NEW i \in 1..Len(events'), IsQuiz(events'[i]), events'[i].sheet # NoSheet
        PROVE  i \in 1..Len(events)
    <3>1. i \in 1..Len(events) \/ \E m \in 1..n : i = Len(events) + m
      BY <1>0, <1>2 DEF Grown
    <3> QED
      BY <1>2, <2>1, <3>1
  <2>2. \A i \in 1..Len(events) : \A j \in 1..(i - 1) : j \in 1..Len(events) /\ events'[j] = events[j]
    BY <1>0, <1>2 DEF Grown
  <2> QED
    BY <1>0, <1>2, <2>1, <2>2 DEF OrderInv, Grown
<1>3. CASE WorkflowQuiz /\ Grown(1) /\ events'[Len(events) + 1] = Progress("quiz")
  BY <1>2, <1>3, Records DEF WorkflowQuiz, IsQuiz
<1>4. CASE /\ Begin /\ Grown(1)
           /\ \/ events'[Len(events) + 1] = Progress("quiz") /\ job'.kind = "quiz"
              \/ events'[Len(events) + 1] = Progress("eval") /\ job'.kind = "eval"
  BY <1>2, <1>4, Records DEF Begin, IsQuiz
<1>4a. CASE Grown(1) /\ events'[Len(events) + 1] = Progress("eval") /\ UNCHANGED <<quiz, made>>
  BY <1>2, <1>4a, Records DEF IsQuiz
<1>5. CASE /\ Finish /\ Grown(2) /\ events'[Len(events) + 1] = Progress(job.kind)
           /\ \E s \in SheetType : events'[Len(events) + 2] = Tokens(job.kind, s) /\ Outcome(s)
  <2>1. PICK s \in SheetType : events'[Len(events) + 2] = Tokens(job.kind, s) /\ Outcome(s)
    BY <1>5
  <2>2. /\ job.kind \in {"quiz", "eval"} /\ quiz' = quiz
        /\ ~IsQuiz(events'[Len(events) + 1])
        /\ IsQuiz(events'[Len(events) + 2]) <=> job.kind = "quiz"
        /\ events'[Len(events) + 2].sheet = s
    BY <1>5, <2>1, Records DEF Finish, IsQuiz
  <2>3. CASE made' = made /\ (job.kind = "eval" \/ s = NoSheet)
    BY <1>2, <1>5, <2>2, <2>3
  <2>4. CASE job.kind = "quiz" /\ s = <<made + 1, 0>> /\ made' = made + 1
    <3>1. ASSUME NEW i \in 1..Len(events'), IsQuiz(events'[i]), events'[i].sheet # NoSheet
          PROVE  /\ quiz < events'[i].sheet[1] /\ events'[i].sheet[1] <= made + 1
                 /\ \A j \in 1..(i - 1) : IsQuiz(events'[j]) => events'[j].sheet[1] < events'[i].sheet[1]
      <4>1. CASE i \in 1..Len(events)
        <5>1. events'[i] = events[i] /\ \A j \in 1..(i - 1) : j \in 1..Len(events) /\ events'[j] = events[j]
          BY <1>0, <1>5, <4>1 DEF Grown
        <5>2. events[i].sheet[1] <= made => events[i].sheet[1] <= made + 1
          BY <1>0, <4>1
        <5> QED
          BY <3>1, <4>1, <5>1, <5>2 DEF OrderInv
      <4>2. CASE i = Len(events) + 2
        <5>1. events'[i].sheet[1] = made + 1 /\ quiz <= made
          BY <2>2, <2>4, <4>2 DEF OrderInv
        <5>2. ASSUME NEW j \in 1..(i - 1), IsQuiz(events'[j])
              PROVE  events'[j].sheet[1] < made + 1
          <6>1. j \in 1..Len(events)
            BY <1>0, <2>2, <4>2, <5>2
          <6>2. events'[j] = events[j] /\ IsQuiz(events[j])
            BY <1>5, <5>2, <6>1 DEF Grown
          <6>3. events[j].sheet = NoSheet => events[j].sheet[1] = 0
            BY DEF NoSheet
          <6> QED
            BY <1>0, <6>1, <6>2, <6>3 DEF OrderInv
        <5> QED
          BY <1>0, <5>1, <5>2
      <4>3. i \in 1..Len(events) \/ i = Len(events) + 1 \/ i = Len(events) + 2
        BY <1>0, <1>5 DEF Grown
      <4> QED
        BY <2>2, <3>1, <4>1, <4>2, <4>3
    <3>2. quiz' <= made'
      BY <1>0, <2>2, <2>4 DEF OrderInv
    <3> QED
      BY <2>2, <2>4, <3>1, <3>2 DEF OrderInv
  <2> QED
    BY <2>1, <2>2, <2>3, <2>4 DEF Outcome
<1>6. CASE \E k \in 1..Len(events) : /\ Forward /\ Taken(k) /\ Handle(events[k])
                                     /\ \A j \in 1..(k - 1) : events[j].topic # events[k].topic
  <2>1. PICK k \in 1..Len(events) : /\ Taken(k) /\ Handle(events[k])
                                    /\ \A j \in 1..(k - 1) : events[j].topic # events[k].topic
                                    /\ made' = made
    BY <1>6 DEF Forward
  <2> DEFINE from(i) == IF i < k THEN i ELSE i + 1
  <2>2. \A i \in 1..Len(events') : /\ from(i) \in 1..Len(events) /\ from(i) # k
                                   /\ events'[i] = events[from(i)]
                                   /\ \A j \in 1..(i - 1) : j \in 1..Len(events') /\ from(j) \in 1..(from(i) - 1)
    BY <1>0, <2>1 DEF Taken
  <2>3. \/ quiz' = quiz
        \/ IsQuiz(events[k]) /\ events[k].sheet # NoSheet /\ quiz' = events[k].sheet[1]
    BY <1>0, <2>1 DEF Handle, OnQuiz, OnQuizProgress, OnEvalProgress, OnEvaluation, IsQuiz, EventType
  <2> HIDE DEF from
  <2>4. ASSUME NEW i \in 1..Len(events'), IsQuiz(events'[i]), events'[i].sheet # NoSheet
        PROVE  quiz' < events'[i].sheet[1]
    <3>1. CASE quiz' = quiz
      BY <2>2, <2>4, <3>1 DEF OrderInv
    <3>2. CASE IsQuiz(events[k]) /\ events[k].sheet # NoSheet /\ quiz' = events[k].sheet[1]
      <4>1. k < from(i)
        <5>1. events[from(i)].topic = events[k].topic /\ from(i) \in 1..Len(events) /\ from(i) # k
          BY <2>2, <2>4, <3>2 DEF IsQuiz
        <5>2. from(i) \notin 1..(k - 1)
          BY <2>1, <5>1
        <5> QED
          BY <1>0, <5>1, <5>2
      <4>2. k \in 1..(from(i) - 1) /\ from(i) \in 1..Len(events)
        BY <1>0, <2>2, <4>1
      <4> QED
        BY <2>2, <2>4, <3>2, <4>2 DEF OrderInv
    <3> QED
      BY <2>3, <3>1, <3>2
  <2>5. quiz' <= made
    BY <2>3 DEF OrderInv
  <2> QED
    BY <2>1, <2>2, <2>4, <2>5 DEF OrderInv
<1> QED
  BY <1>1, <1>3, <1>4, <1>4a, <1>5, <1>6, EventsStep

-----------------------------------------------------------------------------
(* A quiz comes only when one is wanted.                                   *)

\* The events change, but for one that is no quiz.
NothingOfQuizzes ==
  \/ events' = events
  \/ \E n \in {1, 2} : Grown(n) /\ \A i \in 1..n : ~IsQuiz(events'[Len(events) + i])
  \/ \E k \in 1..Len(events) : Taken(k) /\ ~IsQuiz(events[k])

LEMMA QuizzesStay ==
  ASSUME ShapeInv, NothingOfQuizzes
  PROVE  /\ NoQuiz => NoQuiz'
         /\ \A k : OnlyQuiz(k) => \E m : OnlyQuiz(m)'
<1>0. Len(events) \in Nat
  BY LenProperties DEF ShapeInv
<1>1. CASE events' = events
  BY <1>1 DEF NoQuiz, OnlyQuiz
<1>2. ASSUME NEW n \in {1, 2}, Grown(n), \A i \in 1..n : ~IsQuiz(events'[Len(events) + i])
      PROVE  /\ Len(events) <= Len(events')
             /\ \A i \in 1..Len(events') : IsQuiz(events'[i]) => i \in 1..Len(events) /\ events'[i] = events[i]
             /\ \A i \in 1..Len(events) : events'[i] = events[i]
  <2>1. ASSUME NEW i \in 1..Len(events')
        PROVE  i \in 1..Len(events) \/ \E m \in 1..n : i = Len(events) + m
    BY <1>0, <1>2 DEF Grown
  <2>2. Len(events) <= Len(events') /\ \A i \in 1..Len(events) : events'[i] = events[i]
    BY <1>0, <1>2 DEF Grown
  <2> QED
    BY <1>2, <2>1, <2>2
<1>3. ASSUME NEW k \in 1..Len(events), Taken(k), ~IsQuiz(events[k])
      PROVE  /\ NoQuiz => NoQuiz'
             /\ \A q : OnlyQuiz(q) => \E m : OnlyQuiz(m)'
  <2> DEFINE from(i) == IF i < k THEN i ELSE i + 1
  <2>1. \A i \in 1..Len(events') : /\ from(i) \in 1..Len(events)
                                   /\ events'[i] = events[from(i)]
                                   /\ \A j \in 1..Len(events') : from(j) = from(i) => j = i
    BY <1>0, <1>3 DEF Taken
  <2>2. \A i \in 1..Len(events) : i # k => \E j \in 1..Len(events') : from(j) = i
    <3> TAKE i \in 1..Len(events)
    <3> HAVE i # k
    <3>1. CASE i < k
      <4>1. i \in 1..Len(events') /\ from(i) = i
        BY <1>0, <1>3, <3>1 DEF Taken
      <4> QED
        BY <4>1
    <3>2. CASE ~(i < k)
      <4>1. i - 1 \in 1..Len(events') /\ from(i - 1) = i
        BY <1>0, <1>3, <3>2 DEF Taken
      <4> QED
        BY <4>1
    <3> QED
      BY <3>1, <3>2
  <2> HIDE DEF from
  <2>3. NoQuiz => NoQuiz'
    BY <2>1 DEF NoQuiz
  <2>4. ASSUME NEW q, OnlyQuiz(q)
        PROVE  \E m : OnlyQuiz(m)'
    <3>1. PICK m \in 1..Len(events') : from(m) = q
      BY <1>3, <2>2, <2>4 DEF OnlyQuiz
    <3>2. OnlyQuiz(m)'
      BY <2>1, <2>4, <3>1 DEF OnlyQuiz
    <3> QED
      BY <3>2
  <2> QED
    BY <2>3, <2>4
<1>4. CASE \E n \in {1, 2} : Grown(n) /\ \A i \in 1..n : ~IsQuiz(events'[Len(events) + i])
  <2>1. /\ Len(events) <= Len(events')
        /\ \A i \in 1..Len(events') : IsQuiz(events'[i]) => i \in 1..Len(events) /\ events'[i] = events[i]
        /\ \A i \in 1..Len(events) : events'[i] = events[i] /\ i \in 1..Len(events')
    BY <1>0, <1>2, <1>4 DEF Grown
  <2>2. NoQuiz => NoQuiz'
    BY <2>1 DEF NoQuiz
  <2>3. \A k : OnlyQuiz(k) => OnlyQuiz(k)'
    BY <2>1 DEF OnlyQuiz
  <2> QED
    BY <2>2, <2>3
<1> QED
  BY <1>1, <1>3, <1>4 DEF NothingOfQuizzes

AskedHere == NoneAsked \/ QuizPosted \/ QuizQueued \/ QuizMade \/ \E k : QuizAt(k)

LEMMA AskedStays ==
  ASSUME ShapeInv, NothingOfQuizzes, AskedHere,
         quizRequests' = quizRequests, job'.kind = "quiz" <=> job.kind = "quiz",
         isLoading => isLoading', wanted => wanted',
         quizPost' = quizPost \/ (quizPost = "ok" /\ quizPost' = "none")
  PROVE  AskedHere'
<1>1. CASE NoneAsked
  BY <1>1, QuizzesStay DEF NoneAsked, AskedHere
<1>2. CASE QuizPosted
  BY <1>2, QuizzesStay DEF QuizPosted, AskedHere
<1>3. CASE QuizQueued
  BY <1>3, QuizzesStay DEF QuizQueued, Coming, AskedHere
<1>4. CASE QuizMade
  BY <1>4, QuizzesStay DEF QuizMade, Coming, AskedHere
<1>5. CASE \E k : QuizAt(k)
  <2>1. PICK k : QuizAt(k)
    BY <1>5
  <2>2. PICK m : OnlyQuiz(m)'
    BY <2>1, QuizzesStay DEF QuizAt
  <2>3. QuizAt(m)'
    BY <2>1, <2>2 DEF QuizAt, Coming
  <2> QED
    BY <2>3 DEF AskedHere
<1> QED
  BY <1>1, <1>2, <1>3, <1>4, <1>5 DEF AskedHere

LEMMA AskedStep == ShapeInv /\ AskedInv /\ [Next]_vars => AskedInv'
<1> SUFFICES ASSUME ShapeInv, AskedInv, [Next]_vars,
                    world \cap {"workflow", "unconfirmed"} = {}, "quiz" \notin repeated'
             PROVE  (isRequesting <=> quizPost # "none")' /\ AskedHere'
  BY WorldStays DEF AskedInv, AskedHere
<1> USE DEF page, posts, service, position, stream, counts
<1>0. /\ isRequesting <=> quizPost # "none"
      /\ AskedHere
      /\ "workflow" \notin world /\ "unconfirmed" \notin world
  BY WorldStays DEF AskedInv, AskedHere
<1>1. CASE Generate
  <2>1. CASE quizPost' = "sent" /\ isRequesting' /\ isLoading' /\ wanted'
    <3>1. NoneAsked
      BY <1>0, <1>1 DEF Generate, AskedHere, QuizPosted, QuizQueued, QuizMade, QuizAt, Coming
    <3>2. QuizPosted'
      BY <1>1, <2>1, <3>1 DEF Generate, NoneAsked, QuizPosted, NoQuiz
    <3> QED
      BY <2>1, <3>2 DEF AskedHere
  <2>2. CASE UNCHANGED <<isLoading, isRequesting, quizPost, asked, wanted>>
    BY <1>0, <1>1, <2>2, AskedStays DEF Generate, NothingOfQuizzes
  <2> QED
    BY <1>1, <2>1, <2>2 DEF Generate
<1>2. CASE QuizReply
  <2>1. quizPost' = "none" /\ ~isRequesting'
    BY <1>2 DEF QuizReply
  <2>2. CASE quizPost = "ok"
    BY <1>0, <1>2, <2>1, <2>2, AskedStays DEF QuizReply, NothingOfQuizzes
  <2>3. CASE quizPost = "error"
    <3>1. QuizPosted
      BY <1>0, <2>3 DEF AskedHere, NoneAsked, QuizQueued, QuizMade, QuizAt, Coming
    <3>2. NoneAsked'
      BY <1>2, <2>1, <3>1 DEF QuizReply, QuizPosted, NoneAsked, NoQuiz
    <3> QED
      BY <2>1, <3>2 DEF AskedHere
  <2> QED
    BY <1>2, <2>2, <2>3 DEF QuizReply
<1>3. CASE Edit \/ Submit \/ EvalReply \/ AcceptEval \/ Commit \/ UNCHANGED vars
  <2>1. UNCHANGED <<isRequesting, quizPost, quizRequests, job, events, isLoading, wanted>>
    BY <1>3 DEF Edit, Submit, EvalReply, AcceptEval, Commit, vars
  <2>2. /\ NothingOfQuizzes /\ (job'.kind = "quiz" <=> job.kind = "quiz")
        /\ (isLoading => isLoading') /\ (wanted => wanted') /\ (isRequesting' <=> isRequesting)
    BY <2>1 DEF NothingOfQuizzes
  <2>3. AskedHere'
    BY <1>0, <2>1, <2>2, AskedStays
  <2> QED
    BY <1>0, <2>1, <2>2, <2>3
<1>4. CASE AcceptQuiz
  <2>1. QuizPosted
    BY <1>0, <1>4 DEF AcceptQuiz, AskedHere, NoneAsked, QuizQueued, QuizMade, QuizAt, Coming
  <2>2. UNCHANGED <<isRequesting, job, events, isLoading, wanted>>
    BY <1>4 DEF AcceptQuiz
  <2>3. \/ quizPost' = "ok" /\ quizRequests' = 1
        \/ quizPost' = "error" /\ quizRequests' = 0
    BY <1>0, <1>4, <2>1 DEF AcceptQuiz, Told, QuizPosted
  <2>4. QuizQueued' \/ QuizPosted'
    BY <2>1, <2>2, <2>3 DEF QuizPosted, QuizQueued, Coming, NoQuiz
  <2> QED
    BY <1>0, <2>1, <2>2, <2>3, <2>4 DEF AskedHere, QuizPosted
<1>5. CASE WorkflowQuiz
  BY <1>0, <1>5 DEF WorkflowQuiz
<1>6. CASE Begin
  <2>1. /\ UNCHANGED <<isRequesting, quizPost, isLoading, wanted>> /\ job = NoJob
        /\ \/ quizRequests > 0 /\ quizRequests' = quizRequests - 1 /\ job'.kind = "quiz"
           \/ quizRequests' = quizRequests /\ job'.kind = "eval"
    BY <1>6 DEF Begin
  <2>1a. (isLoading => isLoading') /\ (wanted => wanted') /\ (isRequesting' <=> isRequesting)
    BY <1>6 DEF Begin
  <2>2. Grown(1) /\ ~IsQuiz(events'[Len(events) + 1])
    BY <1>6, OneMore, Records DEF Begin, IsQuiz
  <2>3. NothingOfQuizzes /\ job.kind # "quiz"
    BY <2>1, <2>2 DEF NothingOfQuizzes, NoJob
  <2>4. CASE quizRequests' = quizRequests /\ job'.kind = "eval"
    <3>1. AskedHere'
      BY <1>0, <2>1, <2>1a, <2>3, <2>4, AskedStays
    <3> QED
      BY <1>0, <2>1, <2>1a, <3>1
  <2>5. CASE quizRequests > 0 /\ quizRequests' = quizRequests - 1 /\ job'.kind = "quiz"
    <3>1. QuizQueued
      BY <1>0, <2>5 DEF AskedHere, NoneAsked, QuizPosted, QuizMade, QuizAt
    <3>2. QuizMade'
      BY <2>1, <2>1a, <2>3, <2>5, <3>1, QuizzesStay DEF QuizQueued, QuizMade, Coming
    <3> QED
      BY <1>0, <2>1, <2>1a, <3>2 DEF AskedHere
  <2> QED
    BY <2>1, <2>4, <2>5
<1>7. CASE Finish
  <2>1. /\ UNCHANGED <<isRequesting, quizPost, isLoading, wanted, quizRequests>>
        /\ job'.kind = "none" /\ job.kind \in {"quiz", "eval"}
    BY <1>7 DEF Finish, NoJob
  <2>1a. (isLoading => isLoading') /\ (wanted => wanted') /\ (isRequesting' <=> isRequesting)
    BY <1>7 DEF Finish
  <2>2. PICK s \in SheetType : /\ Grown(2) /\ events'[Len(events) + 1] = Progress(job.kind)
                              /\ events'[Len(events) + 2] = Tokens(job.kind, s)
    <3>1. PICK s \in SheetType : events' = events \o <<Progress(job.kind), Tokens(job.kind, s)>>
      <4>1. <<made + 1, 0>> \in SheetType /\ NoSheet \in SheetType /\ job.sheet \in SheetType
        BY Records DEF ShapeInv, SheetType
      <4> QED
        BY <1>7, <4>1 DEF Finish
    <3> QED
      BY <2>1, <3>1, TwoMore, Records
  <2>3. ~IsQuiz(events'[Len(events) + 1]) /\ (IsQuiz(events'[Len(events) + 2]) <=> job.kind = "quiz")
    BY <2>1, <2>2, Records DEF IsQuiz
  <2>4. CASE job.kind = "eval"
    <3>1. NothingOfQuizzes
      BY <2>2, <2>3, <2>4 DEF NothingOfQuizzes
    <3>2. AskedHere'
      BY <1>0, <2>1, <2>1a, <2>4, <3>1, AskedStays
    <3> QED
      BY <1>0, <2>1, <2>1a, <3>2
  <2>5. CASE job.kind = "quiz"
    <3>1. QuizMade
      BY <1>0, <2>5 DEF AskedHere, NoneAsked, QuizPosted, QuizQueued, QuizAt
    <3>2. PICK k : k = Len(events) + 2
      OBVIOUS
    <3>3. Len(events) \in Nat
      BY LenProperties DEF ShapeInv
    <3>4. k \in 1..Len(events') /\ IsQuiz(events'[k])
      BY <2>2, <2>3, <2>5, <3>2, <3>3 DEF Grown
    <3>5. ASSUME NEW i \in 1..Len(events'), i # k
          PROVE  ~IsQuiz(events'[i])
      <4>1. i \in 1..Len(events) \/ i = Len(events) + 1
        BY <2>2, <3>2, <3>3, <3>5 DEF Grown
      <4> QED
        BY <2>2, <2>3, <3>1, <4>1 DEF Grown, QuizMade, NoQuiz
    <3>6. OnlyQuiz(k)'
      BY <3>4, <3>5 DEF OnlyQuiz, IsQuiz
    <3>7. QuizAt(k)'
      BY <2>1, <2>1a, <3>1, <3>6 DEF QuizAt, QuizMade, Coming
    <3> QED
      BY <1>0, <2>1, <2>1a, <3>7 DEF AskedHere
  <2> QED
    BY <2>1, <2>4, <2>5
<1>8. CASE Forward
  <2>0. /\ UNCHANGED <<isRequesting, quizPost, quizRequests, job>>
        /\ isRequesting' <=> isRequesting
    BY <1>8 DEF Forward
  <2>1. PICK k \in 1..Len(events) : Taken(k) /\ Handle(events[k])
    BY <1>8, ForwardTakes
  <2>2. Len(events) \in Nat /\ events[k] \in EventType
    BY ElementOfSeq, LenProperties DEF ShapeInv
  <2>3. CASE ~IsQuiz(events[k])
    <3>1. (wanted => wanted') /\ (isLoading => isLoading')
      BY <2>1, <2>2, <2>3 DEF IsQuiz, EventType, Handle, OnQuizProgress, OnEvalProgress, OnEvaluation
    <3>2. NothingOfQuizzes
      BY <2>1, <2>3 DEF NothingOfQuizzes
    <3>3. AskedHere'
      BY <1>0, <2>0, <3>1, <3>2, AskedStays
    <3> QED
      BY <1>0, <2>0, <3>3
  <2>4. CASE IsQuiz(events[k])
    <3>1. QuizAt(k)
      BY <1>0, <2>4 DEF AskedHere, NoneAsked, QuizPosted, QuizQueued, QuizMade, QuizAt, NoQuiz, OnlyQuiz
    <3>2. NoQuiz'
      <4>1. ASSUME NEW i \in 1..Len(events')
            PROVE  ~IsQuiz(events'[i])
        <5>1. \E j \in 1..Len(events) : j # k /\ events'[i] = events[j]
          BY <2>1, <2>2 DEF Taken
        <5> QED
          BY <3>1, <5>1 DEF QuizAt, OnlyQuiz
      <4> QED
        BY <4>1 DEF NoQuiz, IsQuiz
    <3>3. NoneAsked'
      BY <2>0, <3>1, <3>2 DEF NoneAsked, QuizAt, Coming
    <3> QED
      BY <1>0, <2>0, <3>3 DEF AskedHere
  <2> QED
    BY <2>3, <2>4
<1>9. CASE Restart
  <2>1. UNCHANGED <<isRequesting, quizPost, isLoading, wanted>> /\ job'.kind = "none"
    BY <1>9 DEF Restart, NoJob
  <2>1a. (isLoading => isLoading') /\ (wanted => wanted') /\ (isRequesting' <=> isRequesting)
    BY <1>9 DEF Restart
  <2>2. quizRequests' = quizRequests + (IF job.kind = "quiz" THEN 1 ELSE 0) /\ quizRequests \in Nat
    BY <1>9, RestartGives DEF ShapeInv
  <2>3. NothingOfQuizzes
    <3>1. events' = events \/ events' = Append(events, Progress("eval"))
      BY <1>9 DEF Restart
    <3>2. (Grown(1) /\ ~IsQuiz(events'[Len(events) + 1])) \/ events' = events
      BY <3>1, OneMore, Records DEF IsQuiz
    <3> QED
      BY <3>2 DEF NothingOfQuizzes
  <2>4. CASE job.kind # "quiz"
    <3>1. quizRequests' = quizRequests /\ job'.kind # "quiz"
      BY <2>1, <2>2, <2>4
    <3>2. AskedHere'
      BY <1>0, <2>1, <2>1a, <2>3, <2>4, <3>1, AskedStays
    <3> QED
      BY <1>0, <2>1, <2>1a, <3>2
  <2>5. CASE job.kind = "quiz"
    <3>1. QuizMade
      BY <1>0, <2>5 DEF AskedHere, NoneAsked, QuizPosted, QuizQueued, QuizAt
    <3>2. quizRequests' = 1
      BY <2>2, <2>5, <3>1 DEF QuizMade
    <3>3. QuizQueued'
      BY <2>1, <2>1a, <2>3, <3>1, <3>2, QuizzesStay DEF QuizQueued, QuizMade, Coming
    <3> QED
      BY <1>0, <2>1, <2>1a, <3>3 DEF AskedHere
  <2> QED
    BY <2>4, <2>5
<1> QED
  BY <1>1, <1>2, <1>3, <1>4, <1>5, <1>6, <1>7, <1>8, <1>9 DEF Next

-----------------------------------------------------------------------------
(* One evaluation at a time.                                               *)

\* The events change, but for one of an evaluation that matters.
NothingOfEvals ==
  \/ events' = events
  \/ \E n \in {1, 2} : Grown(n) /\ \A i \in 1..n : events'[Len(events) + i].page = "quiz"
  \/ \E k \in 1..Len(events) : Taken(k) /\ ~IsResult(events[k])

LEMMA EvalsStay ==
  ASSUME ShapeInv, NothingOfEvals, overtaken \subseteq overtaken'
  PROVE  /\ NoResult => NoResult'
         /\ NoNews => NoNews'
         /\ \A k : OnlyResult(k) => \E m : OnlyResult(m)' /\ events'[m] = events[k]
<1>0. Len(events) \in Nat
  BY LenProperties DEF ShapeInv
<1>1. CASE events' = events
  BY <1>1 DEF NoResult, NoNews, OnlyResult
<1>2. ASSUME NEW n \in {1, 2}, Grown(n), \A i \in 1..n : events'[Len(events) + i].page = "quiz"
      PROVE  /\ Len(events) <= Len(events')
             /\ \A i \in 1..Len(events') : events'[i].page # "quiz" => i \in 1..Len(events) /\ events'[i] = events[i]
             /\ \A i \in 1..Len(events) : events'[i] = events[i] /\ i \in 1..Len(events')
  <2>1. ASSUME NEW i \in 1..Len(events')
        PROVE  i \in 1..Len(events) \/ \E m \in 1..n : i = Len(events) + m
    BY <1>0, <1>2 DEF Grown
  <2>2. Len(events) <= Len(events') /\ \A i \in 1..Len(events) : events'[i] = events[i] /\ i \in 1..Len(events')
    BY <1>0, <1>2 DEF Grown
  <2> QED
    BY <1>2, <2>1, <2>2
<1>3. CASE \E n \in {1, 2} : Grown(n) /\ \A i \in 1..n : events'[Len(events) + i].page = "quiz"
  <2>1. /\ Len(events) <= Len(events')
        /\ \A i \in 1..Len(events') : events'[i].page # "quiz" => i \in 1..Len(events) /\ events'[i] = events[i]
        /\ \A i \in 1..Len(events) : events'[i] = events[i] /\ i \in 1..Len(events')
    BY <1>2, <1>3
  <2>2. NoResult => NoResult'
    BY <2>1 DEF NoResult, IsResult
  <2>3. NoNews => NoNews'
    BY <2>1 DEF NoNews
  <2>4. \A k : OnlyResult(k) => OnlyResult(k)' /\ events'[k] = events[k]
    BY <2>1 DEF OnlyResult, IsResult
  <2> QED
    BY <2>2, <2>3, <2>4
<1>4. ASSUME NEW k \in 1..Len(events), Taken(k), ~IsResult(events[k])
      PROVE  /\ NoResult => NoResult'
             /\ NoNews => NoNews'
             /\ \A q : OnlyResult(q) => \E m : OnlyResult(m)' /\ events'[m] = events[q]
  <2> DEFINE from(i) == IF i < k THEN i ELSE i + 1
  <2>1. \A i \in 1..Len(events') : /\ from(i) \in 1..Len(events)
                                   /\ events'[i] = events[from(i)]
                                   /\ \A j \in 1..Len(events') : /\ from(j) = from(i) => j = i
                                                                 /\ j > i => from(j) > from(i)
    BY <1>0, <1>4 DEF Taken
  <2>2. \A i \in 1..Len(events) : i # k => \E j \in 1..Len(events') : from(j) = i
    <3> TAKE i \in 1..Len(events)
    <3> HAVE i # k
    <3>1. CASE i < k
      <4>1. i \in 1..Len(events') /\ from(i) = i
        BY <1>0, <1>4, <3>1 DEF Taken
      <4> QED
        BY <4>1
    <3>2. CASE ~(i < k)
      <4>1. i - 1 \in 1..Len(events') /\ from(i - 1) = i
        BY <1>0, <1>4, <3>2 DEF Taken
      <4> QED
        BY <4>1
    <3> QED
      BY <3>1, <3>2
  <2> HIDE DEF from
  <2>3. NoResult => NoResult'
    BY <2>1 DEF NoResult
  <2>4. NoNews => NoNews'
    BY <2>1 DEF NoNews
  <2>5. ASSUME NEW q, OnlyResult(q)
        PROVE  \E m : OnlyResult(m)' /\ events'[m] = events[q]
    <3>1. PICK m \in 1..Len(events') : from(m) = q
      BY <1>4, <2>2, <2>5 DEF OnlyResult
    <3>2. OnlyResult(m)'
      BY <2>1, <2>5, <3>1 DEF OnlyResult
    <3> QED
      BY <2>1, <3>1, <3>2
  <2> QED
    BY <2>3, <2>4, <2>5
<1> QED
  BY <1>1, <1>3, <1>4 DEF NothingOfEvals

\* No request is added, and no status changes but from "ok".
PostsStay ==
  /\ Len(evalPosts') = Len(evalPosts) /\ TheSheet' = TheSheet
  /\ \A k \in 1..Len(evalPosts) : evalPosts'[k].status = evalPosts[k].status \/ (Settled(k) /\ Settled(k)')

LEMMA EvalStays ==
  ASSUME ShapeInv, NothingOfEvals, PostsStay, EvalHere, overtaken \subseteq overtaken',
         evalRequests' = evalRequests,
         job'.kind = "eval" <=> job.kind = "eval", job.kind = "eval" => job'.sheet = job.sheet,
         Loading => Loading', Loading' => Loading \/ "eval" \in overtaken
  PROVE  EvalHere'
<1>0. Len(evalPosts) \in Nat
  BY LenProperties DEF ShapeInv
<1>1. AllSettled => AllSettled'
  BY DEF AllSettled, Settled, PostsStay
<1>2. CASE Quiet /\ (Loading => "eval" \in overtaken)
  BY <1>1, <1>2, EvalsStay DEF Quiet, EvalHere
<1>3. CASE Posted /\ Loading
  <2>1. Posted'
    BY <1>0, <1>3, EvalsStay DEF Posted, PostsStay, Settled
  <2> QED
    BY <1>3, <2>1 DEF EvalHere, InProgress
<1>4. CASE Queued /\ Loading
  BY <1>1, <1>4, EvalsStay DEF Queued, PostsStay, EvalHere, InProgress
<1>5. CASE Graded /\ Loading
  BY <1>1, <1>5, EvalsStay DEF Graded, PostsStay, EvalHere, InProgress
<1>6. CASE (\E k : ArrivesAt(k)) /\ Loading
  <2>1. PICK k : ArrivesAt(k)
    BY <1>6
  <2>2. PICK m : OnlyResult(m)' /\ events'[m] = events[k]
    BY <2>1, EvalsStay DEF ArrivesAt
  <2>3. ArrivesAt(m)'
    BY <1>1, <2>1, <2>2 DEF ArrivesAt, PostsStay
  <2> QED
    BY <1>6, <2>3 DEF EvalHere, InProgress
<1> QED
  BY <1>2, <1>3, <1>4, <1>5, <1>6 DEF EvalHere, InProgress

LEMMA EvalStep == ShapeInv /\ EvalInv /\ [Next]_vars => EvalInv'
<1> SUFFICES ASSUME ShapeInv, EvalInv, [Next]_vars,
                    "unconfirmed" \notin world, "eval" \notin repeated'
             PROVE  EvalHere' /\ ReadyInv'
  BY WorldStays DEF EvalInv
<1> USE DEF page, posts, service, position, stream, counts
<1>0. EvalHere /\ ReadyInv /\ overtaken \subseteq overtaken' /\ Len(evalPosts) \in Nat /\ Len(events) \in Nat
  BY WorldStays, LenProperties DEF EvalInv, ShapeInv
<1>1. CASE Generate \/ QuizReply \/ Edit \/ AcceptQuiz \/ Commit \/ UNCHANGED vars
  <2>1. UNCHANGED <<evaluation, evalPosts, evalRequests, job, events>>
    BY <1>1 DEF Generate, QuizReply, Edit, AcceptQuiz, Commit, vars
  <2>2. PostsStay /\ NothingOfEvals /\ (Loading' <=> Loading)
    BY <2>1 DEF PostsStay, NothingOfEvals, Loading, TheSheet
  <2>3. EvalHere'
    BY <1>0, <2>1, <2>2, EvalStays
  <2> QED
    BY <1>0, <2>1, <2>3 DEF ReadyInv, TheSheet
<1>2. CASE Submit
  <2>1. Quiet /\ evaluation' = [status |-> "loading", sheet |-> NoSheet]
    BY <1>0, <1>2 DEF Submit, EvalHere, Loading
  <2>2. UNCHANGED <<evalRequests, job, events>>
    BY <1>2 DEF Submit
  <2>3. NoResult' /\ NoNews'
    BY <1>0, <2>1, <2>2 DEF Quiet, NoResult, NoNews
  <2>4. /\ Len(evalPosts') = Len(evalPosts) + 1
        /\ \A k \in 1..Len(evalPosts) : evalPosts'[k] = evalPosts[k]
        /\ evalPosts'[Len(evalPosts) + 1].status = "sent"
    BY <1>2, SubmitAdds
  <2>5. /\ Len(evalPosts') # 0 /\ evalPosts'[Len(evalPosts')].status = "sent"
        /\ \A k \in 1..(Len(evalPosts') - 1) : Settled(k)'
    BY <1>0, <2>1, <2>4 DEF Quiet, AllSettled, Settled
  <2>6. Posted'
    BY <2>1, <2>2, <2>3, <2>5 DEF Quiet, Posted
  <2> QED
    BY <2>1, <2>6 DEF EvalHere, InProgress, Loading, ReadyInv
<1>3. CASE EvalReply
  <2>1. PICK r \in DOMAIN evalPosts :
          /\ evalPosts[r].status \in {"ok", "error"}
          /\ evalPosts' = [evalPosts EXCEPT ![r].status = "replied"]
          /\ IF evalPosts[r].status = "error"
             THEN evaluation' = [status |-> "error", sheet |-> NoSheet]
             ELSE evaluation' = evaluation
    BY <1>3 DEF EvalReply
  <2>2. /\ r \in 1..Len(evalPosts) /\ Len(evalPosts') = Len(evalPosts)
        /\ \A k \in 1..Len(evalPosts) : /\ evalPosts'[k].sheet = evalPosts[k].sheet
                                        /\ evalPosts'[k].status = IF k = r THEN "replied" ELSE evalPosts[k].status
    BY <2>1, StatusStep DEF Status
  <2>3. UNCHANGED <<evalRequests, job, events>>
    BY <1>3 DEF EvalReply
  <2>4. CASE evalPosts[r].status = "ok"
    <3>1. TheSheet' = TheSheet
      BY <1>0, <2>2 DEF TheSheet
    <3>2. PostsStay /\ NothingOfEvals /\ (Loading' <=> Loading)
      BY <2>1, <2>2, <2>3, <2>4, <3>1 DEF PostsStay, NothingOfEvals, Loading, Settled
    <3>3. EvalHere'
      BY <1>0, <2>3, <3>2, EvalStays
    <3> QED
      BY <1>0, <2>1, <2>4, <3>1, <3>3 DEF ReadyInv
  <2>5. CASE evalPosts[r].status = "error"
    <3>1. Posted /\ r = Len(evalPosts)
      BY <1>0, <2>2, <2>5 DEF EvalHere, InProgress, Quiet, Posted, Queued, Graded, ArrivesAt, AllSettled, Settled
    <3>2. AllSettled'
      BY <1>0, <2>2, <3>1 DEF Posted, AllSettled, Settled
    <3>3. Quiet'
      BY <1>0, <2>3, <3>1, <3>2 DEF Posted, Quiet, NoResult, NoNews
    <3> QED
      BY <2>1, <2>5, <3>3 DEF EvalHere, Loading, ReadyInv
  <2> QED
    BY <2>1, <2>4, <2>5
<1>4. CASE AcceptEval
  <2>1. PICK r \in DOMAIN evalPosts, s \in {"ok", "error"} :
          /\ evalPosts[r].status = "sent"
          /\ evalPosts' = [evalPosts EXCEPT ![r].status = s]
          /\ evalRequests' = IF s = "ok" THEN Append(evalRequests, evalPosts[r].sheet)
                             ELSE evalRequests
    <3>1. PICK r \in DOMAIN evalPosts, published \in BOOLEAN :
            /\ evalPosts[r].status = "sent"
            /\ \E s \in Told(published) : evalPosts' = [evalPosts EXCEPT ![r].status = s]
            /\ evalRequests' = IF published THEN Append(evalRequests, evalPosts[r].sheet)
                               ELSE evalRequests
      BY <1>4 DEF AcceptEval
    <3>2. \A s \in Told(published) : s \in {"ok", "error"} /\ (s = "ok" <=> published)
      BY DEF Told
    <3> QED
      BY <3>1, <3>2
  <2>2. /\ r \in 1..Len(evalPosts) /\ Len(evalPosts') = Len(evalPosts)
        /\ \A k \in 1..Len(evalPosts) : /\ evalPosts'[k].sheet = evalPosts[k].sheet
                                        /\ evalPosts'[k].status = IF k = r THEN s ELSE evalPosts[k].status
    BY <2>1, StatusStep DEF Status
  <2>3. UNCHANGED <<evaluation, job, events>>
    BY <1>4 DEF AcceptEval
  <2>4. Posted /\ r = Len(evalPosts) /\ Loading
    BY <1>0, <2>1, <2>2 DEF EvalHere, InProgress, Quiet, Posted, Queued, Graded, ArrivesAt, AllSettled, Settled
  <2>5. TheSheet' = TheSheet /\ Loading' /\ NoResult' /\ NoNews'
    BY <1>0, <2>2, <2>3, <2>4 DEF TheSheet, Loading, Posted, NoResult, NoNews
  <2>6. CASE s = "ok"
    <3>1. evalRequests' = <<TheSheet>>
      BY <2>1, <2>4, <2>6 DEF Posted, TheSheet
    <3>2. AllSettled'
      BY <1>0, <2>2, <2>4, <2>6 DEF Posted, AllSettled, Settled
    <3>3. Queued'
      BY <2>3, <2>4, <2>5, <3>1, <3>2 DEF Queued, Posted
    <3> QED
      BY <2>3, <2>4, <2>5, <3>3 DEF EvalHere, InProgress, ReadyInv, Loading
  <2>7. CASE s = "error"
    <3>1. Posted'
      <4>1. evalPosts'[Len(evalPosts')].status = "error" /\ Len(evalPosts') # 0
        BY <2>2, <2>4, <2>7
      <4>2. \A k \in 1..(Len(evalPosts') - 1) : Settled(k)'
        BY <1>0, <2>2, <2>4 DEF Posted, Settled
      <4>3. evalRequests' = <<>>
        BY <2>1, <2>4, <2>7 DEF Posted
      <4> QED
        BY <2>3, <2>4, <2>5, <4>1, <4>2, <4>3 DEF Posted
    <3> QED
      BY <2>3, <2>4, <2>5, <3>1 DEF EvalHere, InProgress, ReadyInv, Loading
  <2> QED
    BY <2>6, <2>7
<1>5. CASE WorkflowQuiz
  <2>1. UNCHANGED <<evaluation, evalPosts, evalRequests, job>>
    BY <1>5 DEF WorkflowQuiz
  <2>2. Grown(1) /\ events'[Len(events) + 1].page = "quiz"
    BY <1>5, OneMore, Records DEF WorkflowQuiz
  <2>3. PostsStay /\ NothingOfEvals /\ (Loading' <=> Loading)
    BY <2>1, <2>2 DEF PostsStay, NothingOfEvals, Loading, TheSheet
  <2>4. EvalHere'
    BY <1>0, <2>1, <2>3, EvalStays
  <2> QED
    BY <1>0, <2>1, <2>4 DEF ReadyInv, TheSheet
<1>6. CASE Begin
  <2>1. UNCHANGED <<evaluation, evalPosts>> /\ job.kind = "none"
    BY <1>6 DEF Begin, NoJob
  <2>2. CASE /\ events' = Append(events, Progress("quiz")) /\ job'.kind = "quiz"
             /\ evalRequests' = evalRequests
    <3>1. Grown(1) /\ events'[Len(events) + 1].page = "quiz"
      BY <2>2, OneMore, Records
    <3>2. PostsStay /\ NothingOfEvals /\ (Loading' <=> Loading)
      BY <2>1, <3>1 DEF PostsStay, NothingOfEvals, Loading, TheSheet
    <3>3. EvalHere'
      BY <1>0, <2>1, <2>2, <3>2, EvalStays
    <3> QED
      BY <1>0, <2>1, <3>3 DEF ReadyInv, TheSheet
  <2>3. CASE /\ evalRequests # <<>> /\ evalRequests' = Tail(evalRequests)
             /\ job' = [kind |-> "eval", sheet |-> Head(evalRequests)]
             /\ events' = Append(events, Progress("eval"))
    <3>1. Queued /\ Loading
      BY <1>0, <2>3 DEF EvalHere, InProgress, Quiet, Posted, Graded, ArrivesAt
    <3>2. evalRequests' = <<>> /\ job'.kind = "eval" /\ job'.sheet = TheSheet
      BY <2>3, <3>1 DEF Queued
    <3>3. Grown(1) /\ ~IsResult(events'[Len(events) + 1])
      BY <2>3, OneMore, Records DEF IsResult
    <3>4. ASSUME NEW i \in 1..Len(events')
          PROVE  ~IsResult(events'[i])
      <4>1. i \in 1..Len(events) \/ i = Len(events) + 1
        BY <1>0, <3>3 DEF Grown
      <4> QED
        BY <3>1, <3>3, <4>1 DEF Grown, Queued, NoResult
    <3>5. NoResult'
      BY <3>4 DEF NoResult, IsResult
    <3>6. Graded'
      BY <2>1, <3>1, <3>2, <3>5 DEF Graded, Queued, AllSettled, Settled, TheSheet
    <3> QED
      BY <2>1, <3>1, <3>6 DEF EvalHere, InProgress, Loading, ReadyInv
  <2> QED
    BY <1>6, <2>2, <2>3 DEF Begin
<1>7. CASE Finish
  <2>1. /\ UNCHANGED <<evaluation, evalPosts, evalRequests>>
        /\ job'.kind = "none"
    BY <1>7 DEF Finish, NoJob
  <2>2. CASE job.kind = "quiz"
    <3>1. PICK s \in SheetType : events' = events \o <<Progress("quiz"), Tokens("quiz", s)>>
      <4>1. <<made + 1, 0>> \in SheetType /\ NoSheet \in SheetType
        BY Records DEF ShapeInv, SheetType
      <4> QED
        BY <1>7, <2>2, <4>1 DEF Finish
    <3>2. /\ Grown(2) /\ events'[Len(events) + 1].page = "quiz" /\ events'[Len(events) + 2].page = "quiz"
      BY <3>1, TwoMore, Records
    <3>3. PostsStay /\ NothingOfEvals /\ (Loading' <=> Loading)
      BY <2>1, <3>2 DEF PostsStay, NothingOfEvals, Loading, TheSheet
    <3>4. EvalHere'
      BY <1>0, <2>1, <2>2, <3>3, EvalStays
    <3> QED
      BY <1>0, <2>1, <3>4 DEF ReadyInv, TheSheet
  <2>3. CASE job.kind = "eval"
    <3>1. Graded /\ Loading
      BY <1>0, <2>3 DEF EvalHere, InProgress, Quiet, Posted, Queued, ArrivesAt
    <3>2. PICK s : s = job.sheet /\ events' = events \o <<Progress("eval"), Tokens("eval", s)>>
      BY <1>7, <2>3 DEF Finish
    <3>3. s \in SheetType
      BY <3>2 DEF ShapeInv
    <3>4. /\ Grown(2) /\ ~IsResult(events'[Len(events) + 1])
          /\ IsResult(events'[Len(events) + 2]) /\ events'[Len(events) + 2].sheet = s
      BY <3>2, <3>3, TwoMore, Records DEF IsResult
    <3>5. PICK k : k = Len(events) + 2
      OBVIOUS
    <3>6. k \in 1..Len(events') /\ IsResult(events'[k]) /\ Len(events') = k
      BY <1>0, <3>4, <3>5 DEF Grown
    <3>7. ASSUME NEW i \in 1..Len(events'), i # k
          PROVE  ~IsResult(events'[i])
      <4>1. i \in 1..Len(events) \/ i = Len(events) + 1
        BY <1>0, <3>4, <3>5, <3>7 DEF Grown
      <4> QED
        BY <3>1, <3>4, <4>1 DEF Grown, Graded, NoResult
    <3>8. \A i \in 1..Len(events') : ~(i > k)
      BY <1>0, <3>5, <3>6
    <3>9. OnlyResult(k)'
      BY <3>6, <3>7, <3>8 DEF OnlyResult, IsResult
    <3>10. ArrivesAt(k)'
      BY <2>1, <3>1, <3>2, <3>4, <3>5, <3>9 DEF ArrivesAt, Graded, AllSettled, Settled, TheSheet
    <3> QED
      BY <2>1, <3>1, <3>10 DEF EvalHere, InProgress, Loading, ReadyInv
  <2> QED
    BY <1>7, <2>2, <2>3 DEF Finish
<1>8. CASE Forward
  <2>1. PICK k \in 1..Len(events) : /\ Taken(k) /\ Handle(events[k])
                                    /\ overtaken' = overtaken \cup (IF Overtakes(k) THEN {events[k].page} ELSE {})
    BY <1>8, ForwardTakes
  <2>2. UNCHANGED <<evalPosts, evalRequests, job>>
    BY <1>8 DEF Forward
  <2>3. events[k] \in EventType
    BY ElementOfSeq DEF ShapeInv
  <2>4. PostsStay /\ TheSheet' = TheSheet
    BY <2>2 DEF PostsStay, TheSheet
  <2>5. CASE ~IsResult(events[k])
    <3>1. NothingOfEvals
      BY <2>1, <2>5 DEF NothingOfEvals
    <3>2. \/ evaluation' = evaluation
          \/ evaluation' = [status |-> "loading", sheet |-> NoSheet] /\ events[k].page = "eval"
      BY <2>1, <2>3, <2>5 DEF IsResult, EventType, Handle, OnQuizProgress, OnEvalProgress, OnQuiz
    <3>3. Loading => Loading'
      BY <3>2 DEF Loading
    <3>4. Loading' => Loading \/ "eval" \in overtaken
      <4>1. events[k].page = "eval" => Loading \/ "eval" \in overtaken
        BY <1>0 DEF EvalHere, Quiet, NoNews
      <4> QED
        BY <3>2, <4>1 DEF Loading
    <3>5. EvalHere'
      BY <1>0, <2>2, <2>4, <3>1, <3>3, <3>4, EvalStays
    <3> QED
      BY <1>0, <2>4, <3>2, <3>5 DEF ReadyInv
  <2>6. CASE IsResult(events[k])
    <3>1. ArrivesAt(k)
      BY <1>0, <2>6 DEF EvalHere, InProgress, Quiet, Posted, Queued, Graded, ArrivesAt, NoResult, OnlyResult
    <3>2. evaluation' = [status |-> "ready", sheet |-> events[k].sheet]
      BY <2>1, <2>6 DEF IsResult, Handle, OnEvaluation
    <3>3. ASSUME NEW i \in 1..Len(events')
          PROVE  \E j \in 1..Len(events) : j # k /\ events'[i] = events[j]
      <4>1. Len(events') = Len(events) - 1
        BY <2>1 DEF Taken
      <4>2. CASE i < k
        <5>1. i \in 1..Len(events) /\ i # k /\ events'[i] = events[i]
          BY <1>0, <2>1, <4>1, <4>2 DEF Taken
        <5> QED
          BY <5>1
      <4>3. CASE ~(i < k)
        <5>1. i + 1 \in 1..Len(events) /\ i + 1 # k /\ events'[i] = events[i + 1]
          BY <1>0, <2>1, <4>1, <4>3 DEF Taken
        <5> QED
          BY <5>1
      <4> QED
        BY <4>2, <4>3
    <3>4. NoResult'
      <4>1. \A i \in 1..Len(events') : ~IsResult(events'[i])
        BY <3>1, <3>3 DEF ArrivesAt, OnlyResult
      <4> QED
        BY <4>1 DEF NoResult, IsResult
    <3>5. NoNews'
      <4>1. SUFFICES ASSUME "eval" \notin overtaken', NEW i \in 1..Len(events')
                     PROVE  events'[i].page # "eval"
        BY DEF NoNews
      <4>2. PICK j \in 1..Len(events) : j # k /\ events'[i] = events[j]
        BY <3>3
      <4>3. CASE j > k
        BY <1>0, <3>1, <4>1, <4>2, <4>3 DEF ArrivesAt, OnlyResult
      <4>4. CASE ~(j > k)
        <5>1. j \in 1..(k - 1)
          BY <1>0, <4>2, <4>4
        <5>2. events[j].page # events[k].page /\ events[k].page = "eval"
          BY <2>1, <2>6, <4>1, <5>1 DEF Overtakes, IsResult
        <5> QED
          BY <4>2, <5>2
      <4> QED
        BY <4>3, <4>4
    <3>6. Quiet'
      BY <2>2, <3>1, <3>4, <3>5 DEF Quiet, ArrivesAt, AllSettled, Settled
    <3>7. evaluation'.status = "ready" /\ evaluation'.sheet = events[k].sheet
      BY <3>2
    <3> QED
      BY <2>4, <3>1, <3>6, <3>7 DEF EvalHere, Loading, ReadyInv, ArrivesAt
  <2> QED
    BY <2>5, <2>6
<1>9. CASE Restart
  <2>1. UNCHANGED <<evaluation, evalPosts>> /\ job'.kind = "none"
    BY <1>9 DEF Restart, NoJob
  <2>2. /\ evalRequests' = (IF job.kind = "eval" THEN <<job.sheet>> ELSE <<>>) \o evalRequests
        /\ evalRequests \in Seq(SheetType) /\ job.sheet \in SheetType
    BY <1>9, RestartGives DEF ShapeInv
  <2>3. \/ events' = events
        \/ job.kind = "eval" /\ Grown(1) /\ ~IsResult(events'[Len(events) + 1])
    <3>1. events' = events \/ (job.kind = "eval" /\ events' = Append(events, Progress("eval")))
      BY <1>9 DEF Restart
    <3> QED
      BY <3>1, OneMore, Records DEF IsResult
  <2>4. CASE job.kind # "eval"
    <3>1. evalRequests' = evalRequests /\ events' = events
      BY <2>2, <2>3, <2>4, ConcatEmptySeq
    <3>2. PostsStay /\ NothingOfEvals /\ (Loading' <=> Loading)
      BY <2>1, <3>1 DEF PostsStay, NothingOfEvals, Loading, TheSheet
    <3>3. EvalHere'
      BY <1>0, <2>1, <2>4, <3>1, <3>2, EvalStays
    <3> QED
      BY <1>0, <2>1, <3>3 DEF ReadyInv, TheSheet
  <2>5. CASE job.kind = "eval"
    <3>1. Graded /\ Loading
      BY <1>0, <2>5 DEF EvalHere, InProgress, Quiet, Posted, Queued, ArrivesAt
    <3>2. evalRequests' = <<TheSheet>>
      <4>1. evalRequests = <<>> /\ job.sheet = TheSheet
        BY <3>1 DEF Graded
      <4>2. <<job.sheet>> \in Seq(SheetType)
        BY <2>2
      <4> QED
        BY <2>2, <2>5, <4>1, <4>2, ConcatEmptySeq
    <3>3. ASSUME NEW i \in 1..Len(events')
          PROVE  ~IsResult(events'[i])
      <4>1. CASE events' = events
        BY <3>1, <4>1 DEF Graded, NoResult
      <4>2. CASE Grown(1) /\ ~IsResult(events'[Len(events) + 1])
        <5>1. i \in 1..Len(events) \/ i = Len(events) + 1
          BY <1>0, <4>2 DEF Grown
        <5> QED
          BY <3>1, <4>2, <5>1 DEF Grown, Graded, NoResult
      <4> QED
        BY <2>3, <4>1, <4>2
    <3>4. NoResult'
      BY <3>3 DEF NoResult, IsResult
    <3>5. Queued'
      BY <2>1, <3>1, <3>2, <3>4 DEF Graded, Queued, AllSettled, Settled, TheSheet
    <3> QED
      BY <2>1, <3>1, <3>5 DEF EvalHere, InProgress, Loading, ReadyInv
  <2> QED
    BY <2>4, <2>5
<1> QED
  BY <1>1, <1>2, <1>3, <1>4, <1>5, <1>6, <1>7, <1>8, <1>9 DEF Next

-----------------------------------------------------------------------------
(* The theorems.                                                           *)

PageInv == ShapeInv /\ OrderInv /\ AskedInv /\ EvalInv

LEMMA PageInvariant == Spec => []PageInv
<1>1. Init => PageInv
  <2> SUFFICES ASSUME Init PROVE PageInv
    OBVIOUS
  <2> USE DEF Init
  <2>1. ShapeInv
    BY Records DEF ShapeInv, NoJob, Nothing
  <2>2. OrderInv
    BY DEF OrderInv
  <2>3. AskedInv
    BY DEF AskedInv, NoneAsked, NoQuiz, NoJob
  <2>4. EvalInv
    BY DEF EvalInv, EvalHere, ReadyInv, Quiet, AllSettled, NoResult, NoNews, NoJob, Loading
  <2> QED
    BY <2>1, <2>2, <2>3, <2>4 DEF PageInv
<1>2. PageInv /\ [Next]_vars => PageInv'
  BY ShapeStep, OrderStep, AskedStep, EvalStep DEF PageInv
<1> QED
  BY <1>1, <1>2, PTL DEF Spec

\* The result shown is that of the sheet submitted last, in whatever order the topics
\* are read, whatever is refused and however often the service is started again, as
\* long as posts tell the truth and no answered evaluation is repeated
\* (EvaluationPlaceholder.tsx, App.tsx).
THEOREM ResultIsOfTheLastAlways == Spec => []ResultIsOfTheLast
<1>1. PageInv => ResultIsOfTheLast
  BY DEF PageInv, EvalInv, ReadyInv, TheSheet, ResultIsOfTheLast, Last
<1> QED
  BY <1>1, PageInvariant, PTL

\* With posts that tell the truth, until an answered evaluation is repeated or a
\* result overtakes its progress, one evaluation at most is under way, and the button
\* is locked exactly meanwhile; also while a service that ended begins it again.
THEOREM LockedWhileUnderWayAlways == Spec => []LockedWhileUnderWay
<1>1. PageInv => LockedWhileUnderWay
  <2> SUFFICES ASSUME PageInv, "unconfirmed" \notin world, "eval" \notin repeated \cup overtaken
               PROVE  UnderWay <= 1 /\ (Loading <=> UnderWay = 1)
    BY DEF LockedWhileUnderWay, Loading
  <2> DEFINE P == {k \in DOMAIN evalPosts : evalPosts[k].status \in {"sent", "error"}}
             R == {k \in DOMAIN events : events[k].topic = "tokens" /\ events[k].page = "eval"}
             J == IF job.kind = "eval" THEN 1 ELSE 0
  <2>1. UnderWay = Cardinality(P) + Len(evalRequests) + J + Cardinality(R)
    BY DEF UnderWay
  <2>2. EvalHere /\ "eval" \notin overtaken /\ ShapeInv
    BY DEF PageInv, EvalInv
  <2>3. DOMAIN evalPosts = 1..Len(evalPosts) /\ DOMAIN events = 1..Len(events) /\ Len(evalPosts) \in Nat
    BY <2>2, LenProperties DEF ShapeInv
  <2>4. /\ Cardinality({}) = 0 /\ \A x : Cardinality({x}) = 1
        /\ Len(<<>>) = 0 /\ Len(<<TheSheet>>) = 1
    BY FS_EmptySet, FS_Singleton
  <2>5. AllSettled => P = {}
    BY <2>3 DEF AllSettled, Settled
  <2>6. NoResult => R = {}
    BY <2>3 DEF NoResult, IsResult
  <2>7. Posted => P = {Len(evalPosts)}
    BY <2>3 DEF Posted, Settled
  <2>8. ASSUME NEW k, ArrivesAt(k) PROVE R = {k}
    BY <2>3, <2>8 DEF ArrivesAt, OnlyResult, IsResult
  <2>9. J = IF job.kind = "eval" THEN 1 ELSE 0
    OBVIOUS
  <2> HIDE DEF P, R, J
  <2>10. CASE Quiet /\ ~Loading
    <3>1. Cardinality(P) = 0 /\ Len(evalRequests) = 0 /\ J = 0 /\ Cardinality(R) = 0
      BY <2>4, <2>5, <2>6, <2>9, <2>10 DEF Quiet
    <3> QED
      BY <2>1, <2>10, <3>1
  <2>11. CASE Posted /\ Loading
    <3>1. Cardinality(P) = 1 /\ Len(evalRequests) = 0 /\ J = 0 /\ Cardinality(R) = 0
      BY <2>4, <2>6, <2>7, <2>9, <2>11 DEF Posted
    <3> QED
      BY <2>1, <2>11, <3>1
  <2>12. CASE Queued /\ Loading
    <3>1. Cardinality(P) = 0 /\ Len(evalRequests) = 1 /\ J = 0 /\ Cardinality(R) = 0
      BY <2>4, <2>5, <2>6, <2>9, <2>12 DEF Queued
    <3> QED
      BY <2>1, <2>12, <3>1
  <2>13. CASE Graded /\ Loading
    <3>1. Cardinality(P) = 0 /\ Len(evalRequests) = 0 /\ J = 1 /\ Cardinality(R) = 0
      BY <2>4, <2>5, <2>6, <2>9, <2>13 DEF Graded
    <3> QED
      BY <2>1, <2>13, <3>1
  <2>14. CASE (\E k : ArrivesAt(k)) /\ Loading
    <3>1. Cardinality(P) = 0 /\ Len(evalRequests) = 0 /\ J = 0 /\ Cardinality(R) = 1
      BY <2>4, <2>5, <2>8, <2>9, <2>14 DEF ArrivesAt
    <3> QED
      BY <2>1, <2>14, <3>1
  <2> QED
    BY <2>2, <2>10, <2>11, <2>12, <2>13, <2>14 DEF EvalHere, InProgress
<1> QED
  BY <1>1, PageInvariant, PTL

\* Whatever the topics reorder, answers go only for a newer quiz, and for one that
\* the learner is waiting for, unless a workflow may have asked for it, a post was not
\* confirmed, or an answered request is repeated.
THEOREM AnswersPreservedAlways == Spec => AnswersPreserved
<1>1. PageInv /\ [Next]_vars =>
        [edits' < edits => /\ quiz' > quiz
                           /\ \/ wanted
                              \/ world \cap {"workflow", "unconfirmed"} # {}
                              \/ "quiz" \in repeated]_vars
  <2> SUFFICES ASSUME PageInv, [Next]_vars, edits' < edits
               PROVE  /\ quiz' > quiz
                      /\ wanted \/ world \cap {"workflow", "unconfirmed"} # {} \/ "quiz" \in repeated
    OBVIOUS
  <2> USE DEF page, posts, service, position, stream, counts
  <2>0. edits \in Nat /\ quiz \in Nat /\ ~(edits < edits) /\ ~(edits + 1 < edits) /\ Len(events) \in Nat
    BY LenProperties DEF PageInv, ShapeInv
  <2>1. edits' # edits /\ edits' # edits + 1
    BY <2>0
  <2>2. Forward
    BY <2>1 DEF Next, vars, Generate, QuizReply, Edit, Submit, EvalReply, AcceptQuiz, AcceptEval,
                WorkflowQuiz, Begin, Finish, Commit, Restart
  <2>3. PICK k \in DOMAIN events : Handle(events[k])
    BY <2>2 DEF Forward
  <2>4. k \in 1..Len(events) /\ events[k] \in EventType
    BY ElementOfSeq, LenProperties DEF PageInv, ShapeInv
  <2>5. IsQuiz(events[k]) /\ events[k].sheet # NoSheet /\ quiz' = events[k].sheet[1]
    BY <2>1, <2>3, <2>4 DEF Handle, OnQuiz, OnQuizProgress, OnEvalProgress, OnEvaluation, IsQuiz, EventType
  <2>6. quiz < events[k].sheet[1] /\ events[k].sheet[1] \in Nat
    <3>1. \A e \in EventType : e.sheet[1] \in Nat
      BY DEF EventType, SheetType
    <3> QED
      BY <2>4, <2>5, <3>1 DEF PageInv, OrderInv
  <2>7. world \cap {"workflow", "unconfirmed"} = {} /\ "quiz" \notin repeated => wanted
    BY <2>4, <2>5 DEF PageInv, AskedInv, NoneAsked, QuizPosted, QuizQueued, QuizMade, QuizAt, Coming, NoQuiz
  <2> QED
    BY <2>0, <2>5, <2>6, <2>7
<1> QED
  BY <1>1, PageInvariant, PTL DEF Spec, AnswersPreserved
=============================================================================
