----------------------------- MODULE ChatProofs ------------------------------
(***************************************************************************)
(* Theorems about ChatPage, for any number of questions, tokens, levels    *)
(* and lost connections.                                                   *)
(***************************************************************************)
EXTENDS ChatPage, SequenceTheorems, TLAPS

-----------------------------------------------------------------------------
(* What the page, the backend and the topics hold.                         *)

Word    == Question \X Nat
Message == [content : Seq(Word), streaming : BOOLEAN]
Post    == [sid : Nat, status : {"sent", "ok", "error", "replied"}]
Box     == [buffer : Seq(Word), shown : Nat, done : BOOLEAN]

ShapeInv ==
  /\ connection \in [state : {"up", "down", "dead"}, sid : Nat, failed : Nat]
  /\ messages \in Seq(Message) /\ Len(messages) <= MaxQuestions
  /\ posts \in Seq(Post) /\ Len(posts) = Len(messages)
  /\ \A q \in 1..Len(posts) : posts[q].sid <= connection.sid
  /\ active \in {0, Len(messages)}
  /\ box \in Box
  /\ chart \in [Question -> Seq(Word)]
  /\ said \in [Question -> Nat]

\* The i-th event of the answer to q, whose text has so many tokens.
Nth(q, text, i) ==
  IF i <= text THEN Sent(q, "text", i)
  ELSE IF i <= said[q] THEN Sent(q, "diagram", i)
  ELSE Sent(q, "done", 0)

\* The first n tokens of the answer to q.
Words(q, n) == [i \in 1..n |-> <<q, i>>]

\* The page hears what is for q.
Live(q) == Connected /\ connection.sid = posts[q].sid

\* What the page has after the first k events of an answer.
HeardUpTo(q, text, k) ==
  /\ box.buffer = Words(q, IF k <= text THEN k ELSE text)
  /\ chart[q] = [n \in 1..(IF k <= text THEN 0 ELSE 1) |-> <<q, said[q]>>]

\* An answer to q, all of it.
Whole(q, content) ==
  \/ content = <<<<q, 0>>>>
  \/ \E text \in {said[q], said[q] - 1} :
       /\ content = Words(q, text)
       /\ chart[q] = [n \in 1..said[q] - text |-> <<q, said[q]>>]

Answered(q) == posts[q].status \in {"ok", "replied"} /\ isSubmitting

\* Nothing was heard of q.
Blank(q) == box = Fresh /\ chart[q] = <<>> /\ said[q] = 0

\* The question in hand is on its way, is being answered, is given notice, or
\* all that was to come has come.
Asked(q) ==
  /\ tokens = <<>> /\ notices = <<>> /\ Blank(q)
  /\ \/ accepted = {} /\ (isSubmitting \/ posts[q].status = "replied")
     \/ accepted = {q} /\ Answered(q)

\* Of the answer to q, k events were forwarded and the others are still to be.
StreamAt(q, text, k) ==
  /\ text \in {said[q], said[q] - 1} \cap Nat /\ k \in 0..said[q]
  /\ tokens = [i \in 1..(said[q] + 1 - k) |-> Nth(q, text, k + i)]
  /\ Live(q) => HeardUpTo(q, text, k)

Streaming(q) ==
  /\ accepted = {} /\ notices = <<>> /\ Answered(q) /\ ~box.done
  /\ \E text, k : StreamAt(q, text, k)

Noticed(q) ==
  /\ accepted = {} /\ tokens = <<>> /\ Answered(q) /\ Blank(q)
  /\ \E kind \in {"clarify", "blocked", "complete"} : notices = <<Sent(q, kind, 0)>>

Over(q) ==
  /\ accepted = {} /\ tokens = <<>> /\ notices = <<>> /\ Answered(q)
  /\ box.done => Whole(q, box.buffer)

InHand(q) ==
  /\ messages[q].streaming
  /\ Asked(q) \/ Streaming(q) \/ Noticed(q) \/ Over(q)

\* A question of which no more is to come.
Past(q) ==
  /\ posts[q].status \in {"ok", "replied"}
  /\ ~messages[q].streaming => Whole(q, messages[q].content)

PlainInv ==
  /\ ShapeInv
  /\ active # 0 => InHand(active)
  /\ active = 0 => accepted = {} /\ tokens = <<>> /\ notices = <<>>
  /\ \A q \in 1..Len(messages) : q # active => Past(q)
  /\ \A q \in Question : q > Len(messages) => chart[q] = <<>> /\ said[q] = 0

\* What holds of a question still holds when nothing of it changed.
LEMMA WholeStays ==
  ASSUME NEW q, NEW content, Whole(q, content), chart'[q] = chart[q], said'[q] = said[q]
  PROVE  Whole(q, content)'
BY DEF Whole, Words

LEMMA PastStays ==
  ASSUME NEW q, Past(q), messages'[q] = messages[q], chart'[q] = chart[q], said'[q] = said[q],
         posts'[q].status \in {posts[q].status, "replied"}
  PROVE  Past(q)'
BY DEF Past, Whole, Words

LEMMA InHandStays ==
  ASSUME ShapeInv, active # 0, InHand(active),
         UNCHANGED <<messages, active, chart, accepted, tokens, notices, said>>,
         posts'[active].sid = posts[active].sid,
         Answered(active) => Answered(active)',
         Asked(active) /\ accepted = {} => isSubmitting' \/ posts'[active].status = "replied",
         box'.buffer = box.buffer, box'.done = box.done, box = Fresh => box' = Fresh,
         Live(active)' => Live(active)
  PROVE  InHand(active)'
<1>1. active \in Question /\ said[active] \in Nat
  BY ChatAssumption DEF ShapeInv, Question, ChatAssumption
<1>2. messages[active].streaming
  BY DEF InHand
<1>3. \A kind, n : Sent(active, kind, n)' = Sent(active, kind, n)
  BY DEF Sent
<1>4. Blank(active) => Blank(active)'
  BY DEF Blank, Fresh
<1>5. CASE Asked(active)
  BY <1>2, <1>4, <1>5 DEF Asked, InHand
<1>6. CASE Streaming(active)
  <2>1. PICK text, k : StreamAt(active, text, k)
    BY <1>6 DEF Streaming
  <2>2. \A i \in 1..(said[active] + 1 - k) : Nth(active, text, k + i)' = Nth(active, text, k + i)
    BY <1>1, <1>3 DEF Nth
  <2>3. (Live(active) => HeardUpTo(active, text, k))'
    BY <2>1 DEF HeardUpTo, Words, StreamAt
  <2>4. StreamAt(active, text, k)'
    BY <2>1, <2>2, <2>3 DEF StreamAt
  <2> QED
    BY <1>2, <1>6, <2>4 DEF Streaming, InHand
<1>7. CASE Noticed(active)
  BY <1>2, <1>3, <1>4, <1>7 DEF Noticed, InHand
<1>8. CASE Over(active)
  BY <1>2, <1>8 DEF Over, Whole, Words, InHand
<1> QED
  BY <1>5, <1>6, <1>7, <1>8 DEF InHand

\* The lock, in every world.
LockInv ==
  /\ isSubmitting \in BOOLEAN /\ requestError \in BOOLEAN
  /\ \E S : messages \in Seq(S)
  /\ active \in {0, Len(messages)}
  /\ isSubmitting => active # 0
  /\ active # 0 /\ ~isSubmitting => requestError

ChatInv == LockInv /\ (Plain => PlainInv)

LEMMA LockStep ==
  ASSUME LockInv, [Next]_vars
  PROVE  LockInv'
<1> USE DEF LockInv, page, backend
<1>0. PICK S : messages \in Seq(S)
  OBVIOUS
<1>1. CASE Submit
  <2> DEFINE m == [content |-> <<>>, streaming |-> TRUE]
             T == S \cup {m}
  <2>1. messages \in Seq(T) /\ m \in T
    BY <1>0
  <2> HIDE DEF m, T
  <2>2. Append(messages, m) \in Seq(T) /\ Len(messages) \in Nat
    BY <2>1
  <2>3. (\E S1 : messages \in Seq(S1))' /\ Len(messages') = Len(messages) + 1
    BY <1>1, <2>1, <2>2, AppendProperties DEF Submit, m
  <2>4. /\ active' = Len(messages) + 1 /\ isSubmitting' /\ ~requestError'
        /\ isSubmitting' \in BOOLEAN /\ requestError' \in BOOLEAN
    BY <1>1 DEF Submit
  <2> QED
    BY <2>2, <2>3, <2>4
<1>2. CASE Reply
  BY <1>2 DEF Reply
<1>3. CASE Tick
  <2> DEFINE m == [content |-> box.buffer, streaming |-> FALSE]
             T == S \cup {m}
  <2>1. messages \in Seq(T) /\ m \in T
    BY <1>0
  <2> HIDE DEF m, T
  <2>2. [messages EXCEPT ![active] = m] \in Seq(T)
    BY <1>3, <2>1, ExceptSeq DEF Tick
  <2>3. messages' \in {messages, [messages EXCEPT ![active] = m]}
    BY <1>3 DEF Tick, m
  <2>4. active \in 1..Len(messages)
    BY <1>3, LenProperties, <2>1 DEF Tick
  <2>5. (\E S1 : messages \in Seq(S1))' /\ Len(messages') = Len(messages)
    BY <2>1, <2>2, <2>3, <2>4, ExceptSeq
  <2>6. \/ active' = active /\ isSubmitting' = isSubmitting
        \/ active' = 0 /\ ~isSubmitting' /\ isSubmitting' \in BOOLEAN
    BY <1>3 DEF Tick
  <2>7. requestError' = requestError
    BY <1>3 DEF Tick
  <2> QED
    BY <2>5, <2>6, <2>7
<1>4. CASE Drop \/ Reconnect \/ AttemptFails
  BY <1>4 DEF Drop, Reconnect, AttemptFails
<1>5. CASE Ingest
  BY <1>5 DEF Ingest
<1>6. CASE Answer \/ Decline
  BY <1>6 DEF Answer, Decline
<1>7. CASE ForwardToken \/ ForwardNotice \/ BadRecord
  BY <1>7 DEF ForwardToken, ForwardNotice, BadRecord
<1>8. CASE UNCHANGED vars
  BY <1>8 DEF vars
<1> QED
  BY <1>1, <1>2, <1>3, <1>4, <1>5, <1>6, <1>7, <1>8 DEF Next

-----------------------------------------------------------------------------
(* The page's own steps.                                                   *)

LEMMA SubmitStep ==
  ASSUME PlainInv, LockInv, Submit
  PROVE  PlainInv'
<1> PICK n : n = Len(messages) + 1
  OBVIOUS
<1> DEFINE m == [content |-> <<>>, streaming |-> TRUE]
           p == [sid |-> connection.sid, status |-> "sent"]
<1> USE ChatAssumption DEF ChatAssumption, PlainInv
<1>1. m \in Message /\ p \in Post /\ n \in Question /\ n \in Nat /\ Fresh \in Box
  BY DEF Submit, ShapeInv, Message, Post, Question, Fresh, Box
<1>2. /\ messages' = Append(messages, m) /\ posts' = Append(posts, p)
      /\ active' = n /\ box' = Fresh /\ isSubmitting'
      /\ UNCHANGED <<connection, chart, accepted, tokens, notices, said>>
  BY DEF Submit, backend
<1> HIDE DEF m, p
<1>3. /\ messages' \in Seq(Message) /\ Len(messages') = n /\ messages'[n] = m
      /\ \A q \in 1..Len(messages) : messages'[q] = messages[q]
  BY <1>1, <1>2, AppendProperties DEF ShapeInv
<1>4. /\ posts' \in Seq(Post) /\ Len(posts') = n /\ posts'[n] = p
      /\ \A q \in 1..Len(messages) : posts'[q] = posts[q]
  BY <1>1, <1>2, AppendProperties DEF ShapeInv
<1>5. ShapeInv'
  <2>1. connection' = connection /\ p.sid = connection.sid
    BY <1>2 DEF p
  <2>2. \A q \in 1..n : posts'[q].sid <= connection'.sid
    <3> TAKE q \in 1..n
    <3>1. CASE q = n
      BY <1>4, <2>1, <3>1 DEF ShapeInv
    <3>2. CASE q # n
      <4>1. q \in 1..Len(messages) /\ q \in 1..Len(posts)
        BY <1>1, <3>2 DEF ShapeInv
      <4>2. posts'[q] = posts[q] /\ posts[q].sid <= connection.sid
        BY <1>4, <4>1 DEF ShapeInv
      <4> QED
        BY <2>1, <4>2
    <3> QED
      BY <3>1, <3>2
  <2> QED
    BY <1>1, <1>2, <1>3, <1>4, <2>2 DEF ShapeInv, Submit
<1>6. /\ accepted = {} /\ tokens = <<>> /\ notices = <<>>
      /\ active # 0 => posts[active].status = "replied" /\ messages[active].streaming
  BY DEF Submit, InHand, Asked, Streaming, Noticed, Over, Answered
<1>7. \A q \in 1..Len(messages) : Past(q)'
  <2>1. ASSUME NEW q \in 1..Len(messages), q # active
        PROVE  Past(q)'
    BY <1>2, <1>3, <1>4, <2>1, PastStays
  <2>2. ASSUME NEW q \in 1..Len(messages), q = active
        PROVE  Past(q)'
    BY <1>3, <1>4, <1>6, <2>2 DEF Past, ShapeInv
  <2> QED
    BY <2>1, <2>2
<1>8. InHand(n)'
  BY <1>1, <1>2, <1>3, <1>6 DEF InHand, Asked, Blank, m, ShapeInv
<1>9. InHand(active)' /\ active' # 0
  BY <1>1, <1>2, <1>8 DEF InHand, ShapeInv
<1>10. \A q \in 1..Len(messages') : q # active' => q \in 1..Len(messages)
  BY <1>1, <1>2, <1>3 DEF ShapeInv
<1>11. \A q \in Question : q > Len(messages)' => q > Len(messages)
  BY <1>1, <1>3 DEF ShapeInv, Question
<1>12. chart' = chart /\ said' = said
  BY <1>2
<1> QED
  BY <1>5, <1>7, <1>9, <1>10, <1>11, <1>12

\* The status of one post changes, and nothing else of the posts.
LEMMA StatusStays ==
  ASSUME posts \in Seq(Post), NEW r \in DOMAIN posts,
         NEW s \in {"sent", "ok", "error", "replied"}, posts' = [posts EXCEPT ![r].status = s]
  PROVE  /\ r \in 1..Len(posts) /\ posts[r] \in Post
         /\ posts' \in Seq(Post) /\ Len(posts') = Len(posts)
         /\ \A q \in 1..Len(posts) : /\ posts'[q].sid = posts[q].sid
                                     /\ posts'[q].status = IF q = r THEN s ELSE posts[q].status
<1> DEFINE p == [posts[r] EXCEPT !.status = s]
<1>1. r \in 1..Len(posts) /\ posts[r] \in Post
  BY ElementOfSeq, LenProperties
<1>2. p \in Post /\ p.sid = posts[r].sid /\ p.status = s
  BY <1>1 DEF Post
<1> HIDE DEF p
<1>3. posts' = [posts EXCEPT ![r] = p]
  BY DEF p
<1> QED
  BY <1>1, <1>2, <1>3, ExceptSeq

LEMMA ReplyStep ==
  ASSUME PlainInv, Reply
  PROVE  PlainInv'
<1> USE DEF PlainInv
<1>1. PICK r \in DOMAIN posts :
        /\ posts[r].status \in {"ok", "error"}
        /\ posts' = [posts EXCEPT ![r].status = "replied"]
        /\ isSubmitting' <=> (isSubmitting /\ posts[r].status = "ok")
  BY DEF Reply
<1>2. UNCHANGED <<connection, messages, active, box, chart, accepted, tokens, notices, said>>
  BY DEF Reply, backend
<1>3. /\ r \in 1..Len(posts) /\ posts[r] \in Post
      /\ posts' \in Seq(Post) /\ Len(posts') = Len(posts)
      /\ \A q \in 1..Len(posts) : /\ posts'[q].sid = posts[q].sid
                                  /\ posts'[q].status = IF q = r THEN "replied" ELSE posts[q].status
  BY <1>1, StatusStays DEF ShapeInv
<1>4. ShapeInv'
  BY <1>1, <1>2, <1>3 DEF ShapeInv
<1>5. \A q \in 1..Len(messages) : q # active => Past(q)'
  BY <1>2, <1>3, PastStays DEF ShapeInv
<1>6. ASSUME active # 0 PROVE InHand(active)'
  <2>1. active \in 1..Len(posts) /\ messages[active].streaming
    BY <1>6 DEF ShapeInv, InHand
  <2>2. posts[r].status = "error" => r = active /\ Asked(active) /\ accepted = {}
    <3>1. ASSUME posts[r].status = "error" PROVE r = active
      BY <1>3, <3>1 DEF Past, ShapeInv
    <3>2. ASSUME posts[active].status = "error" PROVE Asked(active) /\ accepted = {}
      BY <1>6, <3>2 DEF InHand, Asked, Streaming, Noticed, Over, Answered
    <3> QED
      BY <3>1, <3>2
  <2>3. Answered(active) => Answered(active)'
    BY <1>1, <1>2, <1>3, <2>1, <2>2 DEF Answered
  <2>4. Asked(active) /\ accepted = {} => isSubmitting' \/ posts'[active].status = "replied"
    BY <1>1, <1>3, <2>1, <2>2 DEF Asked, Answered
  <2>5. Live(active)' => Live(active)
    BY <1>2, <1>3, <2>1 DEF Live, Connected
  <2> QED
    BY <1>2, <1>3, <1>6, <2>1, <2>3, <2>4, <2>5, InHandStays
<1> QED
  BY <1>2, <1>3, <1>4, <1>5, <1>6 DEF ShapeInv

LEMMA TickStep ==
  ASSUME PlainInv, Tick
  PROVE  PlainInv'
<1> USE DEF PlainInv
<1>1. active # 0 /\ InHand(active) /\ active \in 1..Len(messages) /\ box \in Box
  BY DEF Tick, ShapeInv
<1>2. UNCHANGED <<connection, chart, posts, accepted, tokens, notices, said>>
  BY DEF Tick, backend
<1>3. CASE /\ box.shown < Len(box.buffer)
           /\ box' = [box EXCEPT !.shown = @ + 1]
           /\ UNCHANGED <<messages, active, isSubmitting>>
  <2>1. box' \in Box /\ box'.buffer = box.buffer /\ box'.done = box.done
    BY <1>1, <1>3 DEF Box
  <2>2. box # Fresh
    BY <1>3 DEF Fresh
  <2>3. ShapeInv'
    BY <1>2, <1>3, <2>1 DEF ShapeInv
  <2>4. InHand(active)'
    BY <1>1, <1>2, <1>3, <2>1, <2>2, InHandStays DEF Answered, Asked, Live, Connected, InHand
  <2>5. \A q \in 1..Len(messages) : q # active => Past(q)'
    BY <1>2, <1>3, PastStays
  <2> QED
    BY <1>2, <1>3, <2>3, <2>4, <2>5
<1>4. CASE /\ box.shown = Len(box.buffer) /\ box.done
           /\ messages' = [messages EXCEPT ![active] = [content |-> box.buffer, streaming |-> FALSE]]
           /\ active' = 0 /\ box' = Fresh /\ isSubmitting' = FALSE
  <2> PICK c : c = box.buffer
    OBVIOUS
  <2> DEFINE m == [content |-> c, streaming |-> FALSE]
  <2>1. m \in Message /\ Fresh \in Box
    BY <1>1 DEF Message, Box, Fresh
  <2>2. Over(active) /\ Whole(active, box.buffer)
    BY <1>1, <1>4 DEF InHand, Asked, Streaming, Noticed, Over, Blank, Fresh
  <2>3. m.content = c /\ c = box.buffer
    OBVIOUS
  <2> HIDE DEF m
  <2>4. messages' = [messages EXCEPT ![active] = m]
    BY <1>4 DEF m
  <2>5. /\ messages' \in Seq(Message) /\ Len(messages') = Len(messages)
        /\ \A q \in 1..Len(messages) : messages'[q] = IF q = active THEN m ELSE messages[q]
    BY <1>1, <2>1, <2>4, ExceptSeq DEF ShapeInv
  <2>6. ShapeInv'
    BY <1>2, <1>4, <2>1, <2>5 DEF ShapeInv
  <2>7. ASSUME NEW q \in 1..Len(messages), q # active
        PROVE  Past(q)'
    BY <1>2, <2>5, <2>7, PastStays
  <2>8. ASSUME NEW q \in 1..Len(messages), q = active
        PROVE  Past(q)'
    <3>1. Whole(q, box.buffer) /\ messages'[q] = m
      BY <2>2, <2>5, <2>8
    <3>2. Whole(q, c)'
      BY <1>2, <2>3, <3>1, WholeStays
    <3>3. messages'[q].content = c
      BY <2>3, <3>1
    <3>4. posts'[q].status \in {"ok", "replied"}
      BY <1>2, <2>2, <2>8 DEF Over, Answered
    <3> QED
      BY <3>2, <3>3, <3>4 DEF Past
  <2> QED
    BY <1>2, <1>4, <2>2, <2>5, <2>6, <2>7, <2>8 DEF Over
<1> QED
  BY <1>3, <1>4 DEF Tick

\* A connection that was lost is not heard under its old sid again.
LEMMA ConnectionStep ==
  ASSUME PlainInv, Drop \/ Reconnect \/ AttemptFails \/ BadRecord \/ UNCHANGED vars
  PROVE  PlainInv'
<1> USE DEF PlainInv
<1>1. UNCHANGED <<messages, active, box, chart, isSubmitting, posts, accepted, tokens, notices, said>>
  BY DEF Drop, Reconnect, AttemptFails, BadRecord, vars, page, backend
<1>2. /\ connection' \in [state : {"up", "down", "dead"}, sid : Nat, failed : Nat]
      /\ connection'.sid >= connection.sid
      /\ connection' = connection \/ connection'.state # "up" \/ connection'.sid = connection.sid + 1
  <2>0. connection \in [state : {"up", "down", "dead"}, sid : Nat, failed : Nat]
    BY DEF ShapeInv
  <2>1. CASE Drop
    BY <2>0, <2>1 DEF Drop
  <2>2. CASE Reconnect
    BY <2>0, <2>2 DEF Reconnect
  <2>3. CASE AttemptFails
    <3>1. PICK st \in {"down", "dead"} :
            connection' = [state |-> st, sid |-> connection.sid, failed |-> connection.failed + 1]
      BY <2>0, <2>3 DEF AttemptFails
    <3> QED
      BY <2>0, <3>1
  <2>4. CASE BadRecord \/ UNCHANGED vars
    BY <2>0, <2>4 DEF BadRecord, vars
  <2> QED
    BY <2>1, <2>2, <2>3, <2>4
<1>3. \A q \in 1..Len(posts) : posts[q].sid \in Nat /\ posts[q].sid <= connection.sid
  <2>1. ASSUME NEW q \in 1..Len(posts) PROVE posts[q] \in Post
    BY ElementOfSeq DEF ShapeInv
  <2> QED
    BY <2>1 DEF Post, ShapeInv
<1>4. connection.sid \in Nat
  BY DEF ShapeInv
<1>5. \A q \in 1..Len(posts) : Live(q)' => Live(q)
  BY <1>1, <1>2, <1>3, <1>4 DEF Live, Connected
<1>6. ShapeInv'
  BY <1>1, <1>2, <1>3, <1>4 DEF ShapeInv
<1>7. active # 0 => InHand(active)'
  <2>1. active # 0 => active \in 1..Len(posts)
    BY DEF ShapeInv
  <2> QED
    BY <1>1, <1>5, <2>1, InHandStays DEF Answered, Asked, Fresh
<1>8. \A q \in 1..Len(messages) : q # active => Past(q)'
  BY <1>1, PastStays
<1> QED
  BY <1>1, <1>6, <1>7, <1>8

-----------------------------------------------------------------------------
(* The backend's steps.                                                    *)

LEMMA IngestStep ==
  ASSUME PlainInv, Plain, Ingest
  PROVE  PlainInv'
<1> USE DEF PlainInv
<1>1. PICK r \in DOMAIN posts :
        /\ posts[r].status = "sent"
        /\ \/ accepted' = accepted \cup {r} /\ posts' = [posts EXCEPT ![r].status = "ok"]
           \/ accepted' = accepted /\ posts' = [posts EXCEPT ![r].status = "error"]
  BY DEF Ingest, Plain
<1>2. UNCHANGED <<connection, messages, active, box, chart, isSubmitting, tokens, notices, said>>
  BY DEF Ingest, page
<1>3. PICK s \in {"ok", "error"} :
        /\ posts' = [posts EXCEPT ![r].status = s]
        /\ accepted' = IF s = "ok" THEN accepted \cup {r} ELSE accepted
  BY <1>1
<1>4. /\ r \in 1..Len(posts) /\ posts' \in Seq(Post) /\ Len(posts') = Len(posts)
      /\ \A q \in 1..Len(posts) : /\ posts'[q].sid = posts[q].sid
                                  /\ posts'[q].status = IF q = r THEN s ELSE posts[q].status
  <2>1. s \in {"sent", "ok", "error", "replied"} /\ posts \in Seq(Post)
    BY DEF ShapeInv
  <2> QED
    BY <1>3, <2>1, StatusStays
<1>5. ShapeInv'
  BY <1>2, <1>4 DEF ShapeInv
<1>6. r = active /\ active # 0
  <2>1. posts[r].status = "sent"
    BY <1>1
  <2>2. r \in 1..Len(messages) /\ r # 0
    BY <1>4 DEF ShapeInv
  <2>3. ~Past(r)
    BY <2>1 DEF Past
  <2> QED
    BY <2>2, <2>3
<1>7. Asked(r) /\ accepted = {} /\ isSubmitting
  BY <1>1, <1>6 DEF InHand, Asked, Streaming, Noticed, Over, Answered
<1>8. Asked(r)'
  BY <1>2, <1>3, <1>4, <1>7 DEF Asked, Blank, Answered
<1>9. InHand(active)'
  BY <1>2, <1>6, <1>8 DEF InHand
<1>10. \A q \in 1..Len(messages) : q # active => Past(q)'
  BY <1>2, <1>4, <1>6, PastStays DEF ShapeInv
<1> QED
  BY <1>2, <1>5, <1>6, <1>9, <1>10

\* One level is one stream.
LEMMA OneStream ==
  ASSUME NEW s
  PROVE  FlattenSeq([l \in 1..1 |-> s]) = s
<1> DEFINE one == [l \in 1..1 |-> s]
           f == CHOOSE f : f = [i \in 1..Len(one) |-> IF i = 1 THEN one[i] ELSE f[i - 1] \o one[i]]
           g == [i \in 1..1 |-> s]
<1>1. one \in Seq({s}) /\ Len(one) = 1
  OBVIOUS
<1>2. FlattenSeq(one) = f[Len(one)]
  BY <1>1 DEF FlattenSeq
<1>3. g = [i \in 1..Len(one) |-> IF i = 1 THEN one[i] ELSE g[i - 1] \o one[i]]
  BY <1>1
<1> HIDE DEF g, one
<1>4. f = [i \in 1..Len(one) |-> IF i = 1 THEN one[i] ELSE f[i - 1] \o one[i]]
  BY <1>3
<1> HIDE DEF f
<1>5. f[1] = one[1]
  BY <1>1, <1>4
<1> QED
  BY <1>1, <1>2, <1>5 DEF one

\* The events of one level, one by one.
EventsOf(q, length, drawn) ==
  [i \in 1..(length + (IF drawn THEN 1 ELSE 0) + 1) |->
     IF i <= length THEN Sent(q, "text", i)
     ELSE IF drawn /\ i = length + 1 THEN Sent(q, "diagram", i)
     ELSE Sent(q, "done", 0)]

LEMMA StreamIs ==
  ASSUME NEW q, NEW length \in Nat, NEW drawn
  PROVE  LevelStream(q, 0, length, drawn) = EventsOf(q, length, drawn)
<1> DEFINE E == {Sent(q, kind, n) : kind \in {"text", "diagram", "done"}, n \in Nat}
           texts == [i \in 1..length |-> Sent(q, "text", 0 + i)]
           image == IF drawn THEN <<Sent(q, "diagram", 0 + length + 1)>> ELSE <<>>
           final == <<Sent(q, "done", 0)>>
<1>1. \A kind \in {"text", "diagram", "done"}, n \in Nat : Sent(q, kind, n) \in E
  OBVIOUS
<1>2. LevelStream(q, 0, length, drawn) = (texts \o image) \o final
  BY DEF LevelStream
<1> HIDE DEF E
<1>3. texts \in Seq(E) /\ Len(texts) = length /\ \A i \in 1..length : texts[i] = Sent(q, "text", i)
  BY <1>1
<1>4. /\ image \in Seq(E) /\ Len(image) = IF drawn THEN 1 ELSE 0
      /\ drawn => image[1] = Sent(q, "diagram", length + 1)
  <2>1. Sent(q, "diagram", length + 1) \in E
    BY <1>1
  <2> QED
    BY <2>1
<1>5. final \in Seq(E) /\ Len(final) = 1 /\ final[1] = Sent(q, "done", 0)
  BY <1>1
<1> HIDE DEF texts, image, final
<1>6. /\ texts \o image \in Seq(E) /\ Len(texts \o image) = length + Len(image)
      /\ \A i \in 1..length + Len(image) :
           (texts \o image)[i] = IF i <= length THEN texts[i] ELSE image[i - length]
  BY <1>3, <1>4, ConcatProperties
<1>7. /\ (texts \o image) \o final \in Seq(E)
      /\ Len((texts \o image) \o final) = length + Len(image) + 1
      /\ \A i \in 1..length + Len(image) + 1 :
           ((texts \o image) \o final)[i] =
             IF i <= length + Len(image) THEN (texts \o image)[i] ELSE final[i - (length + Len(image))]
  <2>1. /\ Len(texts \o image) = length + Len(image) /\ Len(image) \in Nat
        /\ texts \o image \in Seq(E) /\ final \in Seq(E) /\ Len(final) = 1
    BY <1>4, <1>5, <1>6
  <2> DEFINE front == texts \o image
  <2> HIDE DEF front
  <2>2. /\ front \o final \in Seq(E) /\ Len(front \o final) = Len(front) + Len(final)
        /\ \A i \in 1..(Len(front) + Len(final)) :
             (front \o final)[i] = IF i <= Len(front) THEN front[i] ELSE final[i - Len(front)]
    <3>1. front \in Seq(E) /\ final \in Seq(E)
      BY <2>1 DEF front
    <3> QED
      BY <3>1, ConcatProperties
  <2>3. Len(front) = length + Len(image) /\ Len(front) + Len(final) = length + Len(image) + 1
    BY <2>1 DEF front
  <2> QED
    BY <2>2, <2>3 DEF front
<1>8. ASSUME NEW i \in 1..(length + Len(image) + 1)
      PROVE  ((texts \o image) \o final)[i] =
               IF i <= length THEN Sent(q, "text", i)
               ELSE IF drawn /\ i = length + 1 THEN Sent(q, "diagram", i)
               ELSE Sent(q, "done", 0)
  BY <1>3, <1>4, <1>5, <1>6, <1>7
<1> DEFINE total == length + (IF drawn THEN 1 ELSE 0) + 1
           ls == LevelStream(q, 0, length, drawn)
<1>9. total = length + Len(image) + 1
  BY <1>4
<1> HIDE DEF total
<1>10. ls \in Seq(E) /\ Len(ls) = total
  BY <1>2, <1>7, <1>9
<1>11. \A i \in 1..total : ls[i] = IF i <= length THEN Sent(q, "text", i)
                                  ELSE IF drawn /\ i = length + 1 THEN Sent(q, "diagram", i)
                                  ELSE Sent(q, "done", 0)
  BY <1>2, <1>8, <1>9
<1> HIDE DEF ls
<1>12. ls = [i \in 1..total |-> ls[i]]
  BY <1>10, LenProperties
<1>13. ls = [i \in 1..total |-> IF i <= length THEN Sent(q, "text", i)
                                ELSE IF drawn /\ i = length + 1 THEN Sent(q, "diagram", i)
                                ELSE Sent(q, "done", 0)]
  BY <1>11, <1>12
<1> QED
  BY <1>13 DEF ls, total, EventsOf

LEMMA AnswerStep ==
  ASSUME PlainInv, Plain, Answer
  PROVE  PlainInv'
<1> USE DEF PlainInv
<1>1. PICK q \in accepted :
        /\ accepted' = accepted \ {q}
        /\ \E levels \in 1..1, length \in 1..MaxTokens, drawn \in BOOLEAN :
             LET each == length + (IF drawn THEN 1 ELSE 0)
             IN  /\ tokens' = tokens \o FlattenSeq(
                      [l \in 1..levels |-> LevelStream(q, (l - 1) * each, length, drawn)])
                 /\ said' = [said EXCEPT ![q] = levels * each]
  BY DEF Answer, Plain
<1>2. UNCHANGED <<connection, messages, active, box, chart, isSubmitting, posts, notices>>
  BY DEF Answer, page
<1>3. /\ active # 0 /\ q = active /\ Asked(q) /\ accepted = {q} /\ Answered(q)
      /\ q \in 1..Len(messages) /\ q \in Question
  BY <1>1, ChatAssumption DEF InHand, Asked, Streaming, Noticed, Over, ShapeInv, Question, ChatAssumption
<1>4. PICK length \in 1..MaxTokens, drawn \in BOOLEAN :
        LET each == length + (IF drawn THEN 1 ELSE 0)
        IN  /\ tokens' = tokens \o FlattenSeq(
                 [l \in 1..1 |-> LevelStream(q, (l - 1) * each, length, drawn)])
            /\ said' = [said EXCEPT ![q] = each]
  <2>1. PICK levels \in 1..1, length \in 1..MaxTokens, drawn \in BOOLEAN :
          LET each == length + (IF drawn THEN 1 ELSE 0)
          IN  /\ tokens' = tokens \o FlattenSeq(
                   [l \in 1..levels |-> LevelStream(q, (l - 1) * each, length, drawn)])
              /\ said' = [said EXCEPT ![q] = levels * each]
    BY <1>1
  <2>2. levels = 1 /\ length \in Nat
    BY ChatAssumption DEF ChatAssumption
  <2>3. 1 * (length + (IF drawn THEN 1 ELSE 0)) = length + (IF drawn THEN 1 ELSE 0)
    BY <2>2
  <2> QED
    BY <2>1, <2>2, <2>3
<1>a. length \in Nat
  BY ChatAssumption DEF ChatAssumption
<1>b. LevelStream(q, 0, length, drawn) = EventsOf(q, length, drawn)
  BY <1>a, StreamIs, Zenon
<1> DEFINE each == length + (IF drawn THEN 1 ELSE 0)
           stream == LevelStream(q, 0, length, drawn)
<1>5. length \in Nat /\ each \in Nat /\ length <= each
  BY ChatAssumption DEF ChatAssumption
<1>6. tokens' = <<>> \o stream /\ said' = [said EXCEPT ![q] = each]
  <2>1. [l \in 1..1 |-> LevelStream(q, (l - 1) * each, length, drawn)] = [l \in 1..1 |-> stream]
    BY <1>5
  <2> HIDE DEF stream
  <2> QED
    BY <1>3, <1>4, <2>1, OneStream DEF Asked
<1>7. said'[q] = each /\ said' \in [Question -> Nat] /\ \A r \in Question \ {q} : said'[r] = said[r]
  BY <1>3, <1>5, <1>6 DEF ShapeInv
<1>8. \A kind, n : Sent(q, kind, n)' = Sent(q, kind, n)
  BY <1>2 DEF Sent
<1>9. tokens' = [i \in 1..(each + 1) |-> Nth(q, length, i)']
  <2>1. stream = [i \in 1..(each + 1) |->
                    IF i <= length THEN Sent(q, "text", i)
                    ELSE IF drawn /\ i = length + 1 THEN Sent(q, "diagram", i)
                    ELSE Sent(q, "done", 0)]
    BY <1>b DEF each, EventsOf
  <2>0. each = IF drawn THEN length + 1 ELSE length
    BY <1>5
  <2> HIDE DEF stream, each
  <2>2. \A i \in 1..(each + 1) : Nth(q, length, i)' = stream[i]
    BY <1>5, <1>7, <1>8, <2>0, <2>1 DEF Nth
  <2>3. <<>> \o stream = stream
    <3> DEFINE R == {stream[i] : i \in 1..(each + 1)}
    <3>1. stream \in [1..(each + 1) -> R] /\ each + 1 \in Nat
      BY <1>5, <2>1
    <3> HIDE DEF R
    <3>2. stream \in Seq(R)
      BY <3>1, SeqDef
    <3> QED
      BY <3>2, ConcatEmptySeq
  <2> QED
    BY <1>6, <2>1, <2>2, <2>3
<1>10. Streaming(q)'
  <2>1. /\ length \in {each, each - 1} \cap Nat /\ 0 \in 0..each
        /\ tokens' = [i \in 1..(each + 1 - 0) |-> Nth(q, length, 0 + i)']
    BY <1>5, <1>9
  <2>2. HeardUpTo(q, length, 0)'
    BY <1>2, <1>3, <1>5 DEF HeardUpTo, Words, Asked, Blank, Fresh
  <2>3. accepted' = {} /\ notices' = <<>> /\ Answered(q)' /\ ~box'.done
    BY <1>1, <1>2, <1>3 DEF Asked, Blank, Fresh, Answered
  <2>4. StreamAt(q, length, 0)'
    BY <1>7, <2>1, <2>2 DEF StreamAt
  <2> QED
    BY <2>3, <2>4 DEF Streaming
<1>11. InHand(active)'
  BY <1>2, <1>3, <1>10 DEF InHand
<1>12. \A r \in 1..Len(messages) : r # active => Past(r)'
  <2> TAKE r \in 1..Len(messages)
  <2>1. r \in Question
    BY ChatAssumption DEF ShapeInv, Question, ChatAssumption
  <2> QED
    BY <1>2, <1>3, <1>7, <2>1, PastStays
<1>13. ShapeInv'
  BY <1>2, <1>7 DEF ShapeInv
<1> QED
  BY <1>2, <1>3, <1>7, <1>11, <1>12, <1>13

LEMMA DeclineStep ==
  ASSUME PlainInv, Decline
  PROVE  PlainInv'
<1> USE DEF PlainInv
<1>1. PICK q \in accepted, kind \in {"clarify", "blocked", "complete"} :
        /\ accepted' = accepted \ {q}
        /\ notices' = Append(notices, Sent(q, kind, 0))
  BY DEF Decline
<1>2. UNCHANGED <<connection, messages, active, box, chart, isSubmitting, posts, tokens, said>>
  BY DEF Decline, page
<1>3. active # 0 /\ q = active /\ Asked(q) /\ accepted = {q} /\ Answered(q)
  BY <1>1 DEF InHand, Asked, Streaming, Noticed, Over
<1>4. notices' = <<Sent(q, kind, 0)'>> /\ accepted' = {}
  BY <1>1, <1>2, <1>3 DEF Asked, Sent
<1>5. Noticed(q)'
  BY <1>2, <1>3, <1>4 DEF Asked, Noticed, Blank, Answered, Fresh
<1>6. InHand(active)'
  BY <1>2, <1>3, <1>5 DEF InHand
<1>7. \A r \in 1..Len(messages) : r # active => Past(r)'
  BY <1>2, PastStays
<1>8. ShapeInv'
  BY <1>2 DEF ShapeInv
<1> QED
  BY <1>2, <1>3, <1>6, <1>7, <1>8

-----------------------------------------------------------------------------
(* What the consumer forwards.                                             *)

\* An event for q reaches its box when the page hears what is for q.
LEMMA Reaches ==
  ASSUME NEW q, NEW kind, NEW n, Deliver(Sent(q, kind, n)), active # 0
  PROVE  /\ Live(q) => Receive(Sent(q, kind, n))
         /\ ~Live(q) => UNCHANGED <<box, chart>>
BY DEF Deliver, Live, Sent

LEMMA ReceiveText ==
  ASSUME NEW q, NEW n, active # 0, Receive(Sent(q, "text", n))
  PROVE  box' = [box EXCEPT !.buffer = Append(box.buffer, <<q, n>>)] /\ chart' = chart
<1>1. Sent(q, "text", n).kind = "text" /\ Sent(q, "text", n).token = <<q, n>>
  BY DEF Sent
<1> QED
  BY <1>1 DEF Receive

LEMMA ReceiveDiagram ==
  ASSUME NEW q, NEW n, active # 0, Receive(Sent(q, "diagram", n))
  PROVE  chart' = [chart EXCEPT ![active] = <<<<q, n>>>>] /\ box' = box
<1>1. Sent(q, "diagram", n).kind = "diagram" /\ Sent(q, "diagram", n).token = <<q, n>>
  BY DEF Sent
<1> QED
  BY <1>1 DEF Receive

LEMMA ReceiveDone ==
  ASSUME NEW q, NEW n, active # 0, Receive(Sent(q, "done", n))
  PROVE  box' = [box EXCEPT !.done = TRUE] /\ chart' = chart
<1>1. Sent(q, "done", n).kind = "done"
  BY DEF Sent
<1> QED
  BY <1>1 DEF Receive

LEMMA ReceiveNotice ==
  ASSUME NEW q, NEW kind \in {"clarify", "blocked", "complete"}, active # 0, box = Fresh,
         Receive(Sent(q, kind, 0))
  PROVE  /\ box' \in {Fresh, [buffer |-> <<<<q, 0>>>>, shown |-> 0, done |-> TRUE]}
         /\ chart' = chart
<1>1. Sent(q, kind, 0).kind = kind /\ Sent(q, kind, 0).token = <<q, 0>>
  BY DEF Sent
<1>2. CASE kind = "complete"
  BY <1>1, <1>2 DEF Receive
<1>3. CASE kind \in {"clarify", "blocked"}
  <2>1. /\ box' = [Fresh EXCEPT !.buffer = Append(<<>>, <<q, 0>>), !.done = TRUE]
        /\ chart' = chart
    BY <1>1, <1>3 DEF Receive, Fresh
  <2>2. Append(<<>>, <<q, 0>>) = <<<<q, 0>>>>
    OBVIOUS
  <2> QED
    BY <2>1, <2>2 DEF Fresh
<1> QED
  BY <1>2, <1>3

LEMMA TokenStep ==
  ASSUME PlainInv, ForwardToken
  PROVE  PlainInv'
<1> USE DEF PlainInv
<1>1. /\ tokens # <<>> /\ Deliver(Head(tokens)) /\ tokens' = Tail(tokens)
      /\ UNCHANGED <<connection, messages, active, isSubmitting, posts, accepted, notices, said>>
  BY DEF ForwardToken
<1>2. active # 0 /\ Streaming(active) /\ active \in 1..Len(messages) /\ active \in Question
  BY <1>1, ChatAssumption
     DEF InHand, Asked, Noticed, Over, ShapeInv, Question, ChatAssumption
<1> PICK q : q = active
  OBVIOUS
<1>3. PICK text, k : StreamAt(q, text, k)
  BY <1>2 DEF Streaming
<1>3a. /\ text \in {said[q], said[q] - 1} \cap Nat /\ k \in 0..said[q]
       /\ tokens = [i \in 1..(said[q] + 1 - k) |-> Nth(q, text, k + i)]
       /\ Live(q) => HeardUpTo(q, text, k)
  BY <1>3 DEF StreamAt
<1>4. said[q] \in Nat /\ box \in Box /\ chart[q] \in Seq(Word)
  BY <1>2 DEF ShapeInv
<1> DEFINE rest == [i \in 1..(said[q] + 1 - (k + 1)) |-> Nth(q, text, k + 1 + i)]
<1>5. Head(tokens) = Nth(q, text, k + 1) /\ Tail(tokens) = rest
  <2> DEFINE m == said[q] + 1 - k
             R == {Nth(q, text, k + i) : i \in 1..m}
  <2>1. m \in Nat /\ m >= 1
    BY <1>3a, <1>4
  <2>2. tokens \in [1..m -> R]
    BY <1>3a
  <2> HIDE DEF R, m
  <2>3. tokens \in Seq(R) /\ Len(tokens) = m
    BY <2>1, <2>2, SeqDef
  <2>4. /\ Head(tokens) = tokens[1] /\ Len(Tail(tokens)) = m - 1 /\ Tail(tokens) \in Seq(R)
        /\ \A i \in 1..(m - 1) : Tail(tokens)[i] = tokens[i + 1]
    BY <1>1, <2>3, HeadTailProperties
  <2>5. tokens[1] = Nth(q, text, k + 1)
    BY <1>3a, <1>4 DEF m
  <2>6. \A i \in 1..(m - 1) : Tail(tokens)[i] = Nth(q, text, k + 1 + i)
    <3> TAKE i \in 1..(m - 1)
    <3>1. i + 1 \in 1..m /\ k + (i + 1) = k + 1 + i
      BY <1>3a, <1>4, <2>1
    <3> QED
      BY <1>3a, <2>4, <3>1 DEF m
  <2>7. Tail(tokens) = [i \in 1..(m - 1) |-> Tail(tokens)[i]]
    BY <2>1, <2>4, LenProperties
  <2>8. m - 1 = said[q] + 1 - (k + 1)
    BY <1>3a, <1>4 DEF m
  <2> QED
    BY <2>4, <2>5, <2>6, <2>7, <2>8
<1> HIDE DEF rest
<1>6. \A kind, n : Sent(q, kind, n)' = Sent(q, kind, n)
  BY <1>1 DEF Sent
<1>7. Live(q)' = Live(q) /\ (Answered(q)' <=> Answered(q))
  BY <1>1 DEF Live, Connected, Answered
<1>8. UNCHANGED <<messages, posts, connection, said, accepted, notices, active>> /\ tokens' = rest
  BY <1>1, <1>5
<1>8a. k < said[q] \/ k = said[q]
  BY <1>3a, <1>4
<1> SUFFICES /\ box' \in Box /\ chart' \in [Question -> Seq(Word)]
             /\ \A r \in Question \ {q} : chart'[r] = chart[r]
             /\ InHand(q)'
  <2>1. ShapeInv' 
    BY <1>8 DEF ShapeInv
  <2>2. ASSUME NEW r \in 1..Len(messages), r # active
        PROVE  Past(r)'
    <3>1. r \in Question /\ r # q
      BY <2>2, ChatAssumption DEF ShapeInv, Question, ChatAssumption
    <3> QED
      BY <1>8, <2>2, <3>1, PastStays
  <2> QED
    BY <1>2, <1>8, <2>1, <2>2
<1>9. CASE ~Live(q)
  <2>1. box' = box /\ chart' = chart
    BY <1>1, <1>2, <1>5, <1>9, Reaches DEF Nth
  <2>2. CASE k < said[q]
    <3>1. tokens' = [i \in 1..(said[q] + 1 - (k + 1)) |-> Nth(q, text, k + 1 + i)']
      BY <1>4, <1>6, <1>8 DEF rest, Nth
    <3>2. StreamAt(q, text, k + 1)'
      BY <1>3a, <1>4, <1>7, <1>8, <1>9, <2>2, <3>1 DEF StreamAt
    <3>3. Streaming(q)'
      BY <1>2, <1>7, <1>8, <2>1, <3>2 DEF Streaming
    <3> QED
      BY <1>2, <1>8, <2>1, <3>3 DEF InHand, ShapeInv
  <2>3. CASE k = said[q]
    <3>1. tokens' = <<>>
      BY <1>4, <1>8, <2>3 DEF rest
    <3>2. Over(q)'
      BY <1>2, <1>7, <1>8, <2>1, <3>1 DEF Streaming, Over
    <3> QED
      BY <1>2, <1>8, <2>1, <3>2 DEF InHand, ShapeInv
  <2> QED
    BY <1>8a, <2>2, <2>3
<1>10. CASE Live(q)
  <2>1. HeardUpTo(q, text, k) /\ ~box.done /\ Receive(Nth(q, text, k + 1))
    BY <1>1, <1>2, <1>3a, <1>5, <1>10, Reaches DEF Nth, Streaming
  <2>2. CASE k < text
    <3>1. Nth(q, text, k + 1) = Sent(q, "text", k + 1)
      BY <1>3a, <1>4, <2>2 DEF Nth
    <3>2. box' = [box EXCEPT !.buffer = Append(box.buffer, <<q, k + 1>>)] /\ chart' = chart
      <4>1. Receive(Sent(q, "text", k + 1))
        BY <2>1, <3>1
      <4> QED
        BY <1>2, <4>1, ReceiveText
    <3>3. box.buffer = Words(q, k)
      BY <1>3a, <1>4, <2>1, <2>2 DEF HeardUpTo
    <3>4. <<q, k + 1>> \in Word /\ box.buffer \in Seq(Word)
      BY <1>2, <1>3a, <1>4 DEF Word, Box
    <3>5. Append(box.buffer, <<q, k + 1>>) = Words(q, k + 1)
      BY <1>3a, <1>4, <3>3, <3>4 DEF Words
    <3>6. /\ box'.buffer = Words(q, k + 1) /\ ~box'.done
          /\ Append(box.buffer, <<q, k + 1>>) \in Seq(Word)
      BY <1>4, <2>1, <3>2, <3>4, <3>5, AppendProperties DEF Box
    <3>7. box' \in Box
      BY <1>4, <3>2, <3>6 DEF Box
    <3>8. HeardUpTo(q, text, k + 1)'
      BY <1>3a, <1>4, <1>8, <2>1, <2>2, <3>2, <3>6 DEF HeardUpTo, Words
    <3>9. k < said[q]
      BY <1>3a, <1>4, <2>2
    <3>10. tokens' = [i \in 1..(said[q] + 1 - (k + 1)) |-> Nth(q, text, k + 1 + i)']
      BY <1>4, <1>6, <1>8 DEF rest, Nth
    <3>11. StreamAt(q, text, k + 1)'
      BY <1>3a, <1>4, <1>8, <3>8, <3>9, <3>10 DEF StreamAt
    <3>12. Streaming(q)'
      BY <1>2, <1>7, <1>8, <3>6, <3>11 DEF Streaming
    <3> QED
      BY <1>2, <1>8, <3>2, <3>7, <3>12 DEF InHand, ShapeInv
  <2>3. CASE ~(k < text) /\ k < said[q]
    <3>1. Nth(q, text, k + 1) = Sent(q, "diagram", k + 1) /\ k = text /\ k + 1 = said[q]
      BY <1>3a, <1>4, <2>3 DEF Nth
    <3>2. chart' = [chart EXCEPT ![q] = <<<<q, k + 1>>>>] /\ box' = box
      <4>1. Receive(Sent(q, "diagram", k + 1))
        BY <2>1, <3>1
      <4> QED
        BY <1>2, <4>1, ReceiveDiagram
    <3>3. <<<<q, k + 1>>>> \in Seq(Word)
      BY <1>2, <1>3a, <1>4 DEF Word
    <3>4. chart' \in [Question -> Seq(Word)] /\ \A r \in Question \ {q} : chart'[r] = chart[r]
      BY <3>2, <3>3 DEF ShapeInv
    <3>5. chart'[q] = [n \in 1..1 |-> <<q, said[q]>>]
      BY <1>2, <3>1, <3>2 DEF ShapeInv
    <3>6. HeardUpTo(q, text, k + 1)'
      <4>1. box'.buffer = Words(q, text) /\ ~(k + 1 <= text)
        BY <1>3a, <1>4, <2>1, <3>1, <3>2 DEF HeardUpTo
      <4>2. said'[q] = said[q] /\ Words(q, text)' = Words(q, text)
        BY <1>8 DEF Words
      <4> QED
        BY <3>5, <4>1, <4>2 DEF HeardUpTo
    <3>7. tokens' = [i \in 1..(said[q] + 1 - (k + 1)) |-> Nth(q, text, k + 1 + i)']
      BY <1>4, <1>6, <1>8 DEF rest, Nth
    <3>8. StreamAt(q, text, k + 1)'
      BY <1>3a, <1>4, <1>8, <2>3, <3>6, <3>7 DEF StreamAt
    <3>9. Streaming(q)'
      BY <1>2, <1>7, <1>8, <2>1, <3>2, <3>8 DEF Streaming
    <3> QED
      BY <1>2, <1>4, <1>8, <3>2, <3>4, <3>9 DEF InHand
  <2>4. CASE ~(k < text) /\ k = said[q]
    <3>1. Nth(q, text, k + 1) = Sent(q, "done", 0) /\ tokens' = <<>>
      BY <1>3a, <1>4, <1>8, <2>4 DEF Nth, rest
    <3>2. box' = [box EXCEPT !.done = TRUE] /\ chart' = chart
      <4>1. Receive(Sent(q, "done", 0))
        BY <2>1, <3>1
      <4> QED
        BY <1>2, <4>1, ReceiveDone
    <3>3. box' \in Box /\ box'.buffer = box.buffer
      BY <1>4, <3>2 DEF Box
    <3>4. box.buffer = Words(q, text) /\ chart[q] = [n \in 1..said[q] - text |-> <<q, said[q]>>]
      BY <1>3a, <1>4, <2>1, <2>4 DEF HeardUpTo
    <3>5. Whole(q, box.buffer)
      BY <1>3a, <3>4 DEF Whole
    <3>6. Over(q)'
      <4>1. PICK c : c = box.buffer
        OBVIOUS
      <4>2. Whole(q, c)' /\ box'.buffer = c
        BY <1>8, <3>2, <3>3, <3>5, <4>1, WholeStays
      <4>3. /\ accepted' = {} /\ tokens' = <<>> /\ notices' = <<>> /\ Answered(q)'
            /\ Whole(q, box.buffer)'
        BY <1>2, <1>7, <1>8, <3>1, <4>2 DEF Streaming
      <4> QED
        BY <4>3 DEF Over
    <3> QED
      BY <1>2, <1>8, <3>2, <3>3, <3>6 DEF InHand, ShapeInv
  <2> QED
    BY <1>3a, <1>4, <1>8a, <2>2, <2>3, <2>4
<1> QED
  BY <1>9, <1>10

LEMMA NoticeStep ==
  ASSUME PlainInv, ForwardNotice
  PROVE  PlainInv'
<1> USE DEF PlainInv
<1>1. /\ notices # <<>> /\ Deliver(Head(notices)) /\ notices' = Tail(notices)
      /\ UNCHANGED <<connection, messages, active, isSubmitting, posts, accepted, tokens, said>>
  BY DEF ForwardNotice
<1>2. active # 0 /\ Noticed(active) /\ active \in 1..Len(messages) /\ active \in Question
  BY <1>1, ChatAssumption
     DEF InHand, Asked, Streaming, Over, ShapeInv, Question, ChatAssumption
<1> PICK q : q = active
  OBVIOUS
<1>3. PICK kind \in {"clarify", "blocked", "complete"} : notices = <<Sent(q, kind, 0)>>
  BY <1>2 DEF Noticed
<1>4. Deliver(Sent(q, kind, 0)) /\ notices' = <<>>
  BY <1>1, <1>3
<1>5. box = Fresh
  BY <1>2 DEF Noticed, Blank
<1>6. /\ box' \in {Fresh, [buffer |-> <<<<q, 0>>>>, shown |-> 0, done |-> TRUE]}
      /\ chart' = chart
  BY <1>2, <1>4, <1>5, Reaches, ReceiveNotice
<1>7. <<<<q, 0>>>> \in Seq(Word)
  BY <1>2 DEF Word
<1>8. box' \in Box /\ (box'.done => box'.buffer = <<<<q, 0>>>>)
  <2> DEFINE c == <<<<q, 0>>>>
  <2>1. c \in Seq(Word) /\ box' \in {Fresh, [buffer |-> c, shown |-> 0, done |-> TRUE]}
    BY <1>6, <1>7
  <2> HIDE DEF c
  <2>2. Fresh \in Box /\ ~Fresh.done
    BY DEF Fresh, Box
  <2>3. [buffer |-> c, shown |-> 0, done |-> TRUE] \in Box
    BY <2>1 DEF Box
  <2>4. box' \in Box
    BY <2>1, <2>2, <2>3
  <2>5. box' = Fresh => ~box'.done
    BY <2>2, Zenon
  <2>6. box' = [buffer |-> c, shown |-> 0, done |-> TRUE] => box'.buffer = c
    OBVIOUS
  <2>7. box'.done => box'.buffer = c
    BY <2>1, <2>5, <2>6, Zenon
  <2> QED
    BY <2>4, <2>7 DEF c
<1>9. Over(q)'
  BY <1>1, <1>2, <1>4, <1>8 DEF Noticed, Over, Answered, Whole
<1>10. InHand(active)'
  BY <1>1, <1>2, <1>9 DEF InHand
<1>11. \A r \in 1..Len(messages) : r # active => Past(r)'
  BY <1>1, <1>6, PastStays
<1>12. ShapeInv'
  BY <1>1, <1>6, <1>8 DEF ShapeInv
<1> QED
  BY <1>1, <1>2, <1>6, <1>10, <1>11, <1>12

-----------------------------------------------------------------------------
(* The invariant.                                                          *)

LEMMA ChatInit == Init => ChatInv
<1> SUFFICES ASSUME Init
             PROVE  ChatInv
  OBVIOUS
<1>1. LockInv
  <2>1. <<>> \in Seq({}) /\ Len(<<>>) = 0
    OBVIOUS
  <2>2. messages = <<>> /\ active = 0 /\ ~isSubmitting /\ isSubmitting \in BOOLEAN /\ requestError \in BOOLEAN
    BY DEF Init
  <2> QED
    BY <2>1, <2>2 DEF LockInv
<1>2. ShapeInv
  BY ChatAssumption DEF Init, ShapeInv, Fresh, Box, ChatAssumption
<1> QED
  BY <1>1, <1>2 DEF Init, ChatInv, PlainInv

LEMMA ChatStep == ChatInv /\ [Next]_vars => ChatInv'
<1> SUFFICES ASSUME ChatInv, [Next]_vars
             PROVE  ChatInv'
  OBVIOUS
<1>1. LockInv'
  BY LockStep DEF ChatInv
<1>2. Plain' => Plain
  BY DEF Plain, Next, vars, Submit, Reply, Tick, Drop, Reconnect, AttemptFails, Ingest, Answer,
         Decline, ForwardToken, ForwardNotice, BadRecord
<1>3. ASSUME Plain PROVE PlainInv'
  BY <1>3, SubmitStep, ReplyStep, TickStep, ConnectionStep, IngestStep, AnswerStep, DeclineStep,
     TokenStep, NoticeStep DEF ChatInv, Next
<1> QED
  BY <1>1, <1>2, <1>3 DEF ChatInv

LEMMA ChatInvariant == Spec => []ChatInv
BY ChatInit, ChatStep, PTL DEF Spec

\* Whatever is refused, dropped or ends in silence, and however many questions are
\* asked, a finalised message is the answer to its own question, all of it and in
\* order (ChatWindow.tsx, StreamResponseBox.tsx), as long as posts tell the truth and a
\* question has one level.
THEOREM AnswerIsItsOwnAlways == Spec => []AnswerIsItsOwn
<1>1. ASSUME ChatInv PROVE AnswerIsItsOwn
  <2> SUFFICES ASSUME Plain, NEW q \in DOMAIN messages, ~messages[q].streaming
               PROVE  Whole(q, messages[q].content)
    BY DEF AnswerIsItsOwn, Whole, Words
  <2> USE <1>1 DEF ChatInv, PlainInv
  <2>1. q \in 1..Len(messages)
    BY DEF ShapeInv
  <2> QED
    BY <2>1 DEF Past, InHand, ShapeInv
<1> QED
  BY <1>1, ChatInvariant, PTL

\* In every world the form is locked only while a box is active; it is open under an
\* active box only after a request failed, and with plain posts after the box's own.
THEOREM LockedWhileActiveAlways == Spec => []LockedWhileActive
<1>1. ASSUME ChatInv PROVE LockedWhileActive
  <2> USE <1>1 DEF ChatInv, LockInv, PlainInv
  <2>1. ASSUME active # 0, ~isSubmitting, Plain
        PROVE  posts[active].status = "replied"
    BY <2>1 DEF InHand, Asked, Streaming, Noticed, Over, Answered
  <2> QED
    BY <2>1 DEF LockedWhileActive
<1> QED
  BY <1>1, ChatInvariant, PTL
=============================================================================
