------------------------------ MODULE ChatPage ------------------------------
(***************************************************************************)
(* The chat page (react_ui) and the backend it talks to: the page posts a  *)
(* question over HTTP (chat_request.py publishes it) and hears the answer  *)
(* over a Socket.IO connection, to which the backend's consumer loop       *)
(* (socket.py) forwards what the agents put on Kafka.  The two ways are    *)
(* independent: a reply may come before or after the answer, and a         *)
(* connection that is lost comes back under another sid.                   *)
(*                                                                         *)
(* Messages are the assistant's, one for each question; a token is a pair  *)
(* <<question, n>> and shows in one tick of the typewriter (five           *)
(* characters).  Section headings, uploads and progress texts are left     *)
(* out.                                                                    *)
(***************************************************************************)
EXTENDS Naturals, Sequences, SequencesExt

CONSTANTS
  Worlds,       \* the sets of things that may happen together: see Happening
  Attempts,     \* reconnectionAttempts
  MaxLevels, MaxQuestions, MaxTokens, MaxDrops    \* bounds

\* "refused": a post that is not published; "unconfirmed": one that is, and is
\* answered with an error; "silent": a workflow that ends with no stream;
\* "not_json": such a record; "drop": a lost connection; "levels": an answer at
\* more than one level.
Happening == {"refused", "unconfirmed", "silent", "not_json", "drop", "levels"}

ASSUME ChatAssumption ==
  /\ Worlds \subseteq SUBSET Happening
  /\ {MaxLevels, Attempts, MaxQuestions, MaxTokens, MaxDrops} \subseteq Nat

VARIABLES
  world,        \* what may happen in this behaviour, one of Worlds
  connection,   \* the socket: whether it is up, its latest sid, failed attempts
  drops,
  messages,     \* the messages, each [content, streaming]
  active,       \* activeStreamMessageId as an index, 0 for null
  box,          \* the refs of the active StreamResponseBox
  chart,        \* the diagram each box draws
  isSubmitting, requestError,
  posts,        \* the request of each question: [sid, status]
  accepted,     \* the questions published on init-planner and not yet answered
  tokens,       \* stream-tokens: what the backend has yet to forward
  notices,      \* likewise clarify-user-level and workflow-complete
  forwarding,   \* the backend's consumer task is alive
  said,         \* history: how many tokens the answer to a question had
  heard         \* history: the tokens that reached the page

page    == <<messages, active, box, chart, isSubmitting, requestError>>
backend == <<accepted, tokens, notices, forwarding, said>>
vars    == <<world, connection, drops, page, posts, backend, heard>>

Question == 1..MaxQuestions
Token    == Question \X (0..MaxLevels * (MaxTokens + 1))     \* 0 is a notice
Connected == connection.state = "up"

TypeOK ==
  /\ world \in Worlds
  /\ connection \in [state : {"up", "down", "dead"}, sid : 1..MaxDrops + 1, failed : 0..Attempts]
  /\ drops \in 0..MaxDrops
  /\ messages \in Seq([content : Seq(Token), streaming : BOOLEAN])
  /\ active \in 0..Len(messages)
  /\ box.buffer \in Seq(Token) /\ box.shown \in 0..Len(box.buffer) /\ box.done \in BOOLEAN
  /\ chart \in [Question -> Seq(Token)]
  /\ isSubmitting \in BOOLEAN /\ requestError \in BOOLEAN /\ forwarding \in BOOLEAN
  /\ posts \in Seq([sid : 1..MaxDrops + 1, status : {"sent", "ok", "error", "replied"}])
  /\ accepted \subseteq Question
  /\ said \in [Question -> 0..MaxLevels * (MaxTokens + 1)]

\* A StreamResponseBox whose message changed: effect 1.
Fresh == [buffer |-> <<>>, shown |-> 0, done |-> FALSE]

Init ==
  /\ world \in Worlds
  /\ connection = [state |-> "up", sid |-> 1, failed |-> 0] /\ drops = 0
  /\ messages = <<>> /\ active = 0 /\ box = Fresh
  /\ chart = [q \in Question |-> <<>>]
  /\ isSubmitting = FALSE /\ requestError = FALSE
  /\ posts = <<>> /\ accepted = {} /\ tokens = <<>> /\ notices = <<>> /\ forwarding = TRUE
  /\ said = [q \in Question |-> 0] /\ heard = <<>>
-----------------------------------------------------------------------------
(* The page.                                                               *)

\* handleSubmit, up to the post.
Submit ==
  /\ Connected /\ ~isSubmitting /\ Len(messages) < MaxQuestions
  /\ requestError' = FALSE /\ isSubmitting' = TRUE
  /\ messages' = Append(messages, [content |-> <<>>, streaming |-> TRUE])
  /\ active' = Len(messages) + 1 /\ box' = Fresh
  /\ posts' = Append(posts, [sid |-> connection.sid, status |-> "sent"])
  /\ UNCHANGED <<world, connection, drops, chart, backend, heard>>

\* Mutant: a refused request leaves the form locked.
ReplyKeepsLock ==
  /\ \E q \in DOMAIN posts :
       /\ posts[q].status \in {"ok", "error"}
       /\ posts' = [posts EXCEPT ![q].status = "replied"]
       /\ requestError' = (requestError \/ posts[q].status = "error")
  /\ UNCHANGED <<world, connection, drops, messages, active, box, chart, isSubmitting, backend, heard>>

\* handleSubmit, after the post: its reply, or the failure of the fetch.
Reply ==
  /\ \E q \in DOMAIN posts :
       /\ posts[q].status \in {"ok", "error"}
       /\ posts' = [posts EXCEPT ![q].status = "replied"]
       /\ requestError' = (requestError \/ posts[q].status = "error")
       /\ isSubmitting' = (isSubmitting /\ posts[q].status = "ok")
  /\ UNCHANGED <<world, connection, drops, messages, active, box, chart, backend, heard>>

\* Mutant: onDone clears the lock and leaves the box active.
TickStaysActive ==
  /\ active /= 0
  /\ \/ /\ box.shown < Len(box.buffer)
        /\ box' = [box EXCEPT !.shown = @ + 1]
        /\ UNCHANGED <<messages, isSubmitting>>
     \/ /\ box.shown = Len(box.buffer) /\ box.done
        /\ messages' = [messages EXCEPT ![active] =
                          [content |-> box.buffer, streaming |-> FALSE]]
        /\ box' = Fresh /\ isSubmitting' = FALSE
  /\ UNCHANGED <<world, connection, drops, chart, active, requestError, posts, backend, heard>>

\* The typewriter: it shows the next token, or, when all is shown and the
\* stream is done, has handleAssistantStreamDone finalise the message.
Tick ==
  /\ active /= 0
  /\ \/ /\ box.shown < Len(box.buffer)
        /\ box' = [box EXCEPT !.shown = @ + 1]
        /\ UNCHANGED <<messages, active, isSubmitting>>
     \/ /\ box.shown = Len(box.buffer) /\ box.done
        /\ messages' = [messages EXCEPT ![active] =
                          [content |-> box.buffer, streaming |-> FALSE]]
        /\ active' = 0 /\ box' = Fresh /\ isSubmitting' = FALSE
  /\ UNCHANGED <<world, connection, drops, chart, requestError, posts, backend, heard>>

\* The active box takes an event of the socket; without one it is lost.
Receive(e) ==
  IF active = 0 THEN UNCHANGED <<box, chart>>
  ELSE CASE e.kind = "done"    -> box' = [box EXCEPT !.done = TRUE] /\ UNCHANGED chart
         [] e.kind = "diagram" -> chart' = [chart EXCEPT ![active] = <<e.token>>] /\ UNCHANGED box
         [] e.kind = "text"    -> /\ box' = [box EXCEPT !.buffer = Append(@, e.token)]
                                  /\ UNCHANGED chart
         [] e.kind \in {"clarify", "blocked"} ->
              /\ box' = [box EXCEPT !.buffer = Append(@, e.token), !.done = TRUE]
              /\ UNCHANGED chart
         [] e.kind = "complete" -> UNCHANGED <<box, chart>>
-----------------------------------------------------------------------------
(* The connection: App and socket.ts, connect and disconnect of socket.py. *)

Drop ==
  /\ Connected /\ drops < MaxDrops /\ "drop" \in world
  /\ drops' = drops + 1 /\ connection' = [connection EXCEPT !.state = "down"]
  /\ UNCHANGED <<world, page, posts, backend, heard>>

Reconnect ==
  /\ connection.state = "down"
  /\ connection' = [state |-> "up", sid |-> connection.sid + 1, failed |-> 0]
  /\ UNCHANGED <<world, drops, page, posts, backend, heard>>

AttemptFails ==
  /\ connection.state = "down"
  /\ connection' = [connection EXCEPT !.failed = @ + 1,
                      !.state = IF connection.failed + 1 = Attempts THEN "dead" ELSE "down"]
  /\ UNCHANGED <<world, drops, page, posts, backend, heard>>
-----------------------------------------------------------------------------
(* The backend and the agents behind it.                                   *)

\* ingest_user_request: the question is published and the post answered; an
\* error does not mean it was not published.
Ingest ==
  /\ \E q \in DOMAIN posts :
       /\ posts[q].status = "sent"
       /\ \/ /\ accepted' = accepted \cup {q}
             /\ \E s \in {"ok"} \cup (IF "unconfirmed" \in world THEN {"error"} ELSE {}) :
                  posts' = [posts EXCEPT ![q].status = s]
          \/ /\ "refused" \in world
             /\ posts' = [posts EXCEPT ![q].status = "error"] /\ UNCHANGED accepted
  /\ UNCHANGED <<world, connection, drops, page, tokens, notices, forwarding, said, heard>>

Sent(q, kind, n) == [question |-> q, sid |-> posts[q].sid, kind |-> kind, token |-> <<q, n>>]

\* One level's stream from token n + 1 on: text, perhaps a diagram, the sentinel.
LevelStream(q, n, length, drawn) ==
  [i \in 1..length |-> Sent(q, "text", n + i)]
    \o (IF drawn THEN <<Sent(q, "diagram", n + length + 1)>> ELSE <<>>)
    \o <<Sent(q, "done", 0)>>

\* The teaching agent streams the levels of a question one after the other.
Answer ==
  /\ \E q \in accepted :
       /\ accepted' = accepted \ {q}
       /\ \E levels \in 1..(IF "levels" \in world THEN MaxLevels ELSE 1), length \in 1..MaxTokens, drawn \in BOOLEAN :
            LET each == length + (IF drawn THEN 1 ELSE 0)
            IN  /\ tokens' = tokens \o FlattenSeq(
                     [l \in 1..levels |-> LevelStream(q, (l - 1) * each, length, drawn)])
                /\ said' = [said EXCEPT ![q] = levels * each]
  /\ UNCHANGED <<world, connection, drops, page, posts, notices, forwarding, heard>>

\* The orchestrator asks for a level or refuses the question; or the workflow
\* ends in some other way and nothing was streamed.
Decline ==
  /\ \E q \in accepted, kind \in {"clarify", "blocked"}
                                   \cup (IF "silent" \in world THEN {"complete"} ELSE {}) :
       /\ accepted' = accepted \ {q}
       /\ notices' = Append(notices, Sent(q, kind, 0))
  /\ UNCHANGED <<world, connection, drops, page, posts, tokens, forwarding, said, heard>>

\* Mutant: what is for an older connection is given to the present one.
DeliverToAnyone(e) ==
  IF Connected
  THEN /\ Receive(e)
       /\ heard' = IF e.kind \in {"text", "diagram"} THEN Append(heard, e.token) ELSE heard
  ELSE UNCHANGED <<box, chart, heard>>

\* emit_event and the handlers' test of the sid.
Deliver(e) ==
  IF Connected /\ e.sid = connection.sid
  THEN /\ Receive(e)
       /\ heard' = IF e.kind \in {"text", "diagram"} THEN Append(heard, e.token) ELSE heard
  ELSE UNCHANGED <<box, chart, heard>>

\* run_consumer: the next record of a topic.
ForwardToken ==
  /\ forwarding /\ tokens /= <<>>
  /\ Deliver(Head(tokens)) /\ tokens' = Tail(tokens)
  /\ UNCHANGED <<world, connection, drops, messages, active, isSubmitting, requestError, posts,
                 accepted, notices, forwarding, said>>

ForwardNotice ==
  /\ forwarding /\ notices /= <<>>
  /\ Deliver(Head(notices)) /\ notices' = Tail(notices)
  /\ UNCHANGED <<world, connection, drops, messages, active, isSubmitting, requestError, posts,
                 accepted, tokens, forwarding, said>>

\* A record that is no JSON: poll() raises, outside of the loop's try.
BadRecord ==
  /\ "not_json" \in world /\ forwarding
  /\ forwarding' = FALSE
  /\ UNCHANGED <<world, connection, drops, page, posts, accepted, tokens, notices, said, heard>>

Next ==
  \/ Submit \/ Reply \/ Tick
  \/ Drop \/ Reconnect \/ AttemptFails
  \/ Ingest \/ Answer \/ Decline \/ ForwardToken \/ ForwardNotice \/ BadRecord

Spec == Init /\ [][Next]_vars

\* The typewriter's timer, the consumer loop and the agents go on, and every
\* post gets a reply.
FairSpec ==
  Spec /\ WF_vars(Reply) /\ WF_vars(Tick) /\ WF_vars(Ingest)
       /\ WF_vars(Answer \/ Decline) /\ WF_vars(ForwardToken) /\ WF_vars(ForwardNotice)
-----------------------------------------------------------------------------

\* Posts tell the truth, and a question is answered at one level.
Plain == world \cap {"unconfirmed", "levels"} = {}

\* A finalised message is the answer to its own question, all of it and in
\* order: no reply, reconnection or later question mixes two answers or cuts
\* one short, as long as posts tell the truth and a question has one level.
AnswerIsItsOwn ==
  Plain =>
    \A q \in DOMAIN messages :
      ~messages[q].streaming =>
         \/ messages[q].content = <<<<q, 0>>>>
         \/ \E text \in {said[q], said[q] - 1} :
              /\ messages[q].content = [n \in 1..text |-> <<q, n>>]
              /\ chart[q] = [n \in 1..said[q] - text |-> <<q, said[q]>>]

\* The form is locked only while a box is active, and it is open under an
\* active box only after a request failed (that of the box itself, unless a post
\* lies or the sentinel of a second level finalised another message): the user
\* is neither locked out nor free to ask twice.
LockedWhileActive ==
  /\ isSubmitting => active /= 0
  /\ active /= 0 /\ ~isSubmitting =>
       /\ requestError
       /\ Plain => posts[active].status = "replied"

\* A question asked is answered or refused and the form is open again, while
\* the connection holds, the forwarding goes on and workflows do not end in
\* silence.
FormReopens ==
  isSubmitting ~> (~isSubmitting \/ drops > 0 \/ ~forwarding \/ "silent" \in world)

\* SC-002: every token of the teaching agent is rendered, in the order it came.
\* The page drops what follows the first level's sentinel.
AllRendered ==
  \A i \in DOMAIN heard :
    \E q \in DOMAIN messages :
      LET all == IF q = active THEN box.buffer ELSE messages[q].content
      IN  heard[i] \in ToSet(all) \cup ToSet(chart[q])
=============================================================================
