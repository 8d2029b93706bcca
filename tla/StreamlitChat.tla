---------------------------- MODULE StreamlitChat ----------------------------
(***************************************************************************)
(* The Streamlit UI (ui_frontend/) over the backend it talks to: the       *)
(* Socket.IO client in a thread of its own (socketio_client.py), the queue *)
(* it shares with the script thread, and the chat tab (app.py, router.py,  *)
(* state.py).  The services behind the backend are what they promise: they *)
(* answer a question at one or two levels, one stream after another, ask   *)
(* for the level instead, or say nothing.                                  *)
(*                                                                         *)
(* The library calls the handlers one at a time, gives each connection a   *)
(* sid of its own and gives up after MaxRetries attempts in a row.  A sid   *)
(* is the number of its connection.  The server knows the connection by an *)
(* id of its own; that the client's is the same is SameId, which does not  *)
(* hold for the library as pinned (python-socketio 5.11 or later, whose    *)
(* sio.sid is the id of the transport).  The quiz tab is left out, and so  *)
(* is that Streamlit may break off a script that handles an item.          *)
(***************************************************************************)
EXTENDS BackendService, SequencesExt

CONSTANTS
  MaxRetries,   \* MAX_RETRIES of the client
  MaxLevels,    \* bound of the levels of an answer
  MaxTokens,    \* bound of the tokens of a level
  MaxDrops,     \* bound of the connections the network loses
  SameId,       \* external: sio.sid is the id by which the server knows the connection
  NoQuestion

ASSUME StreamlitAssumption ==
  /\ {MaxRetries, MaxLevels, MaxTokens} \subseteq Nat \ {0} /\ MaxDrops \in Nat
  /\ NoQuestion \notin Question
  /\ SameId \in BOOLEAN

MaxSid  == 1 + MaxDrops + MaxDeaths
Sids    == 1..MaxSid
\* A stream of tokens is <<sid, generation>>; generation 0 is the bare stream key.
Streams == Sids \X Nat
NoStream == <<0, 0>>

Token    == [question : Question, level : 1..MaxLevels, n : 1..MaxTokens]
Clarification == [question |-> NoQuestion, level |-> 1, n |-> 1]
Failure       == [question |-> NoQuestion, level |-> 1, n |-> 2]
Notice   == {Clarification, Failure}     \* texts that are no answer
Message  == [role : {"user", "assistant"}, of : Question \cup {NoQuestion},
             content : Seq(Token \cup Notice), stream : Streams \cup {NoStream},
             complete : BOOLEAN, info : BOOLEAN]
Lifecycle == {"connecting", "connected", "reconnecting", "disconnected", "failed"}

VARIABLES
  \* the client's thread
  link,            \* its transport
  sid, lastSid,    \* self.sid; how many sids there have been
  attempts,        \* attempts of the library since the connection was lost
  errorCount,      \* _connect_error_count
  generations,     \* _stream_generations
  activeStreams,   \* _active_stream_ids, as generations; 0 for no entry
  sequences,       \* _stream_sequences of the active stream
  drops,           \* connections the network lost
  eventQueue,      \* the queue, oldest first
  \* the script thread
  shown,           \* connection_state.state
  pageSid,         \* st.session_state.socketio_sid
  chat,            \* ChatStreamState
  history,         \* st.session_state.chat_messages
  posting,         \* the question whose post the script waits for
  \* the services
  sidOf,           \* the sid each question was posted with
  asked,           \* the questions posted so far
  owed,            \* streams still to be sent, the first one under way
  handled,         \* questions the orchestrator has dealt with
  \* for the properties
  crowded,         \* questions that were not alone
  broken,          \* questions with a level that had no token or was not all delivered
  taken            \* per question and level, the tokens the page has taken

client   == <<link, sid, lastSid, attempts, errorCount, drops>>
streams  == <<generations, activeStreams, sequences>>
page     == <<shown, pageSid, chat, history, posting>>
services == <<sidOf, asked, owed, handled>>
ghosts   == <<crowded, broken, taken>>
vars     == <<backendVars, client, streams, eventQueue, page, services, ghosts>>

NewChat(s) == [stream |-> s, text |-> <<>>, last |-> 0, complete |-> FALSE]

TypeOK ==
  /\ BackendTypeOK
  /\ link \in {"off", "connecting", "up", "down", "gave_up", "ended"}
  /\ {sid, lastSid, pageSid} \subseteq 0..MaxSid
  /\ attempts \in 0..MaxRetries /\ errorCount \in 0..MaxRetries /\ drops \in 0..MaxDrops
  /\ generations \in [Sids -> Nat] /\ activeStreams \in [Sids -> Nat]
  /\ sequences \in [Sids -> Nat]
  /\ shown \in Lifecycle
  /\ chat.text \in Seq(Token)
  /\ history \in Seq(Message)
  /\ posting \in Question \cup {NoQuestion}
  /\ sidOf \in [Question -> 0..MaxSid]
  /\ asked \cup handled \cup crowded \cup broken \subseteq Question
  /\ owed \in Seq([question : Question, level : 1..MaxLevels, sent : 0..MaxTokens])

Init ==
  /\ BackendInit
  /\ link = "off" /\ sid = 0 /\ lastSid = 0
  /\ attempts = 0 /\ errorCount = 0 /\ drops = 0
  /\ generations = [s \in Sids |-> 0] /\ activeStreams = [s \in Sids |-> 0]
  /\ sequences = [s \in Sids |-> 0]
  /\ eventQueue = <<>>
  /\ shown = "connecting" /\ pageSid = 0
  /\ chat = NewChat(NoStream) /\ history = <<>> /\ posting = NoQuestion
  /\ sidOf = [q \in Question |-> 0] /\ asked = {} /\ owed = <<>> /\ handled = {}
  /\ crowded = {} /\ broken = {}
  /\ taken = [q \in Question |-> [l \in 1..MaxLevels |-> <<>>]]

-----------------------------------------------------------------------------
(* The client's thread.                                                    *)

State(s)       == [kind |-> "state", state |-> s]
EmitStates(ss) == eventQueue' = eventQueue \o [i \in DOMAIN ss |-> State(ss[i])]

\* main() of the first run of the script: the client's thread connects.
Open ==
  /\ link = "off"
  /\ link' = "connecting"
  /\ EmitStates(<<"connecting">>)
  /\ UNCHANGED <<backendVars, sid, lastSid, attempts, errorCount, drops, streams, page, services, ghosts>>

\* _on_connect_error
ConnectError == IF errorCount + 1 >= MaxRetries THEN "failed" ELSE "reconnecting"

\* The first attempt fails: connect() and run() say so, and run() disconnects.
FirstAttemptFails ==
  /\ link = "connecting" /\ phase /= "serving"
  /\ link' = "ended"
  /\ errorCount' = errorCount + 1
  /\ EmitStates(<<ConnectError, "failed", "failed", "disconnected">>)
  /\ UNCHANGED <<backendVars, sid, lastSid, attempts, drops, streams, page, services, ghosts>>

\* Mutant: failures before a connection count after it.
KeepErrorCount == errorCount

ResetErrorCount == 0

\* The session that a client with sid s names is a connection of the backend.
Routable(s) == SameId /\ s \in connections

\* _on_connect, first or again: the backend registers a new connection, and the
\* client takes what the library says for its sid.
Connect ==
  /\ link \in {"connecting", "down"} /\ phase = "serving"
  /\ link' = "up" /\ attempts' = 0
  /\ lastSid' = lastSid + 1 /\ sid' = lastSid'
  /\ errorCount' = ResetErrorCount
  /\ connections' = connections \cup {sid'}
  /\ eventQueue' = Append(eventQueue, [kind |-> "connected", sid |-> sid'])
  /\ UNCHANGED <<world, startup, consumer, uploads, drops, streams, page, services, ghosts>>

\* _on_disconnect while run() goes on: the network fails, or the backend died.
Disconnect ==
  /\ link = "up"
  /\ \/ sid \notin connections /\ UNCHANGED drops
     \/ drops < MaxDrops /\ drops' = drops + 1
  /\ link' = "down" /\ attempts' = 0
  /\ connections' = connections \ {sid}
  /\ EmitStates(<<"reconnecting">>)
  /\ UNCHANGED <<world, startup, consumer, uploads, sid, lastSid, errorCount, streams, page,
                 services, ghosts>>

\* An attempt to reconnect fails; after the last one the library gives up.
AttemptFails ==
  /\ link = "down" /\ phase /= "serving"
  /\ attempts' = attempts + 1
  /\ errorCount' = errorCount + 1
  /\ link' = IF attempts' = MaxRetries THEN "gave_up" ELSE "down"
  /\ EmitStates(<<ConnectError>>)
  /\ UNCHANGED <<backendVars, sid, lastSid, drops, streams, page, services, ghosts>>

\* Mutant: every stream of a connection has one name.
SameGeneration(s) == 1

NextGeneration(s) == generations[s] + 1

\* _route_teaching for a token: the first one opens a stream.
RouteToken(s, token) ==
  LET opens == activeStreams[s] = 0
      gen   == IF opens THEN NextGeneration(s) ELSE activeStreams[s]
      seq   == IF opens THEN 1 ELSE sequences[s] + 1
  IN  /\ generations' = [generations EXCEPT ![s] = IF opens THEN gen ELSE @]
      /\ activeStreams' = [activeStreams EXCEPT ![s] = gen]
      /\ sequences' = [sequences EXCEPT ![s] = seq]
      /\ eventQueue' = Append(eventQueue, [kind |-> "token", stream |-> <<s, gen>>,
                                           seq |-> seq, token |-> token])

\* ... and for the sentinel, which ends it; without a token the key is its name.
RouteDone(s) ==
  /\ eventQueue' = Append(eventQueue, [kind |-> "complete", stream |-> <<s, activeStreams[s]>>])
  /\ activeStreams' = [activeStreams EXCEPT ![s] = 0]
  /\ sequences' = [sequences EXCEPT ![s] = 0]
  /\ UNCHANGED generations

-----------------------------------------------------------------------------
(* The services behind the backend.                                        *)

\* The consumer forwards a record to the connection its sid names, if it names
\* one.  A record sent while the consumer starts is lost (a group without an
\* offset reads from the latest record) or late, which is to be sent later; one
\* sent to a dead consumer stays in its topic until its sid is gone.
Reaches(q) == consumer = "running" /\ link = "up" /\ sidOf[q] = sid /\ Routable(sid)

\* The orchestrator has the question taught at some levels.
Teach(q) ==
  /\ broker /\ q \in published \ handled
  /\ handled' = handled \cup {q}
  /\ \E n \in 1..MaxLevels :
       owed' = owed \o [l \in 1..n |-> [question |-> q, level |-> l, sent |-> 0]]
  /\ UNCHANGED <<backendVars, client, streams, eventQueue, page, sidOf, asked, ghosts>>

\* ... asks for the level, which reaches the client as a planner status, ...
Clarify(q) ==
  /\ broker /\ q \in published \ handled
  /\ handled' = handled \cup {q}
  /\ eventQueue' = IF Reaches(q) THEN Append(eventQueue, [kind |-> "status"]) ELSE eventQueue
  /\ UNCHANGED <<backendVars, client, streams, page, sidOf, asked, owed, ghosts>>

\* ... or loses it.
Lose(q) ==
  /\ broker /\ q \in published \ handled
  /\ handled' = handled \cup {q}
  /\ UNCHANGED <<backendVars, client, streams, eventQueue, page, sidOf, asked, owed, ghosts>>

SendToken ==
  /\ broker /\ owed /= <<>> /\ Head(owed).sent < MaxTokens
  /\ LET now   == Head(owed)
         token == [question |-> now.question, level |-> now.level, n |-> now.sent + 1]
     IN  /\ owed' = <<[now EXCEPT !.sent = @ + 1]>> \o Tail(owed)
         /\ IF Reaches(now.question)
              THEN RouteToken(sid, token) /\ UNCHANGED broken
              ELSE broken' = broken \cup {now.question} /\ UNCHANGED <<streams, eventQueue>>
  /\ UNCHANGED <<backendVars, client, page, sidOf, asked, handled, crowded, taken>>

\* The sentinel follows whatever was said, also when a call failed before a token.
SendDone ==
  /\ broker /\ owed /= <<>>
  /\ owed' = Tail(owed)
  /\ broken' = IF Head(owed).sent > 0 /\ Reaches(Head(owed).question)
                 THEN broken ELSE broken \cup {Head(owed).question}
  /\ IF Reaches(Head(owed).question) THEN RouteDone(sid)
                                     ELSE UNCHANGED <<streams, eventQueue>>
  /\ UNCHANGED <<backendVars, client, page, sidOf, asked, handled, crowded, taken>>

-----------------------------------------------------------------------------
(* The script thread: the queue.                                           *)

Mark(state) == shown' = state

LastIsAssistant == history /= <<>> /\ Last(history).role = "assistant"

\* Mutant: a number that was seen before is ignored in any stream.
SeenInAnyStream(e) == e.seq <= chat.last

Seen(e) == chat.stream = e.stream /\ e.seq <= chat.last

\* apply_teaching_token: another stream starts afresh.
ApplyToken(e) ==
  IF Seen(e) THEN chat
  ELSE LET base == IF chat.stream = e.stream THEN chat ELSE NewChat(e.stream)
       IN  [base EXCEPT !.text = Append(@, e.token), !.last = e.seq, !.complete = FALSE]

\* apply_teaching_complete: the client sends no final text.
ApplyComplete(e) == [chat EXCEPT !.stream = e.stream, !.complete = TRUE]

\* The slots a stream is written to, oldest first.
SlotsOf(s) == {i \in DOMAIN history : /\ history[i].role = "assistant"
                                      /\ ~history[i].complete
                                      /\ history[i].stream = s}
OpenAtEnd  == LastIsAssistant /\ ~Last(history).complete

\* _on_event for a token, with the chat state it led to.
ShowToken(c) ==
  history' = IF SlotsOf(c.stream) /= {}
               THEN [history EXCEPT ![Min(SlotsOf(c.stream))].content = c.text]
             ELSE IF OpenAtEnd
               THEN [history EXCEPT ![Len(history)].content = c.text,
                                    ![Len(history)].stream = c.stream]
             ELSE Append(history, [role |-> "assistant", of |-> NoQuestion, content |-> c.text,
                                   stream |-> c.stream, complete |-> c.complete, info |-> FALSE])

\* ... for the end of a stream: the last message is final.
ShowComplete(c) ==
  history' = IF LastIsAssistant
               THEN [history EXCEPT ![Len(history)].content = c.text,
                                    ![Len(history)].complete = TRUE]
               ELSE history

\* ... for a planner status, unless it repeats the last message.
ShowStatus ==
  history' = IF LastIsAssistant /\ Last(history).info /\ Last(history).content = <<Clarification>>
               THEN history
               ELSE Append(history, [role |-> "assistant", of |-> NoQuestion,
                                     content |-> <<Clarification>>, stream |-> NoStream,
                                     complete |-> TRUE, info |-> TRUE])

Take(e) ==
  \/ /\ e.kind = "connected"
     /\ pageSid' = e.sid /\ Mark("connected")
     /\ UNCHANGED <<chat, history, taken>>
  \/ /\ e.kind = "state"
     /\ Mark(e.state)
     /\ UNCHANGED <<pageSid, chat, history, taken>>
  \/ /\ e.kind = "token"
     /\ chat' = ApplyToken(e) /\ ShowToken(chat')
     /\ taken' = [taken EXCEPT ![e.token.question][e.token.level] = Append(@, e.token)]
     /\ UNCHANGED <<shown, pageSid>>
  \/ /\ e.kind = "complete"
     /\ chat' = ApplyComplete(e) /\ ShowComplete(chat')
     /\ UNCHANGED <<shown, pageSid, taken>>
  \/ /\ e.kind = "status"
     /\ ShowStatus
     /\ UNCHANGED <<shown, pageSid, chat, taken>>

\* One turn of _drain_event_queue.
TakeItem ==
  /\ eventQueue /= <<>> /\ posting = NoQuestion
  /\ Take(Head(eventQueue))
  /\ eventQueue' = Tail(eventQueue)
  /\ UNCHANGED <<backendVars, client, streams, posting, services, crowded, broken>>

-----------------------------------------------------------------------------
(* The script thread: the chat tab.                                        *)

\* Nothing more will come of the questions asked so far but what is shown.
Settled == /\ asked \cap handling = {} /\ asked \cap published \subseteq handled
           /\ owed = <<>>
           /\ \A i \in DOMAIN eventQueue : eventQueue[i].kind \notin {"token", "complete", "status"}

Said(role, q) ==
  [role |-> role, of |-> q, content |-> <<>>, stream |-> NoStream,
   complete |-> role = "user", info |-> FALSE]

\* A question is posted: its message, the slot of its answer, and the request,
\* for which the script waits.
Submit(q, n) ==
  /\ shown = "connected" /\ pageSid /= 0 /\ posting = NoQuestion
  /\ q \notin asked
  /\ asked' = asked \cup {q}
  /\ history' = history \o <<Said("user", q), Said("assistant", q)>>
  /\ posting' = q
  /\ sidOf' = [sidOf EXCEPT ![q] = pageSid]
  /\ crowded' = IF Settled THEN crowded ELSE crowded \cup asked \cup {q}
  /\ IF phase = "serving"
       THEN Accept(q, n)
       ELSE /\ answer' = [answer EXCEPT ![q] = "error"]
            /\ UNCHANGED <<filesOf, handling, saved, published>>
  /\ UNCHANGED <<world, startup, consumer, connections, client, streams, eventQueue, shown,
                 pageSid, chat, owed, handled, broken, taken>>

\* A failure is written into the slot of the question, which is final then.
ReportInSlot ==
  [history EXCEPT ![Len(history)].content = <<Failure>>, ![Len(history)].complete = TRUE]

\* The reply to the post, or ten seconds without one.
Reply ==
  /\ posting /= NoQuestion
  /\ history' = IF answer[posting] = "ok" THEN history ELSE ReportInSlot
  /\ posting' = NoQuestion
  /\ UNCHANGED <<backendVars, client, streams, eventQueue, shown, pageSid, chat, services, ghosts>>

-----------------------------------------------------------------------------
BackendStep ==
  /\ Environment \/ Process
  /\ UNCHANGED <<client, streams, eventQueue, page, services, ghosts>>

Client  == FirstAttemptFails \/ Connect \/ Disconnect \/ AttemptFails
Answers == (\E q \in Question : Teach(q) \/ Clarify(q) \/ Lose(q)) \/ SendToken \/ SendDone
Page    == Open \/ TakeItem \/ (\E q \in Question, n \in 0..MaxFiles : Submit(q, n)) \/ Reply

Next == BackendStep \/ Client \/ Answers \/ Page

Spec == Init /\ [][Next]_vars

FairBackend == WF_vars(Process /\ UNCHANGED <<client, streams, eventQueue, page, services, ghosts>>)

\* The process goes on, the library tries again, the services send what they
\* owe, the page polls the queue and a post comes to an end.
Fairness ==
  /\ FairBackend
  /\ WF_vars(FirstAttemptFails \/ Connect \/ AttemptFails)
  /\ WF_vars(sid \notin connections /\ Disconnect)
  /\ WF_vars(Answers)
  /\ WF_vars(TakeItem) /\ WF_vars(Reply)

FairSpec == Spec /\ Fairness

-----------------------------------------------------------------------------
(* Properties.                                                             *)

\* With nothing left in the queue, what the page shows of the connection is what
\* it is: "connected" exactly while it is up, and then the sid it posts with is the
\* one the client took for this connection and for no earlier one; "failed" ("Refresh
\* the page to retry", app.py:256) exactly when the library has given up.  A first
\* attempt that failed shows as "disconnected".
ShownIsTheLink ==
  eventQueue = <<>> =>
    /\ shown = CASE link \in {"off", "connecting"} -> "connecting"
                 [] link = "up"      -> "connected"
                 [] link = "down"    -> "reconnecting"
                 [] link = "gave_up" -> "failed"
                 [] link = "ended"   -> "disconnected"
    /\ link = "up" => pageSid = sid

\* "100% of received token events are appended in order and rendered in the Chat
\* tab without loss" (specs/004-ui-frontend/spec.md:121): the tokens taken of each
\* level stand, all and in order, in some message, whatever streams, statuses,
\* failed posts and connections came after them.
NothingLost ==
  \A q \in Question, l \in 1..MaxLevels :
    taken[q][l] /= <<>> => \E i \in DOMAIN history : history[i].content = taken[q][l]

\* The answer below a question that had the page to itself and was delivered whole,
\* no level of it in silence, is its own: nothing of another question is written there,
\* and once it is complete it is all that was sent of the first level.
AnswerIsItsOwn ==
  \A i \in DOMAIN history :
    LET q      == history[i].of
        slot   == history[i + 1]
        tokens == {k \in DOMAIN slot.content : slot.content[k] \notin Notice}
    IN  history[i].role = "user" /\ q \notin crowded \cup broken =>
          /\ \A k \in tokens : slot.content[k].question = q
          /\ slot.complete /\ tokens /= {} => slot.content = taken[q][1]

\* Its message after question q.
SlotIsFinal(q) == \E i \in DOMAIN history : history[i].role = "user" /\ history[i].of = q
                                            /\ history[i + 1].complete

Taught(q) == \E i \in DOMAIN owed : owed[i].question = q

\* A question that has the page to itself does not stay open once it is taught: its
\* message is finalised unless the broker, the consumer task or its connection is
\* gone.  It rests on socket.py:8, "Routing is keyed solely by session_id (which IS
\* the Socket.IO sid)".
AnswerCompletes ==
  \A q \in Question :
    Taught(q) ~> \/ SlotIsFinal(q) \/ q \in crowded
                 \/ ~broker \/ consumer /= "running" \/ link /= "up" \/ sidOf[q] /= sid
=============================================================================
