--------------------------- MODULE StreamlitProofs ---------------------------
(***************************************************************************)
(* Of the Streamlit UI and its backend, for every registry of topics,      *)
(* number of questions, files and attempts, and every fault: the start-up  *)
(* accounts for each topic, what is accepted is published whole, the page  *)
(* shows the state of its link, no token that reached it is lost, and what *)
(* stands below a question that had the page to itself is its answer.      *)
(***************************************************************************)
EXTENDS StreamlitChat, SequenceTheorems, WellFoundedInduction, TLAPS

-----------------------------------------------------------------------------
(* Steps that leave the backend alone.                                     *)

\* What the client, the services and the page do to the backend, but for a post.
LEMMA OthersSpareBackend ==
  ASSUME Client \/ Answers \/ Open \/ TakeItem \/ Reply
  PROVE  UNCHANGED <<world, startup, consumer, uploads, asked>>
<1> USE DEF backendVars, services
<1>1. CASE Client
  BY <1>1 DEF Client, FirstAttemptFails, Connect, Disconnect, AttemptFails
<1>2. ASSUME NEW q \in Question, Teach(q) \/ Clarify(q) \/ Lose(q)
      PROVE  UNCHANGED <<world, startup, consumer, uploads, asked>>
  BY <1>2 DEF Teach, Clarify, Lose
<1>3. CASE SendToken \/ SendDone
  BY <1>3 DEF SendToken, SendDone
<1>4. CASE Open \/ TakeItem \/ Reply
  BY <1>4 DEF Open, TakeItem, Reply
<1> QED
  BY <1>1, <1>2, <1>3, <1>4 DEF Answers

-----------------------------------------------------------------------------
(* The start-up.                                                           *)

\* What has been tried so far is accounted for, from the start of the process on.
StartInv ==
  /\ upcoming \in Nat \ {0}
  /\ phase \in Phase
  /\ phase = "connecting" => upcoming = 1 /\ created \cup existed \cup failed = {}
  /\ phase \in {"bootstrap", "serving"} =>
       /\ upcoming <= Len(TopicNames) + 1
       /\ created \cup existed \cup failed = 1..(upcoming - 1)
       /\ created \cap existed = {} /\ (created \cup existed) \cap failed = {}
       /\ \A i, j \in created : TopicNames[i] = TopicNames[j] => i = j
       /\ \A i \in created \cup existed : TopicNames[i] \in topics
  /\ phase = "serving" => upcoming = Len(TopicNames) + 1

LEMMA RegistryLength == Len(TopicNames) \in Nat /\ DOMAIN TopicNames = 1..Len(TopicNames)
BY BackendAssumption

LEMMA StartInvStep ==
  ASSUME StartInv, [Next]_vars
  PROVE  StartInv'
<1> USE DEF StartInv, Phase, world, startup
<1>1. CASE BrokerUp \/ BrokerDown \/ TopicAppears
  BY <1>1 DEF BrokerUp, BrokerDown, TopicAppears
<1>2. CASE Boot \/ ConnectAdmin
  BY <1>2, RegistryLength DEF Boot, Begin, ConnectAdmin
<1>3. CASE ConnectFails
  BY <1>3 DEF ConnectFails
<1>4. CASE BootstrapNext
  <2> DEFINE i == upcoming
  <2>1. /\ phase = "bootstrap" /\ i \in Nat \ {0}
        /\ i <= Len(TopicNames) /\ CreateTopic(i) /\ upcoming' = i + 1
        /\ UNCHANGED phase
    BY <1>4, RegistryLength DEF BootstrapNext
  <2>2. i \notin created \cup existed \cup failed /\ 1..(upcoming' - 1) = (1..(i - 1)) \cup {i}
    BY <2>1 DEF StartInv
  <2> QED
    BY <2>1, <2>2 DEF CreateTopic
<1>5. CASE Serve
  BY <1>5, RegistryLength DEF Serve
<1>6. CASE ConsumerStarts \/ \E q \in Question : SaveFile(q) \/ PublishQuestion(q)
  BY <1>6 DEF ConsumerStarts, SaveFile, PublishQuestion
<1>7. CASE Die
  BY <1>7 DEF Die
<1>8. CASE \E q \in Question, n \in 0..MaxFiles : Submit(q, n)
  BY <1>8 DEF Submit
<1>9. CASE Client \/ Answers \/ Open \/ TakeItem \/ Reply
  BY <1>9, OthersSpareBackend
<1>10. CASE UNCHANGED vars
  BY <1>10 DEF vars, backendVars
<1> QED
  BY <1>1, <1>2, <1>3, <1>4, <1>5, <1>6, <1>7, <1>8, <1>9, <1>10
     DEF Next, BackendStep, Environment, Process, Page

\* A backend that serves has tried every name of the registry once
\* (kafka_admin.py:59-98) and accounts for it in one list, whatever topics there
\* were, and however the broker came and went.
THEOREM BootstrapAccountsAlways == Spec => []BootstrapAccounts
<1>1. Init => StartInv
  BY DEF Init, BackendInit, StartInv, Phase
<1>2. StartInv /\ [Next]_vars => StartInv'
  BY StartInvStep
<1>3. StartInv => BootstrapAccounts
  <2> SUFFICES ASSUME StartInv, phase = "serving"  PROVE BootstrapAccounts
    BY DEF BootstrapAccounts
  <2>1. 1..(upcoming - 1) = DOMAIN TopicNames
    BY RegistryLength DEF StartInv
  <2> QED
    BY <2>1 DEF StartInv, BootstrapAccounts
<1> QED
  BY <1>1, <1>2, <1>3, PTL DEF Spec

-----------------------------------------------------------------------------
(* Uploads.                                                                *)

\* A question is handled once, and published from there only.
UploadInv ==
  /\ filesOf \in [Question -> Nat] /\ saved \in [Question -> Nat]
  /\ answer \in [Question -> {"none", "ok", "error"}]
  /\ handling \cup published \subseteq asked /\ asked \subseteq Question
  /\ handling \cap published = {}
  /\ \A q \in Question : q \notin asked => answer[q] = "none" /\ saved[q] = 0
  /\ \A q \in handling : answer[q] = "none"
  /\ AcceptedIsWhole

LEMMA UploadInvStep ==
  ASSUME UploadInv, [Next]_vars
  PROVE  UploadInv'
<1> USE DEF UploadInv, AcceptedIsWhole, uploads, services
<1>1. CASE /\ BrokerUp \/ BrokerDown \/ TopicAppears \/ Boot \/ ConnectAdmin \/ ConnectFails
              \/ BootstrapNext \/ Serve \/ ConsumerStarts
           /\ UNCHANGED services
  BY <1>1 DEF BrokerUp, BrokerDown, TopicAppears, Boot, ConnectAdmin, ConnectFails,
              BootstrapNext, Serve, ConsumerStarts
<1>2. ASSUME NEW q \in Question, SaveFile(q), UNCHANGED services  PROVE UploadInv'
  BY <1>2 DEF SaveFile, Respond
<1>3. ASSUME NEW q \in Question, PublishQuestion(q), UNCHANGED services  PROVE UploadInv'
  BY <1>3 DEF PublishQuestion, Respond, AllFilesSaved
<1>4. CASE Die /\ UNCHANGED services
  BY <1>4 DEF Die
<1>5. ASSUME NEW q \in Question, NEW n \in 0..MaxFiles, Submit(q, n)  PROVE UploadInv'
  <2>1. n \in Nat
    BY BackendAssumption
  <2> QED
    BY <1>5, <2>1 DEF Submit, Accept
<1>6. CASE Client \/ Answers \/ Open \/ TakeItem \/ Reply
  BY <1>6, OthersSpareBackend
<1>7. CASE UNCHANGED vars
  BY <1>7 DEF vars, backendVars
<1> QED
  BY <1>1, <1>2, <1>3, <1>4, <1>5, <1>6, <1>7
     DEF Next, BackendStep, Environment, Process, Page

\* A question answered with "Request accepted" is published, and an event names
\* no file that is not saved (chat_request.py:74-117), wherever saving, publishing
\* or the process failed.
THEOREM AcceptedIsWholeAlways == Spec => []AcceptedIsWhole
<1>1. Init => UploadInv
  BY DEF Init, BackendInit, UploadInv, AcceptedIsWhole
<1>2. UploadInv /\ [Next]_vars => UploadInv'
  BY UploadInvStep
<1>3. UploadInv => AcceptedIsWhole
  BY DEF UploadInv
<1> QED
  BY <1>1, <1>2, <1>3, PTL DEF Spec

-----------------------------------------------------------------------------
(* The queue.                                                              *)

IsQueue(q) == \E S : q \in Seq(S)

LEMMA AppendQueue ==
  ASSUME NEW q, IsQueue(q), NEW e
  PROVE  /\ IsQueue(Append(q, e)) /\ Len(q) \in Nat /\ Len(Append(q, e)) = Len(q) + 1
         /\ \A i \in 1..Len(q) : Append(q, e)[i] = q[i]
         /\ Append(q, e)[Len(q) + 1] = e
<1>1. PICK S : q \in Seq(S)
  BY DEF IsQueue
<1>2. q \in Seq(S \cup {e})
  BY <1>1, SeqMonotonic
<1> QED
  BY <1>2, AppendProperties DEF IsQueue

LEMMA TailQueue ==
  ASSUME NEW q, IsQueue(q), q # <<>>
  PROVE  /\ IsQueue(Tail(q)) /\ Len(q) \in Nat \ {0} /\ Len(Tail(q)) = Len(q) - 1
         /\ \A i \in 1..Len(Tail(q)) : Tail(q)[i] = q[i + 1]
         /\ Head(q) = q[1]
<1>1. PICK S : q \in Seq(S)
  BY DEF IsQueue
<1> QED
  BY <1>1, HeadTailProperties, EmptySeq DEF IsQueue

Reports(ss) == [i \in DOMAIN ss |-> State(ss[i])]

LEMMA ConcatQueue ==
  ASSUME NEW S, NEW q \in Seq(S), NEW p \in Seq(S), p # <<>>
  PROVE  /\ q \o p \in Seq(S) /\ Len(q \o p) \in Nat \ {0}
         /\ (q \o p)[Len(q \o p)] = p[Len(p)]
<1>1. Len(q) \in Nat /\ Len(p) \in Nat \ {0}
  BY LenProperties, EmptySeq
<1>2. /\ q \o p \in Seq(S) /\ Len(q \o p) = Len(q) + Len(p)
      /\ \A i \in 1..(Len(q) + Len(p)) :
           (q \o p)[i] = IF i <= Len(q) THEN q[i] ELSE p[i - Len(q)]
  BY ConcatProperties
<1>3. (q \o p)[Len(q) + Len(p)] = p[(Len(q) + Len(p)) - Len(q)]
  <2>1. Len(q) + Len(p) \in 1..(Len(q) + Len(p)) /\ ~(Len(q) + Len(p) <= Len(q))
    BY <1>1
  <2> QED
    BY <1>2, <2>1
<1> QED
  BY <1>1, <1>2, <1>3

\* What EmitStates makes of the queue.
LEMMA EmitQueue ==
  ASSUME NEW q, IsQueue(q), NEW S, NEW ss \in Seq(S), ss # <<>>, NEW r, r = q \o Reports(ss)
  PROVE  IsQueue(r) /\ Len(r) \in Nat \ {0} /\ r[Len(r)] = State(ss[Len(ss)])
<1> DEFINE T == {State(ss[i]) : i \in DOMAIN ss}
           p == Reports(ss)
<1>1. PICK Q : q \in Seq(Q)
  BY DEF IsQueue
<1>2. DOMAIN ss = 1..Len(ss) /\ Len(ss) \in Nat \ {0}
  BY LenProperties, EmptySeq
<1>3. p \in Seq(T) /\ Len(p) = Len(ss)
  BY <1>2 DEF Reports
<1>4. p[Len(ss)] = State(ss[Len(ss)])
  BY <1>2 DEF Reports
<1> HIDE DEF p, T
<1>5. q \in Seq(Q \cup T) /\ p \in Seq(Q \cup T)
  BY <1>1, <1>3, SeqMonotonic
<1>6. p # <<>>
  BY <1>2, <1>3
<1>7. r = q \o p
  BY DEF p
<1>8. r \in Seq(Q \cup T) /\ Len(r) \in Nat \ {0} /\ r[Len(r)] = p[Len(p)]
  BY <1>5, <1>6, <1>7, ConcatQueue
<1> QED
  BY <1>3, <1>4, <1>8 DEF IsQueue

-----------------------------------------------------------------------------
(* The state of the link.                                                  *)

Link == {"off", "connecting", "up", "down", "gave_up", "ended"}

LinkState ==
  CASE link \in {"off", "connecting"} -> "connecting"
    [] link = "up"      -> "connected"
    [] link = "down"    -> "reconnecting"
    [] link = "gave_up" -> "failed"
    [] link = "ended"   -> "disconnected"

IsState(e) == e.kind \in {"state", "connected"}

\* What the last report in the queue is.
Report == IF link = "up" THEN [kind |-> "connected", sid |-> sid] ELSE State(LinkState)

LastReport(q, i) == i \in 1..Len(q) /\ IsState(q[i]) /\ \A j \in (i + 1)..Len(q) : ~IsState(q[j])
NoReport(q)      == \A i \in 1..Len(q) : ~IsState(q[i])

ShownRight == shown = LinkState /\ (link = "up" => pageSid = sid)

\* The last report in the queue, or the page, tells the state of the link; the
\* client counts the failed attempts of one outage.
LinkInv ==
  /\ link \in Link /\ attempts \in Nat /\ errorCount \in Nat
  /\ link = "up" => errorCount = 0
  /\ link = "down" => errorCount = attempts /\ attempts < MaxRetries
  /\ IsQueue(eventQueue)
  /\ \A i \in 1..Len(eventQueue) : LastReport(eventQueue, i) => eventQueue[i] = Report
  /\ NoReport(eventQueue) => ShownRight

\* A step that says nothing of the link.
Silent ==
  /\ UNCHANGED <<link, sid, attempts, errorCount, shown, pageSid>>
  /\ \/ eventQueue' = eventQueue
     \/ \E e : ~IsState(e) /\ eventQueue' = Append(eventQueue, e)

LEMMA SilentSteps ==
  ASSUME BackendStep \/ Answers \/ (\E q \in Question, n \in 0..MaxFiles : Submit(q, n)) \/ Reply
         \/ UNCHANGED vars
  PROVE  Silent
<1> USE DEF Silent, IsState, client, page
<1>1. CASE BackendStep \/ Reply \/ UNCHANGED vars
  BY <1>1 DEF BackendStep, Reply, vars
<1>2. CASE \E q \in Question, n \in 0..MaxFiles : Submit(q, n)
  BY <1>2 DEF Submit
<1>3. ASSUME NEW q \in Question, Teach(q) \/ Lose(q)  PROVE Silent
  BY <1>3 DEF Teach, Lose
<1>4. ASSUME NEW q \in Question, Clarify(q)  PROVE Silent
  BY <1>4 DEF Clarify
<1>5. CASE SendToken
  <2>1. UNCHANGED <<link, sid, attempts, errorCount, shown, pageSid>>
    BY <1>5 DEF SendToken
  <2>2. \/ eventQueue' = eventQueue
        \/ \E token : RouteToken(sid, token)
    BY <1>5 DEF SendToken, streams
  <2> QED
    BY <2>1, <2>2 DEF RouteToken
<1>6. CASE SendDone
  <2>1. UNCHANGED <<link, sid, attempts, errorCount, shown, pageSid>>
    BY <1>6 DEF SendDone
  <2>2. \/ eventQueue' = eventQueue
        \/ RouteDone(sid)
    BY <1>6 DEF SendDone, streams
  <2> QED
    BY <2>1, <2>2 DEF RouteDone
<1> QED
  BY <1>1, <1>2, <1>3, <1>4, <1>5, <1>6 DEF Answers

LEMMA LinkInvSilent ==
  ASSUME LinkInv, Silent
  PROVE  LinkInv'
<1>1. Report' = Report /\ LinkState' = LinkState /\ ShownRight' = ShownRight
  BY DEF Silent, Report, LinkState, ShownRight
<1>2. CASE eventQueue' = eventQueue
  BY <1>1, <1>2 DEF LinkInv, Silent
<1>3. ASSUME NEW e, ~IsState(e), eventQueue' = Append(eventQueue, e)
      PROVE  LinkInv'
  <2> DEFINE q == eventQueue
             r == Append(eventQueue, e)
  <2>1. /\ IsQueue(r) /\ Len(q) \in Nat /\ Len(r) = Len(q) + 1
        /\ \A i \in 1..Len(q) : r[i] = q[i]
        /\ r[Len(q) + 1] = e
    BY AppendQueue DEF LinkInv
  <2> HIDE DEF r
  <2>2. \A i \in 1..Len(r) : LastReport(r, i) => LastReport(q, i) /\ r[i] = q[i]
    <3> SUFFICES ASSUME NEW i \in 1..Len(r), LastReport(r, i)
                 PROVE  LastReport(q, i) /\ r[i] = q[i]
      OBVIOUS
    <3>1. i \in 1..Len(q)
      BY <1>3, <2>1 DEF LastReport
    <3>2. \A j \in (i + 1)..Len(q) : j \in (i + 1)..Len(r) /\ r[j] = q[j]
      BY <2>1, <3>1
    <3> QED
      BY <2>1, <3>1, <3>2 DEF LastReport
  <2>3. NoReport(r) => NoReport(q)
    BY <2>1 DEF NoReport
  <2>4. eventQueue' = r
    BY <1>3 DEF r
  <2>5. UNCHANGED <<link, sid, attempts, errorCount, shown, pageSid>>
    BY DEF Silent
  <2>6. \A i \in 1..Len(r) : LastReport(r, i) => r[i] = Report'
    BY <1>1, <2>1, <2>2 DEF LinkInv, LastReport
  <2>7. NoReport(r) => ShownRight'
    BY <1>1, <2>3 DEF LinkInv
  <2> QED
    BY <2>1, <2>4, <2>5, <2>6, <2>7 DEF LinkInv
<1> QED
  BY <1>2, <1>3 DEF Silent

\* A handler of the client that reports the new state of the link last.
LEMMA LinkInvReported ==
  ASSUME LinkInv, IsQueue(eventQueue'), Len(eventQueue') \in Nat \ {0},
         eventQueue'[Len(eventQueue')] = Report', IsState(Report'),
         link' \in Link, attempts' \in Nat, errorCount' \in Nat,
         link' = "up" => errorCount' = 0,
         link' = "down" => errorCount' = attempts' /\ attempts' < MaxRetries
  PROVE  LinkInv'
<1> DEFINE r == eventQueue'
<1>1. \A i \in 1..Len(r) : LastReport(r, i) => i = Len(r)
  <2> SUFFICES ASSUME NEW i \in 1..Len(r), LastReport(r, i), i # Len(r)
               PROVE  FALSE
    OBVIOUS
  <2>1. Len(r) \in (i + 1)..Len(r)
    OBVIOUS
  <2> QED
    BY <2>1 DEF LastReport
<1>2. ~NoReport(r)
  BY DEF NoReport
<1> QED
  BY <1>1, <1>2 DEF LinkInv

LEMMA LinkInvClient ==
  ASSUME LinkInv, Client \/ Open
  PROVE  LinkInv'
<1>1. MaxRetries \in Nat \ {0}
  BY StreamlitAssumption
<1>0. IsQueue(eventQueue)
  BY DEF LinkInv
<1>2. CASE Open
  <2> DEFINE S == {"connecting"}
             ss == <<"connecting">>
  <2>1. eventQueue' = eventQueue \o Reports(ss)
    BY <1>2 DEF Open, EmitStates, Reports
  <2>2. ss \in Seq(S) /\ Len(ss) = 1 /\ ss[1] = "connecting" /\ ss # <<>>
    OBVIOUS
  <2> HIDE DEF S, ss
  <2>3. /\ IsQueue(eventQueue') /\ Len(eventQueue') \in Nat \ {0}
        /\ eventQueue'[Len(eventQueue')] = State("connecting")
    <3>1. eventQueue'[Len(eventQueue')] = State(ss[Len(ss)])
      BY <1>0, <2>1, <2>2, EmitQueue
    <3>2. IsQueue(eventQueue') /\ Len(eventQueue') \in Nat \ {0}
      BY <1>0, <2>1, <2>2, EmitQueue
    <3> QED
      BY <2>2, <3>1, <3>2
  <2> QED
    BY <1>2, <2>3, LinkInvReported DEF Open, LinkInv, IsState, State, Report, LinkState, Link
<1>3. CASE Connect
  <2>1. /\ IsQueue(eventQueue') /\ Len(eventQueue') \in Nat \ {0}
        /\ eventQueue'[Len(eventQueue')] = [kind |-> "connected", sid |-> sid']
    BY <1>3, AppendQueue DEF Connect, LinkInv
  <2> QED
    BY <1>3, <2>1, LinkInvReported DEF Connect, LinkInv, ResetErrorCount, IsState, State, Report, LinkState, Link
<1>4. CASE FirstAttemptFails
  <2> DEFINE S  == {"reconnecting", "failed", "disconnected"}
             ss == <<ConnectError, "failed", "failed", "disconnected">>
  <2>1. eventQueue' = eventQueue \o Reports(ss)
    BY <1>4 DEF FirstAttemptFails, EmitStates, Reports
  <2>2. ss \in Seq(S) /\ Len(ss) = 4 /\ ss[4] = "disconnected" /\ ss # <<>>
    BY DEF ConnectError
  <2> HIDE DEF S, ss
  <2>3. /\ IsQueue(eventQueue') /\ Len(eventQueue') \in Nat \ {0}
        /\ eventQueue'[Len(eventQueue')] = State("disconnected")
    <3>1. eventQueue'[Len(eventQueue')] = State(ss[Len(ss)])
      BY <1>0, <2>1, <2>2, EmitQueue
    <3>2. IsQueue(eventQueue') /\ Len(eventQueue') \in Nat \ {0}
      BY <1>0, <2>1, <2>2, EmitQueue
    <3> QED
      BY <2>2, <3>1, <3>2
  <2> QED
    BY <1>4, <2>3, LinkInvReported DEF FirstAttemptFails, LinkInv, IsState, State, Report, LinkState, Link
<1>5. CASE Disconnect
  <2> DEFINE S == {"reconnecting"}
             ss == <<"reconnecting">>
  <2>1. eventQueue' = eventQueue \o Reports(ss)
    BY <1>5 DEF Disconnect, EmitStates, Reports
  <2>2. ss \in Seq(S) /\ Len(ss) = 1 /\ ss[1] = "reconnecting" /\ ss # <<>>
    OBVIOUS
  <2> HIDE DEF S, ss
  <2>3. /\ IsQueue(eventQueue') /\ Len(eventQueue') \in Nat \ {0}
        /\ eventQueue'[Len(eventQueue')] = State("reconnecting")
    <3>1. eventQueue'[Len(eventQueue')] = State(ss[Len(ss)])
      BY <1>0, <2>1, <2>2, EmitQueue
    <3>2. IsQueue(eventQueue') /\ Len(eventQueue') \in Nat \ {0}
      BY <1>0, <2>1, <2>2, EmitQueue
    <3> QED
      BY <2>2, <3>1, <3>2
  <2> QED
    BY <1>1, <1>5, <2>3, LinkInvReported DEF Disconnect, LinkInv, IsState, State, Report, LinkState, Link
<1>6. CASE AttemptFails
  <2> DEFINE S  == {"reconnecting", "failed"}
             ss == <<ConnectError>>
  <2>1. eventQueue' = eventQueue \o Reports(ss)
    BY <1>6 DEF AttemptFails, EmitStates, Reports
  <2>2. ss \in Seq(S) /\ Len(ss) = 1 /\ ss[1] = ConnectError /\ ss # <<>>
    BY DEF ConnectError
  <2> HIDE DEF S, ss
  <2>3. /\ IsQueue(eventQueue') /\ Len(eventQueue') \in Nat \ {0}
        /\ eventQueue'[Len(eventQueue')] = State(ConnectError)
    <3>1. eventQueue'[Len(eventQueue')] = State(ss[Len(ss)])
      BY <1>0, <2>1, <2>2, EmitQueue
    <3>2. IsQueue(eventQueue') /\ Len(eventQueue') \in Nat \ {0}
      BY <1>0, <2>1, <2>2, EmitQueue
    <3> QED
      BY <2>2, <3>1, <3>2
  <2>4. /\ link = "down" /\ attempts' = attempts + 1 /\ errorCount' = errorCount + 1
        /\ link' = IF attempts' = MaxRetries THEN "gave_up" ELSE "down"
        /\ errorCount = attempts /\ attempts < MaxRetries /\ attempts \in Nat
    BY <1>6 DEF AttemptFails, LinkInv
  <2>5. ConnectError = IF attempts' = MaxRetries THEN "failed" ELSE "reconnecting"
    BY <1>1, <2>4 DEF ConnectError
  <2>6. Report' = State(ConnectError)
    BY <2>4, <2>5 DEF Report, LinkState
  <2>7. link' = "down" => attempts' < MaxRetries
    BY <1>1, <2>4
  <2> QED
    BY <2>3, <2>4, <2>6, <2>7, LinkInvReported DEF IsState, State, Link
<1> QED
  BY <1>2, <1>3, <1>4, <1>5, <1>6 DEF Client

LEMMA LinkInvTake ==
  ASSUME LinkInv, TakeItem
  PROVE  LinkInv'
<1> DEFINE q == eventQueue
           r == Tail(eventQueue)
<1>1. /\ eventQueue' = r /\ q # <<>> /\ Take(Head(q))
      /\ UNCHANGED <<link, sid, attempts, errorCount>>
  BY DEF TakeItem, client
<1>2. /\ IsQueue(r) /\ Len(q) \in Nat \ {0} /\ Len(r) = Len(q) - 1
      /\ \A i \in 1..Len(r) : r[i] = q[i + 1]
      /\ Head(q) = q[1]
  BY <1>1, TailQueue DEF LinkInv
<1>3. Report' = Report /\ LinkState' = LinkState
  BY <1>1 DEF Report, LinkState
<1> HIDE DEF r
<1>4. \A i \in 1..Len(r) : LastReport(r, i) => LastReport(q, i + 1) /\ i + 1 \in 1..Len(q)
  <2> SUFFICES ASSUME NEW i \in 1..Len(r), LastReport(r, i)
               PROVE  LastReport(q, i + 1) /\ i + 1 \in 1..Len(q)
    OBVIOUS
  <2>1. \A j \in (i + 2)..Len(q) : j - 1 \in (i + 1)..Len(r) /\ j - 1 \in 1..Len(r) /\ q[j] = r[j - 1]
    BY <1>2
  <2> QED
    BY <1>2, <2>1 DEF LastReport
<1>5. NoReport(r) => ShownRight'
  <2> SUFFICES ASSUME NoReport(r)  PROVE ShownRight'
    OBVIOUS
  <2>1. \A j \in 2..Len(q) : ~IsState(q[j])
    <3> SUFFICES ASSUME NEW j \in 2..Len(q)  PROVE ~IsState(q[j])
      OBVIOUS
    <3>1. j - 1 \in 1..Len(r) /\ q[j] = r[j - 1]
      BY <1>2
    <3> QED
      BY <3>1 DEF NoReport
  <2>2. CASE IsState(Head(q))
    <3>1. LastReport(q, 1)
      BY <1>2, <2>1, <2>2 DEF LastReport
    <3> PICK e : e = Head(q)
      OBVIOUS
    <3>2. e = Report /\ Take(e)
      <4>1. 1 \in 1..Len(q) /\ q[1] = e
        BY <1>2
      <4> QED
        BY <1>1, <3>1, <4>1 DEF LinkInv
    <3>3. CASE link = "up"
      <4>1. e.kind = "connected" /\ e.sid = sid
        BY <3>2, <3>3 DEF Report
      <4>2. pageSid' = sid /\ shown' = "connected"
        BY <3>2, <4>1 DEF Take, Mark
      <4> QED
        BY <1>1, <3>3, <4>2 DEF ShownRight, LinkState
    <3>4. CASE link # "up"
      <4>1. e.kind = "state" /\ e.state = LinkState
        BY <3>2, <3>4 DEF Report, State
      <4>2. shown' = LinkState
        BY <3>2, <4>1 DEF Take, Mark
      <4> QED
        BY <1>1, <1>3, <3>4, <4>2 DEF ShownRight
    <3> QED
      BY <3>3, <3>4
  <2>3. CASE ~IsState(Head(q))
    <3>1. NoReport(q)
      <4>1. ASSUME NEW i \in 1..Len(q)  PROVE ~IsState(q[i])
        <5>1. CASE i = 1
          BY <1>2, <2>3, <5>1
        <5>2. CASE i # 1
          <6>1. i \in 2..Len(q)
            BY <1>2, <5>2
          <6> QED
            BY <2>1, <6>1
        <5> QED
          BY <5>1, <5>2
      <4> QED
        BY <4>1 DEF NoReport
    <3>2. UNCHANGED <<shown, pageSid>>
      BY <1>1, <2>3 DEF Take, IsState
    <3> QED
      BY <1>1, <1>3, <3>1, <3>2 DEF LinkInv, ShownRight
  <2> QED
    BY <2>2, <2>3
<1> QED
  BY <1>1, <1>2, <1>3, <1>4, <1>5 DEF LinkInv

\* With nothing left in the queue the page shows what its link is
\* (socketio_client.py:82-129, app.py:119-177), however connections, failures of
\* the backend and attempts to reconnect follow each other.
THEOREM ShownIsTheLinkAlways == Spec => []ShownIsTheLink
<1>1. Init => LinkInv
  BY EmptySeq DEF Init, LinkInv, Link, IsQueue, ShownRight, LinkState, LastReport
<1>2. LinkInv /\ [Next]_vars => LinkInv'
  BY SilentSteps, LinkInvSilent, LinkInvClient, LinkInvTake DEF Next, Page
<1>3. LinkInv => ShownIsTheLink
  <2> SUFFICES ASSUME LinkInv, eventQueue = <<>>  PROVE ShownIsTheLink
    BY DEF ShownIsTheLink
  <2>1. NoReport(eventQueue)
    BY DEF NoReport
  <2> QED
    BY <2>1 DEF LinkInv, ShownRight, LinkState, ShownIsTheLink
<1> QED
  BY <1>1, <1>2, <1>3, PTL DEF Spec


-----------------------------------------------------------------------------
(* From the services to the page: no token is lost.                        *)

IsToken(e) == e.kind = "token"
IsEnd(e)   == e.kind = "complete"
IsText(e)  == e.kind \in {"token", "complete"}

SameLevel(t, u) == t.question = u.question /\ t.level = u.level
TakenOf(t)      == taken[t.question][t.level]

\* The handlers of the queue of other events: the text and the streams stay.
Grown ==
  /\ IsQueue(eventQueue') /\ Len(eventQueue') \in Nat /\ Len(eventQueue') >= Len(eventQueue)
  /\ \A i \in 1..Len(eventQueue) : eventQueue'[i] = eventQueue[i]
  /\ \A i \in (Len(eventQueue) + 1)..Len(eventQueue') :
       \/ eventQueue'[i].kind \in {"state", "status"}
       \/ eventQueue'[i].kind = "connected" /\ eventQueue'[i].sid = lastSid' /\ lastSid' = lastSid + 1

\* ... and nobody asks for the level.
Unasked == \A i \in (Len(eventQueue) + 1)..Len(eventQueue') : eventQueue'[i].kind # "status"

Quiet == Grown /\ UNCHANGED <<chat, taken, streams, pageSid>>

\* A token or the end of a level reaches the page's queue.
Arrives == owed # <<>> /\ Reaches(owed[1].question)

LEMMA QueueLen ==
  ASSUME NEW q, IsQueue(q)
  PROVE  Len(q) \in Nat
BY LenProperties DEF IsQueue

LEMMA GrownByNothing ==
  ASSUME IsQueue(eventQueue), eventQueue' = eventQueue
  PROVE  Grown
BY QueueLen DEF Grown

LEMMA GrownByOne ==
  ASSUME IsQueue(eventQueue), NEW e, eventQueue' = Append(eventQueue, e),
         e.kind \in {"state", "status"} \/ (e.kind = "connected" /\ e.sid = lastSid' /\ lastSid' = lastSid + 1)
  PROVE  Grown
<1>1. /\ IsQueue(eventQueue') /\ Len(eventQueue) \in Nat /\ Len(eventQueue') = Len(eventQueue) + 1
      /\ \A i \in 1..Len(eventQueue) : eventQueue'[i] = eventQueue[i]
      /\ eventQueue'[Len(eventQueue) + 1] = e
  BY AppendQueue
<1>2. \A i \in (Len(eventQueue) + 1)..Len(eventQueue') : i = Len(eventQueue) + 1
  BY <1>1
<1> QED
  BY <1>1, <1>2 DEF Grown

LEMMA GrownByReports ==
  ASSUME IsQueue(eventQueue), NEW S, NEW ss \in Seq(S), eventQueue' = eventQueue \o Reports(ss)
  PROVE  Grown /\ Unasked
<1> DEFINE T == {State(ss[i]) : i \in DOMAIN ss}
           p == Reports(ss)
<1>1. PICK Q : eventQueue \in Seq(Q)
  BY DEF IsQueue
<1>2. DOMAIN ss = 1..Len(ss) /\ Len(ss) \in Nat
  BY LenProperties
<1>3. p \in Seq(T) /\ Len(p) = Len(ss) /\ \A i \in 1..Len(ss) : p[i].kind = "state"
  BY <1>2 DEF Reports, State
<1> HIDE DEF p, T
<1>4. eventQueue \in Seq(Q \cup T) /\ p \in Seq(Q \cup T)
  BY <1>1, <1>3, SeqMonotonic
<1>5. /\ eventQueue \o p \in Seq(Q \cup T) /\ Len(eventQueue \o p) = Len(eventQueue) + Len(p)
      /\ \A i \in 1..(Len(eventQueue) + Len(p)) :
           (eventQueue \o p)[i] = IF i <= Len(eventQueue) THEN eventQueue[i] ELSE p[i - Len(eventQueue)]
  BY <1>4, ConcatProperties
<1>6. eventQueue' = eventQueue \o p /\ Len(eventQueue) \in Nat
  BY <1>1, LenProperties DEF p
<1>7. \A i \in (Len(eventQueue) + 1)..Len(eventQueue') : eventQueue'[i].kind = "state"
  <2> TAKE i \in (Len(eventQueue) + 1)..Len(eventQueue')
  <2>1. i \in 1..(Len(eventQueue) + Len(p)) /\ ~(i <= Len(eventQueue)) /\ i - Len(eventQueue) \in 1..Len(ss)
    BY <1>2, <1>3, <1>5, <1>6
  <2> QED
    BY <1>3, <1>5, <1>6, <2>1
<1>8. IsQueue(eventQueue') /\ Len(eventQueue') \in Nat /\ Len(eventQueue') >= Len(eventQueue)
  BY <1>2, <1>3, <1>5, <1>6 DEF IsQueue
<1>9. \A i \in 1..Len(eventQueue) : eventQueue'[i] = eventQueue[i]
  BY <1>2, <1>3, <1>5, <1>6
<1> QED
  BY <1>7, <1>8, <1>9 DEF Grown, Unasked

LEMMA QuietClient ==
  ASSUME IsQueue(eventQueue), Client \/ Open
  PROVE  Quiet /\ Unasked
<1>1. UNCHANGED <<chat, taken, streams, pageSid>>
  BY DEF Client, Open, FirstAttemptFails, Connect, Disconnect, AttemptFails, page, ghosts
<1>2. CASE Connect
  <2>1. Grown
    BY <1>2, GrownByOne DEF Connect
  <2>2. Unasked
    <3> PICK e : e = [kind |-> "connected", sid |-> sid']
      OBVIOUS
    <3>1. eventQueue' = Append(eventQueue, e)
      BY <1>2 DEF Connect
    <3>2. /\ Len(eventQueue) \in Nat /\ Len(eventQueue') = Len(eventQueue) + 1
          /\ eventQueue'[Len(eventQueue) + 1] = e
      BY <3>1, AppendQueue
    <3>3. \A i \in (Len(eventQueue) + 1)..Len(eventQueue') : i = Len(eventQueue) + 1
      BY <3>2
    <3> QED
      BY <3>2, <3>3 DEF Unasked
  <2> QED
    BY <1>1, <2>1, <2>2 DEF Quiet
<1>3. CASE Open
  <2> DEFINE ss == <<"connecting">>
  <2>1. eventQueue' = eventQueue \o Reports(ss)
    BY <1>3 DEF Open, EmitStates, Reports
  <2>2. ss \in Seq({"connecting"})
    OBVIOUS
  <2> HIDE DEF ss
  <2> QED
    BY <1>1, <2>1, <2>2, GrownByReports DEF Quiet
<1>4. CASE FirstAttemptFails
  <2> DEFINE ss == <<ConnectError, "failed", "failed", "disconnected">>
  <2>1. eventQueue' = eventQueue \o Reports(ss)
    BY <1>4 DEF FirstAttemptFails, EmitStates, Reports
  <2>2. ss \in Seq({ConnectError, "failed", "disconnected"})
    OBVIOUS
  <2> HIDE DEF ss
  <2> QED
    BY <1>1, <2>1, <2>2, GrownByReports DEF Quiet
<1>5. CASE Disconnect
  <2> DEFINE ss == <<"reconnecting">>
  <2>1. eventQueue' = eventQueue \o Reports(ss)
    BY <1>5 DEF Disconnect, EmitStates, Reports
  <2>2. ss \in Seq({"reconnecting"})
    OBVIOUS
  <2> HIDE DEF ss
  <2> QED
    BY <1>1, <2>1, <2>2, GrownByReports DEF Quiet
<1>6. CASE AttemptFails
  <2> DEFINE ss == <<ConnectError>>
  <2>1. eventQueue' = eventQueue \o Reports(ss)
    BY <1>6 DEF AttemptFails, EmitStates, Reports
  <2>2. ss \in Seq({ConnectError})
    OBVIOUS
  <2> HIDE DEF ss
  <2> QED
    BY <1>1, <2>1, <2>2, GrownByReports DEF Quiet
<1> QED
  BY <1>2, <1>3, <1>4, <1>5, <1>6 DEF Client

\* A step of the page but for taking an item, of the services but for what arrives.
Aside ==
  \/ BackendStep \/ Client \/ Open \/ Reply
  \/ \E q \in Question : Teach(q) \/ Clarify(q) \/ Lose(q)
  \/ \E q \in Question, n \in 0..MaxFiles : Submit(q, n)
  \/ (SendToken \/ SendDone) /\ ~Arrives
  \/ UNCHANGED vars

LEMMA QuietAside ==
  ASSUME IsQueue(eventQueue), Aside
  PROVE  Quiet
<1> USE DEF Quiet
<1>1. CASE Client \/ Open
  BY <1>1, QuietClient
<1>2. CASE BackendStep \/ UNCHANGED vars
  BY <1>2, GrownByNothing DEF BackendStep, vars, page, ghosts, streams
<1>3. CASE Reply
  BY <1>3, GrownByNothing DEF Reply, ghosts
<1>4. ASSUME NEW q \in Question, Teach(q) \/ Lose(q)  PROVE Quiet
  BY <1>4, GrownByNothing DEF Teach, Lose, page, ghosts
<1>5. ASSUME NEW q \in Question, Clarify(q)  PROVE Quiet
  <2>1. UNCHANGED <<chat, taken, streams, pageSid>>
    BY <1>5 DEF Clarify, page, ghosts
  <2>2. Grown
    <3>1. CASE eventQueue' = eventQueue
      BY <3>1, GrownByNothing
    <3>2. CASE eventQueue' = Append(eventQueue, [kind |-> "status"])
      BY <3>2, GrownByOne
    <3> QED
      BY <1>5, <3>1, <3>2 DEF Clarify
  <2> QED
    BY <2>1, <2>2
<1>6. ASSUME NEW q \in Question, NEW n \in 0..MaxFiles, Submit(q, n)  PROVE Quiet
  BY <1>6, GrownByNothing DEF Submit
<1>7. CASE (SendToken \/ SendDone) /\ ~Arrives
  BY <1>7, GrownByNothing DEF SendToken, SendDone, Arrives, page, ghosts
<1> QED
  BY <1>1, <1>2, <1>3, <1>4, <1>5, <1>6, <1>7 DEF Aside

LEMMA StepsAre ==
  ASSUME [Next]_vars
  PROVE  Aside \/ (SendToken /\ Arrives) \/ (SendDone /\ Arrives) \/ TakeItem
BY DEF Next, Answers, Page, Aside

-----------------------------------------------------------------------------
(* Connections and questions.                                              *)

\* A connection that the backend knows is the one that is up; each is called for
\* by a new one only after a fault, so that Sids has one for each.
SidInv ==
  /\ lastSid \in Nat /\ sid = lastSid
  /\ drops \in 0..MaxDrops /\ deaths \in 0..MaxDeaths
  /\ link \in {"off", "connecting"} => lastSid = 0
  /\ link \in {"up", "down"} => lastSid # 0
  /\ connections \subseteq {sid}
  /\ connections # {} => phase = "serving" /\ link = "up"
  /\ lastSid <= drops + deaths + 1
  /\ connections = {} => lastSid <= drops + deaths
  /\ consumer = "running" => phase = "serving"

StreamInv ==
  /\ generations \in [Sids -> Nat] /\ activeStreams \in [Sids -> Nat] /\ sequences \in [Sids -> Nat]
  /\ \A s \in Sids : activeStreams[s] <= generations[s]
  /\ \A s \in Sids : s > lastSid => activeStreams[s] = 0
  /\ \A s \in Sids : activeStreams[s] # 0 => sequences[s] # 0

Level == [question : Question, level : 1..MaxLevels, sent : 0..MaxTokens]

\* A level is owed once, of a question that was handled once.
OwedInv ==
  /\ handled \subseteq asked /\ handling \cup published \subseteq asked /\ asked \subseteq Question
  /\ owed \in Seq(Level)
  /\ \A i \in 1..Len(owed) : owed[i].question \in handled
  /\ \A i, j \in 1..Len(owed) : i # j => ~SameLevel(owed[i], owed[j])
  /\ sidOf \in [Question -> Nat]
  /\ \A q \in asked : sidOf[q] \in 1..pageSid

LEMMA SidInvStep ==
  ASSUME SidInv, [Next]_vars
  PROVE  SidInv'
<1>0. MaxDrops \in Nat /\ MaxDeaths \in Nat
  BY StreamlitAssumption, BackendAssumption
<1> USE <1>0 DEF SidInv, client, startup, world
<1>1. CASE Environment /\ UNCHANGED client
  <2>1. CASE BrokerUp \/ BrokerDown \/ TopicAppears
    BY <1>1, <2>1 DEF BrokerUp, BrokerDown, TopicAppears
  <2>2. CASE Die
    <3>1. /\ connections' = {} /\ consumer' = "none" /\ deaths' = deaths + 1 /\ deaths < MaxDeaths
          /\ lastSid' = lastSid /\ sid' = sid /\ drops' = drops /\ link' = link
      BY <1>1, <2>2 DEF Die
    <3> QED
      BY <3>1
  <2> QED
    BY <1>1, <2>1, <2>2 DEF Environment
<1>2. CASE Process /\ UNCHANGED client
  BY <1>2 DEF Process, Boot, Begin, ConnectAdmin, ConnectFails, BootstrapNext, Serve, ConsumerStarts,
              SaveFile, PublishQuestion
<1>3. CASE Connect
  BY <1>3 DEF Connect
<1>4. CASE Disconnect
  <2>1. connections' = {} /\ (sid \notin connections => connections = {})
    BY <1>4 DEF Disconnect
  <2>2. lastSid' = lastSid /\ sid' = sid /\ deaths' = deaths /\ phase' = phase /\ consumer' = consumer
    BY <1>4 DEF Disconnect
  <2>3. link = "up" /\ link' = "down"
    BY <1>4 DEF Disconnect
  <2>4. CASE sid \notin connections /\ drops' = drops
    BY <2>1, <2>2, <2>3, <2>4
  <2>5. CASE drops < MaxDrops /\ drops' = drops + 1
    BY <2>1, <2>2, <2>3, <2>5
  <2> QED
    BY <1>4, <2>4, <2>5 DEF Disconnect
<1>5. CASE FirstAttemptFails \/ AttemptFails
  BY <1>5 DEF FirstAttemptFails, AttemptFails, backendVars
<1>6. CASE Open \/ TakeItem \/ Reply
  BY <1>6 DEF Open, TakeItem, Reply, backendVars
<1>7. CASE \E q \in Question, n \in 0..MaxFiles : Submit(q, n)
  BY <1>7 DEF Submit
<1>8. CASE Answers
  BY <1>8 DEF Answers, Teach, Clarify, Lose, SendToken, SendDone, backendVars
<1>9. CASE UNCHANGED vars
  BY <1>9 DEF vars, backendVars
<1> QED
  BY <1>1, <1>2, <1>3, <1>4, <1>5, <1>6, <1>7, <1>8, <1>9 DEF Next, BackendStep, Client, Page

\* Where something arrives, it arrives over the connection that is up.
LEMMA ArrivesWhere ==
  ASSUME SidInv, Arrives
  PROVE  sid \in Sids /\ sid \in connections /\ sid = lastSid /\ consumer = "running"
         /\ sidOf[owed[1].question] = sid
<1>1. /\ sid \in connections /\ link = "up" /\ consumer = "running"
      /\ sidOf[owed[1].question] = sid
  BY DEF Arrives, Reaches, Routable
<1>2. lastSid # 0 /\ lastSid \in Nat /\ lastSid <= MaxSid /\ sid = lastSid
  BY <1>1, StreamlitAssumption, BackendAssumption DEF SidInv, MaxSid
<1> QED
  BY <1>1, <1>2, StreamlitAssumption, BackendAssumption DEF Sids, MaxSid

\* What a token does to the streams of its connection.
LEMMA TokenArrives ==
  ASSUME SidInv, StreamInv, OwedInv, SendToken, Arrives
  PROVE  \E gen \in Nat \ {0}, seq \in Nat \ {0}, token \in Token :
           /\ generations' \in [Sids -> Nat] /\ gen <= generations'[sid]
           /\ \A s \in Sids : generations[s] <= generations'[s]
           /\ activeStreams' = [activeStreams EXCEPT ![sid] = gen]
           /\ sequences' = [sequences EXCEPT ![sid] = seq]
           /\ eventQueue' = Append(eventQueue, [kind |-> "token", stream |-> <<sid, gen>>,
                                                seq |-> seq, token |-> token])
           /\ SameLevel(token, owed[1])
           /\ activeStreams[sid] = 0 => gen = generations[sid] + 1 /\ seq = 1
           /\ activeStreams[sid] # 0 => gen = activeStreams[sid] /\ seq = sequences[sid] + 1
<1> DEFINE now   == Head(owed)
           token == [question |-> now.question, level |-> now.level, n |-> now.sent + 1]
           opens == activeStreams[sid] = 0
           gen   == IF opens THEN NextGeneration(sid) ELSE activeStreams[sid]
           seq   == IF opens THEN 1 ELSE sequences[sid] + 1
<1>1. owed # <<>> /\ now.sent < MaxTokens /\ now = owed[1]
  BY DEF SendToken
<1>2. now \in Level
  BY <1>1, HeadTailProperties DEF OwedInv
<1>3. token \in Token /\ SameLevel(token, owed[1])
  BY <1>1, <1>2, StreamlitAssumption DEF Level, Token, SameLevel
<1>4. RouteToken(sid, token)
  BY <1>1 DEF SendToken, Arrives
<1>5. sid \in Sids
  BY ArrivesWhere
<1>6. /\ generations[sid] \in Nat /\ activeStreams[sid] \in Nat /\ sequences[sid] \in Nat
      /\ activeStreams[sid] <= generations[sid]
  BY <1>5 DEF StreamInv
<1> HIDE DEF token
<1>7. /\ generations' = [generations EXCEPT ![sid] = IF opens THEN gen ELSE generations[sid]]
      /\ activeStreams' = [activeStreams EXCEPT ![sid] = gen]
      /\ sequences' = [sequences EXCEPT ![sid] = seq]
      /\ eventQueue' = Append(eventQueue, [kind |-> "token", stream |-> <<sid, gen>>,
                                           seq |-> seq, token |-> token])
  BY <1>4 DEF RouteToken
<1>8. /\ gen \in Nat \ {0} /\ seq \in Nat \ {0}
      /\ opens => gen = generations[sid] + 1 /\ seq = 1
      /\ ~opens => gen = activeStreams[sid] /\ gen <= generations[sid] /\ seq = sequences[sid] + 1
  BY <1>6 DEF NextGeneration
<1>9. /\ generations' \in [Sids -> Nat] /\ gen <= generations'[sid]
      /\ \A s \in Sids : generations[s] <= generations'[s]
  BY <1>5, <1>6, <1>7, <1>8 DEF StreamInv
<1>10. opens <=> activeStreams[sid] = 0
  OBVIOUS
<1> HIDE DEF gen, seq, opens
<1> QED
  BY <1>3, <1>7, <1>8, <1>9, <1>10

LEMMA EndArrives ==
  ASSUME SidInv, StreamInv, SendDone, Arrives
  PROVE  /\ eventQueue' = Append(eventQueue, [kind |-> "complete", stream |-> <<sid, activeStreams[sid]>>])
         /\ activeStreams' = [activeStreams EXCEPT ![sid] = 0]
         /\ sequences' = [sequences EXCEPT ![sid] = 0]
         /\ generations' = generations /\ owed' = Tail(owed)
BY DEF SendDone, Arrives, RouteDone

LEMMA StreamInvStep ==
  ASSUME SidInv, StreamInv, OwedInv, IsQueue(eventQueue), [Next]_vars
  PROVE  StreamInv'
<1>1. CASE Aside \/ TakeItem
  <2>1. UNCHANGED streams
    BY <1>1, QuietAside DEF Quiet, TakeItem
  <2>2. lastSid' = lastSid \/ lastSid' = lastSid + 1
    <3>1. CASE TakeItem \/ BackendStep \/ Reply \/ Open \/ SendToken \/ SendDone \/ UNCHANGED vars
      BY <3>1 DEF TakeItem, BackendStep, Reply, Open, SendToken, SendDone, vars, client
    <3>2. CASE Client
      BY <3>2 DEF Client, FirstAttemptFails, Connect, Disconnect, AttemptFails
    <3>3. CASE \E q \in Question : Teach(q) \/ Clarify(q) \/ Lose(q)
      BY <3>3 DEF Teach, Clarify, Lose, client
    <3>4. CASE \E q \in Question, n \in 0..MaxFiles : Submit(q, n)
      BY <3>4 DEF Submit, client
    <3> QED
      BY <1>1, <3>1, <3>2, <3>3, <3>4 DEF Aside
  <2> QED
    BY <2>1, <2>2 DEF StreamInv, streams, SidInv, Sids
<1>2. CASE SendToken /\ Arrives
  <2>1. lastSid' = lastSid /\ sid = lastSid /\ sid \in Sids
    BY <1>2, ArrivesWhere DEF SendToken, client
  <2>2. PICK gen \in Nat \ {0}, seq \in Nat \ {0} :
          /\ generations' \in [Sids -> Nat] /\ gen <= generations'[sid]
          /\ \A s \in Sids : generations[s] <= generations'[s]
          /\ activeStreams' = [activeStreams EXCEPT ![sid] = gen]
          /\ sequences' = [sequences EXCEPT ![sid] = seq]
    BY <1>2, TokenArrives
  <2>3. \A s \in Sids : /\ activeStreams'[s] = IF s = sid THEN gen ELSE activeStreams[s]
                        /\ sequences'[s] = IF s = sid THEN seq ELSE sequences[s]
    BY <2>2 DEF StreamInv
  <2>4. activeStreams' \in [Sids -> Nat] /\ sequences' \in [Sids -> Nat]
    BY <2>2 DEF StreamInv
  <2>5. \A s \in Sids : activeStreams'[s] <= generations'[s]
    <3> TAKE s \in Sids
    <3>1. activeStreams[s] \in Nat /\ generations[s] \in Nat /\ generations'[s] \in Nat
          /\ activeStreams[s] <= generations[s] /\ generations[s] <= generations'[s]
      BY <2>2 DEF StreamInv
    <3> QED
      BY <2>2, <2>3, <3>1
  <2>6. \A s \in Sids : s > lastSid => s # sid
    BY <2>1 DEF SidInv, Sids
  <2> QED
    BY <2>1, <2>2, <2>3, <2>4, <2>5, <2>6 DEF StreamInv
<1>3. CASE SendDone /\ Arrives
  <2>1. lastSid' = lastSid /\ sid = lastSid /\ sid \in Sids
    BY <1>3, ArrivesWhere DEF SendDone, client
  <2>2. /\ generations' = generations
        /\ activeStreams' = [activeStreams EXCEPT ![sid] = 0]
        /\ sequences' = [sequences EXCEPT ![sid] = 0]
    BY <1>3, EndArrives
  <2>3. \A s \in Sids : /\ activeStreams'[s] = IF s = sid THEN 0 ELSE activeStreams[s]
                        /\ sequences'[s] = IF s = sid THEN 0 ELSE sequences[s]
    BY <2>2 DEF StreamInv
  <2>4. activeStreams' \in [Sids -> Nat] /\ sequences' \in [Sids -> Nat]
    BY <2>2 DEF StreamInv
  <2> QED
    BY <2>1, <2>2, <2>3, <2>4 DEF StreamInv
<1> QED
  BY <1>1, <1>2, <1>3, StepsAre

\* What a token leaves of what is owed.
LEMMA OwedAfterToken ==
  ASSUME OwedInv, SendToken
  PROVE  /\ owed' \in Seq(Level) /\ Len(owed') = Len(owed) /\ Len(owed) \in Nat \ {0}
         /\ \A i \in 1..Len(owed) : SameLevel(owed'[i], owed[i])
         /\ \A i \in 2..Len(owed) : owed'[i] = owed[i]
<1> DEFINE one == [Head(owed) EXCEPT !.sent = @ + 1]
<1>1. owed # <<>> /\ owed' = <<one>> \o Tail(owed) /\ Head(owed).sent < MaxTokens
  BY DEF SendToken
<1>2. /\ Head(owed) \in Level /\ Tail(owed) \in Seq(Level) /\ Len(owed) \in Nat \ {0}
      /\ Len(Tail(owed)) = Len(owed) - 1 /\ Head(owed) = owed[1]
      /\ \A i \in 1..Len(Tail(owed)) : Tail(owed)[i] = owed[i + 1]
  BY <1>1, HeadTailProperties, EmptySeq DEF OwedInv
<1>3. one \in Level /\ SameLevel(one, owed[1])
  <2>1. PICK h : h = Head(owed)
    OBVIOUS
  <2>2. h \in Level /\ h.sent < MaxTokens /\ h = owed[1] /\ MaxTokens \in Nat
    BY <1>1, <1>2, <2>1, StreamlitAssumption
  <2>3. one = [question |-> h.question, level |-> h.level, sent |-> h.sent + 1]
    BY <2>1, <2>2 DEF Level
  <2>4. h.sent + 1 \in 0..MaxTokens /\ h.question \in Question /\ h.level \in 1..MaxLevels
    BY <2>2 DEF Level
  <2> QED
    BY <2>2, <2>3, <2>4 DEF Level, SameLevel
<1> HIDE DEF one
<1>4. <<one>> \in Seq(Level) /\ Len(<<one>>) = 1 /\ <<one>>[1] = one
  BY <1>3
<1>5. /\ owed' \in Seq(Level) /\ Len(owed') = 1 + Len(Tail(owed))
      /\ \A i \in 1..(1 + Len(Tail(owed))) : owed'[i] = IF i <= 1 THEN <<one>>[i] ELSE Tail(owed)[i - 1]
  <2> DEFINE front == <<one>>
             back  == Tail(owed)
  <2>1. front \in Seq(Level) /\ back \in Seq(Level) /\ Len(front) = 1 /\ owed' = front \o back
    BY <1>1, <1>2, <1>4
  <2> HIDE DEF front, back
  <2>2. /\ front \o back \in Seq(Level) /\ Len(front \o back) = Len(front) + Len(back)
        /\ \A i \in 1..(Len(front) + Len(back)) :
             (front \o back)[i] = IF i <= Len(front) THEN front[i] ELSE back[i - Len(front)]
    BY <2>1, ConcatProperties
  <2>3. /\ owed' \in Seq(Level) /\ Len(owed') = 1 + Len(back)
        /\ \A i \in 1..(1 + Len(back)) : owed'[i] = IF i <= 1 THEN front[i] ELSE back[i - 1]
    BY <2>1, <2>2
  <2> QED
    BY <2>3 DEF front, back
<1>6. \A i \in 2..Len(owed) : owed'[i] = owed[i]
  <2> TAKE i \in 2..Len(owed)
  <2>1. i - 1 \in 1..Len(Tail(owed)) /\ i \in 1..(1 + Len(Tail(owed))) /\ ~(i <= 1)
    BY <1>2
  <2> QED
    BY <1>2, <1>5, <2>1
<1>7. \A i \in 1..Len(owed) : SameLevel(owed'[i], owed[i])
  <2> TAKE i \in 1..Len(owed)
  <2>1. CASE i = 1
    BY <1>2, <1>3, <1>4, <1>5, <2>1
  <2>2. CASE i # 1
    <3>1. i \in 2..Len(owed)
      BY <1>2, <2>2
    <3> QED
      BY <1>6, <3>1 DEF SameLevel
  <2> QED
    BY <2>1, <2>2
<1> QED
  BY <1>2, <1>5, <1>6, <1>7

\* ... the end of a level ...
LEMMA OwedAfterDone ==
  ASSUME OwedInv, SendDone
  PROVE  /\ owed' \in Seq(Level) /\ Len(owed') = Len(owed) - 1 /\ Len(owed) \in Nat \ {0}
         /\ \A i \in 1..Len(owed') : owed'[i] = owed[i + 1]
BY HeadTailProperties, EmptySeq DEF OwedInv, SendDone

\* ... and a question that is taught.
LEMMA OwedAfterTeach ==
  ASSUME OwedInv, NEW q \in Question, Teach(q)
  PROVE  /\ owed' \in Seq(Level) /\ Len(owed') \in Nat /\ Len(owed') >= Len(owed)
         /\ \A i \in 1..Len(owed) : owed'[i] = owed[i]
         /\ \A i \in (Len(owed) + 1)..Len(owed') :
              owed'[i] = [question |-> q, level |-> i - Len(owed), sent |-> 0]
<1>1. PICK n \in 1..MaxLevels :
        owed' = owed \o [l \in 1..n |-> [question |-> q, level |-> l, sent |-> 0]]
  BY DEF Teach
<1> DEFINE new == [l \in 1..n |-> [question |-> q, level |-> l, sent |-> 0]]
<1>2. n \in Nat /\ MaxTokens \in Nat
  BY StreamlitAssumption
<1>3. \A l \in 1..n : new[l] = [question |-> q, level |-> l, sent |-> 0] /\ new[l] \in Level
  BY <1>2, StreamlitAssumption DEF Level
<1>4. new \in Seq(Level) /\ Len(new) = n
  BY <1>2, <1>3
<1> HIDE DEF new
<1>5. /\ owed \o new \in Seq(Level) /\ Len(owed \o new) = Len(owed) + n
      /\ \A i \in 1..(Len(owed) + n) :
           (owed \o new)[i] = IF i <= Len(owed) THEN owed[i] ELSE new[i - Len(owed)]
  BY <1>4, ConcatProperties DEF OwedInv
<1>6. owed' = owed \o new /\ Len(owed) \in Nat
  BY <1>1, LenProperties DEF new, OwedInv
<1>7. \A i \in (Len(owed) + 1)..Len(owed') :
        owed'[i] = [question |-> q, level |-> i - Len(owed), sent |-> 0]
  <2> TAKE i \in (Len(owed) + 1)..Len(owed')
  <2>1. i - Len(owed) \in 1..n /\ i \in 1..(Len(owed) + n) /\ ~(i <= Len(owed))
    BY <1>2, <1>5, <1>6
  <2> QED
    BY <1>3, <1>5, <1>6, <2>1
<1> QED
  BY <1>2, <1>5, <1>6, <1>7

\* The step leaves what is asked and owed alone.
LEMMA OwedStays ==
  ASSUME OwedInv, UNCHANGED <<asked, owed, handled, sidOf>>,
         handling' \cup published' \subseteq asked, pageSid' \in Nat, pageSid' >= pageSid, pageSid \in Nat
  PROVE  OwedInv'
BY DEF OwedInv

Known(s)    == s \in Streams /\ s[1] <= lastSid /\ s[2] <= generations[s[1]]
HasSid(e)   == IsText(e) \/ e.kind = "connected"
NumberOf(e) == IF IsText(e) THEN e.stream[1] ELSE e.sid

ChatState == [stream : Streams \cup {NoStream}, text : Seq(Token), last : Nat, complete : BOOLEAN]

\* What the queue holds is of connections there have been, the older first, and
\* none that is older than the one the page knows.
QueueInv ==
  /\ IsQueue(eventQueue)
  /\ \A i \in 1..Len(eventQueue) :
       LET e == eventQueue[i] IN
         /\ IsText(e) => Known(e.stream)
         /\ IsToken(e) => e.token \in Token /\ e.stream[2] # 0 /\ e.seq \in Nat \ {0}
         /\ e.kind = "connected" => e.sid \in 1..lastSid
         /\ HasSid(e) => pageSid <= NumberOf(e)
  /\ \A i, j \in 1..Len(eventQueue) :
       i < j /\ HasSid(eventQueue[i]) /\ HasSid(eventQueue[j])
         => NumberOf(eventQueue[i]) <= NumberOf(eventQueue[j])
  /\ pageSid \in 0..lastSid
  /\ chat \in ChatState /\ (chat.stream = NoStream \/ Known(chat.stream))

-----------------------------------------------------------------------------
(* What may follow what.                                                   *)

\* A level that starts behind the first events of the queue: nothing of it was
\* there before, nor of its stream.
Starts(t, s, i) ==
  /\ TakenOf(t) = <<>> /\ chat.stream # s
  /\ \A k \in 1..(i - 1) : /\ IsText(eventQueue[k]) => eventQueue[k].stream # s
                           /\ IsToken(eventQueue[k]) => ~SameLevel(eventQueue[k].token, t)

\* The n-th token of a stream comes behind the one before it, which is in the
\* queue or was taken last.
Continues(t, s, n, i) ==
  \/ \E j \in 1..(i - 1) :
       /\ IsToken(eventQueue[j]) /\ eventQueue[j].stream = s /\ eventQueue[j].seq = n - 1
       /\ SameLevel(eventQueue[j].token, t)
       /\ \A k \in (j + 1)..(i - 1) : ~IsText(eventQueue[k])
  \/ /\ \A k \in 1..(i - 1) : ~IsText(eventQueue[k])
     /\ chat.stream = s /\ chat.last = n - 1 /\ ~chat.complete
     /\ chat.text = TakenOf(t) /\ chat.text # <<>>

Follows(t, s, n, i) == \/ n = 1 /\ Starts(t, s, i)
                       \/ n # 1 /\ Continues(t, s, n, i)

FollowInv ==
  \A i \in 1..Len(eventQueue) : IsToken(eventQueue[i]) =>
    Follows(eventQueue[i].token, eventQueue[i].stream, eventQueue[i].seq, i)

\* The texts the page has taken, each of one level, and the one it shows.
TextInv ==
  /\ taken \in [Question -> [1..MaxLevels -> Seq(Token)]]
  /\ \A q \in Question, l \in 1..MaxLevels : \A k \in 1..Len(taken[q][l]) :
       taken[q][l][k].question = q /\ taken[q][l][k].level = l
  /\ chat.text = <<>> => \A q \in Question, l \in 1..MaxLevels : taken[q][l] = <<>>
  /\ chat.text # <<>> => \E q \in Question, l \in 1..MaxLevels : chat.text = taken[q][l]

LEMMA TokenLevel ==
  ASSUME NEW t \in Token
  PROVE  t.question \in Question /\ t.level \in 1..MaxLevels
BY DEF Token

\* The first event of the queue is taken.
LEMMA TakeQueue ==
  ASSUME IsQueue(eventQueue), TakeItem
  PROVE  /\ IsQueue(eventQueue') /\ Len(eventQueue) \in Nat \ {0} /\ Len(eventQueue') = Len(eventQueue) - 1
         /\ \A i \in 1..Len(eventQueue') : eventQueue'[i] = eventQueue[i + 1]
         /\ Take(eventQueue[1])
         /\ UNCHANGED <<client, streams, services, posting, backendVars>>
<1>1. eventQueue # <<>> /\ eventQueue' = Tail(eventQueue) /\ Take(Head(eventQueue))
  BY DEF TakeItem
<1> QED
  BY <1>1, TailQueue DEF TakeItem

\* The page takes a token: the text of the token's level grows by it.
Takes(t) == taken' = [taken EXCEPT ![t.question][t.level] = Append(@, t)]

\* A token that is taken is the next one of the text the page has of its level.
LEMMA TakeToken ==
  ASSUME QueueInv, FollowInv, TextInv, TakeItem, NEW e, e = eventQueue[1], IsToken(e)
  PROVE  /\ e.token \in Token /\ e.seq \in Nat \ {0} /\ Known(e.stream)
         /\ chat' = [stream |-> e.stream, text |-> Append(TakenOf(e.token), e.token),
                     last |-> e.seq, complete |-> FALSE]
         /\ Takes(e.token)
         /\ ShowToken(chat')
         /\ e.seq # 1 => /\ chat.stream = e.stream /\ ~chat.complete
                         /\ chat.text = TakenOf(e.token) /\ chat.text # <<>>
         /\ e.seq = 1 => TakenOf(e.token) = <<>> /\ chat.stream # e.stream
<1>1. 1 \in 1..Len(eventQueue) /\ Take(e)
  BY TakeQueue DEF QueueInv
<1>2. e.token \in Token /\ e.seq \in Nat \ {0} /\ Known(e.stream)
  BY <1>1 DEF QueueInv, IsToken, IsText
<1>3. chat' = ApplyToken(e) /\ ShowToken(chat') /\ Takes(e.token)
  BY <1>1 DEF Take, IsToken, Takes
<1>4. Follows(e.token, e.stream, e.seq, 1)
  BY <1>1 DEF FollowInv
<1>5. CASE e.seq = 1
  <2>1. TakenOf(e.token) = <<>> /\ chat.stream # e.stream
    BY <1>4, <1>5 DEF Follows, Starts
  <2>2. ApplyToken(e) = [NewChat(e.stream) EXCEPT !.text = Append(@, e.token), !.last = e.seq, !.complete = FALSE]
    BY <2>1 DEF ApplyToken, Seen
  <2>3. ApplyToken(e) = [stream |-> e.stream, text |-> Append(<<>>, e.token),
                         last |-> e.seq, complete |-> FALSE]
    BY <2>2 DEF NewChat
  <2> QED
    BY <1>2, <1>3, <1>5, <2>1, <2>3
<1>6. CASE e.seq # 1
  <2>1. Continues(e.token, e.stream, e.seq, 1)
    BY <1>4, <1>6 DEF Follows
  <2>2. /\ chat.stream = e.stream /\ chat.last = e.seq - 1 /\ ~chat.complete
        /\ chat.text = TakenOf(e.token) /\ chat.text # <<>>
    BY <2>1 DEF Continues
  <2>3. ~Seen(e)
    BY <1>2, <2>2 DEF Seen
  <2>4. ApplyToken(e) = [chat EXCEPT !.text = Append(@, e.token), !.last = e.seq, !.complete = FALSE]
    BY <2>2, <2>3 DEF ApplyToken
  <2>5. ApplyToken(e) = [stream |-> e.stream, text |-> Append(TakenOf(e.token), e.token),
                         last |-> e.seq, complete |-> FALSE]
    BY <2>2, <2>4 DEF QueueInv, ChatState
  <2> QED
    BY <1>2, <1>3, <1>6, <2>2, <2>5
<1> QED
  BY <1>5, <1>6

\* ... and what is not a token changes no text.
LEMMA TakeOther ==
  ASSUME QueueInv, TakeItem, NEW e, e = eventQueue[1], ~IsToken(e)
  PROVE  /\ taken' = taken
         /\ IsEnd(e) => chat' = [stream |-> e.stream, text |-> chat.text, last |-> chat.last, complete |-> TRUE]
                        /\ ShowComplete(chat') /\ Known(e.stream)
         /\ ~IsEnd(e) => chat' = chat
<1>1. 1 \in 1..Len(eventQueue) /\ Take(e)
  BY TakeQueue DEF QueueInv
<1>2. taken' = taken
  BY <1>1 DEF Take, IsToken
<1>3. ASSUME IsEnd(e)
      PROVE  chat' = [stream |-> e.stream, text |-> chat.text, last |-> chat.last, complete |-> TRUE]
             /\ ShowComplete(chat') /\ Known(e.stream)
  <2>1. chat' = ApplyComplete(e) /\ ShowComplete(chat')
    BY <1>1, <1>3 DEF Take, IsEnd
  <2>2. ApplyComplete(e) = [stream |-> e.stream, text |-> chat.text, last |-> chat.last, complete |-> TRUE]
    <3>1. chat \in ChatState
      BY DEF QueueInv
    <3>2. PICK c : c = ApplyComplete(e)
      OBVIOUS
    <3>3. c = [stream |-> e.stream, text |-> chat.text, last |-> chat.last, complete |-> TRUE]
      BY <3>1, <3>2 DEF ApplyComplete, ChatState
    <3> QED
      BY <3>2, <3>3
  <2>3. Known(e.stream)
    BY <1>1, <1>3 DEF QueueInv, IsEnd, IsText
  <2> QED
    BY <2>1, <2>2, <2>3
<1>4. ~IsEnd(e) => chat' = chat
  BY <1>1 DEF Take, IsToken, IsEnd
<1> QED
  BY <1>2, <1>3, <1>4

\* The texts after a token, level by level.
LEMMA TakenAfter ==
  ASSUME TextInv, NEW t \in Token, Takes(t)
  PROVE  /\ TakenOf(t)' = Append(TakenOf(t), t) /\ TakenOf(t) \in Seq(Token)
         /\ \A q \in Question, l \in 1..MaxLevels :
              q # t.question \/ l # t.level => taken'[q][l] = taken[q][l]
         /\ taken' \in [Question -> [1..MaxLevels -> Seq(Token)]]
<1>1. t.question \in Question /\ t.level \in 1..MaxLevels
  BY TokenLevel
<1>2. taken[t.question] \in [1..MaxLevels -> Seq(Token)] /\ taken[t.question][t.level] \in Seq(Token)
  <2>1. taken \in [Question -> [1..MaxLevels -> Seq(Token)]]
    BY DEF TextInv
  <2>2. taken[t.question] \in [1..MaxLevels -> Seq(Token)]
    BY <1>1, <2>1
  <2> QED
    BY <1>1, <2>2
<1>3. Append(taken[t.question][t.level], t) \in Seq(Token)
  BY <1>2, AppendProperties
<1> QED
  BY <1>1, <1>2, <1>3 DEF Takes, TextInv, TakenOf

-----------------------------------------------------------------------------
(* The queue stays in order.                                               *)

LEMMA LastSidGrows ==
  ASSUME [Next]_vars
  PROVE  /\ lastSid' = lastSid \/ lastSid' = lastSid + 1
         /\ (SendToken \/ SendDone \/ TakeItem) => lastSid' = lastSid /\ sid' = sid
<1>1. CASE TakeItem \/ BackendStep \/ Reply \/ Open \/ SendToken \/ SendDone \/ UNCHANGED vars
  BY <1>1 DEF TakeItem, BackendStep, Reply, Open, SendToken, SendDone, vars, client
<1>2. CASE Client
  <2>1. CASE Connect
    BY <2>1 DEF Connect, SendToken, SendDone, TakeItem, client
  <2>2. CASE FirstAttemptFails \/ Disconnect \/ AttemptFails
    BY <2>2 DEF FirstAttemptFails, Disconnect, AttemptFails
  <2> QED
    BY <1>2, <2>1, <2>2 DEF Client
<1>3. CASE \E q \in Question : Teach(q) \/ Clarify(q) \/ Lose(q)
  BY <1>3 DEF Teach, Clarify, Lose, client
<1>4. CASE \E q \in Question, n \in 0..MaxFiles : Submit(q, n)
  BY <1>4 DEF Submit, client
<1>5. (SendToken \/ SendDone \/ TakeItem) => lastSid' = lastSid /\ sid' = sid
  BY DEF SendToken, SendDone, TakeItem, client
<1> QED
  BY <1>1, <1>2, <1>3, <1>4, <1>5 DEF Next, Answers, Page

\* A stream that was known is known.
LEMMA KnownStays ==
  ASSUME SidInv, StreamInv, NEW s, Known(s), lastSid' = lastSid \/ lastSid' = lastSid + 1,
         generations' \in [Sids -> Nat], \A c \in Sids : generations[c] <= generations'[c]
  PROVE  Known(s)'
<1>1. s[1] \in Sids /\ s[2] \in Nat /\ s[1] \in Nat
  BY DEF Known, Streams, Sids
<1>2. PICK l : l = lastSid'
  OBVIOUS
<1>3. s[1] <= l
  BY <1>1, <1>2 DEF Known, SidInv
<1>4. PICK g : g = generations'[s[1]]
  OBVIOUS
<1>5. g \in Nat /\ generations[s[1]] <= g /\ generations[s[1]] \in Nat
  BY <1>1, <1>4 DEF StreamInv
<1>6. s[2] <= g
  BY <1>1, <1>5 DEF Known
<1> QED
  BY <1>2, <1>3, <1>4, <1>6 DEF Known

\* An event that may stand in the queue.
Sound(e) ==
  /\ IsText(e) => Known(e.stream)
  /\ IsToken(e) => e.token \in Token /\ e.stream[2] # 0 /\ e.seq \in Nat \ {0}
  /\ e.kind = "connected" => e.sid \in 1..lastSid
  /\ HasSid(e) => pageSid <= NumberOf(e)

LEMMA SoundStays ==
  ASSUME SidInv, StreamInv, NEW e, Sound(e), lastSid' = lastSid \/ lastSid' = lastSid + 1,
         generations' \in [Sids -> Nat], \A c \in Sids : generations[c] <= generations'[c],
         pageSid' = pageSid
  PROVE  Sound(e)'
<1>1. IsText(e) => Known(e.stream)'
  BY KnownStays DEF Sound
<1>2. e.kind = "connected" => e.sid \in 1..lastSid'
  BY DEF Sound, SidInv
<1> QED
  BY <1>1, <1>2 DEF Sound

LEMMA QueueSound ==
  QueueInv <=> /\ IsQueue(eventQueue)
               /\ \A i \in 1..Len(eventQueue) : Sound(eventQueue[i])
               /\ \A i, j \in 1..Len(eventQueue) :
                    i < j /\ HasSid(eventQueue[i]) /\ HasSid(eventQueue[j])
                      => NumberOf(eventQueue[i]) <= NumberOf(eventQueue[j])
               /\ pageSid \in 0..lastSid
               /\ chat \in ChatState /\ (chat.stream = NoStream \/ Known(chat.stream))
BY DEF QueueInv, Sound

\* The number of a sound event.
LEMMA NumberBound ==
  ASSUME SidInv, NEW e, Sound(e), HasSid(e)
  PROVE  NumberOf(e) \in 1..lastSid
BY DEF Sound, HasSid, NumberOf, Known, Streams, Sids, SidInv

\* An event of the last connection is put at the end of the queue.
LEMMA QueueGrows ==
  ASSUME SidInv, QueueInv, IsQueue(eventQueue'), NEW r, r = eventQueue',
         Len(r) \in Nat, Len(r) >= Len(eventQueue),
         \A i \in 1..Len(eventQueue) : r[i] = eventQueue[i],
         \A i \in 1..Len(eventQueue) : Sound(eventQueue[i])',
         \A i \in (Len(eventQueue) + 1)..Len(r) :
            HasSid(r[i]) => NumberOf(r[i]) = lastSid',
         lastSid' = lastSid \/ lastSid' = lastSid + 1
  PROVE  \A i, j \in 1..Len(r) :
           i < j /\ HasSid(r[i]) /\ HasSid(r[j]) => NumberOf(r[i]) <= NumberOf(r[j])
<1>1. SUFFICES ASSUME NEW i \in 1..Len(r), NEW j \in 1..Len(r), i < j, HasSid(r[i]), HasSid(r[j])
               PROVE  NumberOf(r[i]) <= NumberOf(r[j])
  OBVIOUS
<1>2. Len(eventQueue) \in Nat
  BY QueueLen DEF QueueInv
<1>3. PICK l \in Nat : l = lastSid' /\ lastSid <= l
  BY DEF SidInv
<1>4. CASE j \in 1..Len(eventQueue)
  <2>1. i \in 1..Len(eventQueue)
    BY <1>1, <1>2, <1>4
  <2> QED
    BY <1>1, <1>4, <2>1 DEF QueueInv
<1>5. CASE j \notin 1..Len(eventQueue)
  <2>1. NumberOf(r[j]) = l
    BY <1>1, <1>2, <1>3, <1>5
  <2>2. CASE i \in 1..Len(eventQueue)
    <3>1. NumberOf(r[i]) \in 1..lastSid
      <4>1. Sound(eventQueue[i]) /\ r[i] = eventQueue[i]
        BY <2>2, QueueSound
      <4> QED
        BY <1>1, <4>1, NumberBound
    <3> QED
      BY <1>3, <2>1, <3>1 DEF SidInv
  <2>3. CASE i \notin 1..Len(eventQueue)
    <3>1. NumberOf(r[i]) = l
      BY <1>1, <1>2, <1>3, <2>3
    <3> QED
      BY <1>3, <2>1, <3>1
  <2> QED
    BY <2>2, <2>3
<1> QED
  BY <1>4, <1>5

\* What is to be shown of the queue after a step.
LEMMA QueueInvFrom ==
  ASSUME NEW r, r = eventQueue', IsQueue(r),
         \A i \in 1..Len(r) : Sound(r[i])',
         \A i, j \in 1..Len(r) :
           i < j /\ HasSid(r[i]) /\ HasSid(r[j]) => NumberOf(r[i]) <= NumberOf(r[j]),
         pageSid' \in 0..lastSid', chat' \in ChatState,
         chat'.stream = NoStream \/ Known(chat.stream)'
  PROVE  QueueInv'
BY DEF QueueInv, Sound, Known, HasSid, NumberOf, IsText, IsToken

LEMMA QueueInvQuiet ==
  ASSUME SidInv, StreamInv, QueueInv, Quiet, [Next]_vars
  PROVE  QueueInv'
<1> PICK r : r = eventQueue'
  OBVIOUS
<1>1. /\ IsQueue(r) /\ Len(r) \in Nat /\ Len(r) >= Len(eventQueue)
      /\ \A i \in 1..Len(eventQueue) : r[i] = eventQueue[i]
      /\ \A i \in (Len(eventQueue) + 1)..Len(r) :
           r[i].kind \in {"state", "status"} \/ (r[i].kind = "connected" /\ r[i].sid = lastSid' /\ lastSid' = lastSid + 1)
  BY DEF Quiet, Grown
<1>2. chat' = chat /\ pageSid' = pageSid /\ generations' = generations
      /\ (lastSid' = lastSid \/ lastSid' = lastSid + 1) /\ Len(eventQueue) \in Nat
  BY LastSidGrows, QueueLen DEF Quiet, streams, QueueInv
<1>3. /\ generations' \in [Sids -> Nat] /\ \A c \in Sids : generations[c] <= generations'[c]
      /\ pageSid \in 0..lastSid /\ lastSid \in Nat
  BY <1>2 DEF StreamInv, QueueInv, SidInv
<1>4. ASSUME NEW i \in 1..Len(eventQueue)  PROVE Sound(eventQueue[i])' /\ Sound(r[i])'
  <2>1. Sound(eventQueue[i]) /\ r[i] = eventQueue[i]
    BY <1>1, QueueSound
  <2>2. PICK e : e = eventQueue[i] /\ e = r[i]
    BY <2>1
  <2>3. Sound(e)'
    BY <1>2, <1>3, <2>1, <2>2, SoundStays
  <2> QED
    BY <1>1, <2>2, <2>3 DEF Sound, Known, HasSid, NumberOf, IsText, IsToken
<1>5. ASSUME NEW i \in (Len(eventQueue) + 1)..Len(r)
      PROVE  /\ HasSid(r[i]) => NumberOf(r[i]) = lastSid'
             /\ Sound(r[i])'
  <2>1. PICK e, l : e = r[i] /\ l = lastSid'
    OBVIOUS
  <2>2. /\ e.kind \in {"state", "status"} \/ (e.kind = "connected" /\ e.sid = l /\ l # 0)
        /\ l \in Nat /\ l >= lastSid
    BY <1>1, <1>2, <1>3, <2>1
  <2>3. HasSid(e) => e.kind = "connected" /\ NumberOf(e) = l
    BY <2>2 DEF HasSid, NumberOf, IsText
  <2>4. l # 0 \/ e.kind # "connected"
    BY <2>2
  <2>5. Sound(e)'
    BY <1>2, <1>3, <2>1, <2>2, <2>3, <2>4 DEF Sound, IsText, IsToken, HasSid, NumberOf
  <2> QED
    BY <2>1, <2>3, <2>5 DEF Sound, Known
<1>6. \A i, j \in 1..Len(r) : i < j /\ HasSid(r[i]) /\ HasSid(r[j]) => NumberOf(r[i]) <= NumberOf(r[j])
  BY <1>1, <1>2, <1>4, <1>5, QueueGrows
<1>7. \A i \in 1..Len(r) : Sound(r[i])'
  BY <1>1, <1>2, <1>4, <1>5
<1>8. chat' \in ChatState /\ (chat'.stream = NoStream \/ Known(chat.stream)')
  <2>1. CASE chat.stream = NoStream
    BY <1>2, <2>1 DEF QueueInv
  <2>2. CASE Known(chat.stream)
    <3>1. PICK s : s = chat.stream
      OBVIOUS
    <3>2. Known(s)'
      BY <1>2, <1>3, <2>2, <3>1, KnownStays
    <3> QED
      BY <1>2, <3>1, <3>2 DEF QueueInv, Known
  <2> QED
    BY <2>1, <2>2 DEF QueueInv
<1>9. pageSid' \in 0..lastSid'
  BY <1>2, <1>3
<1> QED
  BY <1>1, <1>6, <1>7, <1>8, <1>9, QueueInvFrom

\* A token or an end is put behind what is there.
LEMMA QueueInvArrives ==
  ASSUME SidInv, StreamInv, QueueInv, SendToken \/ SendDone, NEW e, eventQueue' = Append(eventQueue, e),
         IsText(e), NumberOf(e) = lastSid, Sound(e)',
         generations' \in [Sids -> Nat], \A c \in Sids : generations[c] <= generations'[c]
  PROVE  QueueInv'
<1> PICK r : r = eventQueue'
  OBVIOUS
<1>1. chat' = chat /\ pageSid' = pageSid /\ lastSid' = lastSid
  BY DEF SendToken, SendDone, page, client
<1>2. /\ IsQueue(r) /\ Len(eventQueue) \in Nat /\ Len(r) = Len(eventQueue) + 1
      /\ \A i \in 1..Len(eventQueue) : r[i] = eventQueue[i]
      /\ r[Len(eventQueue) + 1] = e
  BY AppendQueue DEF QueueInv
<1>3. ASSUME NEW i \in 1..Len(eventQueue)  PROVE Sound(eventQueue[i])' /\ Sound(r[i])'
  <2>1. Sound(eventQueue[i]) /\ r[i] = eventQueue[i]
    BY <1>2, QueueSound
  <2>2. PICK f : f = eventQueue[i] /\ f = r[i]
    BY <2>1
  <2>3. Sound(f)'
    BY <1>1, <2>1, <2>2, SoundStays
  <2> QED
    BY <2>2, <2>3 DEF Sound, Known, HasSid, NumberOf, IsText, IsToken
<1>4. ASSUME NEW i \in (Len(eventQueue) + 1)..Len(r)
      PROVE  NumberOf(r[i]) = lastSid' /\ Sound(r[i])'
  <2>1. r[i] = e
    BY <1>2
  <2> QED
    BY <1>1, <2>1
<1>5. \A i, j \in 1..Len(r) : i < j /\ HasSid(r[i]) /\ HasSid(r[j]) => NumberOf(r[i]) <= NumberOf(r[j])
  <2>1. \A i \in 1..Len(eventQueue) : Sound(eventQueue[i])'
    BY <1>3
  <2>2. \A i \in (Len(eventQueue) + 1)..Len(r) : HasSid(r[i]) => NumberOf(r[i]) = lastSid'
    BY <1>4
  <2>3. Len(r) \in Nat /\ Len(r) >= Len(eventQueue)
    BY <1>2
  <2>4. IsQueue(eventQueue') /\ \A i \in 1..Len(eventQueue) : r[i] = eventQueue[i]
    BY <1>2
  <2>5. lastSid' = lastSid
    BY <1>1
  <2> QED
    BY <2>1, <2>2, <2>3, <2>4, <2>5, QueueGrows
<1>6. \A i \in 1..Len(r) : Sound(r[i])'
  BY <1>2, <1>3, <1>4
<1>7. chat' \in ChatState /\ (chat'.stream = NoStream \/ Known(chat.stream)')
  <2>1. CASE chat.stream = NoStream
    BY <1>1, <2>1 DEF QueueInv
  <2>2. CASE Known(chat.stream)
    <3>1. PICK s : s = chat.stream
      OBVIOUS
    <3>2. Known(s)'
      BY <1>1, <2>2, <3>1, KnownStays
    <3> QED
      BY <1>1, <3>1, <3>2 DEF QueueInv, Known
  <2> QED
    BY <2>1, <2>2 DEF QueueInv
<1>8. pageSid' \in 0..lastSid'
  BY <1>1 DEF QueueInv
<1> QED
  BY <1>2, <1>5, <1>6, <1>7, <1>8, QueueInvFrom

LEMMA QueueInvToken ==
  ASSUME SidInv, StreamInv, OwedInv, QueueInv, SendToken, Arrives
  PROVE  QueueInv'
<1> PICK s : s = sid
  OBVIOUS
<1>1. PICK gen \in Nat \ {0}, seq \in Nat \ {0}, token \in Token :
        /\ generations' \in [Sids -> Nat] /\ gen <= generations'[s]
        /\ \A c \in Sids : generations[c] <= generations'[c]
        /\ eventQueue' = Append(eventQueue, [kind |-> "token", stream |-> <<s, gen>>,
                                             seq |-> seq, token |-> token])
  BY TokenArrives
<1>2. PICK e : e = [kind |-> "token", stream |-> <<s, gen>>, seq |-> seq, token |-> token]
  OBVIOUS
<1>3. s \in Sids /\ s = lastSid /\ lastSid' = lastSid /\ pageSid' = pageSid
  BY ArrivesWhere DEF SendToken, client, page
<1>4. Known(<<s, gen>>)'
  <2>1. <<s, gen>> \in Streams /\ s <= lastSid
    BY <1>3 DEF Streams, SidInv
  <2> QED
    BY <1>1, <1>3, <2>1 DEF Known
<1>5. IsToken(e) /\ IsText(e) /\ NumberOf(e) = lastSid /\ e.stream = <<s, gen>> /\ e.kind # "connected"
  BY <1>2, <1>3 DEF IsText, NumberOf, IsToken
<1>6. Sound(e)'
  <2>1. pageSid <= lastSid
    BY DEF QueueInv, SidInv
  <2>2. Known(e.stream)'
    BY <1>4, <1>5
  <2>3. e.token \in Token /\ e.stream[2] # 0 /\ e.seq \in Nat \ {0}
    BY <1>2
  <2> QED
    BY <1>3, <1>5, <2>1, <2>2, <2>3 DEF Sound
<1> QED
  BY <1>1, <1>2, <1>5, <1>6, QueueInvArrives

LEMMA QueueInvEnd ==
  ASSUME SidInv, StreamInv, OwedInv, QueueInv, SendDone, Arrives
  PROVE  QueueInv'
<1> PICK s, g : s = sid /\ g = activeStreams[sid]
  OBVIOUS
<1> PICK e : e = [kind |-> "complete", stream |-> <<s, g>>]
  OBVIOUS
<1>1. eventQueue' = Append(eventQueue, e) /\ generations' = generations
  BY EndArrives
<1>2. s \in Sids /\ s = lastSid /\ lastSid' = lastSid /\ pageSid' = pageSid
  BY ArrivesWhere DEF SendDone, client, page
<1>3. Known(<<s, g>>)'
  <2>1. g \in Nat /\ g <= generations[s]
    BY <1>2 DEF StreamInv
  <2>2. <<s, g>> \in Streams /\ s <= lastSid
    BY <1>2, <2>1 DEF Streams, SidInv
  <2> QED
    BY <1>1, <1>2, <2>1, <2>2 DEF Known
<1>4. ~IsToken(e) /\ IsText(e) /\ NumberOf(e) = lastSid /\ e.stream = <<s, g>> /\ e.kind # "connected"
  BY <1>2 DEF IsText, NumberOf, IsToken
<1>5. Sound(e)'
  <2>1. pageSid <= lastSid
    BY DEF QueueInv, SidInv
  <2>2. Known(e.stream)'
    BY <1>3, <1>4
  <2> QED
    BY <1>2, <1>4, <2>1, <2>2 DEF Sound
<1>6. generations' \in [Sids -> Nat] /\ \A c \in Sids : generations[c] <= generations'[c]
  BY <1>1 DEF StreamInv
<1> QED
  BY <1>1, <1>4, <1>5, <1>6, QueueInvArrives

LEMMA QueueInvTake ==
  ASSUME SidInv, StreamInv, QueueInv, FollowInv, TextInv, TakeItem
  PROVE  QueueInv' /\ pageSid' \in Nat /\ pageSid <= pageSid'
<1> PICK r, p, e : r = eventQueue' /\ p = pageSid' /\ e = eventQueue[1]
  OBVIOUS
<1>1. /\ IsQueue(r) /\ Len(eventQueue) \in Nat \ {0} /\ Len(r) = Len(eventQueue) - 1
      /\ \A i \in 1..Len(r) : r[i] = eventQueue[i + 1]
      /\ Take(e) /\ 1 \in 1..Len(eventQueue)
      /\ lastSid' = lastSid /\ generations' = generations
  BY TakeQueue DEF QueueInv, client, streams
<1>2. lastSid \in Nat /\ pageSid \in 0..lastSid
  BY DEF SidInv, QueueInv
<1>3. p = IF e.kind = "connected" THEN e.sid ELSE pageSid
  BY <1>1 DEF Take
<1>4. e.kind = "connected" => e.sid \in 1..lastSid /\ pageSid <= e.sid
  BY <1>1, <1>2 DEF QueueInv, HasSid, NumberOf, IsText
<1>5. p \in 0..lastSid /\ pageSid <= p
  BY <1>2, <1>3, <1>4
<1>6. ASSUME NEW i \in 1..Len(r), HasSid(r[i])  PROVE p <= NumberOf(r[i])
  <2>1. i + 1 \in 1..Len(eventQueue) /\ 1 < i + 1 /\ r[i] = eventQueue[i + 1]
    BY <1>1
  <2>2. CASE e.kind = "connected"
    <3>1. NumberOf(e) <= NumberOf(eventQueue[i + 1])
      BY <1>1, <1>6, <2>1, <2>2 DEF QueueInv, HasSid
    <3> QED
      BY <1>3, <2>1, <2>2, <3>1 DEF NumberOf, IsText
  <2>3. CASE e.kind # "connected"
    BY <1>3, <1>6, <2>1, <2>3 DEF QueueInv
  <2> QED
    BY <2>2, <2>3
<1>7. ASSUME NEW i \in 1..Len(r)  PROVE Sound(r[i])'
  <2>1. i + 1 \in 1..Len(eventQueue) /\ r[i] = eventQueue[i + 1]
    BY <1>1
  <2>2. Sound(r[i])
    BY <2>1, QueueSound
  <2> QED
    BY <1>1, <1>6, <2>2 DEF Sound, Known
<1>8. \A i, j \in 1..Len(r) :
        i < j /\ HasSid(r[i]) /\ HasSid(r[j]) => NumberOf(r[i]) <= NumberOf(r[j])
  <2> SUFFICES ASSUME NEW i \in 1..Len(r), NEW j \in 1..Len(r), i < j, HasSid(r[i]), HasSid(r[j])
               PROVE  NumberOf(r[i]) <= NumberOf(r[j])
    OBVIOUS
  <2>1. i + 1 \in 1..Len(eventQueue) /\ j + 1 \in 1..Len(eventQueue) /\ i + 1 < j + 1
        /\ r[i] = eventQueue[i + 1] /\ r[j] = eventQueue[j + 1]
    BY <1>1
  <2> QED
    BY <2>1 DEF QueueInv
<1>9. chat' \in ChatState /\ (chat'.stream = NoStream \/ Known(chat.stream)')
  <2>1. CASE IsToken(e)
    <3>1. /\ e.token \in Token /\ e.seq \in Nat \ {0} /\ Known(e.stream)
          /\ chat' = [stream |-> e.stream, text |-> Append(TakenOf(e.token), e.token),
                      last |-> e.seq, complete |-> FALSE]
          /\ Takes(e.token)
      BY <2>1, TakeToken
    <3>2. TakenOf(e.token) \in Seq(Token)
      BY <3>1, TakenAfter
    <3>3. Append(TakenOf(e.token), e.token) \in Seq(Token)
      BY <3>1, <3>2, AppendProperties
    <3>4. PICK c : c = chat'
      OBVIOUS
    <3>5. c \in ChatState /\ c.stream = e.stream
      BY <3>1, <3>3, <3>4 DEF ChatState, Known
    <3> QED
      BY <1>1, <3>1, <3>4, <3>5 DEF Known
  <2>2. CASE IsEnd(e)
    <3>1. /\ chat' = [stream |-> e.stream, text |-> chat.text, last |-> chat.last, complete |-> TRUE]
          /\ Known(e.stream)
      BY <2>2, TakeOther DEF IsEnd, IsToken
    <3>2. PICK c : c = chat'
      OBVIOUS
    <3>3. c \in ChatState /\ c.stream = e.stream
      BY <3>1, <3>2 DEF ChatState, Known, QueueInv
    <3> QED
      BY <1>1, <3>1, <3>2, <3>3 DEF Known
  <2>3. CASE ~IsToken(e) /\ ~IsEnd(e)
    <3>1. chat' = chat
      BY <2>3, TakeOther
    <3> QED
      BY <1>1, <3>1 DEF QueueInv, Known
  <2> QED
    BY <2>1, <2>2, <2>3
<1>10. QueueInv'
  BY <1>1, <1>5, <1>7, <1>8, <1>9, QueueInvFrom
<1> QED
  BY <1>2, <1>5, <1>10

LEMMA QueueInvStep ==
  ASSUME SidInv, StreamInv, OwedInv, QueueInv, FollowInv, TextInv, [Next]_vars
  PROVE  QueueInv'
<1>1. IsQueue(eventQueue)
  BY DEF QueueInv
<1> QED
  BY <1>1, StepsAre, QuietAside, QueueInvQuiet, QueueInvToken, QueueInvEnd, QueueInvTake

-----------------------------------------------------------------------------
(* What is owed.                                                           *)

\* What a step may do to the questions asked and handled without a level owed more.
LEMMA OwedFewer ==
  ASSUME OwedInv, UploadInv', pageSid \in Nat, pageSid' \in Nat, pageSid' >= pageSid,
         UNCHANGED <<asked, sidOf>>, handled \subseteq handled', handled' \subseteq asked',
         owed' \in Seq(Level), Len(owed') \in Nat, Len(owed) \in Nat,
         NEW k \in Nat, Len(owed') + k <= Len(owed),
         \A i \in 1..Len(owed') : SameLevel(owed'[i], owed[i + k])
  PROVE  OwedInv'
<1> PICK o : o = owed'
  OBVIOUS
<1>1. ASSUME NEW i \in 1..Len(o)  PROVE i + k \in 1..Len(owed) /\ o[i].question \in handled'
  <2>1. i + k \in 1..Len(owed) /\ SameLevel(o[i], owed[i + k])
    OBVIOUS
  <2> QED
    BY <2>1 DEF OwedInv, SameLevel
<1>2. ASSUME NEW i \in 1..Len(o), NEW j \in 1..Len(o), i # j  PROVE ~SameLevel(o[i], o[j])
  <2>1. i + k \in 1..Len(owed) /\ j + k \in 1..Len(owed) /\ i + k # j + k
    BY <1>1, <1>2
  <2>2. SameLevel(o[i], owed[i + k]) /\ SameLevel(o[j], owed[j + k])
    OBVIOUS
  <2>3. ~SameLevel(owed[i + k], owed[j + k])
    BY <2>1 DEF OwedInv
  <2> QED
    BY <2>2, <2>3 DEF SameLevel
<1>3. \A q \in asked' : sidOf'[q] \in 1..pageSid'
  <2> PICK p \in Nat : p = pageSid' /\ p >= pageSid
    OBVIOUS
  <2> QED
    BY DEF OwedInv
<1>4. handling' \cup published' \subseteq asked' /\ asked' \subseteq Question
  BY DEF UploadInv
<1>5. sidOf' \in [Question -> Nat]
  BY DEF OwedInv
<1> QED
  BY <1>1, <1>2, <1>3, <1>4, <1>5 DEF OwedInv, SameLevel

LEMMA OwedInvTeach ==
  ASSUME OwedInv, UploadInv', NEW q \in Question, Teach(q)
  PROVE  OwedInv'
<1> PICK o : o = owed'
  OBVIOUS
<1> DEFINE n == Len(owed)
<1>1. /\ o \in Seq(Level) /\ Len(o) \in Nat /\ Len(o) >= n /\ n \in Nat
      /\ \A i \in 1..n : o[i] = owed[i]
      /\ \A i \in (n + 1)..Len(o) : o[i] = [question |-> q, level |-> i - n, sent |-> 0]
  BY OwedAfterTeach, LenProperties DEF OwedInv
<1>2. /\ q \in published /\ q \notin handled /\ handled' = handled \cup {q}
      /\ UNCHANGED <<asked, sidOf, pageSid, handling, published>>
  BY DEF Teach, backendVars, uploads, page
<1> HIDE DEF n
<1>3. ASSUME NEW i \in (n + 1)..Len(o)  PROVE o[i].question = q /\ o[i].level = i - n
  <2>1. o[i] = [question |-> q, level |-> i - n, sent |-> 0]
    BY <1>1
  <2> QED
    BY <2>1
<1>4. ASSUME NEW i \in 1..Len(o)  PROVE o[i].question \in handled'
  <2>1. CASE i \in 1..n
    BY <1>1, <1>2, <2>1 DEF OwedInv, n
  <2>2. CASE i \in (n + 1)..Len(o)
    BY <1>2, <1>3, <2>2
  <2> QED
    BY <1>1, <2>1, <2>2
<1>5. ASSUME NEW i \in 1..Len(o), NEW j \in 1..Len(o), i < j  PROVE ~SameLevel(o[i], o[j])
  <2>1. CASE j \in 1..n
    BY <1>1, <1>5, <2>1 DEF OwedInv, n
  <2>2. CASE i \in 1..n /\ j \notin 1..n
    <3>1. o[i].question \in handled
      BY <1>1, <2>2 DEF OwedInv, n
    <3>2. j \in (n + 1)..Len(o)
      BY <1>1, <2>2
    <3>3. o[j].question = q
      BY <1>3, <3>2
    <3> QED
      BY <1>2, <3>1, <3>3 DEF SameLevel
  <2>3. CASE i \notin 1..n /\ j \notin 1..n
    <3>1. i \in (n + 1)..Len(o) /\ j \in (n + 1)..Len(o) /\ i - n # j - n
      BY <1>1, <1>5, <2>3
    <3>2. o[i].level = i - n /\ o[j].level = j - n
      BY <1>3, <3>1
    <3> QED
      BY <3>1, <3>2 DEF SameLevel
  <2> QED
    BY <1>1, <1>5, <2>1, <2>2, <2>3
<1>6. \A i, j \in 1..Len(o) : i # j => ~SameLevel(o[i], o[j])
  <2> SUFFICES ASSUME NEW i \in 1..Len(o), NEW j \in 1..Len(o), i # j
               PROVE  ~SameLevel(o[i], o[j])
    OBVIOUS
  <2>1. i < j \/ j < i
    BY <1>1
  <2> QED
    BY <1>5, <2>1 DEF SameLevel
<1>7. handled' \subseteq asked' /\ handling' \cup published' \subseteq asked' /\ asked' \subseteq Question
  BY <1>2 DEF OwedInv
<1> QED
  BY <1>1, <1>2, <1>4, <1>6, <1>7 DEF OwedInv, SameLevel

LEMMA OwedInvSubmit ==
  ASSUME OwedInv, UploadInv', pageSid \in Nat, NEW q \in Question, NEW n \in 0..MaxFiles, Submit(q, n)
  PROVE  OwedInv'
<1>1. /\ asked' = asked \cup {q} /\ q \notin asked /\ pageSid # 0
      /\ sidOf' = [sidOf EXCEPT ![q] = pageSid] /\ UNCHANGED <<owed, handled, pageSid>>
  BY DEF Submit
<1>2. handling' \cup published' \subseteq asked' /\ asked' \subseteq Question
  BY DEF UploadInv
<1>3. sidOf' \in [Question -> Nat] /\ \A c \in asked' : sidOf'[c] \in 1..pageSid'
  BY <1>1 DEF OwedInv
<1> QED
  BY <1>1, <1>2, <1>3 DEF OwedInv, SameLevel

LEMMA OwedInvStep ==
  ASSUME SidInv, StreamInv, OwedInv, QueueInv, FollowInv, TextInv, UploadInv, [Next]_vars
  PROVE  OwedInv'
<1>0. UploadInv' /\ pageSid \in Nat
  BY UploadInvStep DEF QueueInv, SidInv
<1>1. ASSUME UNCHANGED <<asked, sidOf, owed, handled, pageSid>>  PROVE OwedInv'
  BY <1>0, <1>1, OwedStays DEF UploadInv
<1>2. CASE BackendStep \/ Client \/ Open \/ Reply \/ UNCHANGED vars
  BY <1>1, <1>2 DEF BackendStep, Client, FirstAttemptFails, Connect, Disconnect, AttemptFails, Open,
                    Reply, vars, services, page
<1>3. CASE TakeItem
  <2>1. pageSid' \in Nat /\ pageSid <= pageSid'
    BY <1>3, QueueInvTake
  <2>2. UNCHANGED <<asked, owed, handled, sidOf>>
    BY <1>3 DEF TakeItem, services
  <2> QED
    BY <1>0, <2>1, <2>2, OwedStays DEF UploadInv
<1>4. ASSUME NEW q \in Question, Clarify(q) \/ Lose(q)  PROVE OwedInv'
  <2>1. /\ handled' = handled \cup {q} /\ q \in published
        /\ UNCHANGED <<asked, sidOf, owed, pageSid, published, handling>>
    BY <1>4 DEF Clarify, Lose, backendVars, uploads, page
  <2> QED
    BY <2>1 DEF OwedInv
<1>5. ASSUME NEW q \in Question, Teach(q)  PROVE OwedInv'
  BY <1>0, <1>5, OwedInvTeach
<1>6. ASSUME NEW q \in Question, NEW n \in 0..MaxFiles, Submit(q, n)  PROVE OwedInv'
  BY <1>0, <1>6, OwedInvSubmit
<1>7. CASE SendToken
  <2>1. UNCHANGED <<asked, sidOf, handled, pageSid>>
    BY <1>7 DEF SendToken, page
  <2>2. /\ owed' \in Seq(Level) /\ Len(owed') = Len(owed) /\ Len(owed) \in Nat
        /\ \A i \in 1..Len(owed) : SameLevel(owed'[i], owed[i])
    BY <1>7, OwedAfterToken
  <2> PICK k \in Nat : k = 0
    OBVIOUS
  <2>3. \A i \in 1..Len(owed') : SameLevel(owed'[i], owed[i + k])
    BY <2>2
  <2>4. handled \subseteq handled' /\ handled' \subseteq asked' /\ Len(owed') + k <= Len(owed)
        /\ Len(owed') \in Nat
    BY <2>1, <2>2 DEF OwedInv
  <2>5. /\ OwedInv /\ UploadInv' /\ UNCHANGED <<asked, sidOf>> /\ owed' \in Seq(Level) /\ Len(owed) \in Nat
        /\ pageSid \in Nat /\ pageSid' \in Nat /\ pageSid' >= pageSid
    BY <1>0, <2>1, <2>2
  <2> QED
    BY <2>3, <2>4, <2>5, OwedFewer
<1>8. CASE SendDone
  <2>1. UNCHANGED <<asked, sidOf, handled, pageSid>>
    BY <1>8 DEF SendDone, page
  <2>2. /\ owed' \in Seq(Level) /\ Len(owed') = Len(owed) - 1 /\ Len(owed) \in Nat \ {0}
        /\ \A i \in 1..Len(owed') : owed'[i] = owed[i + 1]
    BY <1>8, OwedAfterDone
  <2> PICK k \in Nat : k = 1
    OBVIOUS
  <2>3. \A i \in 1..Len(owed') : SameLevel(owed'[i], owed[i + k])
    BY <2>2 DEF SameLevel
  <2>4. handled \subseteq handled' /\ handled' \subseteq asked' /\ Len(owed') + k <= Len(owed)
        /\ Len(owed') \in Nat
    BY <2>1, <2>2 DEF OwedInv
  <2>5. /\ OwedInv /\ UploadInv' /\ UNCHANGED <<asked, sidOf>> /\ owed' \in Seq(Level) /\ Len(owed) \in Nat
        /\ pageSid \in Nat /\ pageSid' \in Nat /\ pageSid' >= pageSid
    BY <1>0, <2>1, <2>2
  <2> QED
    BY <2>3, <2>4, <2>5, OwedFewer
<1> QED
  BY <1>2, <1>3, <1>4, <1>5, <1>6, <1>7, <1>8 DEF Next, Answers, Page

-----------------------------------------------------------------------------
(* Tokens follow one another.                                              *)

\* Nothing has been said of a level.
Fresh(t) ==
  /\ TakenOf(t) = <<>>
  /\ \A k \in 1..Len(eventQueue) : IsToken(eventQueue[k]) => ~SameLevel(eventQueue[k].token, t)

\* Levels that are not begun.
FreshInv ==
  /\ \A q \in Question, l \in 1..MaxLevels : q \notin handled => Fresh([question |-> q, level |-> l])
  /\ \A i \in 2..Len(owed) : Fresh(owed[i])
  /\ owed # <<>> /\ activeStreams[sidOf[owed[1].question]] = 0 => Fresh(owed[1])

\* A stream that is open on a connection is that of the level under way.
RouteInv ==
  sid \in connections /\ activeStreams[sid] # 0 =>
    /\ SameId /\ consumer = "running" /\ owed # <<>> /\ sidOf[owed[1].question] = sid
    /\ Continues(owed[1], <<sid, activeStreams[sid]>>, sequences[sid] + 1, Len(eventQueue) + 1)

\* What is behind an event does not matter to it.
LEMMA FollowsGrown ==
  ASSUME NEW r, r = eventQueue', Len(eventQueue) \in Nat,
         \A k \in 1..Len(eventQueue) : r[k] = eventQueue[k],
         UNCHANGED <<chat, taken>>,
         NEW i \in 1..(Len(eventQueue) + 1), NEW t, NEW s, NEW n, Follows(t, s, n, i)
  PROVE  Follows(t, s, n, i)'
<1>1. \A k \in 1..(i - 1) : r[k] = eventQueue[k]
  OBVIOUS
<1>2. CASE n = 1 /\ Starts(t, s, i)
  BY <1>1, <1>2 DEF Follows, Starts, TakenOf, IsText, IsToken, SameLevel
<1>3. CASE n # 1 /\ Continues(t, s, n, i)
  BY <1>1, <1>3 DEF Follows, Continues, TakenOf, IsText, IsToken, SameLevel
<1> QED
  BY <1>2, <1>3 DEF Follows

\* Only the question and the level of a token matter.
LEMMA ContinuesLevel ==
  ASSUME NEW t, NEW u, SameLevel(t, u), NEW s, NEW n, NEW i, Continues(u, s, n, i)
  PROVE  Continues(t, s, n, i)
BY DEF SameLevel, Continues, TakenOf

\* Nor do other events between.
LEMMA ContinuesGrown ==
  ASSUME NEW r, r = eventQueue', Len(eventQueue) \in Nat, Len(r) \in Nat, Len(r) >= Len(eventQueue),
         \A k \in 1..Len(eventQueue) : r[k] = eventQueue[k],
         \A k \in (Len(eventQueue) + 1)..Len(r) : ~IsText(r[k]),
         UNCHANGED <<chat, taken>>,
         NEW t, NEW s, NEW n, Continues(t, s, n, Len(eventQueue) + 1)
  PROVE  Continues(t, s, n, Len(eventQueue) + 1)'
<1> DEFINE m == Len(eventQueue)
           R == Len(r)
<1>0. m \in Nat /\ R \in Nat /\ R >= m
  OBVIOUS
<1> HIDE DEF m, R
<1>1. CASE \E j \in 1..m :
             /\ IsToken(eventQueue[j]) /\ eventQueue[j].stream = s /\ eventQueue[j].seq = n - 1
             /\ SameLevel(eventQueue[j].token, t)
             /\ \A k \in (j + 1)..m : ~IsText(eventQueue[k])
  <2>1. PICK j \in 1..m :
             /\ IsToken(eventQueue[j]) /\ eventQueue[j].stream = s /\ eventQueue[j].seq = n - 1
             /\ SameLevel(eventQueue[j].token, t)
             /\ \A k \in (j + 1)..m : ~IsText(eventQueue[k])
    BY <1>1
  <2>2. r[j] = eventQueue[j] /\ j \in 1..R
    BY <1>0 DEF m
  <2>3. ASSUME NEW k \in (j + 1)..R  PROVE ~IsText(r[k])
    <3>1. k \in (j + 1)..m \/ k \in (m + 1)..R
      BY <1>0
    <3>2. CASE k \in (j + 1)..m
      <4>1. r[k] = eventQueue[k]
        BY <1>0, <3>2 DEF m
      <4> QED
        BY <2>1, <3>2, <4>1
    <3> QED
      BY <3>1, <3>2 DEF m, R
  <2>4. \E i \in 1..R :
             /\ IsToken(r[i]) /\ r[i].stream = s /\ r[i].seq = n - 1
             /\ SameLevel(r[i].token, t)
             /\ \A k \in (i + 1)..R : ~IsText(r[k])
    BY <2>1, <2>2, <2>3
  <2>5. (R + 1) - 1 = R
    BY <1>0
  <2> QED
    BY <2>4, <2>5 DEF Continues, R, IsText, IsToken, SameLevel
<1>2. CASE /\ \A k \in 1..m : ~IsText(eventQueue[k])
           /\ chat.stream = s /\ chat.last = n - 1 /\ ~chat.complete
           /\ chat.text = TakenOf(t) /\ chat.text # <<>>
  <2>1. ASSUME NEW k \in 1..R  PROVE ~IsText(r[k])
    <3>1. k \in 1..m \/ k \in (m + 1)..R
      BY <1>0
    <3>2. CASE k \in 1..m
      BY <1>2, <3>2 DEF m
    <3> QED
      BY <3>1, <3>2 DEF m, R
  <2>2. (R + 1) - 1 = R
    BY <1>0
  <2> QED
    BY <1>2, <2>1, <2>2 DEF Continues, R, IsText, TakenOf
<1>3. (m + 1) - 1 = m
  BY <1>0
<1> QED
  BY <1>1, <1>2, <1>3 DEF Continues, m

LEMMA TakenType ==
  ASSUME TextInv, NEW t, t.question \in Question, t.level \in 1..MaxLevels
  PROVE  TakenOf(t) \in Seq(Token)
<1>1. taken \in [Question -> [1..MaxLevels -> Seq(Token)]]
  BY DEF TextInv
<1>2. taken[t.question] \in [1..MaxLevels -> Seq(Token)]
  BY <1>1
<1> QED
  BY <1>2 DEF TakenOf

\* What a step of taking does to the text of a level.
LEMMA TakeTaken ==
  ASSUME QueueInv, FollowInv, TextInv, TakeItem, NEW e, e = eventQueue[1],
         NEW t, t.question \in Question, t.level \in 1..MaxLevels
  PROVE  /\ IsToken(e) /\ SameLevel(e.token, t) => TakenOf(t)' = Append(TakenOf(t), e.token)
         /\ ~(IsToken(e) /\ SameLevel(e.token, t)) => TakenOf(t)' = TakenOf(t)
<1>1. CASE IsToken(e)
  <2>1. e.token \in Token /\ Takes(e.token)
    BY <1>1, TakeToken
  <2> PICK u : u = e.token
    OBVIOUS
  <2>2. TakenOf(u)' = Append(TakenOf(u), u)
    BY <2>1, TakenAfter
  <2>3. \A q \in Question, l \in 1..MaxLevels :
          q # u.question \/ l # u.level => taken'[q][l] = taken[q][l]
    BY <2>1, TakenAfter
  <2>4. CASE SameLevel(u, t)
    BY <1>1, <2>2, <2>4 DEF TakenOf, SameLevel
  <2>5. CASE ~SameLevel(u, t)
    BY <1>1, <2>3, <2>5 DEF TakenOf, SameLevel
  <2> QED
    BY <2>4, <2>5
<1>2. CASE ~IsToken(e)
  BY <1>2, TakeOther DEF TakenOf
<1> QED
  BY <1>1, <1>2

\* An event that is behind the first one is behind what was taken then.
LEMMA ContinuesShifts ==
  ASSUME QueueInv, FollowInv, TextInv, TakeItem, NEW i \in 1..Len(eventQueue),
         NEW t, t.question \in Question, t.level \in 1..MaxLevels, NEW s, NEW n,
         Continues(t, s, n, i + 1)
  PROVE  Continues(t, s, n, i)'
<1> PICK r, e : r = eventQueue' /\ e = eventQueue[1]
  OBVIOUS
<1>1. /\ Len(eventQueue) \in Nat \ {0} /\ Len(r) = Len(eventQueue) - 1 /\ i \in Nat \ {0}
      /\ \A k \in 1..Len(r) : r[k] = eventQueue[k + 1]
  BY TakeQueue DEF QueueInv
<1>2. \A k \in 1..(i - 1) : r[k] = eventQueue[k + 1] /\ k + 1 \in 1..i
  BY <1>1
<1>3. CASE \E j \in 1..i :
             /\ IsToken(eventQueue[j]) /\ eventQueue[j].stream = s /\ eventQueue[j].seq = n - 1
             /\ SameLevel(eventQueue[j].token, t)
             /\ \A k \in (j + 1)..i : ~IsText(eventQueue[k])
  <2>1. PICK j \in 1..i :
             /\ IsToken(eventQueue[j]) /\ eventQueue[j].stream = s /\ eventQueue[j].seq = n - 1
             /\ SameLevel(eventQueue[j].token, t)
             /\ \A k \in (j + 1)..i : ~IsText(eventQueue[k])
    BY <1>3
  <2>2. CASE j = 1
    <3>1. /\ IsToken(e) /\ e.stream = s /\ e.seq = n - 1 /\ SameLevel(e.token, t)
      BY <2>1, <2>2
    <3>2. /\ chat' = [stream |-> e.stream, text |-> Append(TakenOf(e.token), e.token),
                      last |-> e.seq, complete |-> FALSE]
          /\ e.token \in Token
      BY <3>1, TakeToken
    <3>3. TakenOf(t)' = Append(TakenOf(t), e.token) /\ TakenOf(t) = TakenOf(e.token)
      BY <3>1, TakeTaken DEF SameLevel, TakenOf
    <3>4. TakenOf(e.token) \in Seq(Token)
      BY <3>2, TokenLevel, TakenType
    <3>5. Append(TakenOf(e.token), e.token) # <<>>
      BY <3>2, <3>4, AppendProperties, EmptySeq
    <3>6. /\ chat'.stream = s /\ chat'.last = n - 1 /\ ~chat'.complete
          /\ chat'.text = TakenOf(t)' /\ chat'.text # <<>>
      BY <3>1, <3>2, <3>3, <3>5
    <3>7. \A k \in 1..(i - 1) : ~IsText(r[k])
      BY <1>1, <1>2, <2>1, <2>2
    <3> QED
      BY <3>6, <3>7 DEF Continues, IsText
  <2>3. CASE j # 1
    <3>1. j - 1 \in 1..(i - 1) /\ r[j - 1] = eventQueue[j]
      BY <1>1, <1>2, <2>1, <2>3
    <3>2. ASSUME NEW k \in ((j - 1) + 1)..(i - 1)  PROVE ~IsText(r[k])
      <4>1. k \in 1..(i - 1) /\ k + 1 \in (j + 1)..i
        BY <1>1, <2>1
      <4> QED
        BY <1>2, <2>1, <4>1
    <3>3. /\ IsToken(r[j - 1]) /\ r[j - 1].stream = s /\ r[j - 1].seq = n - 1
          /\ SameLevel(r[j - 1].token, t)
      BY <2>1, <3>1
    <3>4. \E m \in 1..(i - 1) :
             /\ IsToken(r[m]) /\ r[m].stream = s /\ r[m].seq = n - 1
             /\ SameLevel(r[m].token, t)
             /\ \A k \in (m + 1)..(i - 1) : ~IsText(r[k])
      BY <3>1, <3>2, <3>3
    <3> QED
      BY <3>4 DEF Continues, IsText, IsToken, SameLevel
  <2> QED
    BY <2>2, <2>3
<1>4. CASE /\ \A k \in 1..i : ~IsText(eventQueue[k])
           /\ chat.stream = s /\ chat.last = n - 1 /\ ~chat.complete
           /\ chat.text = TakenOf(t) /\ chat.text # <<>>
  <2>1. ~IsText(e)
    BY <1>1, <1>4
  <2>2. ~IsToken(e) /\ ~IsEnd(e)
    BY <2>1 DEF IsText, IsToken, IsEnd
  <2>3. chat' = chat /\ TakenOf(t)' = TakenOf(t)
    BY <2>2, TakeOther DEF TakenOf
  <2>4. \A k \in 1..(i - 1) : ~IsText(r[k])
    BY <1>2, <1>4
  <2> QED
    BY <1>4, <2>3, <2>4 DEF Continues, IsText
<1>5. (i + 1) - 1 = i
  BY <1>1
<1> QED
  BY <1>3, <1>4, <1>5 DEF Continues

LEMMA StartsShifts ==
  ASSUME QueueInv, FollowInv, TextInv, TakeItem, NEW i \in 1..Len(eventQueue),
         NEW t, t.question \in Question, t.level \in 1..MaxLevels, NEW s,
         Starts(t, s, i + 1)
  PROVE  Starts(t, s, i)'
<1> PICK r, e : r = eventQueue' /\ e = eventQueue[1]
  OBVIOUS
<1>1. /\ Len(eventQueue) \in Nat \ {0} /\ Len(r) = Len(eventQueue) - 1 /\ i \in Nat \ {0}
      /\ \A k \in 1..Len(r) : r[k] = eventQueue[k + 1]
  BY TakeQueue DEF QueueInv
<1>2. \A k \in 1..(i - 1) : r[k] = eventQueue[k + 1] /\ k + 1 \in 1..i
  BY <1>1
<1>3. (i + 1) - 1 = i
  BY <1>1
<1>4. /\ TakenOf(t) = <<>> /\ chat.stream # s
      /\ \A k \in 1..i : /\ IsText(eventQueue[k]) => eventQueue[k].stream # s
                         /\ IsToken(eventQueue[k]) => ~SameLevel(eventQueue[k].token, t)
  BY <1>3 DEF Starts
<1>5. /\ IsText(e) => e.stream # s
      /\ IsToken(e) => ~SameLevel(e.token, t)
  BY <1>1, <1>4
<1>6. TakenOf(t)' = <<>>
  BY <1>4, <1>5, TakeTaken
<1>7. chat'.stream # s
  <2>1. CASE IsToken(e)
    <3>1. chat' = [stream |-> e.stream, text |-> Append(TakenOf(e.token), e.token),
                   last |-> e.seq, complete |-> FALSE]
      BY <2>1, TakeToken
    <3>2. e.stream # s
      BY <1>5, <2>1 DEF IsText, IsToken
    <3> QED
      BY <3>1, <3>2
  <2>2. CASE ~IsToken(e)
    BY <1>4, <1>5, <2>2, TakeOther DEF IsText, IsToken, IsEnd
  <2> QED
    BY <2>1, <2>2
<1>8. \A k \in 1..(i - 1) : /\ IsText(r[k]) => r[k].stream # s
                            /\ IsToken(r[k]) => ~SameLevel(r[k].token, t)
  BY <1>2, <1>4
<1> QED
  BY <1>6, <1>7, <1>8 DEF Starts, IsText, IsToken, SameLevel

LEMMA FollowInvTake ==
  ASSUME QueueInv, FollowInv, TextInv, TakeItem
  PROVE  FollowInv'
<1> PICK r : r = eventQueue'
  OBVIOUS
<1>1. /\ Len(eventQueue) \in Nat \ {0} /\ Len(r) = Len(eventQueue) - 1
      /\ \A k \in 1..Len(r) : r[k] = eventQueue[k + 1]
  BY TakeQueue DEF QueueInv
<1>2. ASSUME NEW i \in 1..Len(r), IsToken(r[i])
      PROVE  Follows(r[i].token, r[i].stream, r[i].seq, i)'
  <2> PICK t, s, n : t = r[i].token /\ s = r[i].stream /\ n = r[i].seq
    OBVIOUS
  <2>1. i + 1 \in 1..Len(eventQueue) /\ i \in 1..Len(eventQueue) /\ r[i] = eventQueue[i + 1]
    BY <1>1
  <2>2. Follows(t, s, n, i + 1) /\ t \in Token
    BY <1>2, <2>1 DEF FollowInv, QueueInv
  <2>3. t.question \in Question /\ t.level \in 1..MaxLevels
    BY <2>2, TokenLevel
  <2>4. CASE n = 1 /\ Starts(t, s, i + 1)
    <3>1. Starts(t, s, i)'
      BY <2>1, <2>3, <2>4, StartsShifts
    <3> QED
      BY <2>4, <3>1 DEF Follows
  <2>5. CASE n # 1 /\ Continues(t, s, n, i + 1)
    <3>1. Continues(t, s, n, i)'
      BY <2>1, <2>3, <2>5, ContinuesShifts
    <3> QED
      BY <2>5, <3>1 DEF Follows
  <2> QED
    BY <2>2, <2>4, <2>5 DEF Follows
<1> QED
  BY <1>2 DEF FollowInv, IsToken

\* Behind the last event.
LEMMA FollowsLast ==
  ASSUME Len(eventQueue) \in Nat, FollowInv, IsQueue(eventQueue), NEW e, eventQueue' = Append(eventQueue, e),
         UNCHANGED <<chat, taken>>,
         IsToken(e) => Follows(e.token, e.stream, e.seq, Len(eventQueue) + 1)
  PROVE  FollowInv'
<1> PICK r : r = eventQueue'
  OBVIOUS
<1>1. /\ Len(r) = Len(eventQueue) + 1
      /\ \A k \in 1..Len(eventQueue) : r[k] = eventQueue[k]
      /\ r[Len(eventQueue) + 1] = e
  BY AppendQueue
<1>2. ASSUME NEW i \in 1..Len(r), IsToken(r[i])
      PROVE  Follows(r[i].token, r[i].stream, r[i].seq, i)'
  <2> PICK t, s, n : t = r[i].token /\ s = r[i].stream /\ n = r[i].seq
    OBVIOUS
  <2>1. i \in 1..(Len(eventQueue) + 1)
    BY <1>1
  <2>2. Follows(t, s, n, i)
    BY <1>1, <1>2, <2>1 DEF FollowInv
  <2>3. Follows(t, s, n, i)'
    BY <1>1, <2>1, <2>2, FollowsGrown
  <2> QED
    BY <2>3
<1> QED
  BY <1>2 DEF FollowInv, IsToken

LEMMA TextInvTake ==
  ASSUME QueueInv, FollowInv, TextInv, TakeItem
  PROVE  TextInv'
<1> PICK e : e = eventQueue[1]
  OBVIOUS
<1>1. CASE IsToken(e)
  <2> PICK t : t = e.token
    OBVIOUS
  <2>1. /\ t \in Token
        /\ chat' = [stream |-> e.stream, text |-> Append(TakenOf(t), t),
                    last |-> e.seq, complete |-> FALSE]
        /\ Takes(t)
    BY <1>1, TakeToken
  <2>2. t.question \in Question /\ t.level \in 1..MaxLevels
    BY <2>1, TokenLevel
  <2>3. /\ TakenOf(t)' = Append(TakenOf(t), t) /\ TakenOf(t) \in Seq(Token)
        /\ \A q \in Question, l \in 1..MaxLevels :
             q # t.question \/ l # t.level => taken'[q][l] = taken[q][l]
        /\ taken' \in [Question -> [1..MaxLevels -> Seq(Token)]]
    BY <2>1, TakenAfter
  <2>4. PICK x : x = taken'[t.question][t.level]
    OBVIOUS
  <2> PICK h : h = TakenOf(t)
    OBVIOUS
  <2>5. /\ h \in Seq(Token) /\ Len(Append(h, t)) = Len(h) + 1 /\ Len(h) \in Nat
        /\ \A j \in 1..Len(h) : Append(h, t)[j] = h[j]
        /\ Append(h, t)[Len(h) + 1] = t
    BY <2>1, <2>3, AppendProperties, LenProperties
  <2>6. x = Append(h, t) /\ x # <<>> /\ x = chat'.text
    <3>1. x = TakenOf(t)'
      BY <2>4 DEF TakenOf
    <3>2. x = Append(h, t) /\ x = chat'.text
      BY <2>1, <2>3, <3>1
    <3>3. Append(h, t) # <<>>
      BY <2>1, <2>5, AppendProperties, EmptySeq
    <3> QED
      BY <3>2, <3>3
  <2>7. \A k \in 1..Len(x) : x[k].question = t.question /\ x[k].level = t.level
    <3>1. /\ Len(x) = Len(h) + 1 /\ Len(h) \in Nat /\ x[Len(h) + 1] = t
          /\ \A j \in 1..Len(h) : x[j] = h[j]
      BY <2>6, <2>5
    <3>2. \A j \in 1..Len(h) : h[j].question = t.question /\ h[j].level = t.level
      <4>1. PICK q \in Question, l \in 1..MaxLevels : q = t.question /\ l = t.level
        BY <2>2
      <4>2. \A j \in 1..Len(taken[q][l]) : taken[q][l][j].question = q /\ taken[q][l][j].level = l
        BY DEF TextInv
      <4>3. h = taken[q][l]
        BY <4>1 DEF TakenOf
      <4> QED
        BY <4>1, <4>2, <4>3
    <3>3. ASSUME NEW k \in 1..Len(x)  PROVE k \in 1..Len(h) \/ k = Len(h) + 1
      BY <3>1
    <3>4. ASSUME NEW k \in 1..Len(x)  PROVE x[k].question = t.question /\ x[k].level = t.level
      <4>1. CASE k \in 1..Len(h)
        BY <3>1, <3>2, <4>1
      <4>2. CASE k = Len(h) + 1
        BY <3>1, <4>2
      <4> QED
        BY <3>3, <4>1, <4>2
    <3> QED
      BY <3>4
  <2>8. ASSUME NEW q \in Question, NEW l \in 1..MaxLevels
        PROVE  \A k \in 1..Len(taken'[q][l]) : taken'[q][l][k].question = q /\ taken'[q][l][k].level = l
    <3>1. CASE q = t.question /\ l = t.level
      BY <2>4, <2>7, <3>1
    <3>2. CASE q # t.question \/ l # t.level
      <4>1. taken'[q][l] = taken[q][l]
        BY <2>3, <3>2
      <4> QED
        BY <4>1 DEF TextInv
    <3> QED
      BY <3>1, <3>2
  <2>9. chat'.text # <<>> /\ \E q \in Question, l \in 1..MaxLevels : chat'.text = taken'[q][l]
    BY <2>2, <2>4, <2>6
  <2> QED
    BY <2>3, <2>8, <2>9 DEF TextInv
<1>2. CASE ~IsToken(e)
  <2>1. taken' = taken
    BY <1>2, TakeOther
  <2>2. chat'.text = chat.text
    <3>1. CASE IsEnd(e)
      <4>1. chat' = [stream |-> e.stream, text |-> chat.text, last |-> chat.last, complete |-> TRUE]
        BY <3>1, TakeOther DEF IsEnd, IsToken
      <4> QED
        BY <4>1
    <3>2. CASE ~IsEnd(e)
      BY <1>2, <3>2, TakeOther
    <3> QED
      BY <3>1, <3>2
  <2> QED
    BY <2>1, <2>2 DEF TextInv
<1> QED
  BY <1>1, <1>2

LEMMA TextInvStep ==
  ASSUME QueueInv, FollowInv, TextInv, [Next]_vars
  PROVE  TextInv'
<1>1. CASE TakeItem
  BY <1>1, TextInvTake
<1>2. CASE Aside
  BY <1>2, QuietAside DEF Quiet, QueueInv, TextInv
<1>3. CASE SendToken \/ SendDone
  BY <1>3 DEF SendToken, SendDone, page, TextInv
<1> QED
  BY <1>1, <1>2, <1>3, StepsAre

\* A level stays fresh until a token of it arrives.
LEMMA FreshTake ==
  ASSUME QueueInv, FollowInv, TextInv, TakeItem,
         NEW t, t.question \in Question, t.level \in 1..MaxLevels, Fresh(t)
  PROVE  Fresh(t)'
<1> PICK r, e : r = eventQueue' /\ e = eventQueue[1]
  OBVIOUS
<1>1. /\ Len(eventQueue) \in Nat \ {0} /\ Len(r) = Len(eventQueue) - 1
      /\ \A k \in 1..Len(r) : r[k] = eventQueue[k + 1]
  BY TakeQueue DEF QueueInv
<1>2. ~(IsToken(e) /\ SameLevel(e.token, t))
  BY <1>1 DEF Fresh
<1>3. TakenOf(t)' = <<>>
  BY <1>2, TakeTaken DEF Fresh
<1>4. \A k \in 1..Len(r) : IsToken(r[k]) => ~SameLevel(r[k].token, t)
  <2> TAKE k \in 1..Len(r)
  <2>1. k + 1 \in 1..Len(eventQueue) /\ r[k] = eventQueue[k + 1]
    BY <1>1
  <2> QED
    BY <2>1 DEF Fresh
<1> QED
  BY <1>3, <1>4 DEF Fresh, IsToken, SameLevel

LEMMA FreshGrown ==
  ASSUME NEW r, r = eventQueue', Len(eventQueue) \in Nat, Len(r) \in Nat, Len(r) >= Len(eventQueue),
         \A k \in 1..Len(eventQueue) : r[k] = eventQueue[k],
         NEW t, \A k \in (Len(eventQueue) + 1)..Len(r) : IsToken(r[k]) => ~SameLevel(r[k].token, t),
         taken' = taken, Fresh(t)
  PROVE  Fresh(t)'
<1>1. \A k \in 1..Len(r) : IsToken(r[k]) => ~SameLevel(r[k].token, t)
  <2> TAKE k \in 1..Len(r)
  <2>1. k \in 1..Len(eventQueue) \/ k \in (Len(eventQueue) + 1)..Len(r)
    OBVIOUS
  <2> QED
    BY <2>1 DEF Fresh
<1> QED
  BY <1>1 DEF Fresh, TakenOf, IsToken, SameLevel

\* No step but the arrival of a token spends a level.
LEMMA FreshStays ==
  ASSUME SidInv, StreamInv, OwedInv, QueueInv, FollowInv, TextInv, [Next]_vars,
         NEW t, t.question \in Question, t.level \in 1..MaxLevels, Fresh(t),
         SendToken /\ Arrives => ~SameLevel(t, owed[1])
  PROVE  Fresh(t)'
<1>1. CASE TakeItem
  BY <1>1, FreshTake
<1> PICK r : r = eventQueue'
  OBVIOUS
<1>2. CASE Aside
  <2>1. Quiet
    BY <1>2, QuietAside DEF QueueInv
  <2>2. /\ Len(eventQueue) \in Nat /\ Len(r) \in Nat /\ Len(r) >= Len(eventQueue)
        /\ \A k \in 1..Len(eventQueue) : r[k] = eventQueue[k]
        /\ \A k \in (Len(eventQueue) + 1)..Len(r) : ~IsToken(r[k])
        /\ taken' = taken
    BY <2>1, QueueLen DEF Quiet, Grown, QueueInv, IsToken
  <2> QED
    BY <2>2, FreshGrown
<1>3. ASSUME NEW e, eventQueue' = Append(eventQueue, e), taken' = taken,
             IsToken(e) => ~SameLevel(e.token, t)
      PROVE  Fresh(t)'
  <2>1. /\ IsQueue(r) /\ Len(eventQueue) \in Nat /\ Len(r) = Len(eventQueue) + 1
        /\ \A k \in 1..Len(eventQueue) : r[k] = eventQueue[k]
        /\ r[Len(eventQueue) + 1] = e
    BY <1>3, AppendQueue DEF QueueInv
  <2>2. \A k \in (Len(eventQueue) + 1)..Len(r) : IsToken(r[k]) => ~SameLevel(r[k].token, t)
    BY <1>3, <2>1
  <2>3. Len(r) \in Nat /\ Len(r) >= Len(eventQueue)
    BY <2>1
  <2> QED
    BY <1>3, <2>1, <2>2, <2>3, FreshGrown
<1>4. CASE SendToken /\ Arrives
  <2>1. PICK gen \in Nat \ {0}, seq \in Nat \ {0}, token \in Token :
          /\ eventQueue' = Append(eventQueue, [kind |-> "token", stream |-> <<sid, gen>>,
                                               seq |-> seq, token |-> token])
          /\ SameLevel(token, owed[1])
    BY <1>4, TokenArrives
  <2>2. PICK e : e = [kind |-> "token", stream |-> <<sid, gen>>, seq |-> seq, token |-> token]
    OBVIOUS
  <2>3. ~SameLevel(e.token, t)
    BY <1>4, <2>1, <2>2 DEF SameLevel
  <2>4. taken' = taken
    BY <1>4 DEF SendToken
  <2> QED
    BY <1>3, <2>1, <2>2, <2>3, <2>4
<1>5. CASE SendDone /\ Arrives
  <2>1. PICK e : e = [kind |-> "complete", stream |-> <<sid, activeStreams[sid]>>]
    OBVIOUS
  <2>2. ~IsToken(e)
    BY <2>1 DEF IsToken
  <2>3. eventQueue' = Append(eventQueue, e) /\ taken' = taken
    BY <1>5, <2>1, EndArrives DEF SendDone
  <2> QED
    BY <1>3, <2>2, <2>3
<1> QED
  BY <1>1, <1>2, <1>4, <1>5, StepsAre

-----------------------------------------------------------------------------
(* Levels that are not begun, and the one under way.                       *)

LEMMA OwedLevel ==
  ASSUME OwedInv, NEW i \in 1..Len(owed)
  PROVE  owed[i].question \in Question /\ owed[i].level \in 1..MaxLevels
<1>1. owed[i] \in Level
  BY DEF OwedInv
<1> QED
  BY <1>1 DEF Level

\* The questions that are handled stay so, and keep their sid.
LEMMA ServicesStay ==
  ASSUME OwedInv, [Next]_vars
  PROVE  /\ handled \subseteq handled' /\ \A q \in asked : sidOf'[q] = sidOf[q]
         /\ SendToken \/ SendDone \/ (\E q \in Question : Teach(q)) \/ owed' = owed
<1>1. CASE BackendStep \/ Client \/ Open \/ Reply \/ TakeItem \/ UNCHANGED vars
  BY <1>1 DEF BackendStep, Client, FirstAttemptFails, Connect, Disconnect, AttemptFails, Open,
              Reply, TakeItem, vars, services
<1>2. ASSUME NEW q \in Question, Teach(q) \/ Clarify(q) \/ Lose(q)
      PROVE  /\ handled \subseteq handled' /\ sidOf' = sidOf
             /\ Teach(q) \/ owed' = owed
  BY <1>2 DEF Teach, Clarify, Lose
<1>3. ASSUME NEW q \in Question, NEW n \in 0..MaxFiles, Submit(q, n)
      PROVE  handled' = handled /\ owed' = owed /\ \A c \in asked : sidOf'[c] = sidOf[c]
  <2>1. handled' = handled /\ owed' = owed /\ q \notin asked /\ sidOf' = [sidOf EXCEPT ![q] = pageSid]
    BY <1>3 DEF Submit
  <2> QED
    BY <2>1 DEF OwedInv
<1>4. CASE SendToken \/ SendDone
  BY <1>4 DEF SendToken, SendDone
<1> QED
  BY <1>1, <1>2, <1>3, <1>4 DEF Next, Answers, Page

LEMMA FreshSame ==
  ASSUME NEW t, NEW u, SameLevel(t, u), Fresh(u)
  PROVE  Fresh(t)
BY DEF SameLevel, Fresh, TakenOf

\* Levels other than the one under way stay fresh.
LEMMA FreshBehind ==
  ASSUME SidInv, StreamInv, OwedInv, QueueInv, FollowInv, TextInv, FreshInv, [Next]_vars,
         NEW i \in 2..Len(owed), NEW t, SameLevel(t, owed[i])
  PROVE  Fresh(t)'
<1>1. Len(owed) \in Nat
  BY LenProperties DEF OwedInv
<1>2. i \in 1..Len(owed) /\ 1 \in 1..Len(owed) /\ i # 1
  BY <1>1
<1>3. ~SameLevel(owed[i], owed[1]) /\ Fresh(owed[i])
  BY <1>2 DEF OwedInv, FreshInv
<1>4. t.question \in Question /\ t.level \in 1..MaxLevels /\ Fresh(t)
  BY <1>2, <1>3, OwedLevel, FreshSame DEF SameLevel
<1>5. ~SameLevel(t, owed[1])
  BY <1>3 DEF SameLevel
<1> QED
  BY <1>4, <1>5, FreshStays

\* So do those of questions that are not handled.
LEMMA FreshAhead ==
  ASSUME SidInv, StreamInv, OwedInv, QueueInv, FollowInv, TextInv, FreshInv, [Next]_vars,
         NEW t, t.question \in Question, t.level \in 1..MaxLevels, t.question \notin handled
  PROVE  Fresh(t)'
<1>1. Fresh(t)
  <2>1. PICK u : u = [question |-> t.question, level |-> t.level]
    OBVIOUS
  <2>2. Fresh(u) /\ SameLevel(t, u)
    BY <2>1 DEF FreshInv, SameLevel
  <2> QED
    BY <2>2, FreshSame
<1>2. SendToken /\ Arrives => ~SameLevel(t, owed[1])
  <2> SUFFICES ASSUME SendToken, Arrives  PROVE ~SameLevel(t, owed[1])
    OBVIOUS
  <2>1. 1 \in 1..Len(owed)
    BY OwedAfterToken
  <2> QED
    BY <2>1 DEF OwedInv, SameLevel
<1> QED
  BY <1>1, <1>2, FreshStays

\* And the one under way as long as its stream is not open.
LEMMA FreshFirst ==
  ASSUME SidInv, StreamInv, OwedInv, QueueInv, FollowInv, TextInv, FreshInv, [Next]_vars,
         owed # <<>>, activeStreams[sidOf[owed[1].question]] = 0, ~(SendToken /\ Arrives),
         NEW t, SameLevel(t, owed[1])
  PROVE  Fresh(t)'
<1>1. 1 \in 1..Len(owed)
  BY EmptySeq, LenProperties DEF OwedInv
<1>2. Fresh(t) /\ t.question \in Question /\ t.level \in 1..MaxLevels
  BY <1>1, OwedLevel, FreshSame DEF FreshInv, SameLevel
<1> QED
  BY <1>2, FreshStays

\* The streams change with what arrives only.
LEMMA StreamsStay ==
  ASSUME QueueInv, [Next]_vars, ~(SendToken /\ Arrives), ~(SendDone /\ Arrives)
  PROVE  UNCHANGED streams
<1>1. CASE Aside
  BY <1>1, QuietAside DEF Quiet, QueueInv
<1>2. CASE TakeItem
  BY <1>2 DEF TakeItem
<1> QED
  BY <1>1, <1>2, StepsAre

LEMMA FreshInvStep ==
  ASSUME SidInv, StreamInv, OwedInv, QueueInv, FollowInv, TextInv, FreshInv, [Next]_vars
  PROVE  FreshInv'
<1> PICK o : o = owed'
  OBVIOUS
<1>1. Len(owed) \in Nat /\ (owed # <<>> => 1 \in 1..Len(owed))
  BY LenProperties, EmptySeq DEF OwedInv
<1>2. ASSUME NEW q \in Question, NEW l \in 1..MaxLevels, q \notin handled'
      PROVE  Fresh([question |-> q, level |-> l])'
  <2>1. PICK t : t = [question |-> q, level |-> l]
    OBVIOUS
  <2>2. t.question \in Question /\ t.level \in 1..MaxLevels /\ t.question \notin handled
    BY <1>2, <2>1, ServicesStay
  <2>3. Fresh(t)'
    BY <2>2, FreshAhead
  <2> QED
    BY <2>1, <2>3
<1>3. ASSUME owed # <<>>
      PROVE  /\ owed[1].question \in asked /\ sidOf'[owed[1].question] = sidOf[owed[1].question]
  <2>1. owed[1].question \in asked
    BY <1>1, <1>3 DEF OwedInv
  <2> QED
    BY <2>1, ServicesStay
<1>4. /\ \A i \in 2..Len(o) : Fresh(o[i])'
      /\ o # <<>> /\ activeStreams'[sidOf'[o[1].question]] = 0 => Fresh(o[1])'
  <2>1. CASE o = owed /\ ~SendToken /\ ~SendDone
    <3>1. \A i \in 2..Len(o) : Fresh(o[i])'
      BY <2>1, FreshBehind DEF SameLevel
    <3>2. ASSUME o # <<>>, activeStreams'[sidOf'[o[1].question]] = 0  PROVE Fresh(o[1])'
      <4>1. activeStreams[sidOf[owed[1].question]] = 0
        BY <1>3, <2>1, <3>2, StreamsStay DEF streams
      <4> PICK t : t = o[1]
        OBVIOUS
      <4>2. Fresh(t)'
        BY <2>1, <3>2, <4>1, FreshFirst DEF SameLevel
      <4> QED
        BY <4>2
    <3> QED
      BY <3>1, <3>2
  <2>2. CASE SendToken
    <3>1. /\ Len(o) = Len(owed) /\ Len(owed) \in Nat \ {0}
          /\ \A i \in 1..Len(owed) : SameLevel(o[i], owed[i])
      BY <2>2, OwedAfterToken
    <3>2. ASSUME NEW i \in 2..Len(o)  PROVE Fresh(o[i])'
      <4> PICK t : t = o[i]
        OBVIOUS
      <4>1. i \in 2..Len(owed) /\ SameLevel(t, owed[i])
        BY <3>1
      <4>2. Fresh(t)'
        BY <4>1, FreshBehind
      <4> QED
        BY <4>2
    <3>3. owed # <<>> /\ SameLevel(o[1], owed[1])
      BY <2>2, <3>1 DEF SendToken
    <3>4. CASE Arrives
      <4>1. activeStreams'[sidOf'[o[1].question]] # 0
        <5>1. PICK gen \in Nat \ {0} : activeStreams' = [activeStreams EXCEPT ![sid] = gen]
          BY <2>2, <3>4, TokenArrives
        <5>2. sid \in Sids /\ sidOf'[o[1].question] = sid
          BY <1>3, <3>3, <3>4, ArrivesWhere DEF SameLevel
        <5> QED
          BY <5>1, <5>2 DEF StreamInv
      <4> QED
        BY <3>2, <4>1
    <3>5. CASE ~Arrives
      <4>1. ASSUME activeStreams'[sidOf'[o[1].question]] = 0  PROVE Fresh(o[1])'
        <5>1. ~SendDone
          BY <2>2, <3>1, OwedAfterDone
        <5>2. activeStreams[sidOf[owed[1].question]] = 0
          BY <1>3, <3>3, <3>5, <4>1, <5>1, StreamsStay DEF streams, SameLevel
        <5> PICK t : t = o[1]
          OBVIOUS
        <5>3. Fresh(t)'
          BY <3>3, <3>5, <5>2, FreshFirst
        <5> QED
          BY <5>3
      <4> QED
        BY <3>2, <4>1
    <3> QED
      BY <3>4, <3>5
  <2>3. CASE SendDone
    <3>1. /\ Len(o) = Len(owed) - 1 /\ Len(owed) \in Nat \ {0} /\ o \in Seq(Level)
          /\ \A i \in 1..Len(o) : o[i] = owed[i + 1]
      BY <2>3, OwedAfterDone
    <3>2. ASSUME NEW i \in 1..Len(o)  PROVE Fresh(o[i])'
      <4> PICK t : t = o[i]
        OBVIOUS
      <4>1. i + 1 \in 2..Len(owed) /\ SameLevel(t, owed[i + 1])
        BY <3>1 DEF SameLevel
      <4>2. Fresh(t)'
        BY <4>1, FreshBehind
      <4> QED
        BY <4>2
    <3>3. o # <<>> => 1 \in 1..Len(o)
      BY <3>1, EmptySeq
    <3> QED
      BY <3>1, <3>2, <3>3
  <2>4. ASSUME NEW q \in Question, Teach(q)
        PROVE  /\ \A i \in 2..Len(o) : Fresh(o[i])'
               /\ o # <<>> /\ activeStreams'[sidOf'[o[1].question]] = 0 => Fresh(o[1])'
    <3> DEFINE n == Len(owed)
    <3>1. /\ Len(o) \in Nat /\ Len(o) >= n /\ o \in Seq(Level) /\ q \notin handled
          /\ \A i \in 1..n : o[i] = owed[i]
          /\ \A i \in (n + 1)..Len(o) : o[i] = [question |-> q, level |-> i - n, sent |-> 0]
      BY <2>4, OwedAfterTeach DEF Teach
    <3>2. n \in Nat
      BY <1>1
    <3> HIDE DEF n
    <3>3. ASSUME NEW i \in (n + 1)..Len(o)  PROVE Fresh(o[i])'
      <4> PICK t : t = o[i]
        OBVIOUS
      <4>1. t = [question |-> q, level |-> i - n, sent |-> 0] /\ i \in 1..Len(o)
        BY <3>1, <3>2
      <4>2. t \in Level
        BY <3>1, <4>1
      <4>3. t.question \in Question /\ t.level \in 1..MaxLevels /\ t.question = q
        BY <4>1, <4>2 DEF Level
      <4>4. Fresh(t)'
        BY <3>1, <4>3, FreshAhead
      <4> QED
        BY <4>4
    <3>4. ASSUME NEW i \in 2..Len(o)  PROVE Fresh(o[i])'
      <4>1. CASE i \in 2..n
        <5> PICK t : t = o[i]
          OBVIOUS
        <5>1. SameLevel(t, owed[i])
          BY <3>1, <3>2, <4>1 DEF SameLevel
        <5>2. Fresh(t)'
          BY <4>1, <5>1, FreshBehind DEF n
        <5> QED
          BY <5>2
      <4>2. CASE i \notin 2..n
        <5>1. i \in (n + 1)..Len(o)
          BY <3>1, <3>2, <4>2
        <5> QED
          BY <3>3, <5>1
      <4> QED
        BY <4>1, <4>2
    <3>5. ASSUME o # <<>>, activeStreams'[sidOf'[o[1].question]] = 0  PROVE Fresh(o[1])'
      <4>1. CASE owed = <<>>
        <5>1. n = 0 /\ 1 \in 1..Len(o)
          BY <3>1, <3>5, <4>1, EmptySeq DEF n
        <5>2. 1 \in (n + 1)..Len(o)
          BY <3>1, <5>1
        <5> QED
          BY <3>3, <5>2
      <4>2. CASE owed # <<>>
        <5>1. 1 \in 1..n
          BY <1>1, <4>2 DEF n
        <5>2. o[1] = owed[1]
          BY <3>1, <5>1
        <5>3. ~SendToken /\ ~SendDone
          BY <2>4, <3>1, <3>2, OwedAfterDone DEF n, SendToken, Teach
        <5>4. activeStreams[sidOf[owed[1].question]] = 0
          BY <1>3, <3>5, <4>2, <5>2, <5>3, StreamsStay DEF streams
        <5> PICK t : t = o[1]
          OBVIOUS
        <5>5. Fresh(t)'
          BY <4>2, <5>2, <5>3, <5>4, FreshFirst DEF SameLevel
        <5> QED
          BY <5>5
      <4> QED
        BY <4>1, <4>2
    <3> QED
      BY <3>4, <3>5
  <2> QED
    BY <2>1, <2>2, <2>3, <2>4, ServicesStay
<1> QED
  BY <1>2, <1>4 DEF FreshInv, Fresh, SameLevel, TakenOf

\* What a connection that is up stays to be, when its stream is open.
LEMMA ConnectionStays ==
  ASSUME SidInv, StreamInv, OwedInv, QueueInv, RouteInv, [Next]_vars,
         ~(SendToken /\ Arrives), ~(SendDone /\ Arrives), sid' \in connections', activeStreams'[sid'] # 0,
         SidInv'
  PROVE  /\ sid' = sid /\ sid \in connections /\ activeStreams[sid] # 0 /\ consumer' = consumer
         /\ ~SendToken /\ ~SendDone
<1>1. UNCHANGED <<activeStreams, generations, sequences>>
  BY StreamsStay DEF streams
<1>2. link' = "up" /\ phase' = "serving"
  BY DEF SidInv
<1>3. ASSUME UNCHANGED <<sid, connections, consumer, link>>, ~SendToken, ~SendDone
      PROVE  /\ sid' = sid /\ sid \in connections /\ activeStreams[sid] # 0 /\ consumer' = consumer
             /\ ~SendToken /\ ~SendDone
  BY <1>1, <1>3
<1>4. CASE SendToken \/ SendDone
  <2>1. UNCHANGED <<sid, connections, consumer, link>> /\ owed # <<>>
    BY <1>4 DEF SendToken, SendDone, client, backendVars
  <2>2. SameId /\ sid \in connections /\ consumer = "running" /\ sidOf[owed[1].question] = sid
    BY <1>1, <2>1 DEF RouteInv
  <2>3. Reaches(owed[1].question)
    <3>1. link = "up"
      BY <1>2, <2>1
    <3> QED
      BY <2>2, <3>1 DEF Reaches, Routable
  <2> QED
    BY <1>4, <2>1, <2>3 DEF Arrives
<1>5. CASE Client
  <2>1. CASE Connect
    <3>1. sid' = lastSid + 1 /\ sid' \in Sids
      <4>1. sid' = lastSid' /\ lastSid' = lastSid + 1 /\ lastSid \in Nat
        BY <2>1 DEF Connect, SidInv
      <4>2. PICK l : l = lastSid'
        OBVIOUS
      <4>3. PICK d, e : d = drops' /\ e = deaths'
        OBVIOUS
      <4>4. l <= d + e + 1 /\ d \in 0..MaxDrops /\ e \in 0..MaxDeaths
        BY <4>2, <4>3 DEF SidInv
      <4>5. MaxDrops \in Nat /\ MaxDeaths \in Nat
        BY StreamlitAssumption, BackendAssumption
      <4>6. l <= MaxSid /\ l \in Nat \ {0}
        BY <4>1, <4>2, <4>4, <4>5 DEF MaxSid
      <4> QED
        BY <4>1, <4>2, <4>5, <4>6 DEF Sids, MaxSid
    <3>2. activeStreams[lastSid + 1] = 0
      BY <3>1 DEF StreamInv, SidInv
    <3> QED
      BY <1>1, <3>1, <3>2
  <2>2. CASE Disconnect
    BY <1>2, <2>2 DEF Disconnect
  <2>3. CASE FirstAttemptFails \/ AttemptFails
    BY <1>2, <2>3 DEF FirstAttemptFails, AttemptFails
  <2> QED
    BY <1>5, <2>1, <2>2, <2>3 DEF Client
<1>6. CASE BackendStep /\ ~SendToken /\ ~SendDone
  <2>1. UNCHANGED <<sid, link, eventQueue, owed>> /\ (Environment \/ Process)
    BY <1>6 DEF BackendStep, client, services
  <2>2. CASE Die
    BY <1>2, <2>2 DEF Die
  <2>3. CASE ConsumerStarts
    <3>1. UNCHANGED connections /\ consumer = "starting"
      BY <2>3 DEF ConsumerStarts
    <3> QED
      BY <1>1, <2>1, <3>1 DEF RouteInv
  <2>4. CASE Serve
    <3>1. UNCHANGED connections /\ phase = "bootstrap"
      BY <2>4 DEF Serve
    <3> QED
      BY <2>1, <3>1 DEF SidInv
  <2>5. CASE BrokerUp \/ BrokerDown \/ TopicAppears \/ Boot \/ ConnectAdmin \/ ConnectFails \/ BootstrapNext
             \/ \E q \in Question : SaveFile(q) \/ PublishQuestion(q)
    <3>1. UNCHANGED <<connections, consumer>>
      BY <2>5 DEF BrokerUp, BrokerDown, TopicAppears, Boot, ConnectAdmin, ConnectFails, BootstrapNext,
                  SaveFile, PublishQuestion
    <3> QED
      BY <1>3, <1>6, <2>1, <3>1
  <2> QED
    BY <2>1, <2>2, <2>3, <2>4, <2>5 DEF Environment, Process
<1>7. CASE /\ ~SendToken /\ ~SendDone
           /\ \/ Open \/ Reply \/ TakeItem \/ UNCHANGED vars
              \/ \E q \in Question : Teach(q) \/ Clarify(q) \/ Lose(q)
              \/ \E q \in Question, n \in 0..MaxFiles : Submit(q, n)
  <2>1. UNCHANGED <<sid, connections, consumer>>
    BY <1>7 DEF Open, Reply, TakeItem, vars, Teach, Clarify, Lose, Submit, client, backendVars
  <2> QED
    BY <1>1, <1>7, <2>1
<1> QED
  BY <1>4, <1>5, <1>6, <1>7 DEF Next, Answers, Page

LEMMA RouteInvStep ==
  ASSUME SidInv, StreamInv, OwedInv, QueueInv, FollowInv, TextInv, RouteInv, [Next]_vars, SidInv', StreamInv'
  PROVE  RouteInv'
<1> PICK r, o : r = eventQueue' /\ o = owed'
  OBVIOUS
<1>1. CASE SendToken /\ Arrives
  <2> PICK s, t : s = sid /\ t = owed[1]
    OBVIOUS
  <2>1. PICK gen \in Nat \ {0}, seq \in Nat \ {0}, token \in Token :
          /\ activeStreams' = [activeStreams EXCEPT ![s] = gen]
          /\ sequences' = [sequences EXCEPT ![s] = seq]
          /\ eventQueue' = Append(eventQueue, [kind |-> "token", stream |-> <<s, gen>>,
                                               seq |-> seq, token |-> token])
          /\ SameLevel(token, t)
    BY <1>1, TokenArrives
  <2>2. /\ s \in Sids /\ consumer = "running" /\ sidOf[t.question] = s
    BY <1>1, ArrivesWhere
  <2>3. UNCHANGED <<sid, consumer, sidOf>>
    BY <1>1 DEF SendToken, client, backendVars
  <2>4. /\ Len(o) = Len(owed) /\ Len(owed) \in Nat \ {0} /\ SameLevel(o[1], t) /\ o \in Seq(Level)
    BY <1>1, OwedAfterToken
  <2>5. o # <<>>
    BY <2>4, EmptySeq
  <2>6. activeStreams'[s] = gen /\ sequences'[s] = seq
    BY <2>1, <2>2 DEF StreamInv
  <2> PICK e, u : e = [kind |-> "token", stream |-> <<s, gen>>, seq |-> seq, token |-> token]
                  /\ u = o[1]
    OBVIOUS
  <2>7. /\ Len(eventQueue) \in Nat /\ Len(r) = Len(eventQueue) + 1
        /\ r[Len(r)] = e
    BY <2>1, AppendQueue DEF QueueInv
  <2>8. Continues(u, <<s, gen>>, seq + 1, Len(r) + 1)'
    <3>1. Len(r) \in 1..((Len(r) + 1) - 1) /\ IsToken(r[Len(r)]) /\ r[Len(r)].stream = <<s, gen>>
          /\ r[Len(r)].seq = (seq + 1) - 1 /\ SameLevel(r[Len(r)].token, u)
      BY <2>1, <2>4, <2>7 DEF IsToken, SameLevel
    <3>2. \A k \in (Len(r) + 1)..((Len(r) + 1) - 1) : ~IsText(r[k])
      BY <2>7
    <3> QED
      BY <3>1, <3>2 DEF Continues, IsToken, IsText, SameLevel
  <2>9. PICK x, y : x = sid' /\ y = sequences'[x]
    OBVIOUS
  <2>12. SameId
    BY <1>1 DEF Arrives, Reaches, Routable
  <2>10. x = s /\ y = seq /\ activeStreams'[x] = gen
    BY <2>3, <2>6, <2>9
  <2>11. sidOf'[u.question] = s
    BY <2>2, <2>3, <2>4 DEF SameLevel
  <2> QED
    BY <2>2, <2>3, <2>5, <2>8, <2>9, <2>10, <2>11, <2>12 DEF RouteInv, Continues, IsToken, IsText, SameLevel, TakenOf
<1>2. CASE SendDone /\ Arrives
  <2>1. activeStreams' = [activeStreams EXCEPT ![sid] = 0] /\ sid' = sid
    BY <1>2, EndArrives DEF SendDone, client
  <2>2. activeStreams'[sid'] = 0
    BY <1>2, <2>1, ArrivesWhere DEF StreamInv
  <2> QED
    BY <2>2 DEF RouteInv
<1>3. ASSUME ~(SendToken /\ Arrives), ~(SendDone /\ Arrives), sid' \in connections', activeStreams'[sid'] # 0
      PROVE  /\ SameId /\ consumer' = "running" /\ o # <<>> /\ sidOf'[o[1].question] = sid'
             /\ Continues(owed[1], <<sid, activeStreams[sid]>>, sequences[sid] + 1, Len(eventQueue) + 1)'
  <2>1. /\ sid' = sid /\ sid \in connections /\ activeStreams[sid] # 0 /\ consumer' = consumer
        /\ ~SendToken /\ ~SendDone
    BY <1>3, ConnectionStays
  <2>2. /\ SameId /\ consumer = "running" /\ owed # <<>> /\ sidOf[owed[1].question] = sid
        /\ Continues(owed[1], <<sid, activeStreams[sid]>>, sequences[sid] + 1, Len(eventQueue) + 1)
    BY <2>1 DEF RouteInv
  <2>3. activeStreams' = activeStreams /\ sequences' = sequences
    BY <1>3, StreamsStay DEF streams
  <2>4. 1 \in 1..Len(owed)
    BY <2>2, EmptySeq, LenProperties DEF OwedInv
  <2>5. o[1] = owed[1] /\ o # <<>>
    <3>1. CASE o = owed
      BY <2>2, <3>1
    <3>2. ASSUME NEW q \in Question, Teach(q)  PROVE o[1] = owed[1] /\ o # <<>>
      <4>1. o \in Seq(Level) /\ Len(o) >= Len(owed) /\ \A i \in 1..Len(owed) : o[i] = owed[i]
        BY <3>2, OwedAfterTeach
      <4> QED
        BY <2>4, <4>1, EmptySeq
    <3> QED
      BY <2>1, <3>1, <3>2, ServicesStay
  <2>6. sidOf'[owed[1].question] = sidOf[owed[1].question]
    BY <2>4, ServicesStay DEF OwedInv
  <2> PICK t, s, n : t = owed[1] /\ s = <<sid, activeStreams[sid]>> /\ n = sequences[sid] + 1
    OBVIOUS
  <2>7. Continues(t, s, n, Len(eventQueue) + 1)
    BY <2>2
  <2>8. t.question \in Question /\ t.level \in 1..MaxLevels
    BY <2>4, OwedLevel
  <2>9. Continues(t, s, n, Len(eventQueue) + 1)'
    <3>1. CASE TakeItem
      <4>1. /\ Len(eventQueue) \in Nat \ {0} /\ Len(r) = Len(eventQueue) - 1
        BY <3>1, TakeQueue DEF QueueInv
      <4>2. Len(eventQueue) \in 1..Len(eventQueue)
        BY <4>1
      <4> PICK i : i = Len(eventQueue)
        OBVIOUS
      <4>3. Continues(t, s, n, i)'
        BY <2>7, <2>8, <3>1, <4>2, ContinuesShifts
      <4>4. i = Len(r) + 1
        BY <4>1
      <4> QED
        BY <4>3, <4>4
    <3>2. CASE Aside
      <4>1. Quiet
        BY <3>2, QuietAside DEF QueueInv
      <4>2. /\ Len(eventQueue) \in Nat /\ Len(r) \in Nat /\ Len(r) >= Len(eventQueue)
            /\ \A k \in 1..Len(eventQueue) : r[k] = eventQueue[k]
            /\ \A k \in (Len(eventQueue) + 1)..Len(r) : ~IsText(r[k])
            /\ UNCHANGED <<chat, taken>>
        BY <4>1, QueueLen DEF Quiet, Grown, QueueInv, IsText
      <4> QED
        BY <2>7, <4>2, ContinuesGrown
    <3> QED
      BY <1>3, <3>1, <3>2, StepsAre
  <2> QED
    BY <2>1, <2>2, <2>3, <2>5, <2>6, <2>9
<1>4. CASE ~(SendToken /\ Arrives) /\ ~(SendDone /\ Arrives)
  BY <1>3, <1>4 DEF RouteInv
<1> QED
  BY <1>1, <1>2, <1>4

\* A new stream has a name of its own.
LEMMA StreamIsNew ==
  ASSUME SidInv, StreamInv, OwedInv, QueueInv, FollowInv, TextInv, FreshInv, SendToken, Arrives,
         activeStreams[sid] = 0, NEW t, SameLevel(t, owed[1]), NEW s, s = <<sid, generations[sid] + 1>>
  PROVE  Starts(t, s, Len(eventQueue) + 1)
<1>1. owed # <<>> /\ sidOf[owed[1].question] = sid /\ sid \in Sids
  BY ArrivesWhere DEF Arrives
<1>2. Fresh(t)
  BY <1>1, FreshSame DEF FreshInv
<1>3. ASSUME NEW x, Known(x)  PROVE x # s
  <2>1. generations[sid] \in Nat
    BY <1>1 DEF StreamInv
  <2> QED
    BY <1>3, <2>1 DEF Known
<1>4. NoStream # s
  BY <1>1, StreamlitAssumption, BackendAssumption DEF NoStream, Sids
<1>5. chat.stream # s
  BY <1>3, <1>4 DEF QueueInv
<1>6. \A k \in 1..((Len(eventQueue) + 1) - 1) :
         /\ IsText(eventQueue[k]) => eventQueue[k].stream # s
         /\ IsToken(eventQueue[k]) => ~SameLevel(eventQueue[k].token, t)
  <2>1. (Len(eventQueue) + 1) - 1 = Len(eventQueue)
    BY QueueLen DEF QueueInv
  <2> QED
    BY <1>2, <1>3, <2>1 DEF QueueInv, Fresh
<1> QED
  BY <1>2, <1>5, <1>6 DEF Starts, Fresh

LEMMA FollowInvStep ==
  ASSUME SidInv, StreamInv, OwedInv, QueueInv, FollowInv, TextInv, FreshInv, RouteInv, [Next]_vars
  PROVE  FollowInv'
<1>1. CASE TakeItem
  BY <1>1, FollowInvTake
<1>2. CASE Aside
  <2> PICK r : r = eventQueue'
    OBVIOUS
  <2>1. Quiet
    BY <1>2, QuietAside DEF QueueInv
  <2>2. /\ Len(eventQueue) \in Nat /\ Len(r) \in Nat /\ Len(r) >= Len(eventQueue)
        /\ \A k \in 1..Len(eventQueue) : r[k] = eventQueue[k]
        /\ \A k \in (Len(eventQueue) + 1)..Len(r) : ~IsToken(r[k])
        /\ UNCHANGED <<chat, taken>>
    BY <2>1, QueueLen DEF Quiet, Grown, QueueInv, IsToken
  <2>3. ASSUME NEW i \in 1..Len(r), IsToken(r[i])
        PROVE  Follows(r[i].token, r[i].stream, r[i].seq, i)'
    <3> PICK t, s, n : t = r[i].token /\ s = r[i].stream /\ n = r[i].seq
      OBVIOUS
    <3>1. i \in 1..Len(eventQueue)
      BY <2>2, <2>3
    <3>2. Follows(t, s, n, i)
      BY <2>2, <2>3, <3>1 DEF FollowInv
    <3>3. i \in 1..(Len(eventQueue) + 1)
      BY <2>2, <3>1
    <3>4. Follows(t, s, n, i)'
      BY <2>2, <3>2, <3>3, FollowsGrown
    <3> QED
      BY <3>4
  <2> QED
    BY <2>3 DEF FollowInv, IsToken
<1>3. CASE SendDone /\ Arrives
  <2>1. PICK e : e = [kind |-> "complete", stream |-> <<sid, activeStreams[sid]>>]
    OBVIOUS
  <2>2. ~IsToken(e)
    BY <2>1 DEF IsToken
  <2>3. eventQueue' = Append(eventQueue, e) /\ taken' = taken /\ chat' = chat
    BY <1>3, <2>1, EndArrives DEF SendDone, page
  <2>4. Len(eventQueue) \in Nat /\ IsQueue(eventQueue)
    BY QueueLen DEF QueueInv
  <2> QED
    BY <2>2, <2>3, <2>4, FollowsLast
<1>4. CASE SendToken /\ Arrives
  <2>1. PICK gen \in Nat \ {0}, seq \in Nat \ {0}, token \in Token :
          /\ eventQueue' = Append(eventQueue, [kind |-> "token", stream |-> <<sid, gen>>,
                                               seq |-> seq, token |-> token])
          /\ SameLevel(token, owed[1])
          /\ activeStreams[sid] = 0 => gen = generations[sid] + 1 /\ seq = 1
          /\ activeStreams[sid] # 0 => gen = activeStreams[sid] /\ seq = sequences[sid] + 1
    BY <1>4, TokenArrives
  <2>2. PICK e, s : e = [kind |-> "token", stream |-> <<sid, gen>>, seq |-> seq, token |-> token]
                    /\ s = <<sid, gen>>
    OBVIOUS
  <2>3. taken' = taken /\ chat' = chat
    BY <1>4 DEF SendToken, page
  <2>4. Follows(token, s, seq, Len(eventQueue) + 1)
    <3>1. CASE activeStreams[sid] = 0
      <4>1. Starts(token, s, Len(eventQueue) + 1)
        BY <1>4, <2>1, <2>2, <3>1, StreamIsNew
      <4> QED
        BY <2>1, <3>1, <4>1 DEF Follows
    <3>2. CASE activeStreams[sid] # 0
      <4>1. Continues(owed[1], s, seq, Len(eventQueue) + 1)
        BY <1>4, <2>1, <2>2, <3>2, ArrivesWhere DEF RouteInv
      <4>2. Continues(token, s, seq, Len(eventQueue) + 1)
        BY <2>1, <4>1, ContinuesLevel
      <4>3. seq # 1
        <5>1. sequences[sid] \in Nat /\ sequences[sid] # 0
          BY <1>4, <3>2, ArrivesWhere DEF StreamInv
        <5> QED
          BY <2>1, <3>2, <5>1
      <4> QED
        BY <4>2, <4>3 DEF Follows
    <3> QED
      BY <3>1, <3>2
  <2>5. Len(eventQueue) \in Nat /\ IsQueue(eventQueue)
    BY QueueLen DEF QueueInv
  <2>6. e.token = token /\ e.stream = s /\ e.seq = seq /\ eventQueue' = Append(eventQueue, e)
    BY <2>1, <2>2
  <2> QED
    BY <2>3, <2>4, <2>5, <2>6, FollowsLast
<1> QED
  BY <1>1, <1>2, <1>3, <1>4, StepsAre

-----------------------------------------------------------------------------
(* Streams that are open.                                                  *)

EndAfter(i) == \E k \in (i + 1)..Len(eventQueue) : IsEnd(eventQueue[k])

\* A stream of the connection that is up, which has begun and of which no end is
\* in the queue, is open in the client.
OpenInv ==
  /\ \A i \in 1..Len(eventQueue) :
       IsToken(eventQueue[i]) /\ eventQueue[i].stream[1] = sid => activeStreams[sid] # 0 \/ EndAfter(i)
  /\ Known(chat.stream) /\ chat.stream[1] = sid /\ ~chat.complete => activeStreams[sid] # 0 \/ EndAfter(0)

\* The last message has something in it and is not final.
FullAtEnd == OpenAtEnd /\ Last(history).content # <<>>

\* It is then that of the stream being shown, and no question was posted since over
\* a later connection; a new stream is behind the end of that one.
SlotInv ==
  /\ FullAtEnd => /\ Last(history).stream = chat.stream /\ ~chat.complete /\ Known(chat.stream)
                  /\ \A q \in asked : sidOf[q] <= chat.stream[1]
  /\ \A i, j \in 1..Len(eventQueue) :
       i < j /\ IsToken(eventQueue[i]) /\ IsToken(eventQueue[j]) /\ eventQueue[j].seq = 1
         => \E k \in (i + 1)..(j - 1) : IsEnd(eventQueue[k])
  /\ \A i \in 1..Len(eventQueue) :
       IsToken(eventQueue[i]) /\ eventQueue[i].seq = 1 /\ FullAtEnd
         => \E k \in 1..(i - 1) : IsEnd(eventQueue[k])

-----------------------------------------------------------------------------
(* The messages.                                                           *)

\* What may be written over when the text of the chat state is shown.
Spare(c) ==
  \/ c = <<>>
  \/ c[1].question = NoQuestion
  \/ chat.text # <<>> /\ SameLevel(c[1], chat.text[1])

\* Only what is spare is at the end, in the slot of the stream shown, and in the
\* slot of a question whose post is awaited; a new stream has no slot.
HistoryInv ==
  /\ history \in Seq(Message)
  /\ \A m \in 1..Len(history) : history[m].stream = NoStream \/ Known(history[m].stream)
  /\ LastIsAssistant => Spare(Last(history).content)
  /\ ~chat.complete /\ chat.text # <<>> =>
       \E m \in 1..Len(history) : SlotsOf(chat.stream) = {m} /\ Spare(history[m].content)
  /\ posting # NoQuestion => /\ LastIsAssistant /\ Last(history).content = <<>>
                             /\ Last(history).stream = NoStream
  /\ chat.text # <<>> => Known(chat.stream)
  /\ \A i \in 1..Len(eventQueue) : IsToken(eventQueue[i]) /\ eventQueue[i].seq = 1 =>
       \A m \in 1..Len(history) : history[m].stream # eventQueue[i].stream

LEMMA SidStep ==
  ASSUME SidInv, [Next]_vars, SidInv'
  PROVE  sid' = sid \/ (sid' = sid + 1 /\ Aside)
<1>1. lastSid' = lastSid \/ lastSid' = lastSid + 1
  BY LastSidGrows
<1>2. sid = lastSid /\ sid' = lastSid' /\ lastSid \in Nat
  BY DEF SidInv
<1>3. (SendToken \/ SendDone \/ TakeItem) => sid' = sid
  BY LastSidGrows
<1> QED
  BY <1>1, <1>2, <1>3, StepsAre

\* A known stream is not one of a connection to come.
LEMMA KnownBefore ==
  ASSUME SidInv, NEW s, Known(s)
  PROVE  s[1] \in Nat \ {0} /\ s[1] <= sid /\ s # NoStream /\ s \in Streams
<1>1. s \in Streams /\ s[1] <= lastSid
  BY DEF Known
<1>2. s[1] \in Sids
  BY <1>1 DEF Streams
<1> QED
  BY <1>1, <1>2 DEF Sids, SidInv, NoStream

LEMMA OpenInvStep ==
  ASSUME SidInv, StreamInv, OwedInv, QueueInv, FollowInv, TextInv, OpenInv, [Next]_vars, SidInv'
  PROVE  OpenInv'
<1> PICK r, x, c : r = eventQueue' /\ x = sid' /\ c = chat'
  OBVIOUS
<1> DEFINE N == Len(eventQueue)
<1>0. N \in Nat /\ IsQueue(eventQueue)
  BY QueueLen DEF QueueInv
<1>1. CASE Aside
  <2>1. Quiet
    BY <1>0, <1>1, QuietAside
  <2>2. /\ Len(r) \in Nat /\ Len(r) >= N
        /\ \A k \in 1..N : r[k] = eventQueue[k]
        /\ \A k \in (N + 1)..Len(r) : ~IsToken(r[k])
        /\ c = chat /\ activeStreams' = activeStreams
        /\ generations' = generations
    BY <2>1 DEF Quiet, Grown, IsToken, streams
  <2>3. ASSUME NEW i \in 0..N, EndAfter(i)  PROVE \E k \in (i + 1)..Len(r) : IsEnd(r[k])
    <3>1. PICK k \in (i + 1)..N : IsEnd(eventQueue[k])
      BY <2>3 DEF EndAfter
    <3>2. k \in 1..N /\ k \in (i + 1)..Len(r)
      BY <1>0, <2>2, <3>1
    <3> QED
      BY <2>2, <3>1, <3>2
  <2>4. CASE x = sid
    <3>1. ASSUME NEW i \in 1..Len(r), IsToken(r[i]), r[i].stream[1] = x
          PROVE  activeStreams'[x] # 0 \/ \E k \in (i + 1)..Len(r) : IsEnd(r[k])
      <4>1. i \in 1..N
        BY <1>0, <2>2, <3>1
      <4>2. activeStreams[sid] # 0 \/ EndAfter(i)
        BY <2>2, <2>4, <3>1, <4>1 DEF OpenInv
      <4>3. i \in 0..N
        BY <1>0, <4>1
      <4> QED
        BY <2>2, <2>3, <2>4, <4>2, <4>3
    <3>2. ASSUME Known(chat.stream)', c.stream[1] = x, ~c.complete
          PROVE  activeStreams'[x] # 0 \/ \E k \in (0 + 1)..Len(r) : IsEnd(r[k])
      <4>1. Known(chat.stream)
        <5>1. c.stream = NoStream \/ Known(chat.stream)
          BY <2>2 DEF QueueInv
        <5>2. c.stream # NoStream
          BY <3>2 DEF Known, Streams, NoStream, Sids
        <5> QED
          BY <5>1, <5>2
      <4>2. activeStreams[sid] # 0 \/ EndAfter(0)
        BY <2>2, <2>4, <3>2, <4>1 DEF OpenInv
      <4>3. 0 \in 0..N
        BY <1>0
      <4> QED
        BY <2>2, <2>3, <2>4, <4>2, <4>3
    <3> QED
      BY <3>1, <3>2 DEF OpenInv, EndAfter, IsToken, IsEnd
  <2>5. CASE x = sid + 1
    <3>1. ASSUME NEW i \in 1..Len(r), IsToken(r[i])  PROVE r[i].stream[1] # x
      <4>1. i \in 1..N
        BY <1>0, <2>2, <3>1
      <4>2. Known(r[i].stream)
        BY <2>2, <3>1, <4>1 DEF QueueInv, IsToken, IsText
      <4> QED
        BY <2>5, <4>2, KnownBefore DEF SidInv
    <3>2. ASSUME Known(chat.stream)'  PROVE c.stream[1] # x
      <4>1. c.stream = NoStream \/ Known(chat.stream)
        BY <2>2 DEF QueueInv
      <4>2. c.stream # NoStream
        BY <3>2 DEF Known, Streams, NoStream, Sids
      <4>3. Known(c.stream)
        BY <2>2, <4>1, <4>2
      <4> QED
        BY <2>5, <4>3, KnownBefore DEF SidInv
    <3> QED
      BY <3>1, <3>2 DEF OpenInv, IsToken
  <2> QED
    BY <2>4, <2>5, SidStep
<1>2. CASE SendToken /\ Arrives
  <2>1. PICK gen \in Nat \ {0} : activeStreams' = [activeStreams EXCEPT ![sid] = gen]
    BY <1>2, TokenArrives
  <2>2. x = sid /\ sid \in Sids
    BY <1>2, ArrivesWhere, LastSidGrows
  <2>3. activeStreams'[x] # 0
    BY <2>1, <2>2 DEF StreamInv
  <2> QED
    BY <2>3 DEF OpenInv
<1>3. CASE SendDone /\ Arrives
  <2>1. PICK e : e = [kind |-> "complete", stream |-> <<sid, activeStreams[sid]>>]
    OBVIOUS
  <2>2. eventQueue' = Append(eventQueue, e) /\ IsEnd(e) /\ ~IsToken(e)
    BY <1>3, <2>1, EndArrives DEF IsEnd, IsToken
  <2>3. Len(r) = N + 1 /\ r[N + 1] = e
    BY <1>0, <2>2, AppendQueue
  <2>4. ASSUME NEW i \in 0..N  PROVE \E k \in (i + 1)..Len(r) : IsEnd(r[k])
    BY <1>0, <2>2, <2>3
  <2>5. ASSUME NEW i \in 1..Len(r), IsToken(r[i])  PROVE \E k \in (i + 1)..Len(r) : IsEnd(r[k])
    <3>1. i \in 0..N
      BY <1>0, <2>2, <2>3, <2>5
    <3> QED
      BY <2>4, <3>1
  <2>6. \E k \in (0 + 1)..Len(r) : IsEnd(r[k])
    BY <1>0, <2>4
  <2> QED
    BY <2>5, <2>6 DEF OpenInv, EndAfter, IsToken, IsEnd
<1>4. CASE TakeItem
  <2> PICK e : e = eventQueue[1]
    OBVIOUS
  <2>1. /\ N \in Nat \ {0} /\ Len(r) = N - 1
        /\ \A k \in 1..Len(r) : r[k] = eventQueue[k + 1]
        /\ activeStreams' = activeStreams /\ x = sid /\ generations' = generations /\ lastSid' = lastSid
    BY <1>0, <1>4, TakeQueue DEF streams, client
  <2>2. ASSUME NEW i \in 1..N, EndAfter(i)  PROVE \E k \in i..Len(r) : IsEnd(r[k])
    <3>1. PICK k \in (i + 1)..N : IsEnd(eventQueue[k])
      BY <2>2 DEF EndAfter
    <3>2. k - 1 \in i..Len(r) /\ k - 1 \in 1..Len(r) /\ (k - 1) + 1 = k
      BY <1>0, <2>1, <3>1
    <3> QED
      BY <2>1, <3>1, <3>2
  <2>3. ASSUME NEW i \in 1..Len(r), IsToken(r[i]), r[i].stream[1] = x
        PROVE  activeStreams'[x] # 0 \/ \E k \in (i + 1)..Len(r) : IsEnd(r[k])
    <3>1. i + 1 \in 1..N /\ r[i] = eventQueue[i + 1]
      BY <2>1
    <3>2. activeStreams[sid] # 0 \/ EndAfter(i + 1)
      BY <2>1, <2>3, <3>1 DEF OpenInv
    <3> QED
      BY <2>1, <2>2, <3>1, <3>2
  <2>4. ASSUME Known(chat.stream)', c.stream[1] = x, ~c.complete
        PROVE  activeStreams'[x] # 0 \/ \E k \in 1..Len(r) : IsEnd(r[k])
    <3>1. 1 \in 1..N
      BY <2>1
    <3>2. CASE IsToken(e)
      <4>1. c.stream = e.stream
        <5>1. chat' = [stream |-> e.stream, text |-> Append(TakenOf(e.token), e.token),
                       last |-> e.seq, complete |-> FALSE]
          BY <1>4, <3>2, TakeToken
        <5> QED
          BY <5>1
      <4>2. activeStreams[sid] # 0 \/ EndAfter(1)
        BY <2>1, <2>4, <3>1, <3>2, <4>1 DEF OpenInv
      <4> QED
        BY <2>1, <2>2, <3>1, <4>2
    <3>3. CASE IsEnd(e)
      <4>1. chat' = [stream |-> e.stream, text |-> chat.text, last |-> chat.last, complete |-> TRUE]
        BY <1>4, <3>3, TakeOther DEF IsEnd, IsToken
      <4> QED
        BY <2>4, <4>1
    <3>4. CASE ~IsToken(e) /\ ~IsEnd(e)
      <4>1. c = chat
        BY <1>4, <3>4, TakeOther
      <4>2. Known(chat.stream)
        BY <2>1, <2>4, <4>1 DEF Known
      <4>3. activeStreams[sid] # 0 \/ EndAfter(0)
        BY <2>1, <2>4, <4>1, <4>2 DEF OpenInv
      <4>4. ASSUME EndAfter(0)  PROVE EndAfter(1)
        <5>1. PICK k \in 1..N : IsEnd(eventQueue[k])
          BY <4>4 DEF EndAfter
        <5>2. k # 1
          BY <3>4, <5>1
        <5>3. k \in (1 + 1)..N
          BY <1>0, <5>1, <5>2
        <5> QED
          BY <5>1, <5>3 DEF EndAfter
      <4> QED
        BY <2>1, <2>2, <3>1, <4>3, <4>4
    <3> QED
      BY <3>2, <3>3, <3>4
  <2> QED
    BY <2>3, <2>4 DEF OpenInv, EndAfter, IsToken, IsEnd
<1> QED
  BY <1>1, <1>2, <1>3, <1>4, StepsAre

-----------------------------------------------------------------------------
(* What a handler does to the messages.                                    *)

\* One message has another text, stream or end; the others stay.
Rewrites(g, h, m, text, stream, complete) ==
  /\ g \in Seq(Message) /\ Len(g) = Len(h)
  /\ \A i \in 1..Len(h) : i # m => g[i] = h[i]
  /\ g[m].content = text /\ g[m].stream = stream /\ g[m].complete = complete
  /\ g[m].role = h[m].role /\ g[m].of = h[m].of

\* Messages are added.
Adds(g, h) ==
  /\ g \in Seq(Message) /\ Len(g) \in Nat /\ Len(g) >= Len(h)
  /\ \A i \in 1..Len(h) : g[i] = h[i]

LEMMA SequenceLength ==
  ASSUME NEW S, NEW h \in Seq(S)
  PROVE  Len(h) \in Nat /\ DOMAIN h = 1..Len(h) /\ (h # <<>> <=> Len(h) # 0)
         /\ \A i \in 1..Len(h) : h[i] \in S
BY LenProperties, EmptySeq

LEMMA LastElement ==
  ASSUME NEW S, NEW h \in Seq(S), h # <<>>
  PROVE  Last(h) = h[Len(h)] /\ Len(h) \in 1..Len(h) /\ Last(h) \in S
BY SequenceLength DEF Last

LEMMA ContentRewritten ==
  ASSUME NEW h \in Seq(Message), NEW m \in 1..Len(h), NEW x \in Seq(Token \cup Notice),
         NEW g, g = [h EXCEPT ![m].content = x]
  PROVE  Rewrites(g, h, m, x, h[m].stream, h[m].complete)
<1> PICK w : w = [h[m] EXCEPT !.content = x]
  OBVIOUS
<1>1. h[m] \in Message /\ DOMAIN h = 1..Len(h) /\ Len(h) \in Nat
  BY SequenceLength
<1>2. /\ w \in Message /\ w.content = x /\ w.stream = h[m].stream /\ w.complete = h[m].complete
      /\ w.role = h[m].role /\ w.of = h[m].of
  BY <1>1 DEF Message
<1>3. g = [h EXCEPT ![m] = w]
  OBVIOUS
<1>4. g \in Seq(Message) /\ Len(g) = Len(h) /\ g[m] = w /\ \A i \in 1..Len(h) : i # m => g[i] = h[i]
  BY <1>1, <1>2, <1>3
<1> QED
  BY <1>2, <1>4 DEF Rewrites

LEMMA StreamRewritten ==
  ASSUME NEW h \in Seq(Message), NEW m \in 1..Len(h), NEW s \in Streams,
         NEW g, g = [h EXCEPT ![m].stream = s]
  PROVE  Rewrites(g, h, m, h[m].content, s, h[m].complete)
<1> PICK w : w = [h[m] EXCEPT !.stream = s]
  OBVIOUS
<1>1. h[m] \in Message /\ DOMAIN h = 1..Len(h) /\ Len(h) \in Nat
  BY SequenceLength
<1>2. /\ w \in Message /\ w.content = h[m].content /\ w.stream = s /\ w.complete = h[m].complete
      /\ w.role = h[m].role /\ w.of = h[m].of
  BY <1>1 DEF Message
<1>3. g = [h EXCEPT ![m] = w]
  OBVIOUS
<1>4. g \in Seq(Message) /\ Len(g) = Len(h) /\ g[m] = w /\ \A i \in 1..Len(h) : i # m => g[i] = h[i]
  BY <1>1, <1>2, <1>3
<1> QED
  BY <1>2, <1>4 DEF Rewrites

LEMMA EndRewritten ==
  ASSUME NEW h \in Seq(Message), NEW m \in 1..Len(h),
         NEW g, g = [h EXCEPT ![m].complete = TRUE]
  PROVE  Rewrites(g, h, m, h[m].content, h[m].stream, TRUE)
<1> PICK w : w = [h[m] EXCEPT !.complete = TRUE]
  OBVIOUS
<1>1. h[m] \in Message /\ DOMAIN h = 1..Len(h) /\ Len(h) \in Nat
  BY SequenceLength
<1>2. /\ w \in Message /\ w.content = h[m].content /\ w.stream = h[m].stream /\ w.complete = TRUE
      /\ w.role = h[m].role /\ w.of = h[m].of
  BY <1>1 DEF Message
<1>3. g = [h EXCEPT ![m] = w]
  OBVIOUS
<1>4. g \in Seq(Message) /\ Len(g) = Len(h) /\ g[m] = w /\ \A i \in 1..Len(h) : i # m => g[i] = h[i]
  BY <1>1, <1>2, <1>3
<1> QED
  BY <1>2, <1>4 DEF Rewrites

LEMMA AddsOne ==
  ASSUME NEW h \in Seq(Message), NEW w \in Message
  PROVE  /\ Adds(Append(h, w), h) /\ Len(Append(h, w)) = Len(h) + 1
         /\ Last(Append(h, w)) = w /\ Append(h, w)[Len(h) + 1] = w /\ Append(h, w) # <<>>
<1> PICK g : g = Append(h, w)
  OBVIOUS
<1>1. /\ g \in Seq(Message) /\ Len(g) = Len(h) + 1 /\ Len(h) \in Nat
      /\ \A i \in 1..Len(h) : g[i] = h[i]
      /\ g[Len(h) + 1] = w
  BY AppendProperties, LenProperties
<1>2. g # <<>> /\ Last(g) = w
  BY <1>1, EmptySeq DEF Last
<1> QED
  BY <1>1, <1>2 DEF Adds

LEMMA AddsTwo ==
  ASSUME NEW h \in Seq(Message), NEW u \in Message, NEW w \in Message
  PROVE  /\ Adds(h \o <<u, w>>, h) /\ Len(h \o <<u, w>>) = Len(h) + 2
         /\ (h \o <<u, w>>)[Len(h) + 1] = u /\ (h \o <<u, w>>)[Len(h) + 2] = w
         /\ Last(h \o <<u, w>>) = w /\ h \o <<u, w>> # <<>>
<1> PICK p : p = <<u, w>>
  OBVIOUS
<1>1. p \in Seq(Message) /\ Len(p) = 2 /\ p[1] = u /\ p[2] = w
  OBVIOUS
<1> PICK g : g = h \o p
  OBVIOUS
<1>2. /\ g \in Seq(Message) /\ Len(g) = Len(h) + Len(p)
      /\ \A i \in 1..(Len(h) + Len(p)) : g[i] = IF i <= Len(h) THEN h[i] ELSE p[i - Len(h)]
  BY <1>1, ConcatProperties
<1>3. Len(h) \in Nat
  BY LenProperties
<1>4. /\ Len(g) = Len(h) + 2 /\ \A i \in 1..Len(h) : g[i] = h[i]
      /\ g[Len(h) + 1] = u /\ g[Len(h) + 2] = w
  <2>1. Len(h) + 1 \in 1..(Len(h) + Len(p)) /\ Len(h) + 2 \in 1..(Len(h) + Len(p))
        /\ (Len(h) + 1) - Len(h) = 1 /\ (Len(h) + 2) - Len(h) = 2
        /\ ~(Len(h) + 1 <= Len(h)) /\ ~(Len(h) + 2 <= Len(h))
    BY <1>1, <1>3
  <2>2. g[Len(h) + 1] = p[1] /\ g[Len(h) + 2] = p[2]
    BY <1>2, <2>1
  <2> QED
    BY <1>1, <1>2, <1>3, <2>2
<1>5. g # <<>> /\ Last(g) = w
  BY <1>2, <1>3, <1>4, EmptySeq DEF Last
<1> QED
  BY <1>2, <1>3, <1>4, <1>5 DEF Adds

LEMMA MinOfOne ==
  ASSUME NEW m \in Nat
  PROVE  Min({m}) = m
BY DEF Min

\* The text goes to the slot its stream has, ...
ToItsSlot(e, c, g) ==
  /\ e.seq # 1 /\ chat.stream = e.stream /\ ~chat.complete
  /\ chat.text = TakenOf(e.token) /\ chat.text # <<>>
  /\ SameLevel(chat.text[1], c.text[1])
  /\ \E m \in 1..Len(history) : /\ SlotsOf(c.stream) = {m} /\ Spare(history[m].content)
                                /\ Rewrites(g, history, m, c.text, c.stream, FALSE)

\* ... to the open slot at the end, ...
ToTheEnd(e, c, g) ==
  /\ e.seq = 1 /\ SlotsOf(c.stream) = {} /\ OpenAtEnd /\ Last(history).content = <<>>
  /\ Rewrites(g, history, Len(history), c.text, c.stream, FALSE)

\* ... or to a message of its own.
ToItsOwn(e, c, g) ==
  /\ e.seq = 1 /\ SlotsOf(c.stream) = {} /\ ~OpenAtEnd
  /\ Adds(g, history) /\ Len(g) = Len(history) + 1 /\ g # <<>>
  /\ g[Len(g)].role = "assistant" /\ g[Len(g)].content = c.text
  /\ g[Len(g)].stream = c.stream /\ g[Len(g)].complete = FALSE

\* A token goes to the slot of its stream, to the open slot at the end, which is
\* empty, or to a message of its own.
LEMMA ShowsToken ==
  ASSUME QueueInv, FollowInv, TextInv, SlotInv, HistoryInv, TakeItem,
         NEW e, e = eventQueue[1], IsToken(e), NEW c, c = chat', NEW g, g = history'
  PROVE  /\ c.text = Append(TakenOf(e.token), e.token) /\ c.text = TakenOf(e.token)'
         /\ c.stream = e.stream /\ ~c.complete /\ Known(e.stream) /\ c.text # <<>>
         /\ c.text[1].question = e.token.question /\ c.text[1].level = e.token.level
         /\ ToItsSlot(e, c, g) \/ ToTheEnd(e, c, g) \/ ToItsOwn(e, c, g)
<1> PICK t : t = e.token
  OBVIOUS
<1>1. /\ t \in Token /\ e.seq \in Nat \ {0} /\ Known(e.stream)
      /\ c = [stream |-> e.stream, text |-> Append(TakenOf(t), t), last |-> e.seq, complete |-> FALSE]
      /\ Takes(t)
      /\ ShowToken(c)
      /\ e.seq # 1 => /\ chat.stream = e.stream /\ ~chat.complete
                      /\ chat.text = TakenOf(t) /\ chat.text # <<>>
      /\ e.seq = 1 => TakenOf(t) = <<>> /\ chat.stream # e.stream
  BY TakeToken
<1>2. /\ t.question \in Question /\ t.level \in 1..MaxLevels
      /\ TakenOf(t) \in Seq(Token) /\ TakenOf(t)' = Append(TakenOf(t), t)
  BY <1>1, TokenLevel, TakenType, TakenAfter
<1>3. c.text = Append(TakenOf(t), t) /\ c.stream = e.stream /\ c.complete = FALSE
  BY <1>1
<1> PICK h : h = TakenOf(t)
  OBVIOUS
<1>4. /\ Append(h, t) \in Seq(Token) /\ Len(Append(h, t)) = Len(h) + 1 /\ Len(h) \in Nat
      /\ \A i \in 1..Len(h) : Append(h, t)[i] = h[i]
      /\ Append(h, t)[Len(h) + 1] = t
  BY <1>1, <1>2, AppendProperties, LenProperties
<1>5. \A i \in 1..Len(h) : h[i].question = t.question /\ h[i].level = t.level
  <2>1. PICK q \in Question, l \in 1..MaxLevels : q = t.question /\ l = t.level
    BY <1>2
  <2>2. \A j \in 1..Len(taken[q][l]) : taken[q][l][j].question = q /\ taken[q][l][j].level = l
    BY DEF TextInv
  <2> QED
    BY <2>1, <2>2 DEF TakenOf
<1>6. c.text # <<>> /\ c.text[1].question = t.question /\ c.text[1].level = t.level
  <2>1. CASE Len(h) = 0
    BY <1>3, <1>4, <2>1, EmptySeq
  <2>2. CASE Len(h) # 0
    <3>1. 1 \in 1..Len(h)
      BY <1>4, <2>2
    <3> QED
      BY <1>3, <1>4, <1>5, <3>1, EmptySeq
  <2> QED
    BY <2>1, <2>2
<1>7. c.text \in Seq(Token \cup Notice) /\ e.stream \in Streams
  BY <1>1, <1>3, <1>4, SeqMonotonic DEF Known
<1>8. history \in Seq(Message)
  BY DEF HistoryInv
<1>9. ASSUME e.seq # 1  PROVE ToItsSlot(e, c, g)
  <2>1. PICK m \in 1..Len(history) : SlotsOf(chat.stream) = {m} /\ Spare(history[m].content)
    BY <1>1, <1>9 DEF HistoryInv
  <2>2. SlotsOf(c.stream) = {m}
    BY <1>1, <1>3, <1>9, <2>1
  <2>3. g = [history EXCEPT ![m].content = c.text]
    <3>1. m \in Nat /\ Min(SlotsOf(c.stream)) = m /\ SlotsOf(c.stream) # {}
      BY <1>8, <2>2, SequenceLength, MinOfOne
    <3> QED
      BY <1>1, <3>1 DEF ShowToken
  <2>4. ~history[m].complete /\ history[m].stream = c.stream
    BY <2>2 DEF SlotsOf
  <2>5. history[m].complete \in BOOLEAN
    <3>1. history[m] \in Message
      BY <1>8, SequenceLength
    <3> QED
      BY <3>1 DEF Message
  <2>6. Rewrites(g, history, m, c.text, c.stream, FALSE)
    <3>1. Rewrites(g, history, m, c.text, history[m].stream, history[m].complete)
      BY <1>7, <1>8, <2>3, ContentRewritten
    <3>2. history[m].complete = FALSE
      BY <2>4, <2>5
    <3> QED
      BY <2>4, <3>1, <3>2
  <2>7. SameLevel(chat.text[1], c.text[1])
    <3>1. chat.text = h /\ h # <<>>
      BY <1>1, <1>9
    <3>2. 1 \in 1..Len(h)
      BY <1>2, <1>4, <3>1, EmptySeq
    <3> QED
      BY <1>5, <1>6, <3>1, <3>2 DEF SameLevel
  <2>8. chat.stream = e.stream /\ ~chat.complete /\ chat.text = TakenOf(e.token) /\ chat.text # <<>>
    BY <1>1, <1>9
  <2> QED
    BY <1>9, <2>1, <2>2, <2>6, <2>7, <2>8 DEF ToItsSlot
<1>10. ASSUME e.seq = 1  PROVE ToTheEnd(e, c, g) \/ ToItsOwn(e, c, g)
  <2>0. 1 \in 1..Len(eventQueue)
    BY TakeQueue DEF QueueInv
  <2>1. SlotsOf(c.stream) = {}
    <3>1. \A m \in 1..Len(history) : history[m].stream # e.stream
      BY <1>10, <2>0 DEF HistoryInv
    <3> QED
      BY <1>3, <1>8, <3>1, SequenceLength DEF SlotsOf
  <2>2. ~FullAtEnd
    BY <1>10, <2>0 DEF SlotInv
  <2>3. CASE OpenAtEnd
    <3> PICK L : L = Len(history)
      OBVIOUS
    <3>1. Last(history).content = <<>> /\ history # <<>> /\ ~Last(history).complete
      BY <2>2, <2>3 DEF FullAtEnd, OpenAtEnd, LastIsAssistant
    <3>2. L \in 1..Len(history) /\ Last(history) = history[L] /\ history[L] \in Message
      BY <1>8, <3>1, LastElement
    <3>3. history[L].complete = FALSE
      BY <3>1, <3>2 DEF Message
    <3>0. PICK f : f = [history EXCEPT ![L].content = c.text]
      OBVIOUS
    <3>4. g = [f EXCEPT ![L].stream = c.stream]
      BY <1>1, <2>1, <2>3, <3>0 DEF ShowToken
    <3>5. Rewrites(f, history, L, c.text, history[L].stream, FALSE)
      <4>1. Rewrites(f, history, L, c.text, history[L].stream, history[L].complete)
        BY <1>7, <1>8, <3>0, <3>2, ContentRewritten
      <4> QED
        BY <3>3, <4>1
    <3>6. f \in Seq(Message) /\ L \in 1..Len(f) /\ f[L].content = c.text /\ f[L].complete = FALSE
      BY <3>2, <3>5 DEF Rewrites
    <3>7. Rewrites(g, f, L, c.text, c.stream, FALSE)
      <4>1. PICK s \in Streams : s = c.stream
        BY <1>3, <1>7
      <4>2. f \in Seq(Message) /\ L \in 1..Len(f) /\ g = [f EXCEPT ![L].stream = s]
        BY <3>4, <3>6, <4>1
      <4>3. Rewrites(g, f, L, f[L].content, s, f[L].complete)
        BY <4>2, StreamRewritten
      <4> QED
        BY <3>6, <4>1, <4>3
    <3>8. Rewrites(g, history, L, c.text, c.stream, FALSE)
      BY <3>2, <3>5, <3>7 DEF Rewrites
    <3> QED
      BY <1>10, <2>1, <2>3, <3>1, <3>8 DEF ToTheEnd
  <2>4. CASE ~OpenAtEnd
    <3> PICK w : w = [role |-> "assistant", of |-> NoQuestion, content |-> c.text,
                      stream |-> c.stream, complete |-> c.complete, info |-> FALSE]
      OBVIOUS
    <3>1. g = Append(history, w)
      BY <1>1, <2>1, <2>4 DEF ShowToken
    <3>2. w \in Message
      BY <1>3, <1>7 DEF Message
    <3>3. /\ Adds(g, history) /\ Len(g) = Len(history) + 1 /\ g # <<>> /\ g[Len(history) + 1] = w
      BY <1>8, <3>1, <3>2, AddsOne
    <3>4. g[Len(g)] = w
      BY <3>3
    <3>5. /\ g[Len(g)].role = "assistant" /\ g[Len(g)].content = c.text
          /\ g[Len(g)].stream = c.stream /\ g[Len(g)].complete = FALSE
      BY <1>3, <3>4
    <3> QED
      BY <1>10, <2>1, <2>4, <3>3, <3>5 DEF ToItsOwn
  <2> QED
    BY <2>3, <2>4
<1>11. c.text = Append(TakenOf(e.token), e.token) /\ c.text = TakenOf(e.token)'
  BY <1>2, <1>3
<1>12. c.text[1].question = e.token.question /\ c.text[1].level = e.token.level /\ c.text # <<>>
  BY <1>6
<1> QED
  BY <1>1, <1>3, <1>9, <1>10, <1>11, <1>12

\* The end of a stream is shown in the last message.
LEMMA ShowsEnd ==
  ASSUME QueueInv, HistoryInv, TakeItem,
         NEW e, e = eventQueue[1], IsEnd(e), NEW c, c = chat', NEW g, g = history'
  PROVE  /\ taken' = taken /\ c.text = chat.text /\ c.stream = e.stream /\ c.complete = TRUE
         /\ Known(e.stream)
         /\ \/ LastIsAssistant /\ history # <<>>
               /\ Rewrites(g, history, Len(history), c.text, Last(history).stream, TRUE)
            \/ ~LastIsAssistant /\ history' = history
<1>1. /\ taken' = taken
      /\ chat' = [stream |-> e.stream, text |-> chat.text, last |-> chat.last, complete |-> TRUE]
      /\ ShowComplete(c) /\ Known(e.stream)
  BY TakeOther DEF IsEnd, IsToken
<1>2. c.text = chat.text /\ c.stream = e.stream /\ c.complete = TRUE
  BY <1>1
<1>3. CASE LastIsAssistant
  <2> PICK L : L = Len(history)
    OBVIOUS
  <2>1. history \in Seq(Message) /\ history # <<>>
    BY <1>3 DEF HistoryInv, LastIsAssistant
  <2>2. L \in 1..Len(history) /\ Last(history) = history[L]
    BY <2>1, LastElement
  <2>3. c.text \in Seq(Token \cup Notice)
    <3>1. chat.text \in Seq(Token)
      BY DEF QueueInv, ChatState
    <3> QED
      BY <1>2, <3>1, SeqMonotonic
  <2>0. PICK f : f = [history EXCEPT ![L].content = c.text]
    OBVIOUS
  <2>4. g = [f EXCEPT ![L].complete = TRUE]
    BY <1>1, <1>3, <2>0 DEF ShowComplete
  <2>5. Rewrites(f, history, L, c.text, history[L].stream, history[L].complete)
    BY <2>0, <2>1, <2>2, <2>3, ContentRewritten
  <2>6. f \in Seq(Message) /\ L \in 1..Len(f) /\ f[L].content = c.text /\ f[L].stream = history[L].stream
    BY <2>2, <2>5 DEF Rewrites
  <2>7. Rewrites(g, f, L, c.text, history[L].stream, TRUE)
    <3>1. f \in Seq(Message) /\ L \in 1..Len(f)
      BY <2>6
    <3>2. Rewrites(g, f, L, f[L].content, f[L].stream, TRUE)
      BY <2>4, <3>1, EndRewritten
    <3> QED
      BY <2>6, <3>2
  <2>8. Rewrites(g, history, L, c.text, Last(history).stream, TRUE)
    BY <2>2, <2>5, <2>7 DEF Rewrites
  <2> QED
    BY <1>1, <1>2, <1>3, <2>1, <2>8
<1>4. CASE ~LastIsAssistant
  BY <1>1, <1>2, <1>4 DEF ShowComplete
<1> QED
  BY <1>3, <1>4

\* A status adds a final message; other events none.
LEMMA ShowsOther ==
  ASSUME QueueInv, HistoryInv, TakeItem,
         NEW e, e = eventQueue[1], ~IsText(e), NEW g, g = history'
  PROVE  /\ taken' = taken /\ chat' = chat
         /\ \/ g = history
            \/ /\ Adds(g, history) /\ Len(g) = Len(history) + 1 /\ g # <<>>
               /\ g[Len(g)].role = "assistant" /\ g[Len(g)].content = <<Clarification>>
               /\ g[Len(g)].stream = NoStream /\ g[Len(g)].complete = TRUE
<1>1. ~IsToken(e) /\ ~IsEnd(e)
  BY DEF IsText, IsToken, IsEnd
<1>2. taken' = taken /\ chat' = chat
  BY <1>1, TakeOther
<1>3. g = history \/ ShowStatus
  <2>1. Take(e)
    BY TakeQueue DEF QueueInv
  <2> QED
    BY <1>1, <2>1 DEF Take, IsToken, IsEnd
<1>4. ASSUME ShowStatus, g # history
      PROVE  /\ Adds(g, history) /\ Len(g) = Len(history) + 1 /\ g # <<>>
             /\ g[Len(g)].role = "assistant" /\ g[Len(g)].content = <<Clarification>>
             /\ g[Len(g)].stream = NoStream /\ g[Len(g)].complete = TRUE
  <2> PICK w : w = [role |-> "assistant", of |-> NoQuestion, content |-> <<Clarification>>,
                    stream |-> NoStream, complete |-> TRUE, info |-> TRUE]
    OBVIOUS
  <2>1. g = Append(history, w)
    BY <1>4 DEF ShowStatus
  <2>2. w \in Message
    <3>1. <<Clarification>> \in Seq(Token \cup Notice)
      BY DEF Notice
    <3> QED
      BY <3>1 DEF Message
  <2>3. history \in Seq(Message)
    BY DEF HistoryInv
  <2>4. /\ Adds(g, history) /\ Len(g) = Len(history) + 1 /\ g # <<>> /\ g[Len(history) + 1] = w
    BY <2>1, <2>2, <2>3, AddsOne
  <2> QED
    BY <2>4
<1> QED
  BY <1>2, <1>3, <1>4

\* The failure of a post stands in the slot at the end.
LEMMA ReportsFailure ==
  ASSUME HistoryInv, posting # NoQuestion, NEW g, g = ReportInSlot
  PROVE  Rewrites(g, history, Len(history), <<Failure>>, Last(history).stream, TRUE)
<1> PICK L : L = Len(history)
  OBVIOUS
<1>1. history \in Seq(Message) /\ history # <<>>
  BY DEF HistoryInv, LastIsAssistant
<1>2. L \in 1..Len(history) /\ Last(history) = history[L]
  BY <1>1, LastElement
<1>3. PICK x \in Seq(Token \cup Notice) : x = <<Failure>>
  <2>1. Failure \in Token \cup Notice
    BY DEF Notice
  <2>2. \A y \in Token \cup Notice : <<y>> \in Seq(Token \cup Notice)
    OBVIOUS
  <2> QED
    BY <2>1, <2>2
<1>4. PICK f : f = [history EXCEPT ![L].content = x]
  OBVIOUS
<1>5. g = [f EXCEPT ![L].complete = TRUE]
  BY <1>2, <1>3, <1>4 DEF ReportInSlot
<1>6. Rewrites(f, history, L, x, history[L].stream, history[L].complete)
  BY <1>1, <1>2, <1>4, ContentRewritten
<1>7. f \in Seq(Message) /\ L \in 1..Len(f) /\ f[L].content = x /\ f[L].stream = history[L].stream
  BY <1>2, <1>6 DEF Rewrites
<1>8. Rewrites(g, f, L, f[L].content, f[L].stream, TRUE)
  <2>1. f \in Seq(Message) /\ L \in 1..Len(f)
    BY <1>7
  <2> QED
    BY <1>5, <2>1, EndRewritten
<1> QED
  BY <1>2, <1>3, <1>6, <1>7, <1>8 DEF Rewrites

\* What the other steps do to the messages: a question and its slot are added, a
\* failure is written into the slot, or nothing.
LEMMA ShowsAside ==
  ASSUME QueueInv, HistoryInv, [Next]_vars, ~TakeItem, NEW g, g = history'
  PROVE  /\ taken' = taken /\ chat' = chat
         /\ \/ history' = history /\ UNCHANGED <<posting, asked, sidOf>>
            \/ /\ Adds(g, history) /\ Len(g) = Len(history) + 2 /\ g # <<>>
               /\ g[Len(history) + 1].stream = NoStream
               /\ g[Len(g)].role = "assistant" /\ g[Len(g)].content = <<>>
               /\ g[Len(g)].stream = NoStream
            \/ /\ posting # NoQuestion /\ posting' = NoQuestion /\ UNCHANGED <<asked, sidOf>>
               /\ \/ history' = history
                  \/ Rewrites(g, history, Len(history), <<Failure>>, Last(history).stream, TRUE)
<1>1. CASE BackendStep \/ Client \/ Open \/ UNCHANGED vars
  BY <1>1 DEF BackendStep, Client, FirstAttemptFails, Connect, Disconnect, AttemptFails, Open, vars,
              page, services, ghosts
<1>2. CASE Answers
  BY <1>2 DEF Answers, Teach, Clarify, Lose, SendToken, SendDone, page, ghosts
<1>3. ASSUME NEW q \in Question, NEW n \in 0..MaxFiles, Submit(q, n)
      PROVE  /\ taken' = taken /\ chat' = chat
             /\ Adds(g, history) /\ Len(g) = Len(history) + 2 /\ g # <<>>
             /\ g[Len(history) + 1].stream = NoStream
             /\ g[Len(g)].role = "assistant" /\ g[Len(g)].content = <<>>
             /\ g[Len(g)].stream = NoStream
  <2>1. PICK u, w : u = Said("user", q) /\ w = Said("assistant", q)
    OBVIOUS
  <2>2. g = history \o <<u, w>> /\ taken' = taken /\ chat' = chat
    BY <1>3, <2>1 DEF Submit
  <2>3. u \in Message /\ w \in Message
    <3>1. <<>> \in Seq(Token \cup Notice)
      OBVIOUS
    <3> QED
      BY <2>1, <3>1 DEF Said, Message
  <2>4. history \in Seq(Message)
    BY DEF HistoryInv
  <2>5. /\ Adds(g, history) /\ Len(g) = Len(history) + 2 /\ g # <<>>
        /\ g[Len(history) + 1] = u /\ g[Len(history) + 2] = w
    BY <2>2, <2>3, <2>4, AddsTwo
  <2>6. u.stream = NoStream /\ w.role = "assistant" /\ w.content = <<>> /\ w.stream = NoStream
    BY <2>1 DEF Said
  <2> QED
    BY <2>2, <2>5, <2>6
<1>4. CASE Reply
  <2>1. /\ taken' = taken /\ chat' = chat
        /\ posting # NoQuestion /\ posting' = NoQuestion /\ UNCHANGED <<asked, sidOf>>
        /\ g = history \/ g = ReportInSlot
    BY <1>4 DEF Reply, services, ghosts
  <2>2. ASSUME g = ReportInSlot
        PROVE  Rewrites(g, history, Len(history), <<Failure>>, Last(history).stream, TRUE)
    BY <2>1, <2>2, ReportsFailure
  <2> QED
    BY <2>1, <2>2
<1> QED
  BY <1>1, <1>2, <1>3, <1>4 DEF Next, Page

\* None of them leaves a full slot at the end that was not there.
LEMMA FullAside ==
  ASSUME QueueInv, HistoryInv, [Next]_vars, ~TakeItem, FullAtEnd'
  PROVE  FullAtEnd /\ Last(history)' = Last(history) /\ UNCHANGED <<asked, sidOf, chat>>
<1>0. PICK g : g = history'
  OBVIOUS
<1>1. g # <<>> /\ Last(g).role = "assistant" /\ ~Last(g).complete /\ Last(g).content # <<>>
  BY <1>0 DEF FullAtEnd, OpenAtEnd, LastIsAssistant
<1>2. /\ chat' = chat
      /\ \/ g = history /\ UNCHANGED <<asked, sidOf>>
         \/ g[Len(g)].content = <<>>
         \/ Rewrites(g, history, Len(history), <<Failure>>, Last(history).stream, TRUE)
  BY <1>0, ShowsAside
<1>3. g[Len(g)].content # <<>>
  BY <1>1 DEF Last
<1>4. ~Rewrites(g, history, Len(history), <<Failure>>, Last(history).stream, TRUE)
  <2> SUFFICES ASSUME Rewrites(g, history, Len(history), <<Failure>>, Last(history).stream, TRUE)
               PROVE  FALSE
    OBVIOUS
  <2>1. g[Len(g)].complete = TRUE
    BY DEF Rewrites
  <2> QED
    BY <1>1, <2>1 DEF Last
<1> QED
  BY <1>0, <1>1, <1>2, <1>3, <1>4 DEF FullAtEnd, OpenAtEnd, LastIsAssistant

\* What a taken item leaves of it.
LEMMA FullTake ==
  ASSUME QueueInv, FollowInv, TextInv, SlotInv, HistoryInv, TakeItem, FullAtEnd', NEW e, e = eventQueue[1]
  PROVE  /\ ~IsEnd(e)
         /\ ~IsText(e) => FullAtEnd /\ Last(history)' = Last(history) /\ chat' = chat
         /\ IsToken(e) => Last(history)'.stream = e.stream
<1>0. PICK g, c : g = history' /\ c = chat'
  OBVIOUS
<1>1. g # <<>> /\ Last(g).role = "assistant" /\ ~Last(g).complete /\ Last(g).content # <<>>
  BY <1>0 DEF FullAtEnd, OpenAtEnd, LastIsAssistant
<1>2. history \in Seq(Message)
  BY DEF HistoryInv
<1>3. ASSUME IsEnd(e)  PROVE FALSE
  <2>1. \/ Rewrites(g, history, Len(history), c.text, Last(history).stream, TRUE)
        \/ ~LastIsAssistant /\ g = history
    BY <1>0, <1>3, ShowsEnd
  <2>2. CASE Rewrites(g, history, Len(history), c.text, Last(history).stream, TRUE)
    <3>1. g[Len(g)].complete = TRUE
      BY <2>2 DEF Rewrites
    <3> QED
      BY <1>1, <3>1 DEF Last
  <2>3. CASE ~LastIsAssistant /\ g = history
    BY <1>1, <2>3 DEF LastIsAssistant
  <2> QED
    BY <2>1, <2>2, <2>3
<1>4. ASSUME ~IsText(e)  PROVE FullAtEnd /\ Last(history)' = Last(history) /\ chat' = chat
  <2>1. chat' = chat /\ (g = history \/ g[Len(g)].complete = TRUE)
    BY <1>0, <1>4, ShowsOther
  <2>2. g = history
    BY <1>1, <2>1 DEF Last
  <2> QED
    BY <1>0, <1>1, <2>1, <2>2 DEF FullAtEnd, OpenAtEnd, LastIsAssistant
<1>5. ASSUME IsToken(e)  PROVE Last(g).stream = e.stream
  <2>1. /\ c.stream = e.stream
        /\ \/ \E m \in 1..Len(history) : /\ chat.stream = e.stream /\ SlotsOf(c.stream) = {m}
                                         /\ Rewrites(g, history, m, c.text, c.stream, FALSE)
           \/ Rewrites(g, history, Len(history), c.text, c.stream, FALSE)
           \/ g[Len(g)].stream = c.stream
    <3>1. c.stream = e.stream /\ (ToItsSlot(e, c, g) \/ ToTheEnd(e, c, g) \/ ToItsOwn(e, c, g))
      BY <1>0, <1>5, ShowsToken
    <3> QED
      BY <3>1 DEF ToItsSlot, ToTheEnd, ToItsOwn
  <2>2. ASSUME NEW m \in 1..Len(history), chat.stream = e.stream,
               Rewrites(g, history, m, c.text, c.stream, FALSE)
        PROVE  Last(g).stream = e.stream
    <3>1. Len(g) = Len(history) /\ Len(history) \in Nat /\ Last(g) = g[Len(history)] /\ history # <<>>
      BY <1>2, <2>2, SequenceLength DEF Rewrites, Last
    <3>2. CASE m = Len(history)
      BY <2>1, <2>2, <3>1, <3>2 DEF Rewrites
    <3>3. CASE m # Len(history)
      <4>1. Len(history) \in 1..Len(history)
        BY <3>1, <2>2
      <4>2. g[Len(history)] = history[Len(history)]
        BY <2>2, <3>3, <4>1 DEF Rewrites
      <4>3. Last(g) = Last(history)
        BY <3>1, <4>2 DEF Last
      <4>4. FullAtEnd
        BY <1>1, <3>1, <4>3 DEF FullAtEnd, OpenAtEnd, LastIsAssistant
      <4> QED
        BY <2>2, <4>3, <4>4 DEF SlotInv
    <3> QED
      BY <3>2, <3>3
  <2>3. ASSUME Rewrites(g, history, Len(history), c.text, c.stream, FALSE)
        PROVE  Last(g).stream = e.stream
    <3>1. Len(g) = Len(history)
      BY <2>3 DEF Rewrites
    <3> QED
      BY <2>1, <2>3, <3>1 DEF Rewrites, Last
  <2>4. ASSUME g[Len(g)].stream = c.stream  PROVE Last(g).stream = e.stream
    BY <2>1, <2>4 DEF Last
  <2> QED
    BY <2>1, <2>2, <2>3, <2>4
<1>6. ASSUME IsToken(e)  PROVE Last(history)'.stream = e.stream
  BY <1>0, <1>5, <1>6 DEF Last
<1> QED
  BY <1>3, <1>4, <1>6 DEF IsText, IsEnd

\* The streams of a connection are numbered upwards.
LEMMA GenerationsGrow ==
  ASSUME SidInv, StreamInv, OwedInv, QueueInv, [Next]_vars
  PROVE  generations' \in [Sids -> Nat] /\ \A c \in Sids : generations[c] <= generations'[c]
<1>1. CASE SendToken /\ Arrives
  BY <1>1, TokenArrives
<1>2. CASE ~(SendToken /\ Arrives)
  <2>1. generations' = generations
    <3>1. CASE SendDone /\ Arrives
      BY <3>1, EndArrives
    <3>2. CASE ~(SendDone /\ Arrives)
      BY <1>2, <3>2, StreamsStay DEF streams
    <3> QED
      BY <3>1, <3>2
  <2> QED
    BY <2>1 DEF StreamInv
<1> QED
  BY <1>1, <1>2

LEMMA KnownNext ==
  ASSUME SidInv, StreamInv, OwedInv, QueueInv, [Next]_vars, NEW s, Known(s)
  PROVE  Known(s)'
BY GenerationsGrow, LastSidGrows, KnownStays

\* A first token that arrives comes after the end of every stream before it.
LEMMA OpensAfterEnd ==
  ASSUME SidInv, StreamInv, OwedInv, QueueInv, OpenInv, Arrives, activeStreams[sid] = 0
  PROVE  /\ \A i \in 1..Len(eventQueue) : IsToken(eventQueue[i]) => EndAfter(i)
         /\ /\ Known(chat.stream) /\ ~chat.complete
            /\ \A q \in asked : sidOf[q] <= chat.stream[1]
            => EndAfter(0)
<1>1. owed[1].question \in asked /\ sidOf[owed[1].question] = sid
  <2>1. 1 \in 1..Len(owed)
    BY EmptySeq, LenProperties DEF OwedInv, Arrives
  <2> QED
    BY <2>1, ArrivesWhere DEF OwedInv
<1>2. sid \in Nat /\ sid = lastSid /\ sid <= pageSid /\ pageSid \in Nat
  BY <1>1 DEF SidInv, OwedInv, QueueInv
<1>3. ASSUME NEW i \in 1..Len(eventQueue), IsToken(eventQueue[i])  PROVE EndAfter(i)
  <2> PICK e : e = eventQueue[i]
    OBVIOUS
  <2>1. Known(e.stream) /\ pageSid <= e.stream[1]
    BY <1>3 DEF QueueInv, HasSid, NumberOf, IsText, IsToken
  <2>2. e.stream[1] = sid
    BY <1>2, <2>1, KnownBefore
  <2> QED
    BY <1>3, <2>2 DEF OpenInv
<1>4. ASSUME Known(chat.stream), ~chat.complete, \A q \in asked : sidOf[q] <= chat.stream[1]
      PROVE  EndAfter(0)
  <2>1. sid <= chat.stream[1]
    BY <1>1, <1>4
  <2>2. chat.stream[1] = sid
    BY <1>2, <1>4, <2>1, KnownBefore
  <2> QED
    BY <1>4, <2>2 DEF OpenInv
<1> QED
  BY <1>3, <1>4

\* What a full slot at the end says of the streams, when no item is taken.
LEMMA FullStays ==
  ASSUME SidInv, StreamInv, OwedInv, QueueInv, HistoryInv, SlotInv, [Next]_vars, ~TakeItem, FullAtEnd'
  PROVE  /\ FullAtEnd
         /\ Last(history)'.stream = chat'.stream /\ ~chat'.complete /\ Known(chat.stream)'
         /\ \A q \in asked' : sidOf'[q] <= chat'.stream[1]
<1>1. FullAtEnd /\ Last(history)' = Last(history) /\ UNCHANGED <<asked, sidOf, chat>>
  BY FullAside
<1>2. /\ Last(history).stream = chat.stream /\ ~chat.complete /\ Known(chat.stream)
      /\ \A q \in asked : sidOf[q] <= chat.stream[1]
  BY <1>1 DEF SlotInv
<1>3. PICK s : s = chat.stream
  OBVIOUS
<1>4. Known(s)'
  BY <1>2, <1>3, KnownNext
<1>5. Known(chat.stream)'
  BY <1>1, <1>3, <1>4 DEF Known
<1> QED
  BY <1>1, <1>2, <1>5

LEMMA SlotInvAside ==
  ASSUME SidInv, StreamInv, OwedInv, QueueInv, HistoryInv, SlotInv, [Next]_vars, ~TakeItem,
         NEW r, r = eventQueue', Len(eventQueue) \in Nat, Len(r) \in Nat, Len(r) >= Len(eventQueue),
         \A k \in 1..Len(eventQueue) : r[k] = eventQueue[k],
         \A k \in (Len(eventQueue) + 1)..Len(r) : ~IsToken(r[k]) \/ r[k].seq # 1
  PROVE  SlotInv'
<1> DEFINE N == Len(eventQueue)
<1>1. ASSUME NEW j \in 1..Len(r), IsToken(r[j]), r[j].seq = 1
      PROVE  /\ j \in 1..N /\ \A k \in 1..j : r[k] = eventQueue[k]
  <2>1. j \notin (N + 1)..Len(r)
    BY <1>1
  <2>2. j \in 1..N
    BY <2>1
  <2> QED
    BY <2>2
<1>2. ASSUME NEW i \in 1..Len(r), NEW j \in 1..Len(r), i < j, IsToken(r[i]), IsToken(r[j]), r[j].seq = 1
      PROVE  \E k \in (i + 1)..(j - 1) : IsEnd(r[k])
  <2>1. j \in 1..N /\ \A k \in 1..j : r[k] = eventQueue[k]
    BY <1>1, <1>2
  <2>2. i \in 1..N /\ i \in 1..j /\ j \in 1..j
    BY <1>2, <2>1
  <2>3. \E k \in (i + 1)..(j - 1) : IsEnd(eventQueue[k])
    <3>1. IsToken(eventQueue[i]) /\ IsToken(eventQueue[j]) /\ eventQueue[j].seq = 1
      BY <1>2, <2>1, <2>2
    <3> QED
      BY <1>2, <2>1, <2>2, <3>1 DEF SlotInv
  <2>4. \A k \in (i + 1)..(j - 1) : k \in 1..j
    BY <2>2
  <2> QED
    BY <2>1, <2>3, <2>4
<1>3. ASSUME NEW i \in 1..Len(r), IsToken(r[i]), r[i].seq = 1, FullAtEnd'
      PROVE  \E k \in 1..(i - 1) : IsEnd(r[k])
  <2>1. i \in 1..N /\ \A k \in 1..i : r[k] = eventQueue[k]
    BY <1>1, <1>3
  <2>2. FullAtEnd
    BY <1>3, FullStays
  <2>3. \E k \in 1..(i - 1) : IsEnd(eventQueue[k])
    <3>1. i \in 1..i
      BY <2>1
    <3>2. IsToken(eventQueue[i]) /\ eventQueue[i].seq = 1
      BY <1>3, <2>1, <3>1
    <3> QED
      BY <2>1, <2>2, <3>2 DEF SlotInv
  <2>4. \A k \in 1..(i - 1) : k \in 1..i
    BY <2>1
  <2> QED
    BY <2>1, <2>3, <2>4
<1>4. FullAtEnd' => /\ Last(history)'.stream = chat'.stream /\ ~chat'.complete /\ Known(chat.stream)'
                    /\ \A q \in asked' : sidOf'[q] <= chat'.stream[1]
  BY FullStays
<1> QED
  BY <1>2, <1>3, <1>4 DEF SlotInv, IsToken, IsEnd

\* A first token is put at the end of the queue.
LEMMA SlotInvOpens ==
  ASSUME SidInv, StreamInv, OwedInv, QueueInv, HistoryInv, SlotInv, OpenInv, [Next]_vars, ~TakeItem,
         Arrives, activeStreams[sid] = 0,
         NEW r, r = eventQueue', Len(eventQueue) \in Nat, Len(r) = Len(eventQueue) + 1,
         \A k \in 1..Len(eventQueue) : r[k] = eventQueue[k]
  PROVE  SlotInv'
<1> DEFINE N == Len(eventQueue)
<1>0. N \in Nat /\ Len(r) = N + 1
  OBVIOUS
<1>1. ASSUME NEW i \in 0..N, EndAfter(i)
      PROVE  \E k \in (i + 1)..((N + 1) - 1) : IsEnd(r[k])
  <2>1. PICK k \in (i + 1)..N : IsEnd(eventQueue[k])
    BY <1>1 DEF EndAfter
  <2>2. k \in 1..N /\ (N + 1) - 1 = N
    BY <2>1
  <2> QED
    BY <2>1, <2>2
<1>2. ASSUME NEW i \in 1..Len(r), NEW j \in 1..Len(r), i < j, IsToken(r[i]), IsToken(r[j]), r[j].seq = 1
      PROVE  \E k \in (i + 1)..(j - 1) : IsEnd(r[k])
  <2>1. i \in 1..N /\ IsToken(eventQueue[i])
    BY <1>0, <1>2
  <2>2. CASE j = N + 1
    <3>1. EndAfter(i) /\ i \in 0..N
      BY <2>1, OpensAfterEnd
    <3> QED
      BY <1>1, <2>2, <3>1
  <2>3. CASE j # N + 1
    <3>1. j \in 1..N
      BY <1>0, <2>3
    <3>2. IsToken(eventQueue[j]) /\ eventQueue[j].seq = 1
      BY <1>2, <3>1
    <3>3. PICK k \in (i + 1)..(j - 1) : IsEnd(eventQueue[k])
      BY <1>2, <2>1, <3>1, <3>2 DEF SlotInv
    <3>4. k \in 1..N
      BY <2>1, <3>1, <3>3
    <3> QED
      BY <3>3, <3>4
  <2> QED
    BY <2>2, <2>3
<1>3. ASSUME NEW i \in 1..Len(r), IsToken(r[i]), r[i].seq = 1, FullAtEnd'
      PROVE  \E k \in 1..(i - 1) : IsEnd(r[k])
  <2>1. FullAtEnd
    BY <1>3, FullStays
  <2>2. CASE i = N + 1
    <3>1. EndAfter(0)
      BY <2>1, OpensAfterEnd DEF SlotInv
    <3>2. PICK z \in 0..N : z = 0
      BY <1>0
    <3>3. \E k \in (z + 1)..((N + 1) - 1) : IsEnd(r[k])
      BY <1>1, <3>1, <3>2
    <3> QED
      BY <2>2, <3>2, <3>3
  <2>3. CASE i # N + 1
    <3>1. i \in 1..N
      BY <1>0, <2>3
    <3>2. IsToken(eventQueue[i]) /\ eventQueue[i].seq = 1
      BY <1>3, <3>1
    <3>3. PICK k \in 1..(i - 1) : IsEnd(eventQueue[k])
      BY <2>1, <3>1, <3>2 DEF SlotInv
    <3>4. k \in 1..N
      BY <3>1, <3>3
    <3> QED
      BY <3>3, <3>4
  <2> QED
    BY <2>2, <2>3
<1>4. FullAtEnd' => /\ Last(history)'.stream = chat'.stream /\ ~chat'.complete /\ Known(chat.stream)'
                    /\ \A q \in asked' : sidOf'[q] <= chat'.stream[1]
  BY FullStays
<1> QED
  BY <1>2, <1>3, <1>4 DEF SlotInv, IsToken, IsEnd

LEMMA SlotInvTake ==
  ASSUME SidInv, StreamInv, OwedInv, QueueInv, FollowInv, TextInv, HistoryInv, SlotInv, [Next]_vars, TakeItem
  PROVE  SlotInv'
<1> PICK e, r, u : e = eventQueue[1] /\ r = eventQueue' /\ u = eventQueue
  OBVIOUS
<1>1. /\ Len(u) \in Nat \ {0} /\ Len(r) = Len(u) - 1 /\ 1 \in 1..Len(u) /\ e = u[1]
      /\ \A i \in 1..Len(r) : r[i] = u[i + 1] /\ i + 1 \in 1..Len(u)
      /\ UNCHANGED <<asked, sidOf, pageSid, lastSid, generations>> \/ ~IsText(e)
      /\ UNCHANGED <<asked, sidOf>>
  <2>1. /\ Len(u) \in Nat \ {0} /\ Len(r) = Len(u) - 1
        /\ \A i \in 1..Len(r) : r[i] = u[i + 1]
        /\ Take(e) /\ UNCHANGED <<client, streams, services>>
    BY TakeQueue DEF QueueInv
  <2>2. pageSid' = pageSid \/ ~IsText(e)
    BY <2>1 DEF Take, IsText
  <2> QED
    BY <2>1, <2>2 DEF client, streams, services
<1>2. ASSUME FullAtEnd'
      PROVE  /\ Last(history)'.stream = chat'.stream /\ ~chat'.complete /\ Known(chat.stream)'
             /\ \A q \in asked' : sidOf'[q] <= chat'.stream[1]
  <2>1. CASE IsToken(e)
    <3> PICK s, c : s = e.stream /\ c = chat'
      OBVIOUS
    <3>1. Last(history)'.stream = s
      BY <1>2, <2>1, FullTake
    <3>2. Known(s) /\ c = [stream |-> s, text |-> Append(TakenOf(e.token), e.token),
                           last |-> e.seq, complete |-> FALSE]
      BY <2>1, TakeToken
    <3>3. c.stream = s /\ ~c.complete
      BY <3>2
    <3>4. Known(s)'
      BY <3>2, KnownNext
    <3>5. pageSid <= s[1]
      BY <1>1, <2>1 DEF QueueInv, HasSid, NumberOf, IsText, IsToken
    <3>6. \A q \in asked : sidOf[q] <= s[1]
      <4> TAKE q \in asked
      <4>1. sidOf[q] \in 1..pageSid /\ pageSid \in Nat
        BY DEF OwedInv, QueueInv, SidInv
      <4>2. s[1] \in Nat
        BY <3>2, KnownBefore
      <4> QED
        BY <3>5, <4>1, <4>2
    <3> QED
      BY <1>1, <3>1, <3>3, <3>4, <3>6 DEF Known
  <2>2. CASE ~IsText(e)
    <3>1. FullAtEnd /\ Last(history)' = Last(history) /\ chat' = chat
      BY <1>2, <2>2, FullTake
    <3>2. /\ Last(history).stream = chat.stream /\ ~chat.complete /\ Known(chat.stream)
          /\ \A q \in asked : sidOf[q] <= chat.stream[1]
      BY <3>1 DEF SlotInv
    <3>3. PICK s : s = chat.stream
      OBVIOUS
    <3>4. Known(s)'
      BY <3>2, <3>3, KnownNext
    <3>5. Known(chat.stream)'
      BY <3>1, <3>3, <3>4 DEF Known
    <3> QED
      BY <1>1, <3>1, <3>2, <3>5
  <2> QED
    BY <1>2, <2>1, <2>2, FullTake DEF IsText, IsToken, IsEnd
<1>3. ASSUME NEW i \in 1..Len(r), NEW k \in (1 + 1)..((i + 1) - 1), IsEnd(u[k])
      PROVE  \E n \in 1..(i - 1) : IsEnd(r[n])
  <2>1. k - 1 \in 1..(i - 1) /\ k - 1 \in 1..Len(r) /\ (k - 1) + 1 = k
    BY <1>1
  <2> QED
    BY <1>1, <1>3, <2>1
<1>4. ASSUME NEW i \in 1..Len(r), NEW j \in 1..Len(r), i < j, IsToken(r[i]), IsToken(r[j]), r[j].seq = 1
      PROVE  \E k \in (i + 1)..(j - 1) : IsEnd(r[k])
  <2>1. /\ i + 1 \in 1..Len(u) /\ j + 1 \in 1..Len(u) /\ r[i] = u[i + 1] /\ r[j] = u[j + 1]
        /\ i + 1 < j + 1
    BY <1>1, <1>4
  <2>2. PICK k \in ((i + 1) + 1)..((j + 1) - 1) : IsEnd(u[k])
    BY <1>4, <2>1 DEF SlotInv
  <2>3. k - 1 \in (i + 1)..(j - 1) /\ k - 1 \in 1..Len(r) /\ (k - 1) + 1 = k
    BY <1>1, <1>4
  <2> QED
    BY <1>1, <2>2, <2>3
<1>5. ASSUME NEW i \in 1..Len(r), IsToken(r[i]), r[i].seq = 1, FullAtEnd'
      PROVE  \E k \in 1..(i - 1) : IsEnd(r[k])
  <2>1. i + 1 \in 1..Len(u) /\ r[i] = u[i + 1] /\ 1 < i + 1
    BY <1>1
  <2>2. CASE IsToken(e)
    <3>1. \E k \in (1 + 1)..((i + 1) - 1) : IsEnd(u[k])
      BY <1>1, <1>5, <2>1, <2>2 DEF SlotInv
    <3> QED
      BY <1>3, <3>1
  <2>3. CASE ~IsText(e)
    <3>1. FullAtEnd
      BY <1>5, <2>3, FullTake
    <3>2. PICK k \in 1..((i + 1) - 1) : IsEnd(u[k])
      BY <1>5, <2>1, <3>1 DEF SlotInv
    <3>3. k # 1
      BY <1>1, <2>3, <3>2 DEF IsText, IsEnd
    <3>4. k \in (1 + 1)..((i + 1) - 1)
      BY <3>2, <3>3
    <3> QED
      BY <1>3, <3>2, <3>4
  <2> QED
    BY <1>5, <2>2, <2>3, FullTake DEF IsText, IsToken, IsEnd
<1> QED
  BY <1>2, <1>4, <1>5 DEF SlotInv, IsToken, IsEnd

LEMMA SlotInvStep ==
  ASSUME SidInv, StreamInv, OwedInv, QueueInv, FollowInv, TextInv, OpenInv, HistoryInv, SlotInv, [Next]_vars
  PROVE  SlotInv'
<1> PICK r : r = eventQueue'
  OBVIOUS
<1>0. IsQueue(eventQueue) /\ Len(eventQueue) \in Nat
  BY QueueLen DEF QueueInv
<1>1. CASE TakeItem
  BY <1>1, SlotInvTake
<1>2. CASE Aside /\ ~TakeItem
  <2>1. Quiet
    BY <1>0, <1>2, QuietAside
  <2>2. /\ Len(r) \in Nat /\ Len(r) >= Len(eventQueue)
        /\ \A k \in 1..Len(eventQueue) : r[k] = eventQueue[k]
        /\ \A k \in (Len(eventQueue) + 1)..Len(r) : ~IsToken(r[k])
    BY <2>1 DEF Quiet, Grown, IsToken
  <2> QED
    BY <1>0, <1>2, <2>2, SlotInvAside
<1>3. CASE SendToken /\ Arrives /\ ~TakeItem
  <2>1. PICK gen \in Nat \ {0}, seq \in Nat \ {0}, token \in Token :
          /\ eventQueue' = Append(eventQueue, [kind |-> "token", stream |-> <<sid, gen>>,
                                               seq |-> seq, token |-> token])
          /\ activeStreams[sid] # 0 => seq = sequences[sid] + 1
    BY <1>3, TokenArrives
  <2> PICK e : e = [kind |-> "token", stream |-> <<sid, gen>>, seq |-> seq, token |-> token]
    OBVIOUS
  <2>2. /\ Len(r) = Len(eventQueue) + 1 /\ r[Len(eventQueue) + 1] = e
        /\ \A k \in 1..Len(eventQueue) : r[k] = eventQueue[k]
    BY <1>0, <2>1, AppendQueue
  <2>3. CASE activeStreams[sid] = 0
    BY <1>0, <1>3, <2>2, <2>3, SlotInvOpens
  <2>4. CASE activeStreams[sid] # 0
    <3>1. sequences[sid] # 0 /\ sequences[sid] \in Nat
      BY <1>3, <2>4, ArrivesWhere DEF StreamInv
    <3>2. e.seq # 1
      BY <2>1, <2>4, <3>1
    <3>3. \A k \in (Len(eventQueue) + 1)..Len(r) : r[k].seq # 1
      BY <1>0, <2>2, <3>2
    <3>4. Len(r) \in Nat /\ Len(r) >= Len(eventQueue)
      BY <1>0, <2>2
    <3> QED
      BY <1>0, <1>3, <2>2, <3>3, <3>4, SlotInvAside
  <2> QED
    BY <2>3, <2>4
<1>4. CASE SendDone /\ Arrives /\ ~TakeItem
  <2> PICK e : e = [kind |-> "complete", stream |-> <<sid, activeStreams[sid]>>]
    OBVIOUS
  <2>1. eventQueue' = Append(eventQueue, e) /\ ~IsToken(e)
    BY <1>4, EndArrives DEF IsToken
  <2>2. /\ Len(r) = Len(eventQueue) + 1 /\ r[Len(eventQueue) + 1] = e
        /\ \A k \in 1..Len(eventQueue) : r[k] = eventQueue[k]
    BY <1>0, <2>1, AppendQueue
  <2>3. \A k \in (Len(eventQueue) + 1)..Len(r) : ~IsToken(r[k])
    BY <1>0, <2>1, <2>2
  <2>4. Len(r) \in Nat /\ Len(r) >= Len(eventQueue)
    BY <1>0, <2>2
  <2> QED
    BY <1>0, <1>4, <2>2, <2>3, <2>4, SlotInvAside
<1> QED
  BY <1>1, <1>2, <1>3, <1>4, StepsAre

-----------------------------------------------------------------------------
(* What is spare at the end, and the slots.                                *)

SpareIn(c, text) ==
  \/ c = <<>>
  \/ c[1].question = NoQuestion
  \/ text # <<>> /\ SameLevel(c[1], text[1])

SlotsIn(h, s) == {i \in 1..Len(h) : h[i].role = "assistant" /\ ~h[i].complete /\ h[i].stream = s}

\* The invariant by its parts.
HistorySound(g, c, r) ==
  /\ g \in Seq(Message)
  /\ \A m \in 1..Len(g) : g[m].stream = NoStream \/ Known(g[m].stream)
  /\ g # <<>> /\ Last(g).role = "assistant" => SpareIn(Last(g).content, c.text)
  /\ ~c.complete /\ c.text # <<>> =>
       \E m \in 1..Len(g) : SlotsIn(g, c.stream) = {m} /\ SpareIn(g[m].content, c.text)
  /\ c.text # <<>> => Known(c.stream)
  /\ \A i \in 1..Len(r) : IsToken(r[i]) /\ r[i].seq = 1 =>
       \A m \in 1..Len(g) : g[m].stream # r[i].stream

AwaitsReply(g) == g # <<>> /\ Last(g).role = "assistant" /\ Last(g).content = <<>> /\ Last(g).stream = NoStream

LEMMA SlotsAre ==
  ASSUME history \in Seq(Message), NEW s
  PROVE  SlotsOf(s) = SlotsIn(history, s)
BY SequenceLength DEF SlotsOf, SlotsIn

LEMMA HistorySoundIs ==
  HistoryInv <=> HistorySound(history, chat, eventQueue) /\ (posting # NoQuestion => AwaitsReply(history))
BY SlotsAre DEF HistoryInv, HistorySound, AwaitsReply, LastIsAssistant, Spare, SpareIn

LEMMA HistorySoundNext ==
  ASSUME NEW g, g = history', NEW c, c = chat', NEW r, r = eventQueue', HistorySound(g, c, r)',
         posting' # NoQuestion => AwaitsReply(g)
  PROVE  HistoryInv'
<1>1. HistorySound(history, chat, eventQueue)'
  BY DEF HistorySound, Known
<1>2. (posting # NoQuestion => AwaitsReply(history))'
  BY DEF AwaitsReply
<1>3. (HistoryInv <=> HistorySound(history, chat, eventQueue)
                      /\ (posting # NoQuestion => AwaitsReply(history)))'
  BY HistorySoundIs, PTL
<1> QED
  BY <1>1, <1>2, <1>3

\* The slots of a stream that has nothing to do with what is rewritten or added.
LEMMA SlotsRewritten ==
  ASSUME NEW h \in Seq(Message), NEW m \in 1..Len(h), NEW g, Len(g) = Len(h), g[m].role = h[m].role,
         \A i \in 1..Len(h) : i # m => g[i] = h[i], NEW s
  PROVE  /\ \A i \in 1..Len(h) : i # m => (i \in SlotsIn(g, s) <=> i \in SlotsIn(h, s))
         /\ m \in SlotsIn(g, s) <=> h[m].role = "assistant" /\ ~g[m].complete /\ g[m].stream = s
         /\ SlotsIn(g, s) \subseteq 1..Len(h) /\ SlotsIn(h, s) \subseteq 1..Len(h)
BY DEF SlotsIn

LEMMA SlotsAdded ==
  ASSUME NEW h \in Seq(Message), NEW g, Adds(g, h), NEW s,
         \A i \in (Len(h) + 1)..Len(g) : g[i].stream # s
  PROVE  SlotsIn(g, s) = SlotsIn(h, s)
<1>1. Len(h) \in Nat /\ Len(g) \in Nat /\ Len(g) >= Len(h) /\ \A i \in 1..Len(h) : g[i] = h[i]
  BY SequenceLength DEF Adds
<1>2. \A i \in 1..Len(g) : i \in 1..Len(h) \/ i \in (Len(h) + 1)..Len(g)
  BY <1>1
<1> QED
  BY <1>1, <1>2 DEF SlotsIn

\* The new first token has a stream that no message has.
LEMMA NewStreamHasNoSlot ==
  ASSUME SidInv, StreamInv, OwedInv, QueueInv, SendToken, Arrives, NEW r, r = eventQueue', HistoryInv,
         r[Len(eventQueue) + 1].seq = 1
  PROVE  \A m \in 1..Len(history) : history[m].stream # r[Len(eventQueue) + 1].stream
<1>1. PICK gen \in Nat \ {0}, seq \in Nat \ {0}, token \in Token :
        /\ eventQueue' = Append(eventQueue, [kind |-> "token", stream |-> <<sid, gen>>,
                                             seq |-> seq, token |-> token])
        /\ activeStreams[sid] = 0 => gen = generations[sid] + 1 /\ seq = 1
        /\ activeStreams[sid] # 0 => gen = activeStreams[sid] /\ seq = sequences[sid] + 1
  BY TokenArrives
<1>2. sid \in Sids
  BY ArrivesWhere
<1> PICK e : e = [kind |-> "token", stream |-> <<sid, gen>>, seq |-> seq, token |-> token]
  OBVIOUS
<1>3. r[Len(eventQueue) + 1] = e
  BY <1>1, AppendQueue DEF QueueInv
<1>4. gen = generations[sid] + 1
  <2>1. seq = 1
    BY <1>3
  <2>2. activeStreams[sid] = 0
    BY <1>1, <1>2, <2>1 DEF StreamInv
  <2> QED
    BY <1>1, <2>2
<1>5. ASSUME NEW s, s = NoStream \/ Known(s)  PROVE s # <<sid, gen>>
  <2>1. generations[sid] \in Nat /\ sid # 0
    BY <1>2, StreamlitAssumption, BackendAssumption DEF StreamInv, Sids
  <2>2. CASE s = NoStream
    BY <2>1, <2>2 DEF NoStream
  <2>3. CASE Known(s)
    BY <1>4, <2>1, <2>3 DEF Known
  <2> QED
    BY <1>5, <2>2, <2>3
<1>6. e.stream = <<sid, gen>>
  OBVIOUS
<1>7. \A m \in 1..Len(history) : history[m].stream = NoStream \/ Known(history[m].stream)
  BY DEF HistoryInv
<1>8. \A m \in 1..Len(history) : history[m].stream # <<sid, gen>>
  BY <1>5, <1>7
<1> QED
  BY <1>3, <1>6, <1>8

\* A step that takes nothing leaves what is shown as it may be.
LEMMA HistoryInvAside ==
  ASSUME SidInv, StreamInv, OwedInv, QueueInv, HistoryInv, [Next]_vars, ~TakeItem
  PROVE  HistoryInv'
<1>0. PICK g, r, c : g = history' /\ r = eventQueue' /\ c = chat'
  OBVIOUS
<1> DEFINE h == history
           L == Len(h)
           N == Len(eventQueue)
<1>1. HistorySound(h, chat, eventQueue) /\ (posting # NoQuestion => AwaitsReply(h)) /\ c = chat
  BY <1>0, HistorySoundIs, ShowsAside
<1>2. h \in Seq(Message) /\ L \in Nat /\ N \in Nat /\ IsQueue(eventQueue)
  BY <1>1, SequenceLength, QueueLen DEF HistorySound, QueueInv
<1>3. \/ g = h /\ posting' = posting
      \/ g = h /\ posting' = NoQuestion
      \/ /\ Adds(g, h) /\ Len(g) = L + 2 /\ g # <<>>
         /\ g[L + 1].stream = NoStream
         /\ g[Len(g)].role = "assistant" /\ g[Len(g)].content = <<>>
         /\ g[Len(g)].stream = NoStream
      \/ /\ posting # NoQuestion /\ posting' = NoQuestion
         /\ Rewrites(g, h, L, <<Failure>>, Last(h).stream, TRUE)
  <2>1. \/ history' = history /\ UNCHANGED <<posting, asked, sidOf>>
        \/ /\ Adds(g, history) /\ Len(g) = Len(history) + 2 /\ g # <<>>
           /\ g[Len(history) + 1].stream = NoStream
           /\ g[Len(g)].role = "assistant" /\ g[Len(g)].content = <<>>
           /\ g[Len(g)].stream = NoStream
        \/ /\ posting # NoQuestion /\ posting' = NoQuestion
           /\ \/ history' = history
              \/ Rewrites(g, history, Len(history), <<Failure>>, Last(history).stream, TRUE)
    BY <1>0, ShowsAside
  <2> QED
    BY <1>0, <2>1
<1> HIDE DEF h, L, N
<1>4. /\ g \in Seq(Message)
      /\ \A m \in 1..Len(g) : g[m].stream = NoStream \/ \E n \in 1..L : g[m].stream = h[n].stream
      /\ g # <<>> /\ Last(g).role = "assistant" => SpareIn(Last(g).content, chat.text)
      /\ ~chat.complete /\ chat.text # <<>> =>
           \E m \in 1..Len(g) : SlotsIn(g, chat.stream) = {m} /\ SpareIn(g[m].content, chat.text)
      /\ posting' # NoQuestion => AwaitsReply(g)
  <2>0. chat.text # <<>> => chat.stream # NoStream
    BY <1>1, KnownBefore DEF HistorySound
  <2>1. CASE g = h /\ (posting' = posting \/ posting' = NoQuestion)
    BY <1>1, <2>1 DEF HistorySound, L
  <2>2. CASE /\ Adds(g, h) /\ Len(g) = L + 2 /\ g # <<>>
             /\ g[L + 1].stream = NoStream
             /\ g[Len(g)].role = "assistant" /\ g[Len(g)].content = <<>>
             /\ g[Len(g)].stream = NoStream
    <3>1. g \in Seq(Message) /\ \A i \in 1..L : g[i] = h[i]
      BY <2>2 DEF Adds, L
    <3>2. \A m \in 1..Len(g) : m \in 1..L \/ m = L + 1 \/ m = L + 2
      BY <1>2, <2>2
    <3>3. \A m \in 1..Len(g) : g[m].stream = NoStream \/ \E n \in 1..L : g[m].stream = h[n].stream
      BY <2>2, <3>1, <3>2
    <3>4. SpareIn(Last(g).content, chat.text) /\ AwaitsReply(g)
      BY <2>2 DEF Last, SpareIn, AwaitsReply
    <3>5. ASSUME ~chat.complete, chat.text # <<>>
          PROVE  \E m \in 1..Len(g) : SlotsIn(g, chat.stream) = {m} /\ SpareIn(g[m].content, chat.text)
      <4>1. PICK m \in 1..L : SlotsIn(h, chat.stream) = {m} /\ SpareIn(h[m].content, chat.text)
        BY <1>1, <3>5 DEF HistorySound, L
      <4>2. \A i \in (L + 1)..Len(g) : g[i].stream # chat.stream
        BY <1>2, <2>0, <2>2, <3>5
      <4>3. SlotsIn(g, chat.stream) = SlotsIn(h, chat.stream)
        BY <1>2, <2>2, <4>2, SlotsAdded DEF L
      <4>4. m \in 1..Len(g) /\ g[m] = h[m]
        BY <1>2, <2>2, <3>1
      <4> QED
        BY <4>1, <4>3, <4>4
    <3> QED
      BY <3>1, <3>3, <3>4, <3>5
  <2>3. CASE /\ posting # NoQuestion /\ posting' = NoQuestion
             /\ Rewrites(g, h, L, <<Failure>>, Last(h).stream, TRUE)
    <3>1. AwaitsReply(h) /\ Last(h).stream = NoStream /\ h # <<>>
      BY <1>1, <2>3 DEF AwaitsReply
    <3>2. L \in 1..L /\ Last(h) = h[L] /\ L = Len(h)
      BY <1>2, <3>1, LastElement DEF L
    <3>3. /\ g \in Seq(Message) /\ Len(g) = L /\ \A i \in 1..L : i # L => g[i] = h[i]
          /\ g[L].content = <<Failure>> /\ g[L].stream = NoStream
      BY <2>3, <3>1, <3>2 DEF Rewrites
    <3>4. \A m \in 1..Len(g) : g[m].stream = NoStream \/ \E n \in 1..L : g[m].stream = h[n].stream
      BY <3>3
    <3>5. SpareIn(Last(g).content, chat.text)
      BY <3>2, <3>3 DEF Last, SpareIn, Failure
    <3>6. ASSUME ~chat.complete, chat.text # <<>>
          PROVE  \E m \in 1..Len(g) : SlotsIn(g, chat.stream) = {m} /\ SpareIn(g[m].content, chat.text)
      <4>1. PICK m \in 1..L : SlotsIn(h, chat.stream) = {m} /\ SpareIn(h[m].content, chat.text)
        BY <1>1, <3>6 DEF HistorySound, L
      <4>2. chat.stream # NoStream
        BY <2>0, <3>6
      <4>3. L \notin SlotsIn(h, chat.stream)
        BY <3>1, <3>2, <4>2 DEF SlotsIn
      <4>4. /\ \A i \in 1..L : i # L => (i \in SlotsIn(g, chat.stream) <=> i \in SlotsIn(h, chat.stream))
            /\ L \notin SlotsIn(g, chat.stream)
            /\ SlotsIn(g, chat.stream) \subseteq 1..L
        BY <3>2, <3>3, <4>2 DEF SlotsIn
      <4>5. SlotsIn(g, chat.stream) = {m} /\ m # L
        BY <4>1, <4>3, <4>4
      <4>6. m \in 1..Len(g) /\ g[m] = h[m]
        BY <3>3, <4>5
      <4> QED
        BY <4>1, <4>5, <4>6
    <3> QED
      BY <2>3, <3>3, <3>4, <3>5, <3>6
  <2> QED
    BY <1>3, <2>1, <2>2, <2>3
<1>5. ASSUME NEW m \in 1..Len(g)  PROVE g[m].stream = NoStream \/ Known(g[m].stream)'
  <2>1. CASE g[m].stream = NoStream
    BY <2>1
  <2>2. ASSUME NEW n \in 1..L, g[m].stream = h[n].stream, g[m].stream # NoStream
        PROVE  Known(g[m].stream)'
    <3>1. PICK s : s = h[n].stream
      OBVIOUS
    <3>2. Known(s)
      BY <1>1, <2>2, <3>1 DEF HistorySound, L
    <3>3. Known(s)'
      BY <3>2, KnownNext
    <3> QED
      BY <2>2, <3>1, <3>3
  <2> QED
    BY <1>4, <2>1, <2>2
<1>6. c.text # <<>> => Known(c.stream)'
  <2> SUFFICES ASSUME c.text # <<>>  PROVE Known(c.stream)'
    OBVIOUS
  <2>1. Known(c.stream)
    BY <1>1 DEF HistorySound
  <2> QED
    BY <2>1, KnownNext
<1>7. ASSUME NEW i \in 1..Len(r), IsToken(r[i]), r[i].seq = 1, NEW m \in 1..Len(g)
      PROVE  g[m].stream # r[i].stream
  <2>1. ASSUME i \in 1..N, r[i] = eventQueue[i]  PROVE g[m].stream # r[i].stream
    <3>1. \A n \in 1..L : h[n].stream # r[i].stream
      BY <1>1, <1>7, <2>1 DEF HistorySound, N, L
    <3>2. r[i].stream # NoStream
      <4>1. Known(r[i].stream)
        BY <1>7, <2>1 DEF QueueInv, IsToken, IsText, N
      <4> QED
        BY <4>1, KnownBefore
    <3> QED
      BY <1>4, <3>1, <3>2
  <2>2. CASE Aside
    <3>1. /\ Len(r) \in Nat /\ Len(r) >= N
          /\ \A k \in 1..N : r[k] = eventQueue[k]
          /\ \A k \in (N + 1)..Len(r) : ~IsToken(r[k])
      BY <1>0, <1>2, <2>2, QuietAside DEF Quiet, Grown, IsToken, N
    <3>2. i \in 1..N
      BY <1>2, <1>7, <3>1
    <3> QED
      BY <2>1, <3>1, <3>2
  <2>3. ASSUME NEW e, eventQueue' = Append(eventQueue, e)
        PROVE  (i \in 1..N /\ r[i] = eventQueue[i]) \/ (i = N + 1 /\ r[i] = e)
    <3>1. Len(r) = N + 1 /\ r[N + 1] = e /\ \A k \in 1..N : r[k] = eventQueue[k]
      BY <1>0, <1>2, <2>3, AppendQueue DEF N
    <3> QED
      BY <1>2, <3>1
  <2>4. CASE SendDone /\ Arrives
    <3> PICK e : e = [kind |-> "complete", stream |-> <<sid, activeStreams[sid]>>]
      OBVIOUS
    <3>1. eventQueue' = Append(eventQueue, e) /\ ~IsToken(e)
      BY <2>4, EndArrives DEF IsToken
    <3> QED
      BY <1>7, <2>1, <2>3, <3>1
  <2>5. CASE SendToken /\ Arrives
    <3>1. PICK e : eventQueue' = Append(eventQueue, e) /\ e.stream[2] # 0
      <4>1. PICK gen \in Nat \ {0}, seq \in Nat \ {0}, token \in Token :
              eventQueue' = Append(eventQueue, [kind |-> "token", stream |-> <<sid, gen>>,
                                                seq |-> seq, token |-> token])
        BY <2>5, TokenArrives
      <4> PICK e : e = [kind |-> "token", stream |-> <<sid, gen>>, seq |-> seq, token |-> token]
        OBVIOUS
      <4>2. e.stream = <<sid, gen>>
        OBVIOUS
      <4>3. e.stream[2] # 0
        BY <4>2
      <4> QED
        BY <4>1, <4>3
    <3>2. CASE i = N + 1 /\ r[i] = e
      <4>1. \A n \in 1..L : h[n].stream # r[i].stream
        BY <1>0, <1>7, <2>5, <3>2, NewStreamHasNoSlot DEF h, L, N
      <4>2. r[i].stream # NoStream
        BY <3>1, <3>2 DEF NoStream
      <4> QED
        BY <1>4, <4>1, <4>2
    <3> QED
      BY <2>1, <2>3, <3>1, <3>2
  <2> QED
    BY <2>2, <2>4, <2>5, StepsAre
<1>8. HistorySound(g, c, r)'
  BY <1>1, <1>4, <1>5, <1>6, <1>7 DEF HistorySound
<1> QED
  BY <1>0, <1>4, <1>8, HistorySoundNext

\* What the messages are after an item was taken.
LEMMA TakenMessages ==
  ASSUME SidInv, QueueInv, FollowInv, TextInv, SlotInv, HistoryInv, TakeItem,
         NEW e, e = eventQueue[1], NEW c, c = chat', NEW g, g = history', NEW h, h = history
  PROVE  /\ g \in Seq(Message)
         /\ \A m \in 1..Len(g) : \/ g[m].stream = NoStream
                                 \/ IsToken(e) /\ g[m].stream = e.stream
                                 \/ \E n \in 1..Len(h) : g[m].stream = h[n].stream
         /\ g # <<>> /\ Last(g).role = "assistant" => SpareIn(Last(g).content, c.text)
         /\ ~c.complete /\ c.text # <<>> =>
              \E m \in 1..Len(g) : SlotsIn(g, c.stream) = {m} /\ SpareIn(g[m].content, c.text)
         /\ c.text # <<>> => Known(c.stream)
<1>1. HistorySound(h, chat, eventQueue) /\ h \in Seq(Message) /\ Len(h) \in Nat
      /\ \A s \in Streams : SlotsOf(s) = SlotsIn(h, s)
  BY HistorySoundIs, SequenceLength, SlotsAre DEF HistorySound
<1>2. CASE IsToken(e)
  <2>1. /\ c.text = Append(TakenOf(e.token), e.token)
        /\ c.stream = e.stream /\ ~c.complete /\ Known(e.stream) /\ c.text # <<>>
        /\ \/ /\ chat.stream = e.stream /\ chat.text # <<>> /\ SameLevel(chat.text[1], c.text[1])
              /\ \E m \in 1..Len(history) :
                   /\ SlotsOf(c.stream) = {m}
                   /\ Rewrites(g, history, m, c.text, c.stream, FALSE)
           \/ /\ SlotsOf(c.stream) = {} /\ OpenAtEnd
              /\ Rewrites(g, history, Len(history), c.text, c.stream, FALSE)
           \/ /\ SlotsOf(c.stream) = {}
              /\ Adds(g, history) /\ Len(g) = Len(history) + 1 /\ g # <<>>
              /\ g[Len(g)].role = "assistant" /\ g[Len(g)].content = c.text
              /\ g[Len(g)].stream = c.stream /\ g[Len(g)].complete = FALSE
    <3>1. /\ c.text = Append(TakenOf(e.token), e.token)
          /\ c.stream = e.stream /\ ~c.complete /\ Known(e.stream) /\ c.text # <<>>
      BY <1>2, ShowsToken
    <3>2. ToItsSlot(e, c, g) \/ ToTheEnd(e, c, g) \/ ToItsOwn(e, c, g)
      BY <1>2, ShowsToken
    <3> QED
      BY <3>1, <3>2 DEF ToItsSlot, ToTheEnd, ToItsOwn
  <2>2. SpareIn(c.text, c.text) /\ SlotsOf(c.stream) = SlotsIn(h, c.stream)
    BY <1>1, <2>1 DEF SpareIn, SameLevel, Known
  <2>3. ASSUME NEW m \in 1..Len(h), SlotsIn(h, c.stream) = {m}, chat.text # <<>>,
               SameLevel(chat.text[1], c.text[1]), Rewrites(g, h, m, c.text, c.stream, FALSE)
        PROVE  /\ g \in Seq(Message)
               /\ \A i \in 1..Len(g) : g[i].stream = e.stream \/ \E n \in 1..Len(h) : g[i].stream = h[n].stream
               /\ g # <<>> /\ Last(g).role = "assistant" => SpareIn(Last(g).content, c.text)
               /\ \E i \in 1..Len(g) : SlotsIn(g, c.stream) = {i} /\ SpareIn(g[i].content, c.text)
    <3>1. /\ g \in Seq(Message) /\ Len(g) = Len(h) /\ \A i \in 1..Len(h) : i # m => g[i] = h[i]
          /\ g[m].content = c.text /\ g[m].stream = c.stream /\ g[m].complete = FALSE
      BY <2>3 DEF Rewrites
    <3>2. SlotsIn(g, c.stream) = {m}
      <4>1. h[m].role = "assistant"
        BY <2>3 DEF SlotsIn
      <4>2. /\ \A i \in 1..Len(h) : i # m => (i \in SlotsIn(g, c.stream) <=> i \in SlotsIn(h, c.stream))
            /\ m \in SlotsIn(g, c.stream) <=> h[m].role = "assistant" /\ ~g[m].complete /\ g[m].stream = c.stream
            /\ SlotsIn(g, c.stream) \subseteq 1..Len(h)
        BY <1>1, <2>3, SlotsRewritten DEF Rewrites
      <4> QED
        BY <2>3, <3>1, <4>1, <4>2
    <3>3. ASSUME g # <<>>, Last(g).role = "assistant"  PROVE SpareIn(Last(g).content, c.text)
      <4>1. CASE m = Len(h)
        BY <2>2, <3>1, <4>1 DEF Last
      <4>2. CASE m # Len(h)
        <5>1. Len(h) \in 1..Len(h)
          BY <1>1, <2>3
        <5>2. Last(g) = Last(h) /\ h # <<>>
          BY <1>1, <3>1, <4>2, <5>1, EmptySeq DEF Last
        <5>3. SpareIn(Last(h).content, chat.text)
          BY <1>1, <3>3, <5>2 DEF HistorySound
        <5> QED
          BY <2>1, <2>3, <5>2, <5>3 DEF SpareIn, SameLevel
      <4> QED
        BY <4>1, <4>2
    <3>4. \A i \in 1..Len(g) : g[i].stream = e.stream \/ \E n \in 1..Len(h) : g[i].stream = h[n].stream
      BY <2>1, <3>1
    <3> QED
      BY <2>2, <3>1, <3>2, <3>3, <3>4
  <2>4. ASSUME SlotsIn(h, c.stream) = {}, OpenAtEnd, Rewrites(g, h, Len(h), c.text, c.stream, FALSE)
        PROVE  /\ g \in Seq(Message)
               /\ \A i \in 1..Len(g) : g[i].stream = e.stream \/ \E n \in 1..Len(h) : g[i].stream = h[n].stream
               /\ SpareIn(Last(g).content, c.text)
               /\ \E i \in 1..Len(g) : SlotsIn(g, c.stream) = {i} /\ SpareIn(g[i].content, c.text)
    <3>1. h # <<>> /\ Last(h).role = "assistant"
      BY <2>4 DEF OpenAtEnd, LastIsAssistant
    <3> PICK m : m = Len(h)
      OBVIOUS
    <3>2. m \in 1..Len(h) /\ h[m].role = "assistant"
      BY <1>1, <3>1, LastElement
    <3>3. /\ g \in Seq(Message) /\ Len(g) = Len(h) /\ \A i \in 1..Len(h) : i # m => g[i] = h[i]
          /\ g[m].content = c.text /\ g[m].stream = c.stream /\ g[m].complete = FALSE
      BY <2>4 DEF Rewrites
    <3>4. SlotsIn(g, c.stream) = {m}
      <4>1. /\ \A i \in 1..Len(h) : i # m => (i \in SlotsIn(g, c.stream) <=> i \in SlotsIn(h, c.stream))
            /\ m \in SlotsIn(g, c.stream) <=> h[m].role = "assistant" /\ ~g[m].complete /\ g[m].stream = c.stream
            /\ SlotsIn(g, c.stream) \subseteq 1..Len(h)
        BY <1>1, <2>4, <3>2, SlotsRewritten DEF Rewrites
      <4> QED
        BY <2>4, <3>2, <3>3, <4>1
    <3>5. \A i \in 1..Len(g) : g[i].stream = e.stream \/ \E n \in 1..Len(h) : g[i].stream = h[n].stream
      BY <2>1, <3>3
    <3> QED
      BY <2>2, <3>2, <3>3, <3>4, <3>5 DEF Last
  <2>5. ASSUME SlotsIn(h, c.stream) = {}, Adds(g, h), Len(g) = Len(h) + 1,
               g[Len(g)].role = "assistant", g[Len(g)].content = c.text,
               g[Len(g)].stream = c.stream, g[Len(g)].complete = FALSE
        PROVE  /\ g \in Seq(Message)
               /\ \A i \in 1..Len(g) : g[i].stream = e.stream \/ \E n \in 1..Len(h) : g[i].stream = h[n].stream
               /\ SpareIn(Last(g).content, c.text)
               /\ \E i \in 1..Len(g) : SlotsIn(g, c.stream) = {i} /\ SpareIn(g[i].content, c.text)
    <3>1. g \in Seq(Message) /\ \A i \in 1..Len(h) : g[i] = h[i]
      BY <2>5 DEF Adds
    <3>2. Len(g) \in 1..Len(g) /\ \A i \in 1..Len(g) : i = Len(g) \/ i \in 1..Len(h)
      BY <1>1, <2>5
    <3>3. SlotsIn(g, c.stream) = {Len(g)}
      BY <2>5, <3>1, <3>2 DEF SlotsIn
    <3>4. \A i \in 1..Len(g) : g[i].stream = e.stream \/ \E n \in 1..Len(h) : g[i].stream = h[n].stream
      BY <2>1, <2>5, <3>1, <3>2
    <3> QED
      BY <2>2, <2>5, <3>1, <3>2, <3>3, <3>4 DEF Last
  <2> QED
    BY <1>2, <2>1, <2>2, <2>3, <2>4, <2>5
<1>3. CASE IsEnd(e)
  <2>1. /\ c.text = chat.text /\ c.stream = e.stream /\ c.complete = TRUE /\ Known(e.stream)
        /\ \/ LastIsAssistant /\ history # <<>>
              /\ Rewrites(g, history, Len(history), c.text, Last(history).stream, TRUE)
           \/ ~LastIsAssistant /\ history' = history
    BY <1>3, ShowsEnd
  <2>2. CASE ~LastIsAssistant /\ g = h
    BY <1>1, <2>1, <2>2 DEF LastIsAssistant
  <2>3. CASE h # <<>> /\ Rewrites(g, h, Len(h), c.text, Last(h).stream, TRUE)
    <3>1. Len(h) \in 1..Len(h) /\ Last(h) = h[Len(h)]
      BY <1>1, <2>3, LastElement
    <3>2. /\ g \in Seq(Message) /\ Len(g) = Len(h) /\ \A i \in 1..Len(h) : i # Len(h) => g[i] = h[i]
          /\ g[Len(h)].content = c.text /\ g[Len(h)].stream = h[Len(h)].stream
      BY <2>3, <3>1 DEF Rewrites
    <3>3. \A i \in 1..Len(g) : \E n \in 1..Len(h) : g[i].stream = h[n].stream
      BY <3>1, <3>2
    <3>4. SpareIn(Last(g).content, c.text)
      BY <3>2 DEF Last, SpareIn, SameLevel
    <3> QED
      BY <2>1, <3>2, <3>3, <3>4
  <2> QED
    BY <2>1, <2>2, <2>3
<1>4. CASE ~IsText(e)
  <2>1. /\ chat' = chat
        /\ \/ g = history
           \/ /\ Adds(g, history) /\ Len(g) = Len(history) + 1 /\ g # <<>>
              /\ g[Len(g)].role = "assistant" /\ g[Len(g)].content = <<Clarification>>
              /\ g[Len(g)].stream = NoStream /\ g[Len(g)].complete = TRUE
    BY <1>4, ShowsOther
  <2>2. CASE g = h
    BY <1>1, <2>1, <2>2 DEF HistorySound
  <2>3. CASE /\ Adds(g, h) /\ Len(g) = Len(h) + 1 /\ g # <<>>
             /\ g[Len(g)].role = "assistant" /\ g[Len(g)].content = <<Clarification>>
             /\ g[Len(g)].stream = NoStream /\ g[Len(g)].complete = TRUE
    <3>1. g \in Seq(Message) /\ \A i \in 1..Len(h) : g[i] = h[i]
      BY <2>3 DEF Adds
    <3>2. \A i \in 1..Len(g) : i = Len(g) \/ i \in 1..Len(h)
      BY <1>1, <2>3
    <3>3. \A m \in 1..Len(g) : g[m].stream = NoStream \/ \E n \in 1..Len(h) : g[m].stream = h[n].stream
      BY <2>3, <3>1, <3>2
    <3>4. SpareIn(Last(g).content, c.text)
      BY <2>3 DEF Last, SpareIn, Clarification
    <3>5. ASSUME ~c.complete, c.text # <<>>
          PROVE  \E m \in 1..Len(g) : SlotsIn(g, c.stream) = {m} /\ SpareIn(g[m].content, c.text)
      <4>1. PICK m \in 1..Len(h) : SlotsIn(h, c.stream) = {m} /\ SpareIn(h[m].content, c.text)
        BY <1>1, <2>1, <3>5 DEF HistorySound
      <4>2. c.stream # NoStream
        BY <1>1, <2>1, <3>5, KnownBefore DEF HistorySound
      <4>3. \A i \in (Len(h) + 1)..Len(g) : g[i].stream # c.stream
        BY <1>1, <2>3, <4>2
      <4>4. SlotsIn(g, c.stream) = SlotsIn(h, c.stream)
        <5>1. h \in Seq(Message) /\ Adds(g, h)
          BY <1>1, <2>3
        <5> PICK s : s = c.stream
          OBVIOUS
        <5>2. SlotsIn(g, s) = SlotsIn(h, s)
          BY <4>3, <5>1, SlotsAdded
        <5> QED
          BY <5>2
      <4>5. m \in 1..Len(g) /\ g[m] = h[m]
        BY <1>1, <2>3, <3>1
      <4> QED
        BY <4>1, <4>4, <4>5
    <3> QED
      BY <1>1, <2>1, <3>1, <3>3, <3>4, <3>5 DEF HistorySound
  <2> QED
    BY <2>1, <2>2, <2>3
<1> QED
  BY <1>2, <1>3, <1>4 DEF IsText, IsToken, IsEnd

LEMMA HistoryInvTake ==
  ASSUME SidInv, StreamInv, OwedInv, QueueInv, FollowInv, TextInv, SlotInv, HistoryInv, [Next]_vars, TakeItem
  PROVE  HistoryInv'
<1>0. PICK g, r, c, e, h, u : /\ g = history' /\ r = eventQueue' /\ c = chat' /\ e = eventQueue[1]
                              /\ h = history /\ u = eventQueue
  OBVIOUS
<1>1. /\ g \in Seq(Message)
      /\ \A m \in 1..Len(g) : \/ g[m].stream = NoStream
                              \/ IsToken(e) /\ g[m].stream = e.stream
                              \/ \E n \in 1..Len(h) : g[m].stream = h[n].stream
      /\ g # <<>> /\ Last(g).role = "assistant" => SpareIn(Last(g).content, c.text)
      /\ ~c.complete /\ c.text # <<>> =>
           \E m \in 1..Len(g) : SlotsIn(g, c.stream) = {m} /\ SpareIn(g[m].content, c.text)
      /\ c.text # <<>> => Known(c.stream)
  BY <1>0, TakenMessages
<1>2. HistorySound(h, chat, u)
  BY <1>0, HistorySoundIs
<1>3. ASSUME NEW s, Known(s)  PROVE Known(s)'
  BY <1>3, KnownNext
<1>4. IsToken(e) => Known(e.stream)
  BY <1>0, TakeToken
<1>5. \A m \in 1..Len(g) : g[m].stream = NoStream \/ Known(g[m].stream)'
  <2>1. \A n \in 1..Len(h) : h[n].stream = NoStream \/ Known(h[n].stream)
    BY <1>2 DEF HistorySound
  <2>2. \A m \in 1..Len(g) : g[m].stream = NoStream \/ Known(g[m].stream)
    BY <1>1, <1>4, <2>1
  <2> QED
    BY <1>3, <2>2
<1>6. c.text # <<>> => Known(c.stream)'
  BY <1>1, <1>3
<1>7. ASSUME NEW i \in 1..Len(r), IsToken(r[i]), r[i].seq = 1, NEW m \in 1..Len(g)
      PROVE  g[m].stream # r[i].stream
  <2>1. /\ Len(u) \in Nat \ {0} /\ Len(r) = Len(u) - 1 /\ r[i] = u[i + 1] /\ i + 1 \in 1..Len(u)
    <3>1. /\ Len(u) \in Nat \ {0} /\ Len(r) = Len(u) - 1 /\ \A k \in 1..Len(r) : r[k] = u[k + 1]
      BY <1>0, TakeQueue DEF QueueInv
    <3> QED
      BY <3>1
  <2> PICK s : s = r[i].stream
    OBVIOUS
  <2>2. s # NoStream
    <3>1. Known(s)
      BY <1>0, <1>7, <2>1 DEF QueueInv, IsToken, IsText
    <3> QED
      BY <3>1, KnownBefore
  <2>3. \A n \in 1..Len(h) : h[n].stream # s
    BY <1>2, <1>7, <2>1 DEF HistorySound
  <2>4. IsToken(e) => e.stream # s
    <3>1. Starts(r[i].token, s, i + 1)
      BY <1>0, <1>7, <2>1 DEF FollowInv, Follows
    <3>2. 1 \in 1..((i + 1) - 1)
      BY <2>1
    <3> QED
      BY <1>0, <3>1, <3>2 DEF Starts, IsText, IsToken
  <2> QED
    BY <1>1, <2>2, <2>3, <2>4
<1>8. HistorySound(g, c, r)'
  BY <1>1, <1>5, <1>6, <1>7 DEF HistorySound
<1>9. posting' = NoQuestion
  BY DEF TakeItem
<1> QED
  BY <1>0, <1>8, <1>9, HistorySoundNext

LEMMA HistoryInvStep ==
  ASSUME SidInv, StreamInv, OwedInv, QueueInv, FollowInv, TextInv, SlotInv, HistoryInv, [Next]_vars
  PROVE  HistoryInv'
BY HistoryInvAside, HistoryInvTake

\* What a text begins with names its level.
LEMMA TakenBegins ==
  ASSUME TextInv, NEW q \in Question, NEW l \in 1..MaxLevels, taken[q][l] # <<>>
  PROVE  taken[q][l][1].question = q /\ taken[q][l][1].level = l
<1>1. taken \in [Question -> [1..MaxLevels -> Seq(Token)]]
  BY DEF TextInv
<1>2. taken[q] \in [1..MaxLevels -> Seq(Token)]
  BY <1>1
<1>3. taken[q][l] \in Seq(Token)
  BY <1>2
<1>4. 1 \in 1..Len(taken[q][l])
  BY <1>3, SequenceLength
<1> QED
  BY <1>4 DEF TextInv

\* A text that is spare is that of the level being shown.
LEMMA SpareIsShown ==
  ASSUME TextInv, NEW q \in Question, NEW l \in 1..MaxLevels, taken[q][l] # <<>>, Spare(taken[q][l])
  PROVE  chat.text # <<>> /\ chat.text[1].question = q /\ chat.text[1].level = l /\ chat.text = taken[q][l]
<1>1. taken[q][l][1].question = q /\ taken[q][l][1].level = l
  BY TakenBegins
<1>2. q # NoQuestion
  BY StreamlitAssumption
<1>3. chat.text # <<>> /\ chat.text[1].question = q /\ chat.text[1].level = l
  BY <1>1, <1>2 DEF Spare, SameLevel
<1>4. PICK p \in Question, n \in 1..MaxLevels : chat.text = taken[p][n]
  BY <1>3 DEF TextInv
<1>5. p = q /\ n = l
  BY <1>3, <1>4, TakenBegins
<1> QED
  BY <1>3, <1>4, <1>5

LEMMA NothingLostAside ==
  ASSUME QueueInv, HistoryInv, NothingLost, [Next]_vars, ~TakeItem
  PROVE  NothingLost'
<1>0. PICK g, h : g = history' /\ h = history
  OBVIOUS
<1>1. taken' = taken
  BY ShowsAside
<1>2. h \in Seq(Message) /\ DOMAIN h = 1..Len(h)
  BY <1>0, SequenceLength DEF HistoryInv
<1>3. \/ g = h
      \/ Adds(g, h)
      \/ posting # NoQuestion /\ Rewrites(g, h, Len(h), <<Failure>>, Last(h).stream, TRUE)
  <2>1. \/ history' = history
        \/ Adds(g, history)
        \/ posting # NoQuestion /\ Rewrites(g, history, Len(history), <<Failure>>, Last(history).stream, TRUE)
    BY <1>0, ShowsAside
  <2> QED
    BY <1>0, <2>1
<1>4. ASSUME NEW i \in 1..Len(h), h[i].content # <<>>
      PROVE  i \in 1..Len(g) /\ g[i] = h[i] /\ g \in Seq(Message)
  <2>1. CASE g = h
    BY <1>2, <1>4, <2>1
  <2>2. CASE Adds(g, h)
    BY <1>2, <1>4, <2>2, SequenceLength DEF Adds
  <2>3. CASE posting # NoQuestion /\ Rewrites(g, h, Len(h), <<Failure>>, Last(h).stream, TRUE)
    <3>1. Last(h).content = <<>>
      BY <1>0, <2>3 DEF HistoryInv
    <3>2. i # Len(h)
      BY <1>4, <3>1 DEF Last
    <3> QED
      BY <1>4, <2>3, <3>2 DEF Rewrites
  <2> QED
    BY <1>3, <2>1, <2>2, <2>3
<1>5. ASSUME NEW q \in Question, NEW l \in 1..MaxLevels, taken[q][l] # <<>>
      PROVE  \E i \in DOMAIN g : g[i].content = taken[q][l]
  <2>1. PICK i \in DOMAIN h : h[i].content = taken[q][l]
    BY <1>0, <1>5 DEF NothingLost
  <2>2. i \in 1..Len(g) /\ g[i] = h[i] /\ g \in Seq(Message)
    BY <1>2, <1>4, <1>5, <2>1
  <2> QED
    BY <2>1, <2>2, SequenceLength
<1> QED
  BY <1>0, <1>1, <1>5 DEF NothingLost

LEMMA NothingLostTake ==
  ASSUME SidInv, QueueInv, FollowInv, TextInv, SlotInv, HistoryInv, NothingLost, TakeItem
  PROVE  NothingLost'
<1>0. PICK g, h, c, e : g = history' /\ h = history /\ c = chat' /\ e = eventQueue[1]
  OBVIOUS
<1>1. h \in Seq(Message) /\ DOMAIN h = 1..Len(h)
  BY <1>0, SequenceLength DEF HistoryInv
<1>2. ASSUME NEW q \in Question, NEW l \in 1..MaxLevels, taken[q][l] # <<>>
      PROVE  \E i \in 1..Len(h) : h[i].content = taken[q][l]
  BY <1>0, <1>1, <1>2 DEF NothingLost
<1>3. ASSUME IsToken(e), NEW q \in Question, NEW l \in 1..MaxLevels, taken'[q][l] # <<>>
      PROVE  \E i \in DOMAIN g : g[i].content = taken'[q][l]
  <2>1. /\ c.text = TakenOf(e.token)'
        /\ c.text[1].question = e.token.question /\ c.text[1].level = e.token.level
        /\ \/ /\ SameLevel(chat.text[1], c.text[1])
              /\ \E m \in 1..Len(history) :
                   /\ Spare(history[m].content)
                   /\ Rewrites(g, history, m, c.text, c.stream, FALSE)
           \/ /\ OpenAtEnd /\ Last(history).content = <<>>
              /\ Rewrites(g, history, Len(history), c.text, c.stream, FALSE)
           \/ /\ Adds(g, history) /\ Len(g) = Len(history) + 1
              /\ g[Len(g)].content = c.text
    BY <1>0, <1>3, ShowsToken DEF ToItsSlot, ToTheEnd, ToItsOwn
  <2>2. PICK m \in 1..Len(g) : /\ g \in Seq(Message) /\ g[m].content = c.text
                               /\ \A i \in 1..Len(h) : i # m => i \in 1..Len(g) /\ g[i] = h[i]
                               /\ \/ m \in 1..Len(h) /\ Spare(h[m].content) /\ SameLevel(chat.text[1], c.text[1])
                                  \/ m \in 1..Len(h) /\ h[m].content = <<>>
                                  \/ m = Len(h) + 1
    <3>1. CASE /\ SameLevel(chat.text[1], c.text[1])
               /\ \E m \in 1..Len(history) :
                    /\ Spare(history[m].content)
                    /\ Rewrites(g, history, m, c.text, c.stream, FALSE)
      <4>1. PICK m \in 1..Len(h) : Spare(h[m].content) /\ Rewrites(g, h, m, c.text, c.stream, FALSE)
        BY <1>0, <3>1
      <4>2. /\ m \in 1..Len(g) /\ g \in Seq(Message) /\ g[m].content = c.text
            /\ \A i \in 1..Len(h) : i # m => i \in 1..Len(g) /\ g[i] = h[i]
        BY <4>1 DEF Rewrites
      <4> QED
        BY <3>1, <4>1, <4>2
    <3>2. CASE /\ OpenAtEnd /\ Last(history).content = <<>>
               /\ Rewrites(g, history, Len(history), c.text, c.stream, FALSE)
      <4>1. h # <<>> /\ Last(h).content = <<>> /\ Rewrites(g, h, Len(h), c.text, c.stream, FALSE)
        BY <1>0, <3>2 DEF OpenAtEnd, LastIsAssistant
      <4> PICK m : m = Len(h)
        OBVIOUS
      <4>2. m \in 1..Len(h) /\ h[m].content = <<>>
        BY <1>1, <4>1, LastElement
      <4>3. /\ m \in 1..Len(g) /\ g \in Seq(Message) /\ g[m].content = c.text
            /\ \A i \in 1..Len(h) : i # m => i \in 1..Len(g) /\ g[i] = h[i]
        BY <4>1, <4>2 DEF Rewrites
      <4> QED
        BY <4>2, <4>3
    <3>3. CASE /\ Adds(g, history) /\ Len(g) = Len(history) + 1
               /\ g[Len(g)].content = c.text
      <4>1. /\ g \in Seq(Message) /\ Len(g) = Len(h) + 1 /\ Len(h) \in Nat
            /\ \A i \in 1..Len(h) : g[i] = h[i]
        BY <1>0, <1>1, <3>3, SequenceLength DEF Adds
      <4> PICK m : m = Len(h) + 1
        OBVIOUS
      <4>2. /\ m \in 1..Len(g) /\ g[m].content = c.text
            /\ \A i \in 1..Len(h) : i \in 1..Len(g)
        BY <3>3, <4>1
      <4> QED
        BY <4>1, <4>2
    <3> QED
      BY <2>1, <3>1, <3>2, <3>3
  <2>3. CASE q = e.token.question /\ l = e.token.level
    <3>1. c.text = taken'[q][l]
      BY <2>1, <2>3 DEF TakenOf
    <3> QED
      BY <2>2, <3>1, SequenceLength
  <2>4. CASE q # e.token.question \/ l # e.token.level
    <3>1. taken'[q][l] = taken[q][l]
      <4>1. PICK t : t = e.token
        OBVIOUS
      <4>2. t \in Token /\ Takes(t)
        BY <1>0, <1>3, <4>1, TakeToken
      <4> QED
        BY <2>4, <4>1, <4>2, TakenAfter
    <3>2. PICK i \in 1..Len(h) : h[i].content = taken[q][l]
      BY <1>2, <1>3, <3>1
    <3>3. i # m
      <4>1. ASSUME i = m, Spare(h[m].content), SameLevel(chat.text[1], c.text[1])  PROVE FALSE
        <5>1. Spare(taken[q][l])
          BY <3>2, <4>1
        <5>2. chat.text[1].question = q /\ chat.text[1].level = l
          BY <1>3, <3>1, <5>1, SpareIsShown
        <5> QED
          BY <2>1, <2>4, <4>1, <5>2 DEF SameLevel
      <4>2. ASSUME i = m, h[m].content = <<>>  PROVE FALSE
        BY <1>3, <3>1, <3>2, <4>2
      <4>3. ASSUME i = m, m = Len(h) + 1  PROVE FALSE
        BY <1>1, <3>2, <4>3, SequenceLength
      <4> QED
        BY <2>2, <4>1, <4>2, <4>3
    <3> QED
      BY <2>2, <3>1, <3>2, <3>3, SequenceLength
  <2> QED
    BY <2>3, <2>4
<1>4. ASSUME IsEnd(e), NEW q \in Question, NEW l \in 1..MaxLevels, taken'[q][l] # <<>>
      PROVE  \E i \in DOMAIN g : g[i].content = taken'[q][l]
  <2>1. /\ taken' = taken /\ c.text = chat.text
        /\ \/ LastIsAssistant /\ history # <<>>
              /\ Rewrites(g, history, Len(history), c.text, Last(history).stream, TRUE)
           \/ ~LastIsAssistant /\ history' = history
    BY <1>0, <1>4, ShowsEnd
  <2>2. PICK i \in 1..Len(h) : h[i].content = taken[q][l]
    BY <1>2, <1>4, <2>1
  <2>3. CASE history' = history
    BY <1>0, <1>1, <2>1, <2>2, <2>3
  <2>4. CASE LastIsAssistant /\ history # <<>>
             /\ Rewrites(g, history, Len(history), c.text, Last(history).stream, TRUE)
    <3>1. /\ g \in Seq(Message) /\ Len(g) = Len(h) /\ \A k \in 1..Len(h) : k # Len(h) => g[k] = h[k]
          /\ g[Len(h)].content = c.text
      BY <1>0, <2>4 DEF Rewrites
    <3>2. DOMAIN g = 1..Len(h)
      <4>1. g \in Seq(Message) /\ Len(g) = Len(h)
        BY <3>1
      <4>2. DOMAIN g = 1..Len(g)
        BY <4>1, SequenceLength
      <4> QED
        BY <4>1, <4>2
    <3>3. CASE i # Len(h)
      <4>1. g[i] = h[i]
        BY <3>1, <3>3
      <4>2. g[i].content = taken'[q][l]
        BY <2>1, <2>2, <4>1
      <4> QED
        BY <3>2, <4>2
    <3>4. CASE i = Len(h)
      <4>1. Spare(taken[q][l])
        <5>1. Spare(Last(history).content)
          BY <2>4 DEF HistoryInv
        <5> QED
          BY <1>0, <2>2, <3>4, <5>1 DEF Last
      <4>2. chat.text = taken[q][l]
        BY <1>4, <2>1, <4>1, SpareIsShown
      <4> QED
        BY <2>1, <2>2, <3>1, <3>2, <3>4, <4>2
    <3> QED
      BY <3>3, <3>4
  <2> QED
    BY <2>1, <2>3, <2>4
<1>5. ASSUME ~IsText(e), NEW q \in Question, NEW l \in 1..MaxLevels, taken'[q][l] # <<>>
      PROVE  \E i \in DOMAIN g : g[i].content = taken'[q][l]
  <2>1. taken' = taken /\ (g = history \/ Adds(g, history))
    BY <1>0, <1>5, ShowsOther
  <2>2. PICK i \in 1..Len(h) : h[i].content = taken[q][l]
    BY <1>2, <1>5, <2>1
  <2>3. CASE g = history
    BY <1>0, <1>1, <2>1, <2>2, <2>3
  <2>4. CASE Adds(g, history)
    <3>1. g \in Seq(Message) /\ i \in 1..Len(g) /\ g[i] = h[i]
      BY <1>0, <1>1, <2>2, <2>4, SequenceLength DEF Adds
    <3> QED
      BY <2>1, <2>2, <3>1, SequenceLength
  <2> QED
    BY <2>1, <2>3, <2>4
<1>6. \A q \in Question, l \in 1..MaxLevels :
        taken'[q][l] # <<>> => \E i \in DOMAIN g : g[i].content = taken'[q][l]
  BY <1>3, <1>4, <1>5 DEF IsText, IsToken, IsEnd
<1> QED
  BY <1>0, <1>6 DEF NothingLost

\* The invariant of the delivery, as a whole.
DeliveryInv ==
  /\ UploadInv /\ SidInv /\ StreamInv /\ OwedInv /\ QueueInv /\ FollowInv /\ TextInv
  /\ FreshInv /\ RouteInv /\ OpenInv /\ SlotInv /\ HistoryInv /\ NothingLost

LEMMA DeliveryInvInit == Init => DeliveryInv
<1> SUFFICES ASSUME Init  PROVE DeliveryInv
  OBVIOUS
<1>1. eventQueue = <<>> /\ IsQueue(eventQueue) /\ Len(eventQueue) = 0 /\ owed = <<>> /\ Len(owed) = 0
      /\ history = <<>> /\ Len(history) = 0 /\ DOMAIN history = {}
  BY EmptySeq DEF Init, IsQueue
<1>2. chat = [stream |-> NoStream, text |-> <<>>, last |-> 0, complete |-> FALSE]
  BY DEF Init, NewChat
<1>3. <<>> \in Seq(Token) /\ <<>> \in Seq(Message) /\ <<>> \in Seq(Level)
  BY EmptySeq
<1>4. UploadInv
  BY DEF Init, BackendInit, UploadInv, AcceptedIsWhole
<1>5. SidInv
  BY StreamlitAssumption, BackendAssumption DEF Init, BackendInit, SidInv
<1>6. StreamInv
  BY DEF Init, StreamInv
<1>7. OwedInv
  BY <1>1, <1>3 DEF Init, BackendInit, OwedInv
<1>8. QueueInv
  <2>1. chat \in ChatState /\ chat.stream = NoStream
    BY <1>2, <1>3 DEF ChatState
  <2> QED
    BY <1>1, <2>1 DEF Init, QueueInv
<1>9. FollowInv
  BY <1>1 DEF FollowInv
<1>10. \A q \in Question, l \in 1..MaxLevels : taken[q][l] = <<>>
  BY DEF Init
<1>11. TextInv
  <2>1. taken \in [Question -> [1..MaxLevels -> Seq(Token)]]
    BY <1>3 DEF Init
  <2> QED
    BY <1>2, <1>10, <2>1, EmptySeq DEF TextInv
<1>12. FreshInv
  BY <1>1, <1>10 DEF FreshInv, Fresh, TakenOf
<1>13. RouteInv
  BY DEF Init, BackendInit, RouteInv
<1>14. OpenInv
  BY <1>1, <1>2 DEF OpenInv, Known, NoStream, Streams, Sids
<1>15. SlotInv
  BY <1>1 DEF SlotInv, FullAtEnd, OpenAtEnd, LastIsAssistant
<1>16. HistoryInv
  BY <1>1, <1>2, <1>3 DEF Init, HistoryInv, LastIsAssistant
<1>17. NothingLost
  BY <1>10 DEF NothingLost
<1> QED
  BY <1>4, <1>5, <1>6, <1>7, <1>8, <1>9, <1>11, <1>12, <1>13, <1>14, <1>15, <1>16, <1>17 DEF DeliveryInv

LEMMA DeliveryInvStep ==
  ASSUME DeliveryInv, [Next]_vars
  PROVE  DeliveryInv'
<1>0. /\ UploadInv /\ SidInv /\ StreamInv /\ OwedInv /\ QueueInv /\ FollowInv /\ TextInv
      /\ FreshInv /\ RouteInv /\ OpenInv /\ SlotInv /\ HistoryInv /\ NothingLost /\ IsQueue(eventQueue)
  BY DEF DeliveryInv, QueueInv
<1>1. UploadInv'
  BY <1>0, UploadInvStep
<1>2. SidInv' /\ StreamInv' /\ OwedInv'
  BY <1>0, SidInvStep, StreamInvStep, OwedInvStep
<1>3. QueueInv' /\ TextInv' /\ FreshInv'
  BY <1>0, QueueInvStep, TextInvStep, FreshInvStep
<1>4. RouteInv'
  BY <1>0, <1>2, RouteInvStep
<1>5. FollowInv'
  BY <1>0, FollowInvStep
<1>6. OpenInv'
  BY <1>0, <1>2, OpenInvStep
<1>7. SlotInv' /\ HistoryInv'
  BY <1>0, SlotInvStep, HistoryInvStep
<1>8. NothingLost'
  BY <1>0, NothingLostAside, NothingLostTake
<1> QED
  BY <1>1, <1>2, <1>3, <1>4, <1>5, <1>6, <1>7, <1>8 DEF DeliveryInv

\* Every token the page has taken stands in some message, with the others of its
\* level and in their order (socketio_client.py:180-253, state.py:65-128,
\* router.py:129-213), whatever arrives between: streams, statuses, failed posts,
\* new connections.
THEOREM NothingLostAlways == Spec => []NothingLost
<1>1. Init => DeliveryInv
  BY DeliveryInvInit
<1>2. DeliveryInv /\ [Next]_vars => DeliveryInv'
  BY DeliveryInvStep
<1>3. DeliveryInv => NothingLost
  BY DEF DeliveryInv
<1> QED
  BY <1>1, <1>2, <1>3, PTL DEF Spec

-----------------------------------------------------------------------------
(* The answer of a question.                                               *)

Level1(q)  == [question |-> q, level |-> 1]
OwedOf(t)  == \E i \in 1..Len(owed) : SameLevel(owed[i], t)

\* Only the level under way has begun, and unless it is broken something of it is here.
BegunInv ==
  /\ \A i \in 2..Len(owed) : owed[i].sent = 0
  /\ owed # <<>> /\ owed[1].sent > 0 /\ owed[1].question \notin broken => ~Fresh(owed[1])

\* Unless it is broken, the first level of a question is owed before the others and
\* comes before them.
FirstInv ==
  /\ \A i \in 1..Len(owed) : owed[i].level # 1 /\ owed[i].question \notin broken =>
       \/ ~Fresh(Level1(owed[i].question))
       \/ \E h \in 1..(i - 1) : SameLevel(owed[h], Level1(owed[i].question))
  /\ \A k \in 1..Len(eventQueue) :
       IsToken(eventQueue[k]) /\ eventQueue[k].token.level # 1 /\ eventQueue[k].token.question \notin broken =>
         \/ taken[eventQueue[k].token.question][1] # <<>>
         \/ \E j \in 1..(k - 1) : /\ IsToken(eventQueue[j])
                                  /\ SameLevel(eventQueue[j].token, Level1(eventQueue[k].token.question))

\* A level that is no longer owed has ended behind its tokens, unless it is broken, and
\* what has ended is no longer owed.
DoneInv ==
  /\ \A j \in 1..Len(eventQueue) :
       IsToken(eventQueue[j]) /\ eventQueue[j].token.question \notin broken =>
         OwedOf(eventQueue[j].token) \/ EndAfter(j)
  /\ \A k \in 1..Len(eventQueue) : IsEnd(eventQueue[k]) =>
       /\ \A j \in 1..(k - 1) : IsToken(eventQueue[j]) => ~OwedOf(eventQueue[j].token)
       /\ chat.text # <<>> => ~OwedOf(chat.text[1])

\* What a step other than taking puts into the queue.
IsNew(e) ==
  \/ e.kind \in {"state", "connected"}
  \/ e.kind = "status" /\ \E q \in Question : Clarify(q)
  \/ IsToken(e) /\ e.token \in Token /\ SameLevel(e.token, owed[1]) /\ SendToken /\ Arrives
  \/ IsEnd(e) /\ SendDone /\ Arrives

LEMMA QueueKept ==
  ASSUME SidInv, StreamInv, OwedInv, QueueInv, [Next]_vars, ~TakeItem, NEW r, r = eventQueue'
  PROVE  /\ Len(eventQueue) \in Nat /\ Len(r) \in Nat /\ Len(r) >= Len(eventQueue)
         /\ \A k \in 1..Len(eventQueue) : r[k] = eventQueue[k]
         /\ \A k \in (Len(eventQueue) + 1)..Len(r) : IsNew(r[k])
         /\ UNCHANGED <<chat, taken>>
         /\ SendToken /\ Arrives => Len(r) = Len(eventQueue) + 1 /\ IsToken(r[Len(r)])
         /\ SendDone /\ Arrives  => Len(r) = Len(eventQueue) + 1 /\ IsEnd(r[Len(r)])
<1>0. IsQueue(eventQueue) /\ Len(eventQueue) \in Nat
  BY QueueLen DEF QueueInv
<1>1. ASSUME NEW e, r = Append(eventQueue, e), IsNew(e)
      PROVE  /\ Len(r) = Len(eventQueue) + 1 /\ r[Len(r)] = e
             /\ \A k \in 1..Len(eventQueue) : r[k] = eventQueue[k]
             /\ \A k \in (Len(eventQueue) + 1)..Len(r) : IsNew(r[k])
  <2>1. /\ Len(r) = Len(eventQueue) + 1 /\ r[Len(eventQueue) + 1] = e
        /\ \A k \in 1..Len(eventQueue) : r[k] = eventQueue[k]
    BY <1>0, <1>1, AppendQueue
  <2>2. ASSUME NEW k \in (Len(eventQueue) + 1)..Len(r)  PROVE r[k] = e
    BY <1>0, <2>1
  <2> QED
    BY <1>1, <2>1, <2>2
<1>2. CASE SendToken /\ Arrives
  <2>1. PICK gen \in Nat \ {0}, seq \in Nat \ {0}, token \in Token :
          /\ eventQueue' = Append(eventQueue, [kind |-> "token", stream |-> <<sid, gen>>,
                                               seq |-> seq, token |-> token])
          /\ SameLevel(token, owed[1])
    BY <1>2, TokenArrives
  <2> PICK e : e = [kind |-> "token", stream |-> <<sid, gen>>, seq |-> seq, token |-> token]
    OBVIOUS
  <2>2. IsToken(e) /\ e.token = token
    BY DEF IsToken
  <2>3. IsNew(e)
    BY <1>2, <2>1, <2>2 DEF IsNew
  <2>4. UNCHANGED <<chat, taken>> /\ ~SendDone
    <3>1. Len(owed') = Len(owed) /\ Len(owed) \in Nat
      BY <1>2, OwedAfterToken
    <3>2. SendDone => Len(owed') = Len(owed) - 1
      BY OwedAfterDone
    <3>3. ~SendDone
      BY <3>1, <3>2
    <3>4. UNCHANGED <<chat, taken>>
      BY <1>2 DEF SendToken, page
    <3> QED
      BY <3>3, <3>4
  <2>5. r = Append(eventQueue, e)
    BY <2>1
  <2> QED
    BY <1>0, <1>1, <2>2, <2>3, <2>4, <2>5
<1>3. CASE SendDone /\ Arrives
  <2> PICK e : e = [kind |-> "complete", stream |-> <<sid, activeStreams[sid]>>]
    OBVIOUS
  <2>1. IsEnd(e) /\ r = Append(eventQueue, e)
    BY <1>3, EndArrives DEF IsEnd
  <2>2. IsNew(e)
    BY <1>3, <2>1 DEF IsNew
  <2>3. UNCHANGED <<chat, taken>> /\ ~SendToken
    <3>1. Len(owed') = Len(owed) - 1 /\ Len(owed) \in Nat
      BY <1>3, OwedAfterDone
    <3>2. SendToken => Len(owed') = Len(owed)
      BY OwedAfterToken
    <3>3. ~SendToken
      BY <3>1, <3>2
    <3>4. UNCHANGED <<chat, taken>>
      BY <1>3 DEF SendDone, page
    <3> QED
      BY <3>3, <3>4
  <2> QED
    BY <1>0, <1>1, <2>1, <2>2, <2>3
<1>4. CASE Aside /\ ~(SendToken /\ Arrives) /\ ~(SendDone /\ Arrives)
  <2>1. Quiet
    BY <1>0, <1>4, QuietAside
  <2>2. /\ Len(r) \in Nat /\ Len(r) >= Len(eventQueue)
        /\ \A k \in 1..Len(eventQueue) : r[k] = eventQueue[k]
        /\ \A k \in (Len(eventQueue) + 1)..Len(r) : r[k].kind \in {"state", "status", "connected"}
        /\ UNCHANGED <<chat, taken>>
    BY <2>1 DEF Quiet, Grown
  <2>3. (\E q \in Question : Clarify(q)) \/ Unasked
    <3>1. CASE Client \/ Open
      BY <1>0, <3>1, QuietClient
    <3>2. ASSUME eventQueue' = eventQueue  PROVE Unasked
      BY <1>0, <3>2 DEF Unasked
    <3>3. CASE BackendStep \/ Reply \/ UNCHANGED vars
      BY <3>2, <3>3 DEF BackendStep, Reply, vars
    <3>4. ASSUME NEW q \in Question, Teach(q) \/ Lose(q)  PROVE Unasked
      BY <3>2, <3>4 DEF Teach, Lose
    <3>5. ASSUME NEW q \in Question, NEW n \in 0..MaxFiles, Submit(q, n)  PROVE Unasked
      BY <3>2, <3>5 DEF Submit
    <3>6. CASE (SendToken \/ SendDone) /\ ~Arrives
      BY <3>2, <3>6 DEF SendToken, SendDone, Arrives
    <3> QED
      BY <1>4, <3>1, <3>3, <3>4, <3>5, <3>6 DEF Aside
  <2>4. \A k \in (Len(eventQueue) + 1)..Len(r) : IsNew(r[k])
    BY <2>2, <2>3 DEF IsNew, Unasked
  <2> QED
    BY <1>0, <1>4, <2>2, <2>4
<1> QED
  BY <1>2, <1>3, <1>4, StepsAre

\* What is said of a level stays said.
LEMMA SaidStays ==
  ASSUME SidInv, StreamInv, OwedInv, QueueInv, FollowInv, TextInv, [Next]_vars,
         NEW t, t.question \in Question, t.level \in 1..MaxLevels, ~Fresh(t)
  PROVE  ~Fresh(t)'
<1> PICK r, e : r = eventQueue' /\ e = eventQueue[1]
  OBVIOUS
<1>1. CASE ~TakeItem
  <2>1. /\ Len(eventQueue) \in Nat /\ Len(r) \in Nat /\ Len(r) >= Len(eventQueue)
        /\ \A k \in 1..Len(eventQueue) : r[k] = eventQueue[k]
        /\ taken' = taken
    BY <1>1, QueueKept
  <2>2. \A k \in 1..Len(eventQueue) : k \in 1..Len(r)
    BY <2>1
  <2> QED
    BY <2>1, <2>2 DEF Fresh, TakenOf, IsToken, SameLevel
<1>2. CASE TakeItem
  <2>1. /\ Len(eventQueue) \in Nat \ {0} /\ Len(r) = Len(eventQueue) - 1
        /\ \A k \in 1..Len(r) : r[k] = eventQueue[k + 1]
    BY <1>2, TakeQueue DEF QueueInv
  <2>2. TakenOf(t) \in Seq(Token)
    BY TakenType
  <2>3. CASE IsToken(e) /\ SameLevel(e.token, t)
    <3>1. TakenOf(t)' = Append(TakenOf(t), e.token)
      BY <1>2, <2>3, TakeTaken
    <3>2. e.token \in Token
      BY <1>2, <2>3, TakeToken
    <3>3. Append(TakenOf(t), e.token) # <<>>
      BY <2>2, <3>2, AppendProperties, LenProperties, EmptySeq
    <3> QED
      BY <3>1, <3>3 DEF Fresh
  <2>4. CASE ~(IsToken(e) /\ SameLevel(e.token, t))
    <3>1. TakenOf(t)' = TakenOf(t)
      BY <1>2, <2>4, TakeTaken
    <3>2. ASSUME NEW k \in 1..Len(eventQueue), IsToken(eventQueue[k]), SameLevel(eventQueue[k].token, t)
          PROVE  \E j \in 1..Len(r) : IsToken(r[j]) /\ SameLevel(r[j].token, t)
      <4>1. k # 1
        BY <2>4, <3>2
      <4>2. k - 1 \in 1..Len(r) /\ r[k - 1] = eventQueue[k]
        BY <2>1, <4>1
      <4> QED
        BY <3>2, <4>2
    <3> QED
      BY <3>1, <3>2 DEF Fresh, IsToken, SameLevel
  <2> QED
    BY <2>3, <2>4
<1> QED
  BY <1>1, <1>2

\* A token in the queue is said of its level, and so is the text that is shown.
LEMMA QueueSays ==
  ASSUME QueueInv, NEW k \in 1..Len(eventQueue), IsToken(eventQueue[k])
  PROVE  ~Fresh(eventQueue[k].token) /\ eventQueue[k].token \in Token
BY DEF QueueInv, Fresh, SameLevel

LEMMA TextSays ==
  ASSUME TextInv, chat.text # <<>>
  PROVE  ~Fresh(chat.text[1]) /\ chat.text[1].question \in Question /\ chat.text[1].level \in 1..MaxLevels
         /\ chat.text = TakenOf(chat.text[1])
<1>1. PICK q \in Question, l \in 1..MaxLevels : chat.text = taken[q][l]
  BY DEF TextInv
<1>2. chat.text[1].question = q /\ chat.text[1].level = l
  BY <1>1, TakenBegins
<1> QED
  BY <1>1, <1>2 DEF Fresh, TakenOf

\* What only the services change.
LEMMA Otherwise ==
  ASSUME OwedInv, [Next]_vars, ~SendToken, ~SendDone
  PROVE  broken' = broken /\ ((\E q \in Question : Teach(q)) \/ owed' = owed)
<1>1. (\E q \in Question : Teach(q)) \/ owed' = owed
  BY ServicesStay
<1>2. CASE BackendStep \/ Client \/ Open \/ Reply \/ UNCHANGED vars
  BY <1>1, <1>2 DEF BackendStep, Client, FirstAttemptFails, Connect, Disconnect, AttemptFails, Open,
              Reply, vars, ghosts
<1>5. CASE TakeItem
  BY <1>1, <1>5 DEF TakeItem
<1>3. ASSUME NEW q \in Question, Teach(q) \/ Clarify(q) \/ Lose(q)  PROVE broken' = broken
  BY <1>3 DEF Teach, Clarify, Lose, ghosts
<1>4. ASSUME NEW q \in Question, NEW n \in 0..MaxFiles, Submit(q, n)  PROVE broken' = broken
  BY <1>4 DEF Submit
<1> QED
  BY <1>1, <1>2, <1>3, <1>4, <1>5 DEF Next, Answers, Page

\* What breaks stays broken, and what does not arrive breaks.
LEMMA BrokenGrows ==
  ASSUME OwedInv, [Next]_vars
  PROVE  /\ broken \subseteq broken'
         /\ SendToken \/ SendDone => Arrives \/ owed[1].question \in broken'
         /\ SendDone => owed[1].sent > 0 \/ owed[1].question \in broken'
<1>1. owed # <<>> => Head(owed) = owed[1]
  BY HeadTailProperties, EmptySeq DEF OwedInv
<1>2. CASE ~SendToken /\ ~SendDone
  BY <1>2, Otherwise
<1>3. CASE SendToken
  <2>1. /\ owed # <<>>
        /\ IF Reaches(Head(owed).question) THEN broken' = broken
                                           ELSE broken' = broken \cup {Head(owed).question}
    BY <1>3 DEF SendToken
  <2>2. broken \subseteq broken' /\ (Arrives \/ owed[1].question \in broken')
    BY <1>1, <2>1 DEF Arrives
  <2>3. ~SendDone
    BY <1>3, OwedAfterToken, OwedAfterDone
  <2> QED
    BY <2>2, <2>3
<1>4. CASE SendDone
  <2>1. /\ owed # <<>>
        /\ broken' = IF Head(owed).sent > 0 /\ Reaches(Head(owed).question)
                       THEN broken ELSE broken \cup {Head(owed).question}
    BY <1>4 DEF SendDone
  <2> QED
    BY <1>1, <2>1 DEF Arrives
<1> QED
  BY <1>2, <1>3, <1>4

\* Nothing that was said of becomes owed.
LEMMA OwedBefore ==
  ASSUME OwedInv, FreshInv, [Next]_vars,
         NEW t, t.question \in Question, t.level \in 1..MaxLevels, ~Fresh(t), OwedOf(t)'
  PROVE  OwedOf(t) /\ ~SendDone
<1> PICK o : o = owed'
  OBVIOUS
<1>0. PICK i \in 1..Len(o) : SameLevel(o[i], t)
  BY DEF OwedOf, SameLevel
<1>1. CASE SendToken
  <2>1. Len(o) = Len(owed) /\ SameLevel(o[i], owed[i])
    BY <1>1, OwedAfterToken
  <2>2. ~SendDone
    BY <1>1, OwedAfterToken, OwedAfterDone
  <2> QED
    BY <1>0, <2>1, <2>2 DEF OwedOf, SameLevel
<1>2. ASSUME SendDone  PROVE FALSE
  <2>1. o[i] = owed[i + 1] /\ i + 1 \in 2..Len(owed)
    BY <1>2, OwedAfterDone
  <2>2. Fresh(owed[i + 1]) /\ SameLevel(t, owed[i + 1])
    BY <1>0, <2>1 DEF FreshInv, SameLevel
  <2> QED
    BY <2>2, FreshSame
<1>3. ASSUME NEW q \in Question, Teach(q)  PROVE OwedOf(t)
  <2>1. /\ Len(owed) \in Nat /\ Len(o) \in Nat
        /\ \A k \in 1..Len(owed) : o[k] = owed[k]
        /\ \A k \in (Len(owed) + 1)..Len(o) :
             o[k] = [question |-> q, level |-> k - Len(owed), sent |-> 0]
    BY <1>3, OwedAfterTeach, LenProperties DEF OwedInv
  <2>2. CASE i \in 1..Len(owed)
    BY <1>0, <2>1, <2>2 DEF OwedOf
  <2>3. CASE i \notin 1..Len(owed)
    <3>1. o[i] = [question |-> q, level |-> i - Len(owed), sent |-> 0]
      BY <2>1, <2>3
    <3>2. t.question = q
      BY <1>0, <3>1 DEF SameLevel
    <3>3. PICK u : u = [question |-> t.question, level |-> t.level]
      OBVIOUS
    <3>4. q \notin handled
      BY <1>3 DEF Teach
    <3>5. Fresh(u) /\ SameLevel(t, u)
      BY <3>2, <3>3, <3>4 DEF FreshInv, SameLevel
    <3> QED
      BY <3>5, FreshSame
  <2> QED
    BY <2>2, <2>3
<1>4. CASE owed' = owed
  BY <1>0, <1>2, <1>4 DEF OwedOf, SameLevel
<1> QED
  BY <1>1, <1>2, <1>3, <1>4, ServicesStay

\* What is owed stays so until it is done.
LEMMA OwedUntilDone ==
  ASSUME OwedInv, [Next]_vars, NEW t, OwedOf(t), ~(SendDone /\ SameLevel(owed[1], t))
  PROVE  OwedOf(t)'
<1> PICK o : o = owed'
  OBVIOUS
<1>0. PICK i \in 1..Len(owed) : SameLevel(owed[i], t)
  BY DEF OwedOf
<1>1. CASE SendToken
  <2>1. Len(o) = Len(owed) /\ SameLevel(o[i], owed[i])
    BY <1>1, OwedAfterToken
  <2> QED
    BY <1>0, <2>1 DEF OwedOf, SameLevel
<1>2. CASE SendDone
  <2>1. i # 1
    BY <1>0, <1>2
  <2>2. i - 1 \in 1..Len(o) /\ o[i - 1] = owed[i]
    <3>1. /\ Len(o) = Len(owed) - 1 /\ Len(owed) \in Nat \ {0}
          /\ \A k \in 1..Len(o) : o[k] = owed[k + 1]
      BY <1>2, OwedAfterDone
    <3>2. i - 1 \in 1..Len(o) /\ (i - 1) + 1 = i
      BY <2>1, <3>1
    <3> QED
      BY <3>1, <3>2
  <2> QED
    BY <1>0, <2>2 DEF OwedOf, SameLevel
<1>3. ASSUME NEW q \in Question, Teach(q)  PROVE i \in 1..Len(o) /\ o[i] = owed[i]
  BY <1>3, OwedAfterTeach, LenProperties DEF OwedInv
<1>4. CASE (\E q \in Question : Teach(q)) \/ owed' = owed
  <2>1. i \in 1..Len(o) /\ o[i] = owed[i]
    BY <1>3, <1>4
  <2> QED
    BY <1>0, <2>1 DEF OwedOf, SameLevel
<1> QED
  BY <1>1, <1>2, <1>4, ServicesStay

\* What arrives is not a step of taking.
LEMMA ArrivesOrTaken ==
  ASSUME SidInv, StreamInv, OwedInv, QueueInv, SendToken \/ SendDone, Arrives
  PROVE  ~TakeItem
<1>1. \E e : eventQueue' = Append(eventQueue, e)
  BY TokenArrives, EndArrives
<1>2. Len(eventQueue') = Len(eventQueue) + 1 /\ Len(eventQueue) \in Nat
  BY <1>1, AppendQueue DEF QueueInv
<1>3. TakeItem => Len(eventQueue') = Len(eventQueue) - 1
  BY TakeQueue DEF QueueInv
<1> QED
  BY <1>2, <1>3

LEMMA BegunInvStep ==
  ASSUME SidInv, StreamInv, OwedInv, QueueInv, FollowInv, TextInv, BegunInv, [Next]_vars
  PROVE  BegunInv'
<1> PICK o : o = owed'
  OBVIOUS
<1>0. Len(owed) \in Nat /\ (owed # <<>> => 1 \in 1..Len(owed)) /\ broken \subseteq broken'
  BY LenProperties, EmptySeq, BrokenGrows DEF OwedInv
<1>1. \A k \in 2..Len(owed) : owed[k].sent = 0
  BY DEF BegunInv
<1>2. ASSUME owed # <<>>, NEW t, t = owed[1], t.sent > 0, t.question \notin broken'
      PROVE  ~Fresh(t)'
  <2>1. ~Fresh(t) /\ t.question \in Question /\ t.level \in 1..MaxLevels
    BY <1>0, <1>2, OwedLevel DEF BegunInv
  <2> QED
    BY <2>1, SaidStays
<1>3. SUFFICES /\ \A k \in 2..Len(o) : o[k].sent = 0
               /\ o # <<>> /\ o[1].sent > 0 /\ o[1].question \notin broken' => ~Fresh(o[1])'
  BY DEF BegunInv
<1>4. CASE o = owed
  <2> PICK t : t = o[1]
    OBVIOUS
  <2> QED
    BY <1>1, <1>2, <1>4
<1>5. ASSUME NEW q \in Question, Teach(q)
      PROVE  /\ \A k \in 2..Len(o) : o[k].sent = 0
             /\ o # <<>> /\ o[1].sent > 0 /\ o[1].question \notin broken' => ~Fresh(o[1])'
  <2>1. /\ Len(o) \in Nat /\ Len(o) >= Len(owed)
        /\ \A k \in 1..Len(owed) : o[k] = owed[k]
        /\ \A k \in (Len(owed) + 1)..Len(o) :
             o[k] = [question |-> q, level |-> k - Len(owed), sent |-> 0]
    BY <1>5, OwedAfterTeach
  <2>5. \A k \in (Len(owed) + 1)..Len(o) : o[k].sent = 0
    <3> TAKE k \in (Len(owed) + 1)..Len(o)
    <3>1. o[k] = [question |-> q, level |-> k - Len(owed), sent |-> 0]
      BY <2>1
    <3> QED
      BY <3>1
  <2>2. \A k \in 2..Len(o) : o[k].sent = 0
    <3> TAKE k \in 2..Len(o)
    <3>1. (k \in 2..Len(owed) /\ k \in 1..Len(owed)) \/ k \in (Len(owed) + 1)..Len(o)
      BY <1>0
    <3> QED
      BY <1>1, <2>1, <2>5, <3>1
  <2>3. CASE owed # <<>>
    <3> PICK t : t = o[1]
      OBVIOUS
    <3>1. t = owed[1]
      BY <1>0, <2>1, <2>3
    <3> QED
      BY <1>2, <2>2, <2>3, <3>1
  <2>4. CASE owed = <<>>
    <3>1. o # <<>> => 1 \in (Len(owed) + 1)..Len(o)
      <4>1. o \in Seq(Level) /\ Len(owed) = 0
        BY <1>5, <2>4, OwedAfterTeach
      <4> QED
        BY <2>1, <4>1, EmptySeq
    <3>2. o # <<>> => o[1].sent = 0
      BY <2>5, <3>1
    <3> QED
      BY <2>2, <3>2
  <2> QED
    BY <2>3, <2>4
<1>6. CASE SendToken
  <2>1. /\ Len(o) = Len(owed) /\ Len(owed) \in Nat \ {0} /\ SameLevel(o[1], owed[1])
        /\ \A k \in 2..Len(owed) : o[k] = owed[k]
    BY <1>6, OwedAfterToken
  <2>2. ASSUME o[1].question \notin broken'  PROVE ~Fresh(o[1])'
    <3>1. Arrives /\ ~TakeItem
      <4>1. Arrives
        BY <1>6, <2>1, <2>2, BrokenGrows DEF SameLevel
      <4> QED
        BY <1>6, <4>1, ArrivesOrTaken
    <3> PICK r : r = eventQueue'
      OBVIOUS
    <3>2. /\ Len(r) = Len(eventQueue) + 1 /\ IsToken(r[Len(r)]) /\ Len(eventQueue) \in Nat
          /\ \A k \in (Len(eventQueue) + 1)..Len(r) : IsNew(r[k])
      BY <1>6, <3>1, QueueKept
    <3>3. Len(r) \in 1..Len(r) /\ IsNew(r[Len(r)])
      BY <3>2
    <3>4. SameLevel(r[Len(r)].token, owed[1])
      BY <3>2, <3>3 DEF IsNew, IsToken, IsEnd
    <3> PICK t : t = o[1]
      OBVIOUS
    <3>5. SameLevel(r[Len(r)].token, t)
      BY <2>1, <3>4 DEF SameLevel
    <3>6. ~Fresh(t)'
      BY <3>2, <3>3, <3>5 DEF Fresh, SameLevel, IsToken
    <3> QED
      BY <3>6
  <2> QED
    BY <1>1, <2>1, <2>2
<1>7. CASE SendDone
  <2>1. /\ o \in Seq(Level) /\ Len(o) = Len(owed) - 1 /\ Len(owed) \in Nat \ {0}
        /\ \A k \in 1..Len(o) : o[k] = owed[k + 1]
    BY <1>7, OwedAfterDone
  <2>2. \A k \in 1..Len(o) : o[k].sent = 0
    <3> TAKE k \in 1..Len(o)
    <3>1. k + 1 \in 2..Len(owed)
      BY <2>1
    <3> QED
      BY <1>1, <2>1, <3>1
  <2>3. o # <<>> => 1 \in 1..Len(o)
    BY <2>1, EmptySeq
  <2>4. \A k \in 2..Len(o) : k \in 1..Len(o)
    OBVIOUS
  <2> QED
    BY <2>2, <2>3, <2>4
<1> QED
  BY <1>4, <1>5, <1>6, <1>7, ServicesStay

\* The first level comes first: what is owed ...
LEMMA FirstInvOwed ==
  ASSUME SidInv, StreamInv, OwedInv, QueueInv, FollowInv, TextInv, BegunInv, FirstInv, [Next]_vars,
         NEW o, o = owed', NEW i \in 1..Len(o), o[i].level # 1, o[i].question \notin broken',
         NEW t, t = Level1(o[i].question), Fresh(t)'
  PROVE  \E h \in 1..(i - 1) : SameLevel(o[h], t)
<1>0. Len(owed) \in Nat /\ broken \subseteq broken'
  BY LenProperties, BrokenGrows DEF OwedInv
<1>1. ASSUME NEW j \in 1..Len(owed), o[i].question = owed[j].question, o[i].level = owed[j].level
      PROVE  Fresh(t) /\ \E h \in 1..(j - 1) : SameLevel(owed[h], t)
  <2>1. t.question \in Question /\ t.level \in 1..MaxLevels
    BY <1>1, OwedLevel, StreamlitAssumption DEF Level1
  <2>2. Fresh(t)
    BY <2>1, SaidStays
  <2> QED
    BY <1>0, <1>1, <2>2 DEF FirstInv
<1>2. CASE o = owed
  BY <1>1, <1>2
<1>3. ASSUME NEW q \in Question, Teach(q)  PROVE \E h \in 1..(i - 1) : SameLevel(o[h], t)
  <2>1. /\ Len(o) \in Nat /\ Len(o) >= Len(owed)
        /\ \A k \in 1..Len(owed) : o[k] = owed[k]
        /\ \A k \in (Len(owed) + 1)..Len(o) :
             o[k] = [question |-> q, level |-> k - Len(owed), sent |-> 0]
    BY <1>3, OwedAfterTeach
  <2>2. CASE i \in 1..Len(owed)
    <3>1. PICK h \in 1..(i - 1) : SameLevel(owed[h], t)
      BY <1>1, <2>1, <2>2
    <3>2. h \in 1..Len(owed)
      BY <1>0, <2>2
    <3> QED
      BY <2>1, <3>1, <3>2
  <2>3. CASE i \notin 1..Len(owed)
    <3> PICK h \in Nat : h = Len(owed) + 1
      BY <1>0
    <3>1. o[i] = [question |-> q, level |-> i - Len(owed), sent |-> 0]
      BY <1>0, <2>1, <2>3
    <3>2. h \in 1..(i - 1) /\ h \in (Len(owed) + 1)..Len(o)
      BY <1>0, <2>1, <2>3, <3>1
    <3>3. o[h] = [question |-> q, level |-> h - Len(owed), sent |-> 0]
      BY <2>1, <3>2
    <3>4. SameLevel(o[h], t)
      BY <1>0, <3>1, <3>3 DEF SameLevel, Level1
    <3> QED
      BY <3>2, <3>4
  <2> QED
    BY <2>2, <2>3
<1>4. CASE SendToken
  <2>1. Len(o) = Len(owed) /\ \A k \in 1..Len(owed) : SameLevel(o[k], owed[k])
    BY <1>4, OwedAfterToken
  <2>2. PICK h \in 1..(i - 1) : SameLevel(owed[h], t)
    BY <1>1, <2>1 DEF SameLevel
  <2>3. h \in 1..Len(owed)
    BY <1>0, <2>1
  <2> QED
    BY <2>1, <2>2, <2>3 DEF SameLevel
<1>5. CASE SendDone
  <2>1. /\ Len(o) = Len(owed) - 1 /\ Len(owed) \in Nat \ {0}
        /\ \A k \in 1..Len(o) : o[k] = owed[k + 1]
    BY <1>5, OwedAfterDone
  <2>2. i + 1 \in 1..Len(owed) /\ (i + 1) - 1 = i /\ i \in Nat
    BY <2>1
  <2>3. Fresh(t) /\ \E h \in 1..i : SameLevel(owed[h], t)
    BY <1>1, <2>1, <2>2
  <2>4. PICK h \in 1..i : SameLevel(owed[h], t)
    BY <2>3
  <2>5. h # 1
    <3> SUFFICES ASSUME h = 1  PROVE FALSE
      OBVIOUS
    <3>1. owed[1].question \notin broken'
      BY <2>4 DEF SameLevel, Level1
    <3>2. owed[1].sent > 0 /\ owed # <<>>
      BY <1>5, <3>1, BrokenGrows DEF SendDone
    <3>3. ~Fresh(owed[1])
      BY <1>0, <3>1, <3>2 DEF BegunInv
    <3> QED
      BY <2>3, <2>4, <3>3, FreshSame
  <2>6. h - 1 \in 1..(i - 1) /\ h - 1 \in 1..Len(o) /\ (h - 1) + 1 = h
    BY <2>1, <2>2, <2>5
  <2> QED
    BY <2>1, <2>4, <2>6
<1> QED
  BY <1>2, <1>3, <1>4, <1>5, ServicesStay

\* ... and what is said.
LEMMA FirstInvSaid ==
  ASSUME SidInv, StreamInv, OwedInv, QueueInv, FollowInv, TextInv, FirstInv, [Next]_vars,
         NEW r, r = eventQueue', NEW k \in 1..Len(r), IsToken(r[k]),
         r[k].token.level # 1, r[k].token.question \notin broken',
         NEW t, t = Level1(r[k].token.question)
  PROVE  \/ TakenOf(t)' # <<>>
         \/ \E j \in 1..(k - 1) : IsToken(r[j]) /\ SameLevel(r[j].token, t)
<1> PICK u : u = eventQueue
  OBVIOUS
<1>0. broken \subseteq broken'
  BY BrokenGrows
<1>1. ASSUME NEW i \in 1..Len(u), IsToken(u[i]), u[i].token = r[k].token
      PROVE  /\ t.question \in Question /\ t.level \in 1..MaxLevels
             /\ \/ TakenOf(t) # <<>>
                \/ \E j \in 1..(i - 1) : IsToken(u[j]) /\ SameLevel(u[j].token, t)
  <2>1. u[i].token \in Token
    BY <1>1, QueueSays
  <2>2. t.question \in Question /\ t.level \in 1..MaxLevels /\ t.level = 1
    BY <1>1, <2>1, TokenLevel, StreamlitAssumption DEF Level1
  <2>3. \/ taken[u[i].token.question][1] # <<>>
        \/ \E j \in 1..(i - 1) : IsToken(u[j]) /\ SameLevel(u[j].token, Level1(u[i].token.question))
    BY <1>0, <1>1 DEF FirstInv
  <2> QED
    BY <1>1, <2>2, <2>3 DEF TakenOf, Level1
<1>2. CASE ~TakeItem
  <2>1. /\ Len(u) \in Nat /\ Len(r) \in Nat /\ Len(r) >= Len(u)
        /\ \A j \in 1..Len(u) : r[j] = u[j]
        /\ \A j \in (Len(u) + 1)..Len(r) : IsNew(r[j])
        /\ taken' = taken
    BY <1>2, QueueKept
  <2>2. CASE k \in 1..Len(u)
    <3>1. \A j \in 1..(k - 1) : r[j] = u[j]
      BY <2>1, <2>2
    <3> QED
      BY <1>1, <2>1, <2>2, <3>1 DEF TakenOf
  <2>3. CASE k \notin 1..Len(u)
    <3>1. SameLevel(r[k].token, owed[1]) /\ SendToken
      <4>1. IsNew(r[k])
        BY <2>1, <2>3
      <4> QED
        BY <4>1 DEF IsNew, IsToken, IsEnd
    <3>2. 1 \in 1..Len(owed)
      BY <3>1, OwedAfterToken
    <3>3. ~Fresh(t)
      <4>1. owed[1].level # 1 /\ owed[1].question \notin broken /\ t = Level1(owed[1].question)
        BY <1>0, <3>1 DEF SameLevel
      <4>2. ~\E h \in 1..(1 - 1) : SameLevel(owed[h], t)
        OBVIOUS
      <4> QED
        BY <3>2, <4>1, <4>2 DEF FirstInv
    <3>4. \A j \in 1..Len(u) : j \in 1..(k - 1) /\ r[j] = u[j]
      BY <2>1, <2>3
    <3> QED
      BY <2>1, <3>3, <3>4 DEF Fresh, TakenOf
  <2> QED
    BY <2>2, <2>3
<1>3. CASE TakeItem
  <2>1. /\ Len(u) \in Nat \ {0} /\ Len(r) = Len(u) - 1
        /\ \A j \in 1..Len(r) : r[j] = u[j + 1]
    BY <1>3, TakeQueue DEF QueueInv
  <2>2. k + 1 \in 1..Len(u) /\ r[k] = u[k + 1] /\ (k + 1) - 1 = k
    BY <2>1
  <2>3. /\ t.question \in Question /\ t.level \in 1..MaxLevels
        /\ \/ TakenOf(t) # <<>>
           \/ \E j \in 1..k : IsToken(u[j]) /\ SameLevel(u[j].token, t)
    BY <1>1, <2>2
  <2>4. TakenOf(t) \in Seq(Token)
    BY <2>3, TakenType
  <2> PICK e : e = u[1]
    OBVIOUS
  <2>5. CASE IsToken(e) /\ SameLevel(e.token, t)
    <3>1. TakenOf(t)' = Append(TakenOf(t), e.token)
      BY <1>3, <2>3, <2>5, TakeTaken
    <3>2. e.token \in Token
      BY <1>3, <2>5, TakeToken
    <3>3. Append(TakenOf(t), e.token) # <<>>
      BY <2>4, <3>2, AppendProperties, LenProperties, EmptySeq
    <3> QED
      BY <3>1, <3>3
  <2>6. CASE ~(IsToken(e) /\ SameLevel(e.token, t))
    <3>1. TakenOf(t)' = TakenOf(t)
      BY <1>3, <2>3, <2>6, TakeTaken
    <3>2. ASSUME NEW j \in 1..k, IsToken(u[j]), SameLevel(u[j].token, t)
          PROVE  j - 1 \in 1..(k - 1) /\ r[j - 1] = u[j]
      <4>1. j # 1
        BY <2>6, <3>2
      <4>2. j - 1 \in 1..(k - 1) /\ j - 1 \in 1..Len(r) /\ (j - 1) + 1 = j
        BY <2>1, <4>1
      <4> QED
        BY <2>1, <4>2
    <3> QED
      BY <2>3, <3>1, <3>2
  <2> QED
    BY <2>5, <2>6
<1> QED
  BY <1>2, <1>3

LEMMA FirstInvStep ==
  ASSUME SidInv, StreamInv, OwedInv, QueueInv, FollowInv, TextInv, BegunInv, FirstInv, [Next]_vars
  PROVE  FirstInv'
<1> PICK o, r : o = owed' /\ r = eventQueue'
  OBVIOUS
<1>1. ASSUME NEW i \in 1..Len(o), o[i].level # 1, o[i].question \notin broken'
      PROVE  ~Fresh(Level1(o[i].question))' \/ \E h \in 1..(i - 1) : SameLevel(o[h], Level1(o[i].question))
  <2> PICK t : t = Level1(o[i].question)
    OBVIOUS
  <2>1. ~Fresh(t)' \/ \E h \in 1..(i - 1) : SameLevel(o[h], t)
    BY <1>1, FirstInvOwed
  <2> QED
    BY <2>1
<1>2. ASSUME NEW k \in 1..Len(r), IsToken(r[k]), r[k].token.level # 1, r[k].token.question \notin broken'
      PROVE  \/ taken'[r[k].token.question][1] # <<>>
             \/ \E j \in 1..(k - 1) : IsToken(r[j]) /\ SameLevel(r[j].token, Level1(r[k].token.question))
  <2> PICK t : t = Level1(r[k].token.question)
    OBVIOUS
  <2>1. \/ TakenOf(t)' # <<>>
        \/ \E j \in 1..(k - 1) : IsToken(r[j]) /\ SameLevel(r[j].token, t)
    BY <1>2, FirstInvSaid
  <2> QED
    BY <2>1 DEF TakenOf, Level1
<1> QED
  BY <1>1, <1>2 DEF FirstInv, IsToken, SameLevel, Level1

\* What is said ends: what has not is still owed ...
LEMMA DoneInvOpen ==
  ASSUME SidInv, StreamInv, OwedInv, QueueInv, FollowInv, TextInv, DoneInv, [Next]_vars,
         NEW r, r = eventQueue', NEW k \in 1..Len(r), IsToken(r[k]), NEW t, t = r[k].token,
         t.question \notin broken'
  PROVE  OwedOf(t)' \/ \E j \in (k + 1)..Len(r) : IsEnd(r[j])
<1> PICK u : u = eventQueue
  OBVIOUS
<1>0. broken \subseteq broken'
  BY BrokenGrows
<1>1. ASSUME NEW i \in 1..Len(u), IsToken(u[i]), u[i].token = t
      PROVE  OwedOf(t) \/ \E j \in (i + 1)..Len(u) : IsEnd(u[j])
  BY <1>0, <1>1 DEF DoneInv, EndAfter
<1>2. CASE ~TakeItem
  <2>1. /\ Len(u) \in Nat /\ Len(r) \in Nat /\ Len(r) >= Len(u)
        /\ \A j \in 1..Len(u) : r[j] = u[j]
        /\ \A j \in (Len(u) + 1)..Len(r) : IsNew(r[j])
        /\ SendDone /\ Arrives => Len(r) = Len(u) + 1 /\ IsEnd(r[Len(r)])
    BY <1>2, QueueKept
  <2>2. CASE k \in 1..Len(u)
    <3>1. \A j \in (k + 1)..Len(u) : j \in (k + 1)..Len(r) /\ r[j] = u[j]
      BY <2>1, <2>2
    <3>2. CASE SendDone /\ SameLevel(owed[1], t)
      <4>1. Arrives
        BY <3>2, BrokenGrows DEF SameLevel
      <4>2. Len(r) \in (k + 1)..Len(r)
        BY <2>1, <2>2, <3>2, <4>1
      <4> QED
        BY <2>1, <3>2, <4>1, <4>2
    <3>3. CASE ~(SendDone /\ SameLevel(owed[1], t))
      <4>1. OwedOf(t) => OwedOf(t)'
        BY <3>3, OwedUntilDone
      <4> QED
        BY <1>1, <2>1, <2>2, <3>1, <4>1
    <3> QED
      BY <3>2, <3>3
  <2>3. CASE k \notin 1..Len(u)
    <3>1. IsNew(r[k])
      BY <2>1, <2>3
    <3>2. SameLevel(t, owed[1]) /\ SendToken
      BY <3>1 DEF IsNew, IsToken, IsEnd
    <3>3. 1 \in 1..Len(owed) /\ ~SendDone
      BY <3>2, OwedAfterToken, OwedAfterDone
    <3>4. OwedOf(t)
      BY <3>2, <3>3 DEF OwedOf, SameLevel
    <3> QED
      BY <3>3, <3>4, OwedUntilDone
  <2> QED
    BY <2>2, <2>3
<1>3. CASE TakeItem
  <2>1. /\ Len(u) \in Nat \ {0} /\ Len(r) = Len(u) - 1
        /\ \A j \in 1..Len(r) : r[j] = u[j + 1]
    BY <1>3, TakeQueue DEF QueueInv
  <2>2. k + 1 \in 1..Len(u) /\ r[k] = u[k + 1]
    BY <2>1
  <2>3. owed' = owed
    BY <1>3 DEF TakeItem, services
  <2>4. ASSUME NEW j \in ((k + 1) + 1)..Len(u)  PROVE j - 1 \in (k + 1)..Len(r) /\ r[j - 1] = u[j]
    <3>1. j - 1 \in (k + 1)..Len(r) /\ j - 1 \in 1..Len(r) /\ (j - 1) + 1 = j
      BY <2>1
    <3> QED
      BY <2>1, <3>1
  <2>5. OwedOf(t) => OwedOf(t)'
    BY <2>3 DEF OwedOf, SameLevel
  <2> QED
    BY <1>1, <2>2, <2>4, <2>5
<1> QED
  BY <1>2, <1>3

\* ... and what has is not.
LEMMA DoneInvEnded ==
  ASSUME SidInv, StreamInv, OwedInv, QueueInv, FollowInv, TextInv, FreshInv, SlotInv, HistoryInv,
         DoneInv, [Next]_vars,
         NEW r, r = eventQueue', NEW k \in 1..Len(r), IsEnd(r[k]),
         NEW t, (\E j \in 1..(k - 1) : IsToken(r[j]) /\ t = r[j].token) \/ (chat'.text # <<>> /\ t = chat'.text[1])
  PROVE  ~OwedOf(t)'
<1> PICK u, c : u = eventQueue /\ c = chat'
  OBVIOUS
<1>1. CASE ~TakeItem
  <2>1. /\ Len(u) \in Nat /\ Len(r) \in Nat /\ Len(r) >= Len(u)
        /\ \A j \in 1..Len(u) : r[j] = u[j]
        /\ \A j \in (Len(u) + 1)..Len(r) : IsNew(r[j])
        /\ chat' = chat
        /\ SendToken /\ Arrives => Len(r) = Len(u) + 1 /\ IsToken(r[Len(r)])
        /\ SendDone /\ Arrives => Len(r) = Len(u) + 1
    BY <1>1, QueueKept
  <2>2. \A j \in 1..(k - 1) : IsToken(r[j]) => j \in 1..Len(u)
    <3> SUFFICES ASSUME NEW j \in 1..(k - 1), IsToken(r[j]), j \notin 1..Len(u)  PROVE FALSE
      OBVIOUS
    <3>1. j \in (Len(u) + 1)..Len(r)
      BY <2>1
    <3>2. SendToken /\ Arrives
      BY <2>1, <3>1 DEF IsNew, IsToken, IsEnd
    <3>3. k = Len(r)
      BY <2>1, <3>1, <3>2
    <3> QED
      BY <2>1, <3>2, <3>3 DEF IsToken, IsEnd
  <2>3. /\ ~Fresh(t) /\ t.question \in Question /\ t.level \in 1..MaxLevels
        /\ (\E j \in 1..(k - 1) : j \in 1..Len(u) /\ IsToken(u[j]) /\ t = u[j].token)
           \/ (chat.text # <<>> /\ t = chat.text[1])
    <3>1. CASE \E j \in 1..(k - 1) : IsToken(r[j]) /\ t = r[j].token
      <4>1. PICK j \in 1..(k - 1) : IsToken(r[j]) /\ t = r[j].token
        BY <3>1
      <4>2. j \in 1..Len(u) /\ r[j] = u[j]
        BY <2>1, <2>2, <4>1
      <4>3. ~Fresh(t) /\ t \in Token
        BY <4>1, <4>2, QueueSays
      <4> QED
        BY <4>1, <4>2, <4>3, TokenLevel
    <3>2. CASE chat'.text # <<>> /\ t = chat'.text[1]
      BY <2>1, <3>2, TextSays
    <3> QED
      BY <3>1, <3>2
  <2>4. CASE k \in 1..Len(u)
    <3>1. ~OwedOf(t)
      BY <2>1, <2>3, <2>4 DEF DoneInv
    <3> QED
      BY <2>3, <3>1, OwedBefore
  <2>5. CASE k \notin 1..Len(u)
    <3>1. SendDone
      BY <2>1, <2>5 DEF IsNew, IsToken, IsEnd
    <3> QED
      BY <2>3, <3>1, OwedBefore
  <2> QED
    BY <2>4, <2>5
<1>2. CASE TakeItem
  <2> PICK e : e = u[1]
    OBVIOUS
  <2>1. /\ Len(u) \in Nat \ {0} /\ Len(r) = Len(u) - 1
        /\ \A j \in 1..Len(r) : r[j] = u[j + 1]
    BY <1>2, TakeQueue DEF QueueInv
  <2>2. owed' = owed
    BY <1>2 DEF TakeItem, services
  <2>3. k + 1 \in 1..Len(u) /\ IsEnd(u[k + 1]) /\ (k + 1) - 1 = k /\ 1 \in 1..k
    BY <2>1
  <2>4. /\ \A j \in 1..k : IsToken(u[j]) => ~OwedOf(u[j].token)
        /\ chat.text # <<>> => ~OwedOf(chat.text[1])
    BY <2>3 DEF DoneInv
  <2>5. ~OwedOf(t)
    <3>1. CASE \E j \in 1..(k - 1) : IsToken(r[j]) /\ t = r[j].token
      <4>1. PICK j \in 1..(k - 1) : IsToken(r[j]) /\ t = r[j].token
        BY <3>1
      <4>2. j + 1 \in 1..k /\ r[j] = u[j + 1]
        BY <2>1
      <4> QED
        BY <2>4, <4>1, <4>2
    <3>2. CASE chat'.text # <<>> /\ t = chat'.text[1]
      <4>1. CASE IsToken(e)
        <5>1. c.text[1].question = e.token.question /\ c.text[1].level = e.token.level
          BY <1>2, <4>1, ShowsToken
        <5>2. ~OwedOf(e.token)
          BY <2>3, <2>4, <4>1
        <5> QED
          BY <3>2, <5>1, <5>2 DEF OwedOf, SameLevel
      <4>2. CASE ~IsToken(e)
        <5>1. chat'.text = chat.text
          BY <1>2, <4>2, TakeOther
        <5> QED
          BY <2>4, <3>2, <5>1
      <4> QED
        BY <4>1, <4>2
    <3> QED
      BY <3>1, <3>2
  <2> QED
    BY <2>2, <2>5 DEF OwedOf, SameLevel
<1> QED
  BY <1>1, <1>2

LEMMA DoneInvStep ==
  ASSUME SidInv, StreamInv, OwedInv, QueueInv, FollowInv, TextInv, FreshInv, SlotInv, HistoryInv,
         DoneInv, [Next]_vars
  PROVE  DoneInv'
<1> PICK r, c : r = eventQueue' /\ c = chat'
  OBVIOUS
<1>1. ASSUME NEW k \in 1..Len(r), IsToken(r[k]), r[k].token.question \notin broken'
      PROVE  OwedOf(r[k].token)' \/ \E j \in (k + 1)..Len(r) : IsEnd(r[j])
  <2> PICK t : t = r[k].token
    OBVIOUS
  <2>1. OwedOf(t)' \/ \E j \in (k + 1)..Len(r) : IsEnd(r[j])
    BY <1>1, DoneInvOpen
  <2> QED
    BY <2>1
<1>2. ASSUME NEW k \in 1..Len(r), IsEnd(r[k]), NEW j \in 1..(k - 1), IsToken(r[j])
      PROVE  ~OwedOf(r[j].token)'
  <2> PICK t : t = r[j].token
    OBVIOUS
  <2>1. ~OwedOf(t)'
    BY <1>2, DoneInvEnded
  <2> QED
    BY <2>1
<1>3. ASSUME NEW k \in 1..Len(r), IsEnd(r[k]), c.text # <<>>
      PROVE  ~OwedOf(c.text[1])'
  <2> PICK t : t = c.text[1]
    OBVIOUS
  <2>1. ~OwedOf(t)'
    BY <1>3, DoneInvEnded
  <2> QED
    BY <2>1
<1> QED
  BY <1>1, <1>2, <1>3 DEF DoneInv, EndAfter, OwedOf, SameLevel, IsToken, IsEnd

\* A set of naturals has a least element.
LEMMA Least ==
  ASSUME NEW T, T \subseteq Nat, T # {}
  PROVE  \E n \in T : \A m \in T : n <= m
<1>1. PICK n \in T : \A m \in T : <<m, n>> \notin OpToRel(<, Nat)
  BY NatLessThanWellFounded, WFMin
<1>2. \A m \in T : ~(m < n)
  BY <1>1 DEF OpToRel
<1> QED
  BY <1>2

\* Behind the end of a level begins another, of which nothing came before.
LEMMA BehindEnd ==
  ASSUME QueueInv, FollowInv, NEW k \in 1..Len(eventQueue), IsEnd(eventQueue[k]),
         NEW p \in (k + 1)..Len(eventQueue), IsToken(eventQueue[p])
  PROVE  TakenOf(eventQueue[p].token) = <<>>
<1> PICK u : u = eventQueue
  OBVIOUS
<1> DEFINE T == {i \in (k + 1)..Len(u) : IsToken(u[i]) /\ TakenOf(u[i].token) # <<>>}
<1>1. SUFFICES ASSUME T # {}  PROVE FALSE
  OBVIOUS
<1>0. Len(u) \in Nat /\ T \subseteq Nat
  BY QueueLen DEF QueueInv
<1>2. PICK n \in T : \A m \in T : n <= m
  BY <1>0, <1>1, Least
<1>3. n \in 1..Len(u) /\ IsToken(u[n]) /\ TakenOf(u[n].token) # <<>> /\ k \in 1..(n - 1)
  BY <1>0
<1>4. PICK t, s, x : t = u[n].token /\ s = u[n].stream /\ x = u[n].seq
  OBVIOUS
<1>5. Continues(t, s, x, n)
  <2>1. Follows(t, s, x, n)
    BY <1>3, <1>4 DEF FollowInv
  <2> QED
    BY <1>3, <1>4, <2>1 DEF Follows, Starts
<1>6. IsText(u[k]) /\ ~IsToken(u[k])
  BY DEF IsText, IsToken, IsEnd
<1>7. PICK j \in 1..(n - 1) : /\ IsToken(u[j]) /\ SameLevel(u[j].token, t)
                              /\ \A i \in (j + 1)..(n - 1) : ~IsText(u[i])
  BY <1>3, <1>5, <1>6 DEF Continues
<1>8. j \in (k + 1)..Len(u) /\ j < n
  <2>1. k \notin (j + 1)..(n - 1) /\ k # j
    BY <1>6, <1>7
  <2> QED
    BY <1>0, <1>3, <2>1
<1>9. j \in T
  <2>1. TakenOf(u[j].token) # <<>>
    BY <1>3, <1>4, <1>7 DEF SameLevel, TakenOf
  <2> QED
    BY <1>7, <1>8, <2>1
<1> QED
  BY <1>2, <1>8, <1>9

\* Nothing of the question has been taken.
Untold(q) == \A l \in 1..MaxLevels : taken[q][l] = <<>>

Submits == \E q \in Question, n \in 0..MaxFiles : Submit(q, n)

\* The services deal with no other question, and the queue is of no other.  A level
\* that was delivered ends behind a token; a question that is asked for its level is
\* not taught.
Alone(q) ==
  /\ handling \subseteq {q} /\ published \ handled \subseteq {q}
  /\ \A i \in 1..Len(owed) : owed[i].question = q
  /\ \A k \in 1..Len(eventQueue) :
       /\ IsToken(eventQueue[k]) => eventQueue[k].token.question = q
       /\ IsEnd(eventQueue[k]) /\ q \notin broken =>
            ~Untold(q) \/ \E j \in 1..(k - 1) : IsToken(eventQueue[j])
       /\ eventQueue[k].kind = "status" =>
            /\ q \in handled /\ owed = <<>>
            /\ \A j \in 1..Len(eventQueue) : ~IsToken(eventQueue[j])

LastUser(i) ==
  /\ history[i].role = "user"
  /\ \A j \in (i + 1)..Len(history) : history[j].role # "user"

\* So it is for the last question, as long as it is not crowded.
AloneInv ==
  \A i \in 1..Len(history) : LastUser(i) /\ history[i].of \notin crowded => Alone(history[i].of)

\* What the steps other than a post do to the posts.
LEMMA PostsStay ==
  ASSUME [Next]_vars, ~Submits
  PROVE  /\ handling' \subseteq handling /\ published' \subseteq published \cup handling
         /\ handled \subseteq handled' /\ UNCHANGED <<asked, crowded>>
<1> USE DEF uploads
<1>1. CASE Client \/ Open \/ TakeItem \/ Reply \/ SendToken \/ SendDone
  BY <1>1 DEF Client, FirstAttemptFails, Connect, Disconnect, AttemptFails, Open, TakeItem, Reply,
              SendToken, SendDone, backendVars, services, ghosts
<1>2. ASSUME NEW q \in Question, Teach(q) \/ Clarify(q) \/ Lose(q)
      PROVE  /\ handling' = handling /\ published' = published
             /\ handled \subseteq handled' /\ UNCHANGED <<asked, crowded>>
  BY <1>2 DEF Teach, Clarify, Lose, backendVars, ghosts
<1>3. CASE BackendStep
  <2>1. UNCHANGED <<handled, asked, crowded>>
    BY <1>3 DEF BackendStep, services, ghosts
  <2>2. CASE Environment
    BY <2>1, <2>2 DEF Environment, BrokerUp, BrokerDown, TopicAppears, Die
  <2>3. CASE \E q \in Question : SaveFile(q) \/ PublishQuestion(q)
    BY <2>1, <2>3 DEF SaveFile, PublishQuestion, Respond
  <2>4. CASE Process /\ ~\E q \in Question : SaveFile(q) \/ PublishQuestion(q)
    BY <2>1, <2>4 DEF Process, Boot, Begin, ConnectAdmin, ConnectFails, BootstrapNext, Serve, ConsumerStarts
  <2> QED
    BY <1>3, <2>2, <2>3, <2>4 DEF BackendStep
<1>4. CASE UNCHANGED vars
  BY <1>4 DEF vars, backendVars, services, ghosts
<1> QED
  BY <1>1, <1>2, <1>3, <1>4 DEF Next, Answers, Page, Submits

\* What is owed stays of the question ...
LEMMA OwedStaysOf ==
  ASSUME OwedInv, [Next]_vars, NEW q \in Question, Alone(q)
  PROVE  \A i \in 1..Len(owed') : owed'[i].question = q
<1> PICK o : o = owed'
  OBVIOUS
<1>1. \A i \in 1..Len(owed) : owed[i].question = q
  BY DEF Alone
<1>2. ASSUME NEW p \in Question, Teach(p)  PROVE \A i \in 1..Len(o) : o[i].question = q
  <2>1. p = q
    BY <1>2 DEF Teach, Alone
  <2>2. /\ Len(owed) \in Nat /\ Len(o) \in Nat
        /\ \A k \in 1..Len(owed) : o[k] = owed[k]
        /\ \A k \in (Len(owed) + 1)..Len(o) :
             o[k] = [question |-> p, level |-> k - Len(owed), sent |-> 0]
    BY <1>2, OwedAfterTeach, LenProperties DEF OwedInv
  <2> TAKE i \in 1..Len(o)
  <2>3. CASE i \in 1..Len(owed)
    BY <1>1, <2>2, <2>3
  <2>4. CASE i \notin 1..Len(owed)
    <3>1. o[i] = [question |-> p, level |-> i - Len(owed), sent |-> 0]
      BY <2>2, <2>4
    <3> QED
      BY <2>1, <3>1
  <2> QED
    BY <2>3, <2>4
<1>3. CASE SendToken
  <2>1. Len(o) = Len(owed) /\ \A i \in 1..Len(owed) : SameLevel(o[i], owed[i])
    BY <1>3, OwedAfterToken
  <2> QED
    BY <1>1, <2>1 DEF SameLevel
<1>4. CASE SendDone
  <2>1. /\ Len(o) = Len(owed) - 1 /\ Len(owed) \in Nat \ {0}
        /\ \A k \in 1..Len(o) : o[k] = owed[k + 1]
    BY <1>4, OwedAfterDone
  <2> TAKE i \in 1..Len(o)
  <2>2. i + 1 \in 1..Len(owed)
    BY <2>1
  <2> QED
    BY <1>1, <2>1, <2>2
<1>5. CASE owed' = owed
  BY <1>1, <1>5
<1> QED
  BY <1>2, <1>3, <1>4, <1>5, ServicesStay

\* ... and a question that is asked for its level was not taught.
LEMMA AskedIsFresh ==
  ASSUME OwedInv, QueueInv, FreshInv, NEW q \in Question, Alone(q), NEW p \in Question, Clarify(p) \/ Teach(p)
  PROVE  /\ p = q /\ q \notin handled /\ owed = <<>> /\ q \in handled'
         /\ \A k \in 1..Len(eventQueue) : ~IsToken(eventQueue[k]) /\ eventQueue[k].kind # "status"
<1>1. p = q /\ q \notin handled /\ q \in handled'
  BY DEF Clarify, Teach, Alone
<1>2. owed = <<>>
  <2>1. \A i \in 1..Len(owed) : FALSE
    BY <1>1 DEF OwedInv, Alone
  <2> QED
    BY <2>1, LenProperties, EmptySeq DEF OwedInv
<1>3. ASSUME NEW k \in 1..Len(eventQueue), IsToken(eventQueue[k])  PROVE FALSE
  <2> PICK t : t = eventQueue[k].token
    OBVIOUS
  <2>1. ~Fresh(t) /\ t \in Token /\ t.question = q
    BY <1>3, QueueSays DEF Alone
  <2>2. PICK f : f = [question |-> t.question, level |-> t.level]
    OBVIOUS
  <2>3. Fresh(f) /\ SameLevel(t, f)
    BY <1>1, <2>1, <2>2, TokenLevel DEF FreshInv, SameLevel
  <2> QED
    BY <2>1, <2>3, FreshSame
<1>4. \A k \in 1..Len(eventQueue) : eventQueue[k].kind # "status"
  BY <1>1 DEF Alone
<1> QED
  BY <1>1, <1>2, <1>3, <1>4

\* What was told stays told.
LEMMA ToldStays ==
  ASSUME SidInv, StreamInv, OwedInv, QueueInv, FollowInv, TextInv, [Next]_vars, NEW q \in Question, ~Untold(q)
  PROVE  ~Untold(q)'
<1>1. PICK l \in 1..MaxLevels : taken[q][l] # <<>>
  BY DEF Untold
<1>2. CASE ~TakeItem
  <2>1. taken' = taken
    BY <1>2, QueueKept
  <2> QED
    BY <1>1, <2>1 DEF Untold
<1>3. CASE TakeItem
  <2> PICK t, e : t = [question |-> q, level |-> l] /\ e = eventQueue[1]
    OBVIOUS
  <2>1. t.question \in Question /\ t.level \in 1..MaxLevels /\ TakenOf(t) # <<>>
    BY <1>1 DEF TakenOf
  <2>2. TakenOf(t) \in Seq(Token)
    BY <2>1, TakenType
  <2>3. TakenOf(t)' # <<>>
    <3>1. CASE IsToken(e) /\ SameLevel(e.token, t)
      <4>1. TakenOf(t)' = Append(TakenOf(t), e.token) /\ e.token \in Token
        BY <1>3, <2>1, <3>1, TakeTaken, TakeToken
      <4> QED
        BY <2>2, <4>1, AppendProperties, LenProperties, EmptySeq
    <3>2. CASE ~(IsToken(e) /\ SameLevel(e.token, t))
      BY <1>3, <2>1, <3>2, TakeTaken
    <3> QED
      BY <3>1, <3>2
  <2>4. taken'[q][l] # <<>>
    BY <2>3 DEF TakenOf
  <2> QED
    BY <2>4 DEF Untold
<1> QED
  BY <1>2, <1>3

LEMMA AloneAside ==
  ASSUME SidInv, StreamInv, OwedInv, QueueInv, FollowInv, TextInv, FreshInv, BegunInv, [Next]_vars,
         ~Submits, ~TakeItem, NEW q \in Question, Alone(q), NEW r, r = eventQueue', NEW k \in 1..Len(r)
  PROVE  /\ IsToken(r[k]) => r[k].token.question = q
         /\ IsEnd(r[k]) /\ q \notin broken' => ~Untold(q)' \/ \E j \in 1..(k - 1) : IsToken(r[j])
         /\ r[k].kind = "status" => q \in handled' /\ owed' = <<>> /\ \A j \in 1..Len(r) : ~IsToken(r[j])
<1> PICK u : u = eventQueue
  OBVIOUS
<1>0. /\ Len(u) \in Nat /\ Len(r) \in Nat /\ Len(r) >= Len(u)
      /\ \A j \in 1..Len(u) : r[j] = u[j]
      /\ \A j \in (Len(u) + 1)..Len(r) : IsNew(r[j])
  BY QueueKept
<1>1. broken \subseteq broken' /\ handled \subseteq handled'
  BY BrokenGrows, ServicesStay
<1>2. ASSUME owed = <<>>, \A j \in 1..Len(u) : ~IsToken(u[j])
      PROVE  \A j \in 1..Len(r) : ~IsToken(r[j])
  <2> SUFFICES ASSUME NEW j \in 1..Len(r), IsToken(r[j])  PROVE FALSE
    OBVIOUS
  <2>1. j \notin 1..Len(u)
    BY <1>0, <1>2
  <2>2. IsNew(r[j])
    BY <1>0, <2>1
  <2>3. SendToken
    BY <2>2 DEF IsNew, IsToken, IsEnd
  <2> QED
    BY <1>2, <2>3 DEF SendToken
<1>3. ASSUME owed = <<>>, ~\E p \in Question : Teach(p)  PROVE owed' = <<>>
  <2>1. ~SendToken /\ ~SendDone
    BY <1>3 DEF SendToken, SendDone
  <2> QED
    BY <1>3, <2>1, ServicesStay
<1>4. CASE k \in 1..Len(u)
  <2>0. r[k] = u[k] /\ \A j \in 1..(k - 1) : r[j] = u[j]
    BY <1>0, <1>4
  <2>1. IsToken(r[k]) => r[k].token.question = q
    BY <1>4, <2>0 DEF Alone
  <2>2. ASSUME IsEnd(r[k]), q \notin broken'
        PROVE  ~Untold(q)' \/ \E j \in 1..(k - 1) : IsToken(r[j])
    <3>1. ~Untold(q) \/ \E j \in 1..(k - 1) : IsToken(u[j])
      BY <1>1, <1>4, <2>0, <2>2 DEF Alone
    <3>2. ~Untold(q) => ~Untold(q)'
      BY ToldStays
    <3> QED
      BY <2>0, <3>1, <3>2
  <2>3. ASSUME r[k].kind = "status"
        PROVE  q \in handled' /\ owed' = <<>> /\ \A j \in 1..Len(r) : ~IsToken(r[j])
    <3>1. q \in handled /\ owed = <<>> /\ \A j \in 1..Len(u) : ~IsToken(u[j])
      BY <1>4, <2>0, <2>3 DEF Alone
    <3>2. ~\E p \in Question : Teach(p)
      BY <3>1, AskedIsFresh
    <3> QED
      BY <1>1, <1>2, <1>3, <3>1, <3>2
  <2> QED
    BY <2>1, <2>2, <2>3
<1>5. CASE k \notin 1..Len(u)
  <2>0. IsNew(r[k]) /\ k \in (Len(u) + 1)..Len(r)
    BY <1>0, <1>5
  <2>1. CASE r[k].kind \in {"state", "connected"}
    BY <2>1 DEF IsToken, IsEnd
  <2>2. CASE r[k].kind = "status" /\ \E p \in Question : Clarify(p)
    <3>1. PICK p \in Question : Clarify(p)
      BY <2>2
    <3>2. /\ owed = <<>> /\ q \in handled'
          /\ \A j \in 1..Len(u) : ~IsToken(u[j])
      BY <3>1, AskedIsFresh
    <3>3. owed' = <<>>
      BY <3>1, <3>2 DEF Clarify
    <3>4. \A j \in 1..Len(r) : ~IsToken(r[j])
      BY <1>2, <3>2
    <3>5. ~IsToken(r[k]) /\ ~IsEnd(r[k])
      BY <2>2 DEF IsToken, IsEnd
    <3> QED
      BY <3>2, <3>3, <3>4, <3>5
  <2>3. CASE IsToken(r[k]) /\ SameLevel(r[k].token, owed[1]) /\ SendToken
    <3>1. 1 \in 1..Len(owed)
      BY <2>3, OwedAfterToken
    <3>2. r[k].token.question = q
      BY <2>3, <3>1 DEF Alone, SameLevel
    <3> QED
      BY <2>3, <3>2 DEF IsToken, IsEnd
  <2>4. CASE IsEnd(r[k]) /\ SendDone
    <3>1. 1 \in 1..Len(owed) /\ owed # <<>>
      BY <2>4, OwedAfterDone, EmptySeq
    <3> PICK t : t = owed[1]
      OBVIOUS
    <3>2. t.question = q /\ t.level \in 1..MaxLevels
      BY <3>1, OwedLevel DEF Alone
    <3>3. ASSUME q \notin broken'  PROVE ~Untold(q)' \/ \E j \in 1..(k - 1) : IsToken(r[j])
      <4>1. ~Fresh(t)
        <5>1. owed[1].sent > 0 /\ owed[1].question \notin broken
          BY <1>1, <2>4, <3>2, <3>3, BrokenGrows
        <5> QED
          BY <3>1, <5>1 DEF BegunInv
      <4>2. CASE TakenOf(t) # <<>>
        <5>1. ~Untold(q)
          BY <3>2, <4>2 DEF Untold, TakenOf
        <5> QED
          BY <5>1, ToldStays
      <4>3. CASE TakenOf(t) = <<>>
        <5>1. PICK j \in 1..Len(u) : IsToken(u[j])
          BY <4>1, <4>3 DEF Fresh
        <5>2. j \in 1..(k - 1) /\ r[j] = u[j]
          BY <1>0, <2>0
        <5> QED
          BY <5>1, <5>2
      <4> QED
        BY <4>2, <4>3
    <3> QED
      BY <2>4, <3>3 DEF IsToken, IsEnd
  <2> QED
    BY <2>0, <2>1, <2>2, <2>3, <2>4 DEF IsNew
<1> QED
  BY <1>4, <1>5

LEMMA AloneTake ==
  ASSUME SidInv, StreamInv, OwedInv, QueueInv, FollowInv, TextInv, [Next]_vars,
         TakeItem, NEW q \in Question, Alone(q), NEW r, r = eventQueue', NEW k \in 1..Len(r)
  PROVE  /\ IsToken(r[k]) => r[k].token.question = q
         /\ IsEnd(r[k]) /\ q \notin broken' => ~Untold(q)' \/ \E j \in 1..(k - 1) : IsToken(r[j])
         /\ r[k].kind = "status" => q \in handled' /\ owed' = <<>> /\ \A j \in 1..Len(r) : ~IsToken(r[j])
<1> PICK u, e : u = eventQueue /\ e = u[1]
  OBVIOUS
<1>0. /\ Len(u) \in Nat \ {0} /\ Len(r) = Len(u) - 1
      /\ \A j \in 1..Len(r) : r[j] = u[j + 1]
      /\ UNCHANGED <<owed, handled, broken>>
  BY TakeQueue DEF QueueInv, TakeItem, services
<1>1. k + 1 \in 1..Len(u) /\ r[k] = u[k + 1] /\ (k + 1) - 1 = k
  BY <1>0
<1>2. IsToken(r[k]) => r[k].token.question = q
  BY <1>1 DEF Alone
<1>3. ASSUME IsEnd(r[k]), q \notin broken'
      PROVE  ~Untold(q)' \/ \E j \in 1..(k - 1) : IsToken(r[j])
  <2>1. ~Untold(q) \/ \E j \in 1..k : IsToken(u[j])
    BY <1>0, <1>1, <1>3 DEF Alone
  <2>2. CASE ~Untold(q)
    BY <2>2, ToldStays
  <2>3. ASSUME NEW j \in 1..k, IsToken(u[j])
        PROVE  ~Untold(q)' \/ \E i \in 1..(k - 1) : IsToken(r[i])
    <3>1. CASE j = 1
      <4> PICK t : t = e.token
        OBVIOUS
      <4>0. t \in Token
        BY <2>3, <3>1, TakeToken
      <4>1. t.question = q /\ t.level \in 1..MaxLevels
        BY <1>0, <2>3, <3>1, <4>0, TokenLevel DEF Alone
      <4>2. TakenOf(t)' = Append(TakenOf(t), t) /\ TakenOf(t) \in Seq(Token)
        BY <2>3, <3>1, <4>0, TakeTaken, TakenType, TokenLevel DEF SameLevel
      <4>3. TakenOf(t)' # <<>>
        BY <4>0, <4>2, AppendProperties, LenProperties, EmptySeq
      <4> QED
        BY <4>1, <4>3 DEF Untold, TakenOf
    <3>2. CASE j # 1
      <4>1. j - 1 \in 1..(k - 1) /\ j - 1 \in 1..Len(r) /\ (j - 1) + 1 = j
        BY <1>0, <3>2
      <4> QED
        BY <1>0, <2>3, <4>1
    <3> QED
      BY <3>1, <3>2
  <2> QED
    BY <2>1, <2>2, <2>3
<1>4. ASSUME r[k].kind = "status"
      PROVE  q \in handled' /\ owed' = <<>> /\ \A j \in 1..Len(r) : ~IsToken(r[j])
  <2>1. q \in handled /\ owed = <<>> /\ \A j \in 1..Len(u) : ~IsToken(u[j])
    BY <1>1, <1>4 DEF Alone
  <2>2. \A j \in 1..Len(r) : j + 1 \in 1..Len(u) /\ r[j] = u[j + 1]
    BY <1>0
  <2> QED
    BY <1>0, <2>1, <2>2
<1> QED
  BY <1>2, <1>3, <1>4

\* A question that is alone stays so until the next one is posted ...
LEMMA AloneStays ==
  ASSUME SidInv, StreamInv, OwedInv, QueueInv, FollowInv, TextInv, FreshInv, BegunInv, [Next]_vars,
         ~Submits, NEW q \in Question, Alone(q)
  PROVE  Alone(q)'
<1> PICK r : r = eventQueue'
  OBVIOUS
<1>1. handling' \subseteq {q} /\ published' \ handled' \subseteq {q}
  BY PostsStay DEF Alone
<1>2. \A i \in 1..Len(owed') : owed'[i].question = q
  BY OwedStaysOf
<1>3. ASSUME NEW k \in 1..Len(r)
      PROVE  /\ IsToken(r[k]) => r[k].token.question = q
             /\ IsEnd(r[k]) /\ q \notin broken' => ~Untold(q)' \/ \E j \in 1..(k - 1) : IsToken(r[j])
             /\ r[k].kind = "status" => q \in handled' /\ owed' = <<>> /\ \A j \in 1..Len(r) : ~IsToken(r[j])
  <2>1. CASE TakeItem
    BY <2>1, AloneTake
  <2>2. CASE ~TakeItem
    BY <2>2, AloneAside
  <2> QED
    BY <2>1, <2>2
<1> QED
  BY <1>1, <1>2, <1>3 DEF Alone, IsToken, IsEnd

\* ... which has the page to itself if the others are settled.
LEMMA AloneAtFirst ==
  ASSUME UploadInv, QueueInv, NEW q \in Question, NEW n \in 0..MaxFiles, Submit(q, n), Settled
  PROVE  Alone(q)'
<1>1. handling = {} /\ published \subseteq handled /\ owed = <<>>
  BY DEF UploadInv, Settled
<1>2. handling' \subseteq {q} /\ published' = published
  BY <1>1 DEF Submit, Accept
<1>3. UNCHANGED <<owed, handled, eventQueue>>
  BY DEF Submit
<1>4. \A k \in 1..Len(eventQueue) : eventQueue[k].kind \notin {"token", "complete", "status"}
  <2>1. DOMAIN eventQueue = 1..Len(eventQueue)
    BY LenProperties DEF QueueInv, IsQueue
  <2> QED
    BY <2>1 DEF Settled
<1>5. Len(owed) = 0
  BY <1>1, EmptySeq
<1> QED
  BY <1>1, <1>2, <1>3, <1>4, <1>5 DEF Alone, IsToken, IsEnd

-----------------------------------------------------------------------------
(* The messages below a question.                                          *)

\* The states of the slot m of question q: empty, ...
Empty(q, m) ==
  /\ history[m].content = <<>> /\ ~history[m].complete /\ history[m].stream = NoStream
  /\ m = Len(history) => Untold(q)

\* ... with the first level under way, which ends, ...
Filling(q, m) ==
  /\ m = Len(history) /\ ~history[m].complete
  /\ history[m].content = taken[q][1] /\ taken[q][1] # <<>>
  /\ history[m].stream = chat.stream /\ ~chat.complete /\ chat.text = taken[q][1]
  /\ \A k \in 1..Len(eventQueue) : eventQueue[k].kind # "status"
  /\ OwedOf(Level1(q)) \/ \E k \in 1..Len(eventQueue) : IsEnd(eventQueue[k])

\* ... with the first level, of which nothing more comes, ...
Filled(q, m) ==
  /\ history[m].complete /\ history[m].content = taken[q][1] /\ taken[q][1] # <<>>
  /\ ~OwedOf(Level1(q))
  /\ \A k \in 1..Len(eventQueue) : IsToken(eventQueue[k]) => ~SameLevel(eventQueue[k].token, Level1(q))
  /\ m = Len(history) => chat.text = taken[q][1]

\* ... or with the failure of the post.
Refused(q, m) ==
  /\ history[m].complete /\ history[m].content = <<Failure>>
  /\ m = Len(history) => Untold(q)

Answered(q, m) == Empty(q, m) \/ Filling(q, m) \/ Filled(q, m) \/ Refused(q, m)

OwnInv ==
  \A i \in 1..Len(history) : history[i].role = "user" =>
    /\ i + 1 \in 1..Len(history) /\ history[i + 1].role = "assistant" /\ history[i].of \in asked
    /\ history[i].of \notin crowded \cup broken => Answered(history[i].of, i + 1)

\* A step other than a post keeps the messages, and what it adds is no question.
MessagesKept ==
  /\ Len(history') \in Nat /\ Len(history') >= Len(history)
  /\ \A i \in 1..Len(history) : history'[i].role = history[i].role /\ history'[i].of = history[i].of
  /\ \A i \in (Len(history) + 1)..Len(history') : history'[i].role = "assistant"

LEMMA KeptBy ==
  ASSUME HistoryInv, NEW g, g = history',
         \/ g = history
         \/ \E m \in 1..Len(history) : \E text, stream, complete : Rewrites(g, history, m, text, stream, complete)
         \/ Adds(g, history) /\ Len(g) = Len(history) + 1 /\ g[Len(g)].role = "assistant"
  PROVE  MessagesKept
<1>0. Len(history) \in Nat
  BY LenProperties DEF HistoryInv
<1>1. CASE g = history
  BY <1>0, <1>1 DEF MessagesKept
<1>2. ASSUME NEW m \in 1..Len(history), NEW text, NEW stream, NEW complete,
             Rewrites(g, history, m, text, stream, complete)
      PROVE  MessagesKept
  BY <1>0, <1>2 DEF Rewrites, MessagesKept
<1>3. CASE Adds(g, history) /\ Len(g) = Len(history) + 1 /\ g[Len(g)].role = "assistant"
  <2>1. \A i \in (Len(history) + 1)..Len(g) : i = Len(g)
    BY <1>0, <1>3
  <2> QED
    BY <1>3, <2>1 DEF Adds, MessagesKept
<1> QED
  BY <1>1, <1>2, <1>3

LEMMA AsideKeeps ==
  ASSUME HistoryInv, [Next]_vars, ~Submits, ~TakeItem
  PROVE  /\ UNCHANGED history \/ (Reply /\ posting # NoQuestion /\ history' = ReportInSlot)
         /\ Reply => UNCHANGED <<chat, eventQueue, owed, taken>>
<1>1. CASE BackendStep \/ Client \/ Open \/ UNCHANGED vars
  BY <1>1 DEF BackendStep, Client, FirstAttemptFails, Connect, Disconnect, AttemptFails, Open, vars,
              page, Reply, services, ghosts
<1>2. CASE Answers
  BY <1>2 DEF Answers, Teach, Clarify, Lose, SendToken, SendDone, page, Reply, services, ghosts
<1>3. CASE Reply
  BY <1>3 DEF Reply, services, ghosts
<1> QED
  BY <1>1, <1>2, <1>3 DEF Next, Page, Submits

LEMMA MessagesStay ==
  ASSUME QueueInv, FollowInv, TextInv, SlotInv, HistoryInv, [Next]_vars, ~Submits
  PROVE  MessagesKept
<1> PICK g, e, c : g = history' /\ e = eventQueue[1] /\ c = chat'
  OBVIOUS
<1>0. history # <<>> => Len(history) \in 1..Len(history)
  BY LastElement DEF HistoryInv
<1>1. CASE ~TakeItem
  <2>1. CASE g = history
    BY <2>1, KeptBy
  <2>2. CASE posting # NoQuestion /\ g = ReportInSlot
    <3>1. Rewrites(g, history, Len(history), <<Failure>>, Last(history).stream, TRUE)
      BY <2>2, ReportsFailure
    <3>2. Len(history) \in 1..Len(history)
      BY <1>0, <2>2 DEF HistoryInv, LastIsAssistant
    <3> QED
      BY <3>1, <3>2, KeptBy
  <2> QED
    BY <1>1, <2>1, <2>2, AsideKeeps
<1>2. CASE TakeItem /\ IsToken(e)
  <2>1. \/ \E m \in 1..Len(history) : Rewrites(g, history, m, c.text, c.stream, FALSE)
        \/ OpenAtEnd /\ Rewrites(g, history, Len(history), c.text, c.stream, FALSE)
        \/ Adds(g, history) /\ Len(g) = Len(history) + 1 /\ g[Len(g)].role = "assistant"
    <3>1. ToItsSlot(e, c, g) \/ ToTheEnd(e, c, g) \/ ToItsOwn(e, c, g)
      BY <1>2, ShowsToken
    <3> QED
      BY <3>1 DEF ToItsSlot, ToTheEnd, ToItsOwn
  <2>2. OpenAtEnd => Len(history) \in 1..Len(history)
    BY <1>0 DEF OpenAtEnd, LastIsAssistant
  <2> QED
    BY <2>1, <2>2, KeptBy
<1>3. CASE TakeItem /\ IsEnd(e)
  <2>1. \/ history # <<>> /\ Rewrites(g, history, Len(history), c.text, Last(history).stream, TRUE)
        \/ g = history
    BY <1>3, ShowsEnd
  <2> QED
    BY <1>0, <2>1, KeptBy
<1>4. CASE TakeItem /\ ~IsText(e)
  <2>1. \/ g = history
        \/ Adds(g, history) /\ Len(g) = Len(history) + 1 /\ g[Len(g)].role = "assistant"
    BY <1>4, ShowsOther
  <2> QED
    BY <2>1, KeptBy
<1> QED
  BY <1>1, <1>2, <1>3, <1>4 DEF IsText, IsToken, IsEnd

\* A post adds a question and its slot.
LEMMA SubmitAdds ==
  ASSUME HistoryInv, NEW q \in Question, NEW n \in 0..MaxFiles, Submit(q, n), NEW g, g = history'
  PROVE  /\ Len(history) \in Nat /\ Len(g) = Len(history) + 2
         /\ \A i \in 1..Len(history) : g[i] = history[i]
         /\ g[Len(history) + 1] = Said("user", q) /\ g[Len(history) + 2] = Said("assistant", q)
<1> PICK u, w : u = Said("user", q) /\ w = Said("assistant", q)
  OBVIOUS
<1>1. u \in Message /\ w \in Message
  <2>1. <<>> \in Seq(Token \cup Notice)
    OBVIOUS
  <2> QED
    BY <2>1 DEF Said, Message
<1>2. history \in Seq(Message) /\ Len(history) \in Nat
  BY LenProperties DEF HistoryInv
<1>3. g = history \o <<u, w>>
  BY DEF Submit
<1> QED
  BY <1>1, <1>2, <1>3, AddsTwo DEF Adds

LEMMA AloneInvStep ==
  ASSUME UploadInv, SidInv, StreamInv, OwedInv, QueueInv, FollowInv, TextInv, FreshInv, SlotInv, HistoryInv,
         BegunInv, AloneInv, OwnInv, [Next]_vars
  PROVE  AloneInv'
<1> PICK g, h : g = history' /\ h = history
  OBVIOUS
<1> SUFFICES ASSUME NEW i \in 1..Len(g), g[i].role = "user",
                    \A j \in (i + 1)..Len(g) : g[j].role # "user",
                    NEW q, q = g[i].of, q \notin crowded'
             PROVE  Alone(q)'
  BY DEF AloneInv, LastUser
<1>1. CASE ~Submits
  <2>1. /\ Len(g) \in Nat /\ Len(g) >= Len(h) /\ Len(h) \in Nat
        /\ \A k \in 1..Len(h) : g[k].role = h[k].role /\ g[k].of = h[k].of
        /\ \A k \in (Len(h) + 1)..Len(g) : g[k].role = "assistant"
    BY <1>1, MessagesStay, LenProperties DEF MessagesKept, HistoryInv
  <2>2. i \in 1..Len(h) /\ h[i].role = "user" /\ h[i].of = q
    <3>1. i \in 1..Len(h)
      BY <2>1
    <3> QED
      BY <2>1, <3>1
  <2>3. \A j \in (i + 1)..Len(h) : h[j].role # "user"
    <3> TAKE j \in (i + 1)..Len(h)
    <3>1. j \in 1..Len(h) /\ j \in (i + 1)..Len(g)
      BY <2>1, <2>2
    <3> QED
      BY <2>1, <3>1
  <2>4. q \in Question /\ q \notin crowded
    BY <1>1, <2>2, PostsStay DEF OwnInv, OwedInv
  <2>5. Alone(q)
    BY <2>2, <2>3, <2>4 DEF AloneInv, LastUser
  <2> QED
    BY <1>1, <2>4, <2>5, AloneStays
<1>2. ASSUME NEW p \in Question, NEW n \in 0..MaxFiles, Submit(p, n)
      PROVE  Alone(q)'
  <2>1. /\ Len(h) \in Nat /\ Len(g) = Len(h) + 2
        /\ \A k \in 1..Len(h) : g[k] = h[k]
        /\ g[Len(h) + 1].role = "user" /\ g[Len(h) + 1].of = p /\ g[Len(h) + 2].role = "assistant"
    <3>1. /\ Len(h) \in Nat /\ Len(g) = Len(h) + 2
          /\ \A k \in 1..Len(h) : g[k] = h[k]
          /\ g[Len(h) + 1] = Said("user", p) /\ g[Len(h) + 2] = Said("assistant", p)
      BY <1>2, SubmitAdds
    <3>2. /\ Said("user", p).role = "user" /\ Said("user", p).of = p
          /\ Said("assistant", p).role = "assistant"
      BY DEF Said
    <3> QED
      BY <3>1, <3>2
  <2>2. i \notin 1..Len(h)
    <3> SUFFICES ASSUME i \in 1..Len(h)  PROVE FALSE
      OBVIOUS
    <3>1. Len(h) + 1 \in (i + 1)..Len(g)
      BY <2>1
    <3> QED
      BY <2>1, <3>1
  <2>3. i = Len(h) + 1
    <3>1. i = Len(h) + 1 \/ i = Len(h) + 2
      BY <2>1, <2>2
    <3> QED
      BY <2>1, <3>1
  <2>4. q = p
    BY <2>1, <2>3
  <2>5. Settled
    BY <1>2, <2>4 DEF Submit
  <2> QED
    BY <1>2, <2>4, <2>5, AloneAtFirst
<1> QED
  BY <1>1, <1>2 DEF Submits

-----------------------------------------------------------------------------
(* A slot keeps to its question: one lemma per step.                       *)

LEMMA AnsweredSubmit ==
  ASSUME OwedInv, QueueInv, HistoryInv, NEW p \in Question, NEW n \in 0..MaxFiles, Submit(p, n),
         NEW q \in asked, NEW m \in 1..Len(history), q \notin crowded', Answered(q, m)
  PROVE  Answered(q, m)'
<1> PICK g, h : g = history' /\ h = history
  OBVIOUS
<1>1. Len(h) \in Nat /\ Len(g) = Len(h) + 2 /\ \A k \in 1..Len(h) : g[k] = h[k]
  BY SubmitAdds
<1>2. g[m] = h[m] /\ m # Len(g)
  BY <1>1
<1>3. UNCHANGED <<taken, chat, eventQueue, owed>>
  BY DEF Submit
<1>4. ~Filling(q, m)
  <2> SUFFICES ASSUME Filling(q, m)  PROVE FALSE
    OBVIOUS
  <2>1. Settled
    BY DEF Submit
  <2>2. Len(owed) = 0
    BY <2>1, EmptySeq DEF Settled
  <2>3. \A k \in 1..Len(eventQueue) : ~IsEnd(eventQueue[k])
    <3>1. DOMAIN eventQueue = 1..Len(eventQueue)
      BY LenProperties DEF QueueInv, IsQueue
    <3> QED
      BY <2>1, <3>1 DEF Settled, IsEnd
  <2> QED
    BY <2>2, <2>3 DEF Filling, OwedOf
<1>5. CASE Empty(q, m)
  BY <1>2, <1>5 DEF Answered, Empty
<1>6. CASE Filled(q, m)
  BY <1>2, <1>3, <1>6 DEF Answered, Filled, OwedOf, SameLevel, IsToken, Level1
<1>7. CASE Refused(q, m)
  BY <1>2, <1>7 DEF Answered, Refused
<1> QED
  BY <1>4, <1>5, <1>6, <1>7 DEF Answered

\* The failure goes into an empty slot.
LEMMA AnsweredReply ==
  ASSUME HistoryInv, posting # NoQuestion, history' = ReportInSlot,
         UNCHANGED <<chat, eventQueue, owed, taken>>,
         NEW q \in Question, NEW m \in 1..Len(history), Answered(q, m)
  PROVE  Answered(q, m)'
<1> PICK g, h : g = history' /\ h = history
  OBVIOUS
<1>1. /\ Len(g) = Len(h) /\ \A i \in 1..Len(h) : i # Len(h) => g[i] = h[i]
      /\ g[Len(h)].content = <<Failure>> /\ g[Len(h)].complete = TRUE
  BY ReportsFailure DEF Rewrites
<1>2. h[Len(h)].content = <<>>
  BY LastElement DEF HistoryInv, LastIsAssistant
<1>3. CASE m # Len(h)
  <2>1. g[m] = h[m]
    BY <1>1, <1>3
  <2>2. CASE Empty(q, m)
    BY <1>1, <1>3, <2>1, <2>2 DEF Answered, Empty
  <2>3. CASE Filled(q, m)
    BY <1>1, <1>3, <2>1, <2>3 DEF Answered, Filled, OwedOf, SameLevel, IsToken, Level1
  <2>4. CASE Refused(q, m)
    BY <1>1, <1>3, <2>1, <2>4 DEF Answered, Refused
  <2>5. ~Filling(q, m)
    BY <1>3 DEF Filling
  <2> QED
    BY <2>2, <2>3, <2>4, <2>5 DEF Answered
<1>4. CASE m = Len(h)
  <2>1. <<Failure>> # <<>>
    OBVIOUS
  <2>2. Empty(q, m)
    BY <1>2, <1>4, <2>1 DEF Answered, Filling, Filled, Refused
  <2>3. Refused(q, m)'
    BY <1>1, <1>4, <2>2 DEF Empty, Refused, Untold
  <2> QED
    BY <2>3 DEF Answered
<1> QED
  BY <1>3, <1>4

\* The services add to the queue: what is filled gets nothing more, ...
LEMMA FilledAside ==
  ASSUME SidInv, StreamInv, OwedInv, QueueInv, FreshInv, [Next]_vars, ~TakeItem, history' = history,
         NEW q \in Question, NEW m \in 1..Len(history), Filled(q, m)
  PROVE  Filled(q, m)'
<1> PICK r, u, t : r = eventQueue' /\ u = eventQueue /\ t = Level1(q)
  OBVIOUS
<1>1. /\ Len(u) \in Nat /\ Len(r) \in Nat
      /\ \A k \in 1..Len(u) : r[k] = u[k]
      /\ \A k \in (Len(u) + 1)..Len(r) : IsNew(r[k])
      /\ UNCHANGED <<chat, taken>>
  BY QueueKept
<1>2. t.question = q /\ t.level = 1 /\ 1 \in 1..MaxLevels
  BY StreamlitAssumption DEF Level1
<1>3. ~OwedOf(t)
  BY DEF Filled
<1>4. ~OwedOf(t)'
  <2>1. ~Fresh(t)
    BY <1>2 DEF Filled, Fresh, TakenOf
  <2> QED
    BY <1>2, <1>3, <2>1, OwedBefore
<1>5. ASSUME NEW k \in 1..Len(r), IsToken(r[k])  PROVE ~SameLevel(r[k].token, t)
  <2>1. CASE k \in 1..Len(u)
    BY <1>1, <1>5, <2>1 DEF Filled
  <2>2. CASE k \notin 1..Len(u)
    <3>1. IsNew(r[k])
      BY <1>1, <2>2
    <3>2. SameLevel(r[k].token, owed[1]) /\ SendToken
      BY <1>5, <3>1 DEF IsNew, IsToken, IsEnd
    <3>3. 1 \in 1..Len(owed)
      BY <3>2, OwedAfterToken
    <3> QED
      BY <1>3, <3>2, <3>3 DEF OwedOf, SameLevel
  <2> QED
    BY <2>1, <2>2
<1>6. ~OwedOf(Level1(q))' /\ \A k \in 1..Len(r) : IsToken(r[k]) => ~SameLevel(r[k].token, Level1(q))
  BY <1>4, <1>5 DEF OwedOf, SameLevel, Level1
<1> QED
  BY <1>1, <1>6 DEF Filled, IsToken, SameLevel, Level1

\* ... and what is under way ends.
LEMMA FillingAside ==
  ASSUME SidInv, StreamInv, OwedInv, QueueInv, FreshInv, [Next]_vars, ~TakeItem, history' = history,
         NEW q \in Question, NEW m \in 1..Len(history), Alone(q), q \notin broken', Filling(q, m)
  PROVE  Filling(q, m)'
<1> PICK r, u, t : r = eventQueue' /\ u = eventQueue /\ t = Level1(q)
  OBVIOUS
<1>1. /\ Len(u) \in Nat /\ Len(r) \in Nat /\ Len(r) >= Len(u)
      /\ \A k \in 1..Len(u) : r[k] = u[k]
      /\ \A k \in (Len(u) + 1)..Len(r) : IsNew(r[k])
      /\ UNCHANGED <<chat, taken>>
      /\ SendDone /\ Arrives  => Len(r) = Len(u) + 1 /\ IsEnd(r[Len(r)])
  BY QueueKept
<1>2. t.question = q /\ t.level = 1 /\ 1 \in 1..MaxLevels
  BY StreamlitAssumption DEF Level1
<1>3. ASSUME NEW k \in 1..Len(r), r[k].kind = "status"  PROVE FALSE
  <2>1. k \notin 1..Len(u)
    BY <1>1, <1>3 DEF Filling
  <2>2. IsNew(r[k])
    BY <1>1, <2>1
  <2>3. PICK p \in Question : Clarify(p)
    BY <1>3, <2>2 DEF IsNew, IsToken, IsEnd
  <2>4. q \notin handled
    BY <2>3, AskedIsFresh
  <2>5. Fresh([question |-> q, level |-> 1])
    BY <1>2, <2>4 DEF FreshInv
  <2> QED
    BY <2>5 DEF Fresh, TakenOf, Filling
<1>4. OwedOf(t)' \/ \E k \in 1..Len(r) : IsEnd(r[k])
  <2>1. CASE \E k \in 1..Len(u) : IsEnd(u[k])
    BY <1>1, <2>1
  <2>2. CASE OwedOf(t) /\ ~(SendDone /\ SameLevel(owed[1], t))
    BY <2>2, OwedUntilDone
  <2>3. CASE SendDone /\ SameLevel(owed[1], t)
    <3>1. Arrives
      BY <1>2, <2>3, BrokenGrows DEF SameLevel
    <3>2. Len(r) \in 1..Len(r) /\ IsEnd(r[Len(r)])
      BY <1>1, <2>3, <3>1
    <3> QED
      BY <3>2
  <2>4. OwedOf(t) \/ \E k \in 1..Len(u) : IsEnd(u[k])
    BY DEF Filling
  <2> QED
    BY <2>1, <2>2, <2>3, <2>4
<1>5. OwedOf(Level1(q))' \/ \E k \in 1..Len(r) : IsEnd(r[k])
  BY <1>4 DEF OwedOf, SameLevel, Level1
<1> QED
  BY <1>1, <1>3, <1>5 DEF Filling, IsEnd

LEMMA AnsweredAside ==
  ASSUME SidInv, StreamInv, OwedInv, QueueInv, FreshInv, HistoryInv, [Next]_vars, ~Submits, ~TakeItem,
         NEW q \in Question, NEW m \in 1..Len(history), m = Len(history) => Alone(q), q \notin broken', Answered(q, m)
  PROVE  Answered(q, m)'
<1>1. CASE posting # NoQuestion /\ history' = ReportInSlot /\ Reply
  <2>1. UNCHANGED <<chat, eventQueue, owed, taken>>
    BY <1>1, AsideKeeps
  <2> QED
    BY <1>1, <2>1, AnsweredReply
<1>2. CASE history' = history
  <2>1. taken' = taken
    BY QueueKept
  <2>2. CASE Empty(q, m)
    BY <1>2, <2>1, <2>2 DEF Answered, Empty, Untold
  <2>3. CASE Refused(q, m)
    BY <1>2, <2>1, <2>3 DEF Answered, Refused, Untold
  <2>4. CASE Filled(q, m)
    <3>1. Filled(q, m)'
      BY <1>2, <2>4, FilledAside
    <3> QED
      BY <3>1 DEF Answered
  <2>5. CASE Filling(q, m)
    <3>1. Alone(q)
      BY <2>5 DEF Filling
    <3>2. Filling(q, m)'
      BY <1>2, <2>5, <3>1, FillingAside
    <3> QED
      BY <3>2 DEF Answered
  <2> QED
    BY <2>2, <2>3, <2>4, <2>5 DEF Answered
<1> QED
  BY <1>1, <1>2, AsideKeeps

\* What is taken leaves the rest of the queue, and owes nothing more or less.
LEMMA TakeShifts ==
  ASSUME QueueInv, TakeItem, NEW u, u = eventQueue, NEW r, r = eventQueue'
  PROVE  /\ Len(u) \in Nat \ {0} /\ Len(r) = Len(u) - 1 /\ 1 \in 1..Len(u)
         /\ \A j \in 1..Len(r) : j + 1 \in 2..Len(u) /\ r[j] = u[j + 1]
         /\ \A j \in 2..Len(u) : j - 1 \in 1..Len(r) /\ r[j - 1] = u[j]
         /\ owed' = owed /\ broken' = broken
<1>1. /\ Len(u) \in Nat \ {0} /\ Len(r) = Len(u) - 1
      /\ \A j \in 1..Len(r) : r[j] = u[j + 1]
  BY TakeQueue DEF QueueInv
<1>2. \A j \in 1..Len(r) : j + 1 \in 2..Len(u)
  BY <1>1
<1>3. ASSUME NEW j \in 2..Len(u)  PROVE j - 1 \in 1..Len(r) /\ r[j - 1] = u[j]
  <2>1. j - 1 \in 1..Len(r) /\ (j - 1) + 1 = j
    BY <1>1
  <2> QED
    BY <1>1, <2>1
<1>4. owed' = owed /\ broken' = broken /\ 1 \in 1..Len(u)
  BY <1>1 DEF TakeItem, services
<1> QED
  BY <1>1, <1>2, <1>3, <1>4

\* A filled slot whose message stays, as long as its level does.
LEMMA FilledStays ==
  ASSUME QueueInv, TakeItem, NEW q \in Question, NEW m \in 1..Len(history), Filled(q, m),
         NEW g, g = history', g[m] = history[m], NEW c, c = chat',
         taken'[q][1] = taken[q][1], m = Len(g) => c.text = taken[q][1]
  PROVE  Filled(q, m)'
<1> PICK r, u : r = eventQueue' /\ u = eventQueue
  OBVIOUS
<1>1. \A j \in 1..Len(r) : j + 1 \in 1..Len(u) /\ r[j] = u[j + 1]
  BY TakeShifts
<1>2. \A k \in 1..Len(r) : IsToken(r[k]) => ~SameLevel(r[k].token, Level1(q))
  BY <1>1 DEF Filled
<1>3. ~OwedOf(Level1(q))'
  <2>1. owed' = owed
    BY TakeShifts
  <2> QED
    BY <2>1 DEF Filled, OwedOf, SameLevel, Level1
<1> QED
  BY <1>2, <1>3 DEF Filled, IsToken, SameLevel, Level1

\* Other events leave the slot, ...
LEMMA AnsweredOther ==
  ASSUME QueueInv, HistoryInv, TakeItem, ~IsText(eventQueue[1]),
         NEW q \in Question, NEW m \in 1..Len(history), Answered(q, m)
  PROVE  Answered(q, m)'
<1> PICK g, h, c, r, u, e : g = history' /\ h = history /\ c = chat' /\ r = eventQueue' /\ u = eventQueue /\ e = u[1]
  OBVIOUS
<1>1. /\ taken' = taken /\ c = chat
      /\ \/ g = h
         \/ Adds(g, h) /\ Len(g) = Len(h) + 1
  BY ShowsOther
<1>2. Len(h) \in Nat
  BY LenProperties DEF HistoryInv
<1>3. g[m] = h[m] /\ (m = Len(g) => m = Len(h) /\ g = h)
  BY <1>1, <1>2 DEF Adds
<1>4. CASE Empty(q, m)
  BY <1>1, <1>3, <1>4 DEF Answered, Empty, Untold
<1>5. CASE Refused(q, m)
  BY <1>1, <1>3, <1>5 DEF Answered, Refused, Untold
<1>6. CASE Filled(q, m)
  <2>1. m = Len(g) => c.text = taken[q][1]
    BY <1>1, <1>3, <1>6 DEF Filled
  <2>2. Filled(q, m)'
    BY <1>1, <1>3, <1>6, <2>1, FilledStays
  <2> QED
    BY <2>2 DEF Answered
<1>7. CASE Filling(q, m)
  <2>0. /\ Len(u) \in Nat \ {0} /\ 1 \in 1..Len(u) /\ owed' = owed
        /\ \A j \in 1..Len(r) : j + 1 \in 2..Len(u) /\ r[j] = u[j + 1]
        /\ \A j \in 2..Len(u) : j - 1 \in 1..Len(r) /\ r[j - 1] = u[j]
    BY TakeShifts
  <2>1. g = h
    <3>1. Take(e)
      BY TakeQueue DEF QueueInv
    <3>2. e.kind # "status" /\ e.kind # "token" /\ e.kind # "complete"
      BY <1>7, <2>0 DEF Filling, IsText
    <3> QED
      BY <3>1, <3>2 DEF Take
  <2>2. \A k \in 1..Len(r) : r[k].kind # "status"
    <3> TAKE k \in 1..Len(r)
    <3>1. k + 1 \in 1..Len(u) /\ r[k] = u[k + 1]
      BY <2>0
    <3> QED
      BY <1>7, <3>1 DEF Filling
  <2>3. OwedOf(Level1(q)) \/ \E k \in 1..Len(r) : IsEnd(r[k])
    <3>1. ASSUME NEW k \in 1..Len(u), IsEnd(u[k])  PROVE k \in 2..Len(u)
      <4>1. k # 1
        BY <3>1 DEF IsText, IsEnd
      <4> QED
        BY <2>0, <4>1
    <3> QED
      BY <1>7, <2>0, <3>1 DEF Filling
  <2>4. OwedOf(Level1(q))' \/ \E k \in 1..Len(r) : IsEnd(r[k])
    BY <2>0, <2>3 DEF OwedOf, SameLevel, Level1
  <2>5. Filling(q, m)'
    BY <1>1, <1>7, <2>1, <2>2, <2>4 DEF Filling, IsEnd
  <2> QED
    BY <2>5 DEF Answered
<1> QED
  BY <1>4, <1>5, <1>6, <1>7 DEF Answered

\* ... the end of a level makes it final, ...
LEMMA AnsweredEnd ==
  ASSUME QueueInv, FollowInv, TextInv, HistoryInv, DoneInv, TakeItem, IsEnd(eventQueue[1]),
         NEW q \in Question, NEW m \in 1..Len(history), history[m].role = "assistant",
         m = Len(history) => Alone(q), q \notin broken', Answered(q, m)
  PROVE  Answered(q, m)'
<1> PICK g, h, c, r, u, e : g = history' /\ h = history /\ c = chat' /\ r = eventQueue' /\ u = eventQueue /\ e = u[1]
  OBVIOUS
<1>0. /\ Len(u) \in Nat \ {0} /\ 1 \in 1..Len(u) /\ owed' = owed /\ broken' = broken
      /\ \A j \in 1..Len(r) : j + 1 \in 2..Len(u) /\ r[j] = u[j + 1]
  BY TakeShifts
<1>1. /\ taken' = taken /\ c.text = chat.text
      /\ \/ LastIsAssistant /\ Len(g) = Len(h) /\ (\A i \in 1..Len(h) : i # Len(h) => g[i] = h[i])
            /\ g[Len(h)].content = c.text /\ g[Len(h)].complete = TRUE
         \/ ~LastIsAssistant /\ g = h
  <2>1. /\ taken' = taken /\ c.text = chat.text
        /\ \/ LastIsAssistant /\ Rewrites(g, h, Len(h), c.text, Last(h).stream, TRUE)
           \/ ~LastIsAssistant /\ history' = history
    BY ShowsEnd
  <2>2. CASE LastIsAssistant /\ Rewrites(g, h, Len(h), c.text, Last(h).stream, TRUE)
    BY <2>1, <2>2 DEF Rewrites
  <2> QED
    BY <2>1, <2>2
<1>2. m = Len(h) => LastIsAssistant
  <2>1. Len(h) \in Nat /\ h \in Seq(Message)
    BY LenProperties DEF HistoryInv
  <2>2. h # <<>>
    BY <2>1, EmptySeq
  <2>3. Last(h) = h[Len(h)]
    BY <2>1, <2>2, LastElement
  <2> QED
    BY <2>2, <2>3 DEF LastIsAssistant
<1>3. m = Len(h) => ~Untold(q)
  <2> SUFFICES ASSUME m = Len(h)  PROVE ~Untold(q)
    OBVIOUS
  <2>1. ~Untold(q) \/ \E j \in 1..(1 - 1) : IsToken(u[j])
    BY <1>0 DEF Alone
  <2> QED
    BY <2>1
<1>4. CASE m # Len(h)
  <2>1. g[m] = h[m] /\ m # Len(g)
    BY <1>1, <1>4
  <2>2. CASE Empty(q, m)
    BY <2>1, <2>2 DEF Answered, Empty
  <2>3. CASE Refused(q, m)
    BY <2>1, <2>3 DEF Answered, Refused
  <2>4. CASE Filled(q, m)
    <3>1. Filled(q, m)'
      BY <1>1, <2>1, <2>4, FilledStays
    <3> QED
      BY <3>1 DEF Answered
  <2>5. ~Filling(q, m)
    BY <1>4 DEF Filling
  <2> QED
    BY <2>2, <2>3, <2>4, <2>5 DEF Answered
<1>5. CASE m = Len(h)
  <2>1. /\ Len(g) = Len(h) /\ g[m].content = chat.text /\ g[m].complete = TRUE
    BY <1>1, <1>2, <1>5
  <2>2. Filling(q, m) \/ Filled(q, m)
    BY <1>3, <1>5 DEF Answered, Empty, Refused
  <2>3. chat.text = taken[q][1] /\ taken[q][1] # <<>>
    BY <1>5, <2>2 DEF Filling, Filled
  <2>4. 1 \in 1..MaxLevels
    BY StreamlitAssumption
  <2>5. taken[q][1][1].question = q /\ taken[q][1][1].level = 1
    BY <2>3, <2>4, TakenBegins
  <2>6. ~OwedOf(Level1(q))'
    <3>1. ~OwedOf(chat.text[1])
      BY <1>0, <2>3 DEF DoneInv
    <3> QED
      BY <1>0, <2>3, <2>5, <3>1 DEF OwedOf, SameLevel, Level1
  <2>7. ASSUME NEW k \in 1..Len(r), IsToken(r[k])  PROVE ~SameLevel(r[k].token, Level1(q))
    <3>1. k + 1 \in (1 + 1)..Len(u) /\ r[k] = u[k + 1]
      BY <1>0
    <3>2. TakenOf(u[k + 1].token) = <<>>
      BY <1>0, <2>7, <3>1, BehindEnd
    <3> QED
      BY <2>3, <3>1, <3>2 DEF TakenOf, SameLevel, Level1
  <2>8. Filled(q, m)'
    BY <1>1, <2>1, <2>3, <2>6, <2>7 DEF Filled, IsToken, SameLevel, Level1
  <2> QED
    BY <2>8 DEF Answered
<1> QED
  BY <1>4, <1>5

\* ... and a token goes into the slot of its level: one that is empty, ...
LEMMA EmptyToken ==
  ASSUME QueueInv, FollowInv, TextInv, SlotInv, HistoryInv, FirstInv, DoneInv,
         TakeItem, NEW e, e = eventQueue[1], IsToken(e),
         NEW q \in Question, NEW m \in 1..Len(history), history[m].role = "assistant",
         m = Len(history) => Alone(q), q \notin broken', Empty(q, m)
  PROVE  Answered(q, m)'
<1> PICK g, h, c, r, u, t : g = history' /\ h = history /\ c = chat' /\ r = eventQueue' /\ u = eventQueue /\ t = e.token
  OBVIOUS
<1>0. /\ 1 \in 1..Len(u) /\ owed' = owed /\ broken' = broken
      /\ \A j \in 1..Len(r) : j + 1 \in 2..Len(u) /\ r[j] = u[j + 1]
      /\ \A j \in 2..Len(u) : j - 1 \in 1..Len(r) /\ r[j - 1] = u[j]
  BY TakeShifts
<1>1. t \in Token /\ t.question \in Question /\ t.level \in 1..MaxLevels
  BY TakeToken, TokenLevel
<1>2. h \in Seq(Message) /\ Len(h) \in Nat
  BY LenProperties DEF HistoryInv
<1>3. m = Len(h) => t.question = q /\ Untold(q) /\ TakenOf(t) = <<>> /\ OpenAtEnd
  <2> SUFFICES ASSUME m = Len(h)  PROVE t.question = q /\ Untold(q) /\ TakenOf(t) = <<>> /\ OpenAtEnd
    OBVIOUS
  <2>1. Untold(q)
    BY DEF Empty
  <2>2. t.question = q
    BY <1>0 DEF Alone
  <2>3. TakenOf(t) = <<>>
    BY <1>1, <2>1, <2>2 DEF Untold, TakenOf
  <2>4. Last(h) = h[m] /\ h # <<>>
    BY <1>2, LastElement, EmptySeq
  <2> QED
    BY <2>1, <2>2, <2>3, <2>4 DEF OpenAtEnd, LastIsAssistant, Empty
<1>4. ASSUME g[m] = h[m], m # Len(g)  PROVE Answered(q, m)'
  BY <1>4 DEF Answered, Empty
<1>5. CASE /\ TakenOf(t) # <<>>
           /\ \E x \in 1..Len(h) : SlotsOf(c.stream) = {x} /\ Rewrites(g, h, x, c.text, c.stream, FALSE)
  <2>1. PICK x \in 1..Len(h) : SlotsOf(c.stream) = {x} /\ Rewrites(g, h, x, c.text, c.stream, FALSE)
    BY <1>5
  <2>2. Known(c.stream)
    BY ShowsToken
  <2>3. x # m
    <3>1. h[x].stream = c.stream
      BY <2>1 DEF SlotsOf
    <3>2. NoStream \notin Streams
      BY DEF NoStream, Streams, Sids
    <3> QED
      BY <2>2, <3>1, <3>2 DEF Empty, Known
  <2>4. g[m] = h[m] /\ Len(g) = Len(h)
    BY <2>1, <2>3 DEF Rewrites
  <2> QED
    BY <1>3, <1>4, <1>5, <2>4
<1>6. CASE ~OpenAtEnd /\ Adds(g, h) /\ Len(g) = Len(h) + 1
  BY <1>2, <1>3, <1>4, <1>6 DEF Adds
<1>7. CASE Rewrites(g, h, Len(h), c.text, c.stream, FALSE)
  <2>1. CASE m # Len(h)
    BY <1>4, <1>7, <2>1 DEF Rewrites
  <2>2. CASE m = Len(h)
    <3>1. t.question = q /\ Untold(q)
      BY <1>3, <2>2
    <3>2. t.level = 1
      <4>1. taken[t.question][1] = <<>>
        BY <3>1, StreamlitAssumption DEF Untold
      <4>2. ~\E j \in 1..(1 - 1) : /\ IsToken(eventQueue[j])
                                   /\ SameLevel(eventQueue[j].token, Level1(eventQueue[1].token.question))
        OBVIOUS
      <4> QED
        BY <1>0, <3>1, <4>1, <4>2 DEF FirstInv
    <3>3. /\ c.text = TakenOf(t)' /\ c.text # <<>> /\ ~c.complete
      <4>1. c.text = TakenOf(e.token)' /\ c.text # <<>>
        BY ShowsToken
      <4>2. ~c.complete
        BY ShowsToken
      <4> QED
        BY <4>1, <4>2 DEF TakenOf
    <3>4. c.text = taken'[q][1]
      BY <3>1, <3>2, <3>3 DEF TakenOf
    <3>5. /\ m = Len(g) /\ g[m].complete = FALSE /\ g[m].content = c.text /\ g[m].stream = c.stream
      BY <1>7, <2>2 DEF Rewrites
    <3>6. \A k \in 1..Len(r) : r[k].kind # "status"
      <4> TAKE k \in 1..Len(r)
      <4>1. k + 1 \in 1..Len(u) /\ r[k] = u[k + 1]
        BY <1>0
      <4> QED
        BY <1>0, <2>2, <4>1 DEF Alone
    <3>7. OwedOf(Level1(q))' \/ \E k \in 1..Len(r) : IsEnd(r[k])
      <4>1. OwedOf(t) \/ \E k \in (1 + 1)..Len(u) : IsEnd(u[k])
        BY <1>0, <3>1 DEF DoneInv, EndAfter
      <4>2. OwedOf(t) => OwedOf(Level1(q))'
        BY <1>0, <3>1, <3>2 DEF OwedOf, SameLevel, Level1
      <4>3. \A k \in (1 + 1)..Len(u) : k \in 2..Len(u)
        OBVIOUS
      <4> QED
        BY <1>0, <4>1, <4>2, <4>3
    <3>8. Filling(q, m)'
      BY <3>3, <3>4, <3>5, <3>6, <3>7 DEF Filling, IsEnd
    <3> QED
      BY <3>8 DEF Answered
  <2> QED
    BY <2>1, <2>2
<1> QED
  BY <1>5, <1>6, <1>7, ShowsToken DEF ToItsSlot, ToTheEnd, ToItsOwn

\* ... or has the tokens before it; ...
LEMMA FillingToken ==
  ASSUME QueueInv, FollowInv, TextInv, SlotInv, HistoryInv,
         TakeItem, NEW e, e = eventQueue[1], IsToken(e),
         NEW q \in Question, NEW m \in 1..Len(history), history[m].role = "assistant", Filling(q, m)
  PROVE  Answered(q, m)'
<1> PICK g, h, c, r, u, t : g = history' /\ h = history /\ c = chat' /\ r = eventQueue' /\ u = eventQueue /\ t = e.token
  OBVIOUS
<1>0. /\ 1 \in 1..Len(u) /\ owed' = owed /\ Len(u) \in Nat
      /\ \A j \in 1..Len(r) : j + 1 \in 2..Len(u) /\ r[j] = u[j + 1]
      /\ \A j \in 2..Len(u) : j - 1 \in 1..Len(r) /\ r[j - 1] = u[j]
  BY TakeShifts
<1>1. h \in Seq(Message) /\ Len(h) \in Nat /\ DOMAIN h = 1..Len(h)
  BY LenProperties DEF HistoryInv
<1>2. Last(h) = h[m] /\ h # <<>> /\ OpenAtEnd /\ Last(h).content # <<>>
  <2>1. h # <<>>
    BY <1>1, EmptySeq
  <2>2. Last(h) = h[m]
    BY <1>1, <2>1, LastElement DEF Filling
  <2> QED
    BY <2>1, <2>2 DEF OpenAtEnd, LastIsAssistant, Filling
<1>3. /\ c.text = TakenOf(e.token)' /\ c.stream = e.stream /\ c.text # <<>>
      /\ c.text[1].question = t.question /\ c.text[1].level = t.level
      /\ chat.stream = e.stream /\ SameLevel(chat.text[1], c.text[1])
      /\ \E x \in 1..Len(h) : SlotsOf(c.stream) = {x} /\ Rewrites(g, h, x, c.text, c.stream, FALSE)
  BY <1>2, ShowsToken DEF ToItsSlot, ToTheEnd, ToItsOwn
<1>4. PICK x \in 1..Len(h) : SlotsOf(c.stream) = {x} /\ Rewrites(g, h, x, c.text, c.stream, FALSE)
  BY <1>3
<1>5. x = m
  <2>1. m \in SlotsOf(c.stream)
    BY <1>1, <1>3 DEF SlotsOf, Filling
  <2> QED
    BY <1>4, <2>1
<1>6. t.question = q /\ t.level = 1
  <2>1. chat.text[1].question = q /\ chat.text[1].level = 1
    BY TakenBegins, StreamlitAssumption DEF Filling
  <2> QED
    BY <1>3, <2>1 DEF SameLevel
<1>7. c.text = taken'[q][1] /\ ~c.complete
  <2>1. ~c.complete
    BY ShowsToken
  <2> QED
    BY <1>3, <1>6, <2>1 DEF TakenOf
<1>8. m = Len(g) /\ g[m].complete = FALSE /\ g[m].content = c.text /\ g[m].stream = c.stream
  BY <1>4, <1>5 DEF Rewrites, Filling
<1>9. \A k \in 1..Len(r) : r[k].kind # "status"
  <2> TAKE k \in 1..Len(r)
  <2>1. k + 1 \in 1..Len(u) /\ r[k] = u[k + 1]
    BY <1>0
  <2> QED
    BY <2>1 DEF Filling
<1>10. OwedOf(Level1(q))' \/ \E k \in 1..Len(r) : IsEnd(r[k])
  <2>1. ASSUME NEW k \in 1..Len(u), IsEnd(u[k])  PROVE k \in 2..Len(u)
    <3>1. k # 1
      BY <2>1 DEF IsToken, IsEnd
    <3> QED
      BY <1>0, <3>1
  <2>2. OwedOf(Level1(q)) => OwedOf(Level1(q))'
    BY <1>0 DEF OwedOf, SameLevel, Level1
  <2> QED
    BY <1>0, <2>1, <2>2 DEF Filling
<1>11. Filling(q, m)'
  BY <1>3, <1>7, <1>8, <1>9, <1>10 DEF Filling, IsEnd
<1> QED
  BY <1>11 DEF Answered

\* ... one that is final gets none.
LEMMA FinalToken ==
  ASSUME QueueInv, FollowInv, TextInv, SlotInv, HistoryInv,
         TakeItem, NEW e, e = eventQueue[1], IsToken(e),
         NEW m \in 1..Len(history), history[m].complete, NEW g, g = history', NEW c, c = chat'
  PROVE  /\ g[m] = history[m]
         /\ m = Len(g) => m = Len(history) /\ chat.text = TakenOf(e.token) /\ chat.text # <<>>
                          /\ SameLevel(chat.text[1], e.token)
<1>1. history \in Seq(Message) /\ Len(history) \in Nat
  BY LenProperties DEF HistoryInv
<1>2. /\ c.text[1].question = e.token.question /\ c.text[1].level = e.token.level
      /\ \/ /\ chat.text = TakenOf(e.token) /\ chat.text # <<>> /\ SameLevel(chat.text[1], c.text[1])
            /\ \E x \in 1..Len(history) : SlotsOf(c.stream) = {x} /\ Rewrites(g, history, x, c.text, c.stream, FALSE)
         \/ OpenAtEnd /\ Rewrites(g, history, Len(history), c.text, c.stream, FALSE)
         \/ Adds(g, history) /\ Len(g) = Len(history) + 1
  <2>1. c.text[1].question = e.token.question /\ c.text[1].level = e.token.level
    BY ShowsToken
  <2>2. ToItsSlot(e, c, g) \/ ToTheEnd(e, c, g) \/ ToItsOwn(e, c, g)
    BY ShowsToken
  <2> QED
    BY <2>1, <2>2 DEF ToItsSlot, ToTheEnd, ToItsOwn
<1>3. CASE /\ chat.text = TakenOf(e.token) /\ chat.text # <<>> /\ SameLevel(chat.text[1], c.text[1])
           /\ \E x \in 1..Len(history) : SlotsOf(c.stream) = {x} /\ Rewrites(g, history, x, c.text, c.stream, FALSE)
  <2>1. PICK x \in 1..Len(history) : SlotsOf(c.stream) = {x} /\ Rewrites(g, history, x, c.text, c.stream, FALSE)
    BY <1>3
  <2>2. x # m
    BY <2>1 DEF SlotsOf
  <2>3. g[m] = history[m] /\ Len(g) = Len(history)
    BY <2>1, <2>2 DEF Rewrites
  <2>4. SameLevel(chat.text[1], e.token)
    BY <1>2, <1>3 DEF SameLevel
  <2> QED
    BY <1>3, <2>3, <2>4
<1>4. CASE OpenAtEnd /\ Rewrites(g, history, Len(history), c.text, c.stream, FALSE)
  <2>1. m # Len(history)
    <3>1. Last(history) = history[Len(history)]
      BY <1>1, <1>4, LastElement DEF OpenAtEnd, LastIsAssistant
    <3> QED
      BY <1>4, <3>1 DEF OpenAtEnd
  <2> QED
    BY <1>4, <2>1 DEF Rewrites
<1>5. CASE Adds(g, history) /\ Len(g) = Len(history) + 1
  BY <1>1, <1>5 DEF Adds
<1> QED
  BY <1>2, <1>3, <1>4, <1>5

LEMMA AnsweredToken ==
  ASSUME QueueInv, FollowInv, TextInv, SlotInv, HistoryInv, FirstInv, DoneInv,
         TakeItem, NEW e, e = eventQueue[1], IsToken(e),
         NEW q \in Question, NEW m \in 1..Len(history), history[m].role = "assistant",
         m = Len(history) => Alone(q), q \notin broken', Answered(q, m)
  PROVE  Answered(q, m)'
<1> PICK g, c, u, t : g = history' /\ c = chat' /\ u = eventQueue /\ t = e.token
  OBVIOUS
<1>0. 1 \in 1..Len(u)
  BY TakeShifts
<1>1. t \in Token /\ t.question \in Question /\ t.level \in 1..MaxLevels
  BY TakeToken, TokenLevel
<1>2. CASE Empty(q, m)
  BY <1>2, EmptyToken
<1>3. CASE Filling(q, m)
  BY <1>3, FillingToken
<1>4. CASE Filled(q, m)
  <2>1. /\ g[m] = history[m]
        /\ m = Len(g) => m = Len(history) /\ chat.text # <<>> /\ SameLevel(chat.text[1], t)
    BY <1>4, FinalToken DEF Filled
  <2>2. ~SameLevel(t, Level1(q))
    BY <1>0, <1>4 DEF Filled
  <2>3. 1 \in 1..MaxLevels
    BY StreamlitAssumption
  <2>4. m # Len(g)
    <3> SUFFICES ASSUME m = Len(g)  PROVE FALSE
      OBVIOUS
    <3>1. chat.text = taken[q][1] /\ taken[q][1] # <<>> /\ SameLevel(chat.text[1], t)
      BY <1>4, <2>1 DEF Filled
    <3>2. taken[q][1][1].question = q /\ taken[q][1][1].level = 1
      BY <2>3, <3>1, TakenBegins
    <3> QED
      BY <2>2, <3>1, <3>2 DEF SameLevel, Level1
  <2>5. taken'[q][1] = taken[q][1]
    <3>1. Takes(t)
      BY TakeToken
    <3>2. q # t.question \/ 1 # t.level
      BY <2>2 DEF SameLevel, Level1
    <3>3. \A p \in Question, l \in 1..MaxLevels :
            p # t.question \/ l # t.level => taken'[p][l] = taken[p][l]
      BY <1>1, <3>1, TakenAfter
    <3> QED
      BY <2>3, <3>2, <3>3
  <2>6. Filled(q, m)'
    BY <1>4, <2>1, <2>4, <2>5, FilledStays
  <2> QED
    BY <2>6 DEF Answered
<1>5. CASE Refused(q, m)
  <2>1. /\ g[m] = history[m]
        /\ m = Len(g) => m = Len(history) /\ chat.text = TakenOf(t) /\ chat.text # <<>>
    BY <1>5, FinalToken DEF Refused
  <2>2. m # Len(g)
    <3> SUFFICES ASSUME m = Len(g)  PROVE FALSE
      OBVIOUS
    <3>1. TakenOf(t) # <<>> /\ m = Len(history)
      BY <2>1
    <3>2. t.question = q
      BY <1>0, <3>1 DEF Alone
    <3>3. Untold(q)
      BY <1>5, <3>1 DEF Refused
    <3> QED
      BY <1>1, <3>1, <3>2, <3>3 DEF Untold, TakenOf
  <2>3. Refused(q, m)'
    BY <1>5, <2>1, <2>2 DEF Refused
  <2> QED
    BY <2>3 DEF Answered
<1> QED
  BY <1>2, <1>3, <1>4, <1>5 DEF Answered

LEMMA AnsweredStep ==
  ASSUME SidInv, StreamInv, OwedInv, QueueInv, FollowInv, TextInv, FreshInv, SlotInv, HistoryInv,
         FirstInv, DoneInv, [Next]_vars,
         NEW q \in asked, NEW m \in 1..Len(history), history[m].role = "assistant",
         m = Len(history) => Alone(q), q \notin crowded' \cup broken', Answered(q, m)
  PROVE  Answered(q, m)'
<1>0. q \in Question
  BY DEF OwedInv
<1>1. CASE Submits
  BY <1>1, AnsweredSubmit DEF Submits
<1>2. CASE ~Submits /\ ~TakeItem
  BY <1>0, <1>2, AnsweredAside
<1>3. CASE TakeItem
  <2> PICK e : e = eventQueue[1]
    OBVIOUS
  <2>1. CASE IsToken(e)
    BY <1>0, <1>3, <2>1, AnsweredToken
  <2>2. CASE IsEnd(e)
    BY <1>0, <1>3, <2>2, AnsweredEnd
  <2>3. CASE ~IsText(e)
    BY <1>0, <1>3, <2>3, AnsweredOther
  <2> QED
    BY <2>1, <2>2, <2>3 DEF IsText, IsToken, IsEnd
<1> QED
  BY <1>1, <1>2, <1>3

\* The slot of a new question is empty.
LEMMA AnsweredNew ==
  ASSUME OwedInv, QueueInv, FreshInv, HistoryInv,
         NEW q \in Question, NEW n \in 0..MaxFiles, Submit(q, n), NEW m, m = Len(history) + 2
  PROVE  Answered(q, m)'
<1>1. history'[m] = Said("assistant", q)
  BY SubmitAdds
<1>2. Said("assistant", q).content = <<>> /\ Said("assistant", q).stream = NoStream
      /\ Said("assistant", q).complete = FALSE
  BY DEF Said
<1>3. Untold(q)
  <2>1. q \notin handled
    BY DEF Submit, OwedInv
  <2> SUFFICES ASSUME NEW l \in 1..MaxLevels  PROVE taken[q][l] = <<>>
    BY DEF Untold
  <2>2. PICK t : t = [question |-> q, level |-> l]
    OBVIOUS
  <2>3. TakenOf(t) = <<>>
    BY <2>1, <2>2 DEF FreshInv, Fresh
  <2> QED
    BY <2>2, <2>3 DEF TakenOf
<1>4. taken' = taken
  BY DEF Submit
<1> QED
  BY <1>1, <1>2, <1>3, <1>4 DEF Answered, Empty, Untold

LEMMA OwnInvStep ==
  ASSUME SidInv, StreamInv, OwedInv, QueueInv, FollowInv, TextInv, FreshInv, SlotInv, HistoryInv,
         FirstInv, DoneInv, AloneInv, OwnInv, [Next]_vars
  PROVE  OwnInv'
<1> PICK g, h : g = history' /\ h = history
  OBVIOUS
<1>0. Len(h) \in Nat /\ broken \subseteq broken'
  BY LenProperties, BrokenGrows DEF HistoryInv
<1>1. ASSUME NEW i \in 1..Len(h), h[i].role = "user", NEW q, q = h[i].of, q \notin crowded' \cup broken',
             crowded \subseteq crowded'
      PROVE  Answered(q, i + 1)'
  <2>1. i + 1 \in 1..Len(h) /\ h[i + 1].role = "assistant" /\ q \in asked /\ Answered(q, i + 1)
    BY <1>0, <1>1 DEF OwnInv
  <2>2. ASSUME i + 1 = Len(h)  PROVE Alone(q)
    <3>1. \A j \in (i + 1)..Len(h) : j = i + 1
      BY <1>0, <2>2
    <3>2. \A j \in (i + 1)..Len(h) : h[j].role # "user"
      BY <2>1, <3>1
    <3> QED
      BY <1>1, <3>2 DEF AloneInv, LastUser
  <2> PICK m : m = i + 1
    OBVIOUS
  <2>3. Answered(q, m)'
    BY <1>1, <2>1, <2>2, AnsweredStep
  <2> QED
    BY <2>3
<1> SUFFICES ASSUME NEW i \in 1..Len(g), g[i].role = "user", NEW q, q = g[i].of
             PROVE  /\ i + 1 \in 1..Len(g) /\ g[i + 1].role = "assistant" /\ q \in asked'
                    /\ q \notin crowded' \cup broken' => Answered(q, i + 1)'
  BY DEF OwnInv, Answered, Empty, Filling, Filled, Refused, Untold, OwedOf, IsToken, IsEnd, SameLevel, Level1
<1>2. CASE ~Submits
  <2>1. /\ Len(g) \in Nat /\ Len(g) >= Len(h)
        /\ \A k \in 1..Len(h) : g[k].role = h[k].role /\ g[k].of = h[k].of
        /\ \A k \in (Len(h) + 1)..Len(g) : g[k].role = "assistant"
    BY <1>2, MessagesStay DEF MessagesKept
  <2>2. UNCHANGED <<asked, crowded>>
    BY <1>2, PostsStay
  <2>3. i \in 1..Len(h)
    BY <1>0, <2>1
  <2>4. h[i].role = "user" /\ h[i].of = q
    BY <2>1, <2>3
  <2>5. i + 1 \in 1..Len(h) /\ h[i + 1].role = "assistant" /\ q \in asked
    BY <2>3, <2>4 DEF OwnInv
  <2>6. q \notin crowded' \cup broken' => Answered(q, i + 1)'
    BY <1>1, <2>2, <2>3, <2>4
  <2> QED
    BY <1>0, <2>1, <2>2, <2>5, <2>6
<1>3. ASSUME NEW p \in Question, NEW n \in 0..MaxFiles, Submit(p, n)
      PROVE  /\ i + 1 \in 1..Len(g) /\ g[i + 1].role = "assistant" /\ q \in asked'
             /\ q \notin crowded' \cup broken' => Answered(q, i + 1)'
  <2>1. /\ Len(g) = Len(h) + 2 /\ \A k \in 1..Len(h) : g[k] = h[k]
        /\ g[Len(h) + 1].role = "user" /\ g[Len(h) + 1].of = p /\ g[Len(h) + 2].role = "assistant"
    <3>1. /\ Len(g) = Len(h) + 2 /\ \A k \in 1..Len(h) : g[k] = h[k]
          /\ g[Len(h) + 1] = Said("user", p) /\ g[Len(h) + 2] = Said("assistant", p)
      BY <1>3, SubmitAdds
    <3>2. /\ Said("user", p).role = "user" /\ Said("user", p).of = p
          /\ Said("assistant", p).role = "assistant"
      BY DEF Said
    <3> QED
      BY <3>1, <3>2
  <2>2. asked' = asked \cup {p} /\ crowded \subseteq crowded'
    BY <1>3 DEF Submit
  <2>3. CASE i \in 1..Len(h)
    <3>1. h[i].role = "user" /\ h[i].of = q
      BY <2>1, <2>3
    <3>2. i + 1 \in 1..Len(h) /\ h[i + 1].role = "assistant" /\ q \in asked
      BY <2>3, <3>1 DEF OwnInv
    <3>3. q \notin crowded' \cup broken' => Answered(q, i + 1)'
      BY <1>1, <2>2, <2>3, <3>1
    <3> QED
      BY <1>0, <2>1, <2>2, <3>2, <3>3
  <2>4. CASE i = Len(h) + 1
    <3>1. q = p /\ i + 1 = Len(h) + 2 /\ i + 1 \in 1..Len(g)
      BY <1>0, <2>1, <2>4
    <3> PICK m : m = i + 1
      OBVIOUS
    <3>2. Answered(q, m)'
      BY <1>3, <3>1, AnsweredNew
    <3> QED
      BY <2>1, <2>2, <3>1, <3>2
  <2>5. i \in 1..Len(h) \/ i = Len(h) + 1
    <3>1. i \in 1..Len(h) \/ i = Len(h) + 1 \/ i = Len(h) + 2
      BY <1>0, <2>1
    <3> QED
      BY <2>1, <3>1
  <2> QED
    BY <2>3, <2>4, <2>5
<1> QED
  BY <1>2, <1>3 DEF Submits

\* What stands in the slot is the first level of its question, or no token.
LEMMA OwnText ==
  ASSUME NEW q, NEW m, Answered(q, m), NEW x, x = history[m].content
  PROVE  x = taken[q][1] \/ \A k \in DOMAIN x : x[k] \in Notice
<1>1. CASE x = <<>>
  <2>1. DOMAIN x = {}
    BY <1>1
  <2> QED
    BY <2>1
<1>2. CASE x = <<Failure>>
  <2>1. \A k \in DOMAIN x : x[k] = Failure
    BY <1>2
  <2> QED
    BY <2>1 DEF Notice
<1>3. x = taken[q][1] \/ x = <<>> \/ x = <<Failure>>
  BY DEF Answered, Empty, Filling, Filled, Refused
<1> QED
  BY <1>1, <1>2, <1>3

LEMMA TakenOwn ==
  ASSUME TextInv, NEW q \in Question, NEW l \in 1..MaxLevels
  PROVE  \A k \in DOMAIN taken[q][l] : taken[q][l][k].question = q
<1>1. taken[q] \in [1..MaxLevels -> Seq(Token)]
  BY DEF TextInv
<1>2. taken[q][l] \in Seq(Token)
  BY <1>1
<1>3. DOMAIN taken[q][l] = 1..Len(taken[q][l])
  BY <1>2, SequenceLength
<1> QED
  BY <1>3 DEF TextInv

\* The invariant of the answers, as a whole.
AnswerInv == BegunInv /\ FirstInv /\ DoneInv /\ AloneInv /\ OwnInv

LEMMA AnswerInvInit == Init => AnswerInv
<1> SUFFICES ASSUME Init  PROVE AnswerInv
  OBVIOUS
<1>1. Len(eventQueue) = 0 /\ owed = <<>> /\ Len(owed) = 0 /\ Len(history) = 0
  BY EmptySeq DEF Init
<1> QED
  BY <1>1 DEF AnswerInv, BegunInv, FirstInv, DoneInv, AloneInv, OwnInv

LEMMA AnswerInvStep ==
  ASSUME DeliveryInv, AnswerInv, [Next]_vars
  PROVE  AnswerInv'
<1>1. /\ UploadInv /\ SidInv /\ StreamInv /\ OwedInv /\ QueueInv /\ FollowInv /\ TextInv
      /\ FreshInv /\ SlotInv /\ HistoryInv
      /\ BegunInv /\ FirstInv /\ DoneInv /\ AloneInv /\ OwnInv
  BY DEF DeliveryInv, AnswerInv
<1>2. BegunInv' /\ FirstInv'
  BY <1>1, BegunInvStep, FirstInvStep
<1>3. DoneInv'
  BY <1>1, DoneInvStep
<1>4. AloneInv'
  BY <1>1, AloneInvStep
<1>5. OwnInv'
  BY <1>1, OwnInvStep
<1> QED
  BY <1>2, <1>3, <1>4, <1>5 DEF AnswerInv

LEMMA AnswerInvMeans ==
  ASSUME DeliveryInv, AnswerInv
  PROVE  AnswerIsItsOwn
<1>1. TextInv /\ OwnInv /\ DOMAIN history = 1..Len(history) /\ asked \subseteq Question
  BY LenProperties DEF DeliveryInv, AnswerInv, HistoryInv, OwedInv
<1> SUFFICES ASSUME NEW i \in DOMAIN history, history[i].role = "user", history[i].of \notin crowded \cup broken
             PROVE  LET q      == history[i].of
                        slot   == history[i + 1]
                        tokens == {k \in DOMAIN slot.content : slot.content[k] \notin Notice}
                    IN  /\ \A k \in tokens : slot.content[k].question = q
                        /\ slot.complete /\ tokens # {} => slot.content = taken[q][1]
  BY DEF AnswerIsItsOwn
<1> PICK q, m, x : q = history[i].of /\ m = i + 1 /\ x = history[m].content
  OBVIOUS
<1>2. q \in Question /\ Answered(q, m)
  BY <1>1 DEF OwnInv
<1>3. x = taken[q][1] \/ \A k \in DOMAIN x : x[k] \in Notice
  BY <1>2, OwnText
<1>4. \A k \in DOMAIN taken[q][1] : taken[q][1][k].question = q
  BY <1>1, <1>2, TakenOwn, StreamlitAssumption
<1>5. /\ \A k \in {k \in DOMAIN x : x[k] \notin Notice} : x[k].question = q
      /\ {k \in DOMAIN x : x[k] \notin Notice} # {} => x = taken[q][1]
  BY <1>3, <1>4
<1> QED
  BY <1>5

\* Below a question that had the page to itself and was delivered whole stands its
\* own answer (app.py:182-204, socketio_client.py:180-253, state.py:65-128,
\* router.py:129-213): the message after it never holds a token of another question,
\* and once it is final it holds all of the first level or no token.
THEOREM AnswerIsItsOwnAlways == Spec => []AnswerIsItsOwn
<1>1. Init => DeliveryInv /\ AnswerInv
  BY DeliveryInvInit, AnswerInvInit
<1>2. DeliveryInv /\ AnswerInv /\ [Next]_vars => (DeliveryInv /\ AnswerInv)'
  BY DeliveryInvStep, AnswerInvStep
<1>3. DeliveryInv /\ AnswerInv => AnswerIsItsOwn
  BY AnswerInvMeans
<1> QED
  BY <1>1, <1>2, <1>3, PTL DEF Spec
=============================================================================
