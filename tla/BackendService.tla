--------------------------- MODULE BackendService ----------------------------
(***************************************************************************)
(* The backend's process: the lifespan of the FastAPI application          *)
(* (backend_service/app/main.py), which waits for the broker, creates the  *)
(* topics and starts the consumer task, and the handling of one question   *)
(* with its files (api/chat_request.py).  The broker comes and goes; topics *)
(* also appear when other services use them.                               *)
(***************************************************************************)
EXTENDS Naturals, Sequences, FiniteSets

CONSTANTS
  TopicNames,    \* get_all_topic_names(): a sequence, some name twice
  MaxAttempts,   \* startup_retry_count + 1
  Question,      \* the questions a learner posts
  MaxFiles,      \* bound of the files of a question
  MaxOutages,    \* bound of the times the broker goes away
  MaxDeaths      \* bound of the times the process dies while it serves

ASSUME BackendAssumption ==
  /\ TopicNames \in Seq(STRING)
  /\ MaxAttempts \in Nat \ {0}
  /\ {MaxFiles, MaxOutages, MaxDeaths} \subseteq Nat

Names == {TopicNames[i] : i \in DOMAIN TopicNames}

VARIABLES
  broker,                    \* the broker can be reached
  topics,                    \* the topics it has
  outages, deaths,           \* bounded events so far
  phase,                     \* where the process is
  attempt,                   \* of connect(), from 1
  upcoming,                  \* position of the next name to create
  created, existed, failed,  \* StartupTopicBootstrapResult, as positions
  consumer,                  \* the task of run_consumer
  connections,               \* the sids of the connection manager
  filesOf,                   \* how many files each question has
  handling,                  \* the posts the process is handling
  saved,                     \* per question, how many files are in the upload directory
  published,                 \* the init-planner events, by question
  answer                     \* the HTTP status of each post

startup == <<phase, attempt, upcoming, created, existed, failed>>
world   == <<broker, topics, outages, deaths>>
uploads == <<filesOf, handling, saved, published, answer>>
backendVars == <<world, startup, consumer, connections, uploads>>

Phase == {"stopped", "connecting", "bootstrap", "serving"}

BackendTypeOK ==
  /\ broker \in BOOLEAN /\ topics \subseteq Names
  /\ outages \in 0..MaxOutages /\ deaths \in 0..MaxDeaths
  /\ phase \in Phase
  /\ attempt \in 1..MaxAttempts /\ upcoming \in 1..Len(TopicNames) + 1
  /\ created \cup existed \cup failed \subseteq DOMAIN TopicNames
  /\ consumer \in {"none", "starting", "running", "dead"}
  /\ connections \subseteq Nat
  /\ filesOf \in [Question -> 0..MaxFiles] /\ saved \in [Question -> 0..MaxFiles]
  /\ handling \subseteq Question /\ published \subseteq Question
  /\ answer \in [Question -> {"none", "ok", "error"}]

BackendInit ==
  /\ broker \in BOOLEAN /\ topics = {}
  /\ outages = 0 /\ deaths = 0
  /\ phase = "stopped" /\ attempt = 1 /\ upcoming = 1
  /\ created = {} /\ existed = {} /\ failed = {}
  /\ consumer = "none" /\ connections = {}
  /\ filesOf = [q \in Question |-> 0] /\ saved = [q \in Question |-> 0]
  /\ handling = {} /\ published = {}
  /\ answer = [q \in Question |-> "none"]

-----------------------------------------------------------------------------
(* The broker and the other services.                                      *)

BrokerUp ==
  /\ ~broker /\ broker' = TRUE
  /\ UNCHANGED <<topics, outages, deaths, startup, consumer, connections, uploads>>

BrokerDown ==
  /\ broker /\ outages < MaxOutages
  /\ broker' = FALSE /\ outages' = outages + 1
  /\ UNCHANGED <<topics, deaths, startup, consumer, connections, uploads>>

\* A service that uses a topic has the broker create it.
TopicAppears ==
  /\ broker
  /\ \E t \in Names \ topics : topics' = topics \cup {t}
  /\ UNCHANGED <<broker, outages, deaths, startup, consumer, connections, uploads>>

-----------------------------------------------------------------------------
(* Start-up.                                                               *)

\* Mutant: a container whose start-up has failed is not started again.
BeginOnce == attempt = 1 /\ attempt' = 1 /\ phase' = "connecting"

Begin == attempt' = 1 /\ phase' = "connecting"

\* The container is started, or started again: lifespan() begins.
Boot ==
  /\ phase = "stopped"
  /\ Begin
  /\ upcoming' = 1 /\ created' = {} /\ existed' = {} /\ failed' = {}
  /\ UNCHANGED <<world, consumer, connections, uploads>>

ConnectAdmin ==
  /\ phase = "connecting" /\ broker
  /\ phase' = "bootstrap"
  /\ UNCHANGED <<world, attempt, upcoming, created, existed, failed, consumer, connections, uploads>>

\* The client or its probe raises; the last attempt ends the process.
ConnectFails ==
  /\ phase = "connecting" /\ ~broker
  /\ IF attempt = MaxAttempts
       THEN phase' = "stopped" /\ UNCHANGED attempt
       ELSE attempt' = attempt + 1 /\ UNCHANGED phase
  /\ UNCHANGED <<world, upcoming, created, existed, failed, consumer, connections, uploads>>

\* Mutant: an error is logged and recorded nowhere.
ErrorUnrecorded(i) ==
  \/ /\ broker /\ TopicNames[i] \notin topics
     /\ topics' = topics \cup {TopicNames[i]}
     /\ created' = created \cup {i} /\ UNCHANGED <<existed, failed>>
  \/ /\ broker /\ TopicNames[i] \in topics
     /\ existed' = existed \cup {i} /\ UNCHANGED <<topics, created, failed>>
  \/ /\ topics' \in {topics, topics \cup IF broker THEN {TopicNames[i]} ELSE {}}
     /\ UNCHANGED <<created, existed, failed>>

\* create_topic, and what bootstrap_topics makes of it.  Any other KafkaError goes
\* to the list of errors: the broker is away, refuses, or does what it was asked
\* and its answer is lost.
CreateTopic(i) ==
  \/ /\ broker /\ TopicNames[i] \notin topics
     /\ topics' = topics \cup {TopicNames[i]}
     /\ created' = created \cup {i} /\ UNCHANGED <<existed, failed>>
  \/ /\ broker /\ TopicNames[i] \in topics
     /\ existed' = existed \cup {i} /\ UNCHANGED <<topics, created, failed>>
  \/ /\ topics' \in {topics, topics \cup IF broker THEN {TopicNames[i]} ELSE {}}
     /\ failed' = failed \cup {i} /\ UNCHANGED <<created, existed>>

BootstrapNext ==
  /\ phase = "bootstrap" /\ upcoming <= Len(TopicNames)
  /\ CreateTopic(upcoming)
  /\ upcoming' = upcoming + 1
  /\ UNCHANGED <<broker, outages, deaths, phase, attempt, consumer, connections, uploads>>

\* Errors are logged; the consumer task is created and requests are served.
Serve ==
  /\ phase = "bootstrap" /\ upcoming = Len(TopicNames) + 1
  /\ phase' = "serving" /\ consumer' = "starting"
  /\ UNCHANGED <<world, attempt, upcoming, created, existed, failed, connections, uploads>>

\* run_consumer connects; an exception ends the task and nobody looks at it.
ConsumerStarts ==
  /\ phase = "serving" /\ consumer = "starting"
  /\ consumer' = IF broker THEN "running" ELSE "dead"
  /\ UNCHANGED <<world, startup, connections, uploads>>

\* The process is killed; what it was handling is gone.
Die ==
  /\ phase = "serving" /\ deaths < MaxDeaths
  /\ deaths' = deaths + 1
  /\ phase' = "stopped" /\ consumer' = "none"
  /\ connections' = {} /\ handling' = {}
  /\ answer' = [q \in Question |-> IF q \in handling THEN "error" ELSE answer[q]]
  /\ UNCHANGED <<broker, topics, outages, attempt, upcoming, created, existed, failed,
                 filesOf, saved, published>>

-----------------------------------------------------------------------------
(* ingest_user_request.                                                    *)

\* A post with n files arrives at the process that serves.
Accept(q, n) ==
  /\ handling' = handling \cup {q}
  /\ filesOf' = [filesOf EXCEPT ![q] = n]
  /\ UNCHANGED <<saved, published, answer>>

Respond(q, status) ==
  /\ answer' = [answer EXCEPT ![q] = status]
  /\ handling' = handling \ {q}

\* One file is written under a name of its own, or the disk refuses it.
SaveFile(q) ==
  /\ phase = "serving" /\ q \in handling /\ saved[q] < filesOf[q]
  /\ \/ /\ saved' = [saved EXCEPT ![q] = @ + 1]
        /\ UNCHANGED <<handling, answer>>
     \/ Respond(q, "error") /\ UNCHANGED saved
  /\ UNCHANGED <<world, startup, consumer, connections, filesOf, published>>

\* Mutant: the event is published as soon as a file is saved.
AnyFileSaved(q) == filesOf[q] > 0 => saved[q] > 0

AllFilesSaved(q) == saved[q] = filesOf[q]

\* The event names every file saved.  send() or the wait for it fails when the
\* broker is away, and the producer may deliver the record nevertheless.
PublishQuestion(q) ==
  /\ phase = "serving" /\ q \in handling /\ AllFilesSaved(q)
  /\ \/ broker /\ published' = published \cup {q} /\ Respond(q, "ok")
     \/ ~broker /\ published' \in {published, published \cup {q}} /\ Respond(q, "error")
  /\ UNCHANGED <<world, startup, consumer, connections, filesOf, saved>>

-----------------------------------------------------------------------------
Environment == BrokerUp \/ BrokerDown \/ TopicAppears \/ Die

Process ==
  \/ Boot \/ ConnectAdmin \/ ConnectFails \/ BootstrapNext \/ Serve \/ ConsumerStarts
  \/ \E q \in Question : SaveFile(q) \/ PublishQuestion(q)

-----------------------------------------------------------------------------
(* Properties.                                                             *)

\* A backend that serves has tried every name of the registry once
\* (kafka_admin.py:64-98), in whatever order topics appeared from elsewhere:
\* each is accounted for in exactly one list, no topic was created twice, and
\* those not in the list of errors exist.
BootstrapAccounts ==
  phase = "serving" =>
    /\ created \cup existed \cup failed = DOMAIN TopicNames
    /\ created \cap existed = {} /\ (created \cup existed) \cap failed = {}
    /\ \A i, j \in created : TopicNames[i] = TopicNames[j] => i = j
    /\ {TopicNames[i] : i \in created \cup existed} \subseteq topics

\* "Request accepted and queued" (chat_request.py:116) is said only of a question
\* whose event is in the topic, and no event names a file that is not on disk,
\* whichever of saving, publishing and the process failed before.
AcceptedIsWhole ==
  \A q \in Question : /\ answer[q] = "ok" => q \in published
                      /\ q \in published => saved[q] = filesOf[q]

\* When the broker can be reached for good, the backend comes to serve, however
\* often its attempts ran out before (docker-compose.yaml:51 starts it again).
ServesInTheEnd == <>[]broker => <>(phase = "serving")
=============================================================================
