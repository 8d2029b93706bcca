-------------------------- MODULE ConversationStore --------------------------
(***************************************************************************)
(* teaching_agent/session_memory.py: the chat history the teaching agent   *)
(* keeps per Socket.IO session, bounded in size and in idle time.  Every   *)
(* method holds the lock from its first read to its last write, so each is *)
(* one action.  Times are whole units of the monotonic clock.              *)
(***************************************************************************)
EXTENDS Integers, Sequences

CONSTANTS
  Sid,          \* session ids, the empty one included
  NoSid,        \* the empty session id
  Text,         \* what users ask and the agent answers
  Empty,        \* ""
  Blanks,       \* a text of white space
  MaxMessages,  \* max_messages; 0 disables the memory
  TTL           \* ttl_seconds; negative for no expiry

ASSUME StoreAssumption ==
  /\ {Empty, Blanks} \subseteq Text
  /\ MaxMessages \in Nat
  /\ TTL \in Int

Turn == [role : {"user", "assistant"}, content : Text]

VARIABLES
  known,        \* the keys of _sessions
  turns,        \* _Session.turns, <<>> for an unknown session
  lastActive,   \* _Session.last_active
  now           \* the clock

storeVars == <<known, turns, lastActive, now>>

StoreInit ==
  /\ known = {}
  /\ turns = [s \in Sid |-> <<>>]
  /\ lastActive = [s \in Sid |-> 0]
  /\ now = 0

Expired(s) == TTL >= 0 /\ now - lastActive[s] > TTL

Drop(s) ==
  /\ known' = known \ {s}
  /\ turns' = [turns EXCEPT ![s] = <<>>]
  /\ UNCHANGED lastActive

\* What get_history returns ...
HistoryOf(s) == IF s = NoSid \/ s \notin known \/ Expired(s) THEN <<>> ELSE turns[s]

\* ... and what it does: an expired session is dropped.
ReadHistory(s) ==
  /\ IF s # NoSid /\ s \in known /\ Expired(s)
       THEN Drop(s)
       ELSE UNCHANGED <<known, turns, lastActive>>
  /\ UNCHANGED now

Said(role, content) ==
  IF content = Blanks THEN <<>> ELSE <<[role |-> role, content |-> content]>>

\* Mutant: the exchange just added is not counted.
TrimLate(ts) ==
  IF MaxMessages = 0 THEN <<>>
  ELSE IF Len(ts) > MaxMessages + 1 THEN SubSeq(ts, Len(ts) - MaxMessages, Len(ts))
  ELSE ts

\* turns[-max_messages:], with a case of its own for 0.
Trim(ts) ==
  IF MaxMessages = 0 THEN <<>>
  ELSE IF Len(ts) > MaxMessages THEN SubSeq(ts, Len(ts) - MaxMessages + 1, Len(ts))
  ELSE ts

\* Mutant: a stale session goes on.
AppendToStale(s, user, answer) ==
  /\ known' = known \cup {s}
  /\ turns' = [turns EXCEPT ![s] =
                 Trim(@ \o Said("user", user) \o Said("assistant", answer))]
  /\ lastActive' = [lastActive EXCEPT ![s] = now]
  /\ UNCHANGED now

\* A stale session starts over; turns of white space are left out, but the
\* session counts as active.
AppendExchange(s, user, answer) ==
  /\ known' = known \cup {s}
  /\ turns' = [turns EXCEPT ![s] =
                 Trim(HistoryOf(s) \o Said("user", user) \o Said("assistant", answer))]
  /\ lastActive' = [lastActive EXCEPT ![s] = now]
  /\ UNCHANGED now

AppendTurn(s, user, answer) ==
  IF s = NoSid \/ user = Empty \/ answer = Empty
    THEN UNCHANGED storeVars
    ELSE AppendExchange(s, user, answer)

Clear(s) == Drop(s) /\ UNCHANGED now

ClearAll ==
  /\ known' = {}
  /\ turns' = [s \in Sid |-> <<>>]
  /\ UNCHANGED <<lastActive, now>>

Tick == now' = now + 1 /\ UNCHANGED <<known, turns, lastActive>>

StoreNext ==
  \/ \E s \in Sid : ReadHistory(s) \/ Clear(s)
  \/ \E s \in Sid, user, answer \in Text : AppendTurn(s, user, answer)
  \/ ClearAll \/ Tick

StoreSpec == StoreInit /\ [][StoreNext]_storeVars

-----------------------------------------------------------------------------
(* Properties.                                                             *)

\* The shape of the store (session_memory.py:30-52).
StoreTypeOK ==
  /\ known \subseteq Sid
  /\ turns \in [Sid -> Seq(Turn)]
  /\ lastActive \in [Sid -> Nat]
  /\ now \in Nat

\* "Bounded ... chat-history store" (session_memory.py:39): no sequence of calls
\* leaves more than max_messages turns in a session, none of them white space,
\* and an unknown session holds none.
Bounded ==
  \A s \in Sid : /\ Len(turns[s]) <= MaxMessages
                 /\ s \notin known => turns[s] = <<>>
                 /\ \A i \in 1..Len(turns[s]) : turns[s][i].content # Blanks
=============================================================================
