------------------------- MODULE MCConversationStore -------------------------
(***************************************************************************)
(* ConversationStore against a reference: what a session remembers is      *)
(* computed anew from the log of everything said in it.                    *)
(***************************************************************************)
EXTENDS ConversationStore, FiniteSets

CONSTANTS MaxClock,      \* bound of the clock
          MaxExchanges   \* bound of the exchanges of a session

VARIABLE log   \* per session, every turn appended since it was cleared, and when

loggedVars == <<storeVars, log>>

LoggedInit == StoreInit /\ log = [s \in Sid |-> <<>>]

Entry(role, content) == [at |-> now, turn |-> [role |-> role, content |-> content]]

SayIn(s, user, answer) ==
  /\ AppendTurn(s, user, answer)
  /\ Len(log[s]) < 2 * MaxExchanges
  /\ log' = IF s = NoSid \/ user = Empty \/ answer = Empty THEN log
            ELSE [log EXCEPT ![s] = @ \o <<Entry("user", user), Entry("assistant", answer)>>]

LoggedNext ==
  \/ \E s \in Sid : ReadHistory(s) /\ UNCHANGED log
  \/ \E s \in Sid : Clear(s) /\ log' = [log EXCEPT ![s] = <<>>]
  \/ \E s \in Sid, user, answer \in Text : SayIn(s, user, answer)
  \/ ClearAll /\ log' = [s \in Sid |-> <<>>]
  \/ now < MaxClock /\ Tick /\ UNCHANGED log

LoggedSpec == LoggedInit /\ [][LoggedNext]_loggedVars

\* The pause after the i-th turn of s.
PauseAfter(s, i) == (IF i = Len(log[s]) THEN now ELSE log[s][i + 1].at) - log[s][i].at

\* The places in the log of the conversation s is in: the turns that are not
\* white space, with no pause longer than TTL from them up to now.
Spoken(s) ==
  {i \in 1..Len(log[s]) :
     /\ log[s][i].turn.content # Blanks
     /\ TTL < 0 \/ \A j \in i..Len(log[s]) : PauseAfter(s, j) <= TTL}

\* h ends with the turns of the places: the one with n others after it is the
\* n-th before the last of h.
EndsWith(h, turnLog, places) ==
  \A p \in places :
     LET n == Cardinality({q \in places : q > p})
     IN  n < Len(h) => h[Len(h) - n] = turnLog[p].turn

\* h holds the turns of the places, the newest max_messages of them if they are
\* more, in the order they were said.
IsRecentTail(h, turnLog, places) ==
  /\ Len(h) = IF Cardinality(places) < MaxMessages THEN Cardinality(places) ELSE MaxMessages
  /\ EndsWith(h, turnLog, places)

\* get_history (session_memory.py:57-73) returns the newest max_messages turns of
\* the conversation the session is in, whatever was appended, read, cleared or
\* forgotten in any session, and at whatever times.
HistoryIsRecentTail ==
  \A s \in Sid : IsRecentTail(HistoryOf(s), log[s], Spoken(s))
=============================================================================
