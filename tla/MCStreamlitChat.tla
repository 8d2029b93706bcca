--------------------------- MODULE MCStreamlitChat ---------------------------
(***************************************************************************)
(* A small instance of the Streamlit UI over the backend: three names for  *)
(* two topics (the registry of topics.py has one name twice) and two       *)
(* questions.                                                              *)
(***************************************************************************)
EXTENDS StreamlitChat

CONSTANTS
  First, Second,   \* the questions, in the order they are posted
  MaxFaults        \* bound of the faults in a behaviour with a question

Registry == <<"a", "b", "a">>

\* Outages, deaths and lost connections together.
Faults == outages + deaths + drops

\* What is explored: every start-up, and the page after the one that created the
\* topics; a question with a file until it is published; two questions at a time
\* without a fault, the second one taught at one level, with one token
\* but for the first level.
MCNext ==
  /\ Next
  /\ Faults' > MaxFaults => asked' = {}
  /\ lastSid = 0 /\ lastSid' = 1 => failed = {} /\ created = {1, 2} /\ attempt = 1
  /\ filesOf'[Second] = 0
  /\ filesOf'[First] > 0 => owed' = <<>> /\ Second \notin asked'
  /\ Second \in asked' => First \in asked
  /\ crowded' /= {} => Faults' = 0
  /\ \A i \in DOMAIN owed' :
       /\ owed'[i].question = Second => owed'[i].level = 1
       /\ owed'[i].sent > 1 => owed'[i].question = First /\ owed'[i].level = 1

MCSpec == Init /\ [][MCNext]_vars /\ Fairness
=============================================================================
