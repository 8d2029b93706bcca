--------------------------- MODULE MCTeachingAgent ---------------------------
(***************************************************************************)
(* Instances of TeachingAgent for TLC.                                     *)
(***************************************************************************)
EXTENDS TeachingAgent

CONSTANTS s1, s2, q1, q2

A(id, sid, prompt, level) ==
  [id |-> id, sid |-> sid, prompt |-> prompt, level |-> level,
   object |-> TRUE, valid |-> TRUE]

\* One question at two levels, as the orchestrator fans it out.
FanOut == {A(1, s1, q1, "beginner"), A(2, s1, q1, "other")}
\* What else the topic may carry.
Odd == {A(1, s1, q1, "beginner"), A(3, s2, q2, "unknown"), A(4, s1, q1, "blank"),
        [A(5, s1, Blanks, "other") EXCEPT !.valid = FALSE]}
\* A request polled with a record that is no JSON object.
Batch == {A(1, s1, q1, "beginner"),
          [A(6, s1, Empty, "other") EXCEPT !.object = FALSE, !.valid = FALSE]}
MCAsk == FanOut \cup Odd \cup Batch

MCWorlds == {[ask |-> FanOut, may |-> {"crash"}, config |-> {"ok"}, reflections |-> 0],
             [ask |-> FanOut, may |-> {"stop"}, config |-> {"ok"}, reflections |-> 0],
             [ask |-> Batch, may |-> {"crash"}, config |-> {"ok"}, reflections |-> 0],
             [ask |-> FanOut, may |-> {"publish_fails", "pause"}, config |-> {"ok"}, reflections |-> 1],
             [ask |-> Odd, may |-> {"pause"}, config |-> Config, reflections |-> 1]}

MCText == {q1, q2, Empty, Blanks, Raw, Revised, Canned}
=============================================================================
