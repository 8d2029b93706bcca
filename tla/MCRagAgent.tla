----------------------------- MODULE MCRagAgent ------------------------------
(* RagAgent on a few records. *)
EXTENDS RagAgent

File(name, kinds) == [name |-> name, readable |-> TRUE, pages |-> kinds]
Missing(name)     == [name |-> name, readable |-> FALSE, pages |-> <<>>]
Record(id, shape, files) == [id |-> id, shape |-> shape, files |-> files]

\* Two files and one that cannot be opened; every kind of page.
OneRequest ==
  <<Record(1, "request", <<File("a", <<"text", "broken", "off_topic">>), Missing("b"),
                           File("c", <<"empty", "text">>)>>)>>

Small(id) == Record(id, "request", <<File("a", <<"text">>)>>)

ThreeRecords == <<Small(1), Record(2, "rejected", <<>>), Small(3)>>
NoObject     == <<Small(1), Record(2, "no_object", <<>>), Small(3)>>

World(records, threads, states, failures) ==
  [log |-> records, parallelism |-> threads, settings |-> states, faults |-> failures]

\* Five pages in three threads; the embedding service failing now and then; the
\* process killed amid its work, with completions that are not published; the
\* service stopped and started again.
MCWorlds ==
  {World(OneRequest, 3, {"ok", "no_model"}, {}),
   World(OneRequest, 2, {"ok"}, {"embedding_fails"}),
   World(ThreeRecords, 1, {"ok", "bad_parallelism"}, {"kill", "publish_fails"}),
   World(NoObject, 1, {"ok"}, {"stop", "publish_fails"})}
=============================================================================
