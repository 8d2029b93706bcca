--------------------------- MODULE MCOrchestrator ---------------------------
(***************************************************************************)
(* Instances of Orchestrator for TLC.  Levels are two names, one of them   *)
(* in two spellings.                                                       *)
(***************************************************************************)
EXTENDS OrchestratorRefinement, TLC

MCRawLevel == {"Beginner", "beginner", "advanced"}
MCLevel == {"beginner", "advanced"}
MCLower == "Beginner" :> "beginner" @@ "beginner" :> "beginner" @@ "advanced" :> "advanced"

Payloads(levelss, filess, injections, quizWordss, blanks) ==
  [levels : levelss, files : filess, injection : injections, quizWords : quizWordss,
   blankPrompt : blanks, blankSid : blanks]

Some == {<<>>, <<"advanced">>, <<"Beginner", "advanced">>, <<"Beginner", "beginner">>}

\* Everything a user can ask for, with files for an inferred level and for two; a
\* blank prompt matters to files only.
AnyPayload == Payloads(Some, {FALSE}, BOOLEAN, BOOLEAN, {FALSE})
         \cup Payloads({<<>>, <<"Beginner", "advanced">>}, {TRUE}, BOOLEAN, BOOLEAN, BOOLEAN)
\* One request with files, one with two levels and a quiz and one with a level
\* given twice, for two workflows at a time.
MixedPayload == Payloads({<<"advanced">>}, {TRUE}, {FALSE}, {FALSE}, {FALSE})
           \cup Payloads({<<"Beginner", "advanced">>}, {FALSE}, {FALSE}, {TRUE}, {FALSE})
           \cup Payloads({<<"Beginner", "beginner">>}, {FALSE}, {FALSE}, {FALSE}, {FALSE})

\* A bound: a submission that is read twice is followed further for these payloads
\* only.
ReadTwice == Payloads({<<"advanced">>}, {FALSE}, {FALSE}, BOOLEAN, {FALSE})
Begun == {w \in Workflow : pc[w] # "absent"}
\* The names of workflows mean nothing: one of them is taken first.
First == CHOOSE w \in Workflow : TRUE
SecondRuns ==
  /\ Cardinality(Begun) <= 1 \/ \A s \in Submission : payload[s] \in ReadTwice
  /\ Begun = {} \/ First \in Begun
=============================================================================
