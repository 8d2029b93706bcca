----------------------------- MODULE MCAlgorithms -----------------------------
(***************************************************************************)
(* The three sequential parts of the agents, each against its reference:   *)
(* the conversation memory with a log of everything said, StreamParser on  *)
(* every text of a few pieces, and the evaluation of every quiz of         *)
(* MCQuizEvaluation.  They share nothing; a behaviour uses one.            *)
(***************************************************************************)
EXTENDS MCConversationStore, StreamParser, MCQuizEvaluation

CONSTANT MaxPieces

Header(w) == <<"*", "*">> \o w \o <<"*", "*">>
Pieces  == {Header(<<"e">>), Header(<<"d">>), Header(<<"x">>), <<"*">>, <<"*", "*">>,
            <<"e">>, <<" ">>, <<"nl">>}
Openings == {Header(<<"e">>), Header(<<"d">>), <<"x">>}
PieceTexts == {o \o FlattenSeq(p) : o \in Openings,
                                    p \in UNION {[1..n -> Pieces] : n \in 0..MaxPieces}}

VARIABLE used   \* which of the three

\* No quiz is evaluated.
NoEvaluation ==
  /\ quiz = <<>> /\ answers = <<>> /\ phase = "unused" /\ cursor = 1
  /\ deferred = <<>> /\ results = <<>> /\ mcq = 0 /\ descriptive = 0
  /\ grades = <<>> /\ weak = <<>> /\ strong = <<>> /\ action = "none"

AlgorithmsInit ==
  /\ used \in {"store", "parser", "evaluation"}
  /\ LoggedInit
  /\ ParserInit /\ (used = "parser" \/ text = Place(<<"x">>))
  /\ IF used = "evaluation" THEN Init ELSE NoEvaluation

AlgorithmsNext ==
  /\ UNCHANGED used
  /\ \/ used = "store"      /\ LoggedNext /\ UNCHANGED <<parserVars, vars>>
     \/ used = "parser"     /\ ParserNext /\ UNCHANGED <<loggedVars, vars>>
     \/ used = "evaluation" /\ Next       /\ UNCHANGED <<loggedVars, parserVars>>

AlgorithmsSpec ==
  AlgorithmsInit /\ [][AlgorithmsNext]_<<loggedVars, parserVars, vars, used>>
=============================================================================
