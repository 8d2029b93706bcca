----------------------------- MODULE MCChatPage -----------------------------
(* ChatPage with a few questions, tokens and lost connections.             *)
EXTENDS ChatPage

EveryWorld    == {{"refused", "drop"}, {"refused", "unconfirmed", "levels"},
                  {"silent", "not_json", "levels"}}
TwoLevels     == {{"levels"}}
=============================================================================
