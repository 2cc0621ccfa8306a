-------------------------- MODULE MCConversations --------------------------
(* Instances of Conversations for TLC.                                     *)
EXTENDS Conversations

(* Two runs that stream one text, and another of one of them.              *)
Streams == {<<"r", {"a"}>>, <<"q", {"a"}>>}
Recovered == {<<"r", {"a", "b"}>>}
Outcomes == {<<"r", "completed">>, <<"r", "failed">>}
OneOutcome == {<<"r", "completed">>}
Yes == {{"a"}}
============================================================================
