---------------------------- MODULE MCApplication ----------------------------
(* Application for TLC.                                                      *)
EXTENDS Application

Turns == {<<"message", "message">>}
Steps == {<<"step", "step message">>, <<"message", "step message">>}

\* Any two lines; and longer scripts, in which messages queue up behind turns,
\* errands and switches.
Lines ==
  [1..2 -> Kinds \ {"step message"}] \cup Steps \cup
  {<<"message", "message", "message", "message">>,
   <<"message", "message", "switch", "message">>,
   <<"errand", "switch", "message", "message">>}
=============================================================================
