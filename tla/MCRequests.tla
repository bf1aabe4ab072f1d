---------------------------- MODULE MCRequests ----------------------------
(***************************************************************************)
(* A few items of each shape, and a notice in two wordings.                *)
(***************************************************************************)
EXTENDS Requests

CONSTANTS words, silence, old, new, plainMeta, bytes

Shape(kind, calls, answers, text) ==
  [id |-> 0, kind |-> kind, calls |-> calls, answers |-> answers, state |-> "Active",
   note |-> NoNote, text |-> text, meta |-> plainMeta, priced |-> bytes]

Message1 == Shape("plain", <<>>, NoCall, words)
Turn(calls) == Shape("assistant", calls, NoCall, silence)
Result(call) == Shape("result", <<>>, call, words)

Notice == Shape("plain", <<>>, NoCall, old)
Pushed == {Message1} \cup {Turn(<<c>>) : c \in Calls} \cup {Result(c) : c \in Calls}
Answers == {Shape("assistant", <<>>, NoCall, words)}
Summed == {<<>>, <<Message1>>}
OneTo2 == 1..2
=============================================================================
