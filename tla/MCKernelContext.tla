--------------------------- MODULE MCKernelContext ---------------------------
(***************************************************************************)
(* Small contexts for TLC: the items a run pushes and records, by shape.   *)
(***************************************************************************)
EXTENDS KernelContext

CONSTANTS words, silence, plainMeta, bytes

Shape(kind, calls, answers, state, text) ==
  [id |-> 0, kind |-> kind, calls |-> calls, answers |-> answers, state |-> state,
   note |-> NoNote, text |-> text, meta |-> plainMeta, priced |-> bytes]

Plain == Shape("plain", <<>>, NoCall, "Active", words)
PlainOnly == {Plain}

Turn == Shape("assistant", <<>>, NoCall, "Active", words)
TurnOnly == {Turn}
=============================================================================
