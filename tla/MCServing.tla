----------------------------- MODULE MCServing -----------------------------
(***************************************************************************)
(* A client whose input is a pipe and one at a terminal, over two          *)
(* connections: either each has one, or one of them loses its first and    *)
(* comes back, with the other kept out.  Either types a message, and the   *)
(* one at the terminal may type `/quit` instead.                           *)
(***************************************************************************)
EXTENDS Serving, TLC

CONSTANTS pipe, terminal

Typed == pipe :> <<{"message"}>> @@ terminal :> <<{"message", "quit"}>>
=============================================================================
