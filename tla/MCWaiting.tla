----------------------------- MODULE MCWaiting -----------------------------
(***************************************************************************)
(* Three tries, and patience enough to be quiet in.                        *)
(***************************************************************************)
EXTENDS Waiting
Waits == {0, 1, Linger + 1}
=============================================================================
