---------------------------- MODULE MCRecording ----------------------------
(***************************************************************************)
(* Recording on a small instance: the calls are interchangeable.           *)
(***************************************************************************)
EXTENDS Recording

Symmetry == Permutations(Calls)
=============================================================================
