------------------------------- MODULE MCTurns -------------------------------
(***************************************************************************)
(* Turns with interchangeable drivers, for TLC.                            *)
(***************************************************************************)
EXTENDS Turns, TLC

Interchangeable == Permutations(Drivers)
=============================================================================
