------------------------------ MODULE MCMachine ------------------------------
(***************************************************************************)
(* Machine with interchangeable drivers, for TLC.                          *)
(***************************************************************************)
EXTENDS Machine, TLC

Interchangeable == Permutations(Drivers)
=============================================================================
