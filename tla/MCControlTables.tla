---------------------------- MODULE MCControlTables ----------------------------
(***************************************************************************)
(* Instances of ControlTables for TLC.                                     *)
(***************************************************************************)
EXTENDS ControlTables, TLC

Symmetry == Permutations(Runs)
=============================================================================
