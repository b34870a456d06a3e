------------------------------ MODULE MCLogger ------------------------------
(***************************************************************************)
(* Small instances of Logger for TLC.                                      *)
(***************************************************************************)
EXTENDS Logger, TLC

\* Tasks are alike.
TaskSymmetry == Permutations(Tasks)
=============================================================================
