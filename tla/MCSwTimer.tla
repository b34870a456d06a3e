----------------------------- MODULE MCSwTimer -----------------------------
(***************************************************************************)
(* Small instances of SwTimer for TLC.                                     *)
(***************************************************************************)
EXTENDS SwTimer, TLC

\* Contexts are interchangeable: no operation compares or orders them.
ContextSymmetry == Permutations(Contexts)
=============================================================================
