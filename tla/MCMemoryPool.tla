---------------------------- MODULE MCMemoryPool ----------------------------
(***************************************************************************)
(* Small instances of MemoryPool for TLC.                                  *)
(***************************************************************************)
EXTENDS MemoryPool, TLC

\* The owners do the same things.
OwnerSymmetry == Permutations(Owners)
=============================================================================
