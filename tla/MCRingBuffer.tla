---------------------------- MODULE MCRingBuffer ----------------------------
(***************************************************************************)
(* Small instances of RingBufferClients for TLC.                           *)
(***************************************************************************)
EXTENDS RingBufferClients, TLC

\* Elements are copied and never compared.
ElementSymmetry == Permutations(Elements)
=============================================================================
