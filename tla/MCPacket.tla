------------------------------ MODULE MCPacket ------------------------------
(***************************************************************************)
(* A small instance of Packet for TLC.                                     *)
(***************************************************************************)
EXTENDS Packet

\* No payload; a byte that is a header byte; two bytes that are the code of the
\* message without payload, so that a damaged length goes unnoticed; one byte
\* more than the largest buffer has room for, and one more than is allowed.
MCPayloads == {<< >>, <<170>>, <<245, 253>>, <<1, 2, 3>>, <<1, 2, 3, 4>>}
=============================================================================
