---------------------------- MODULE Accumulator ----------------------------
(***************************************************************************)
(* The loop that both CRC engines share in form: a register takes in the   *)
(* bytes of a buffer, one after the other (crc16Update, crc32Update).      *)
(***************************************************************************)
EXTENDS Integers, Sequences

CONSTANT Step(_, _)  \* the register after one byte: xProcessByte(word, byte)

Processed(word, bytes) ==
    LET after[n \in 0 .. Len(bytes)] ==
            IF n = 0 THEN word ELSE Step(after[n - 1], bytes[n])
    IN  after[Len(bytes)]
=============================================================================
