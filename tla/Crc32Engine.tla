---------------------------- MODULE Crc32Engine ----------------------------
(***************************************************************************)
(* The arithmetic of the CRC-32/ISO-HDLC engine of src/crc32.c.            *)
(*                                                                         *)
(* Unlike crc16.c this engine works in mirrored form: the register shifts  *)
(* right, its bit 0 is the highest term, and the generator is stored with  *)
(* its bits reversed.  The register is held without the final exclusive    *)
(* or.  Words and bytes are sets of one-bits (Gf2).                        *)
(***************************************************************************)
EXTENDS Gf2, Sequences

Words == SUBSET (0 .. 31)

CRC32_POLYNOMIAL == {26, 23, 22, 16, 12, 11, 10, 8, 7, 5, 4, 2, 1, 0}
CRC32_REFLECTED_POLYNOMIAL ==
    {31, 30, 29, 27, 26, 24, 23, 21, 20, 19, 15, 9, 8, 5}  \* 0xEDB88320
CRC32_INITIAL_VALUE == 0 .. 31
CRC32_FINAL_XOR == 0 .. 31

-----------------------------------------------------------------------------
\* A shift by one of a uint32_t, to the right.
ShiftRight(word) == Shifted(word \ {0}, -1)

\* Mistake: the generator is used as the standard prints it.
ProcessBitUnreflected(word) ==
    IF 0 \in word THEN Xor(ShiftRight(word), CRC32_POLYNOMIAL) ELSE ShiftRight(word)

\* One turn of the loop of crc32ProcessByte, and the eight it makes.
ProcessBit(word) ==
    IF 0 \in word THEN Xor(ShiftRight(word), CRC32_REFLECTED_POLYNOMIAL)
                  ELSE ShiftRight(word)

TwoBits(word) == ProcessBit(ProcessBit(word))
FourBits(word) == TwoBits(TwoBits(word))

\* Mistake: the byte replaces the register instead of being added to it.
ProcessByteForgetful(word, byte) == FourBits(FourBits(byte))

crc32ProcessByte(word, byte) == FourBits(FourBits(Xor(word, byte)))

\* The loop of crc32Update.
INSTANCE Accumulator WITH Step <- crc32ProcessByte

\* What crc32Compute computes, with a context of its own.
OneShot(bytes) == Xor(Processed(CRC32_INITIAL_VALUE, bytes), CRC32_FINAL_XOR)

\* The comparison of crc32Verify.
Matches(bytes, receivedCRC) == OneShot(bytes) = receivedCRC

-----------------------------------------------------------------------------
(* CRC-32/ISO-HDLC by definition: every byte is taken lowest bit first;    *)
(* the data are a polynomial, multiplied by x^32 and with the initial      *)
(* value added in front; the code is the remainder modulo the generator,   *)
(* with its bits reversed and inverted.                                    *)

PowersTo(size) == PowersOfX(CRC32_POLYNOMIAL, 32, 8 * size + 31)

Polynomial(bytes) ==
    UNION {Shifted(Mirrored(bytes[n], 8), 8 * (Len(bytes) - n) + 32) : n \in DOMAIN bytes}

RegisterByDefinition(bytes, power) ==
    LET initial == Shifted(CRC32_INITIAL_VALUE, 8 * Len(bytes))
    IN  Mirrored(Remainder(Xor(Polynomial(bytes), initial), power, 32), 32)

CodeByDefinition(bytes, power) == Xor(RegisterByDefinition(bytes, power), CRC32_FINAL_XOR)
=============================================================================
