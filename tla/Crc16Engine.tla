---------------------------- MODULE Crc16Engine ----------------------------
(***************************************************************************)
(* The arithmetic of the CRC-16/CCITT-FALSE engine of src/crc16.c: what a  *)
(* byte and a buffer do to the register.  Words and bytes are sets of      *)
(* one-bits (Gf2).                                                         *)
(***************************************************************************)
EXTENDS Gf2, Sequences

Words == SUBSET (0 .. 15)

CRC16_CCITT_FALSE_POLYNOMIAL == {12, 5, 0}
CRC16_INITIAL_VALUE == 0 .. 15
TopBit == 15

-----------------------------------------------------------------------------
\* Definitions whose comment begins with "Mistake" are plausible slips in the
\* code.  No specification uses them: each, put in place of the definition
\* that follows it, shows a property below to be violated.

\* Mistake: the shifted register is kept in a wider type.
ShiftLeftWide(word) == Shifted(word, 1)

\* A shift by one of a uint16_t.
ShiftLeft(word) == Shifted(word \ {TopBit}, 1)

\* One turn of the loop of crc16ProcessByte, and the eight it makes.
ProcessBit(word) ==
    IF TopBit \in word THEN Xor(ShiftLeft(word), CRC16_CCITT_FALSE_POLYNOMIAL)
                       ELSE ShiftLeft(word)

TwoBits(word) == ProcessBit(ProcessBit(word))
FourBits(word) == TwoBits(TwoBits(word))

crc16ProcessByte(word, byte) == FourBits(FourBits(Xor(word, Shifted(byte, 8))))

\* The loop of crc16Update.
INSTANCE Accumulator WITH Step <- crc16ProcessByte

\* What crc16Compute computes, with a context of its own.
OneShot(bytes) == Processed(CRC16_INITIAL_VALUE, bytes)

\* The comparison of crc16Verify.
Matches(bytes, receivedCRC) == OneShot(bytes) = receivedCRC

-----------------------------------------------------------------------------
(* CRC-16/CCITT-FALSE by definition: data, highest bit of the first byte   *)
(* first, are a polynomial; it is multiplied by x^16, the initial value is *)
(* added in front, and the code is the remainder modulo the generator.     *)

PowersTo(size) == PowersOfX(CRC16_CCITT_FALSE_POLYNOMIAL, 16, 8 * size + 15)

Polynomial(bytes) ==
    UNION {Shifted(bytes[n], 8 * (Len(bytes) - n) + 16) : n \in DOMAIN bytes}

RegisterByDefinition(bytes, power) ==
    LET initial == Shifted(CRC16_INITIAL_VALUE, 8 * Len(bytes))
    IN  Remainder(Xor(Polynomial(bytes), initial), power, 16)

CodeByDefinition(bytes, power) == RegisterByDefinition(bytes, power)
=============================================================================
