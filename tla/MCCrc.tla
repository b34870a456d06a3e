------------------------------- MODULE MCCrc -------------------------------
(***************************************************************************)
(* Crc for TLC.  What the invariants compare the engines with is itself    *)
(* compared with the published check values, the codes of the characters   *)
(* "123456789" (tests/crc16Test.c, line 90; docs/crc32-requirements.md,    *)
(* line 52), and the generator of crc32.c with the one of the standard.    *)
(***************************************************************************)
EXTENDS Crc

Digits == [n \in 1 .. 9 |-> Bits(48 + n, 8)]

\* 0x29B1
ASSUME CheckValue16 == E16!CodeByDefinition(Digits, E16!PowersTo(9)) = Bits(10673, 16)

\* 0xCBF43926, half by half
ASSUME CheckValue32 ==
    E32!CodeByDefinition(Digits, E32!PowersTo(9))
        = Bits(14630, 16) \cup Shifted(Bits(52212, 16), 16)

ASSUME GeneratorMirrored ==
    E32!CRC32_REFLECTED_POLYNOMIAL = Mirrored(E32!CRC32_POLYNOMIAL, 32)
=============================================================================
