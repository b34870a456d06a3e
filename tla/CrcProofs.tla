----------------------------- MODULE CrcProofs -----------------------------
(***************************************************************************)
(* What the CRC engines do with data of every length.                      *)
(*                                                                         *)
(* One bit of the loop is one-to-one on registers, hence so is a byte,     *)
(* hence (lemmas of AccumulatorProofs) a single damaged byte never goes    *)
(* unnoticed; and pieces of data are processed like the whole.             *)
(*                                                                         *)
(* One bit of the loop is also a multiplication by x modulo the generator. *)
(* One more byte multiplies the message polynomial by x^8 once the byte is *)
(* added to its top word, and taking remainders respects both; so the      *)
(* register is, byte after byte, the remainder that defines the code.      *)
(***************************************************************************)
EXTENDS Crc, SequenceTheorems, FunctionTheorems, FiniteSetTheorems, TLAPS

A16 == INSTANCE AccumulatorProofs WITH Step <- E16!crc16ProcessByte
A32 == INSTANCE AccumulatorProofs WITH Step <- E32!crc32ProcessByte

AllBytes == SUBSET (0 .. 7)

\* The loops here are the loops of the lemmas.
LEMMA SameLoop16 == \A word, bytes : E16!Processed(word, bytes) = A16!Processed(word, bytes)
BY DEF E16!Processed, A16!Processed

LEMMA SameLoop32 == \A word, bytes : E32!Processed(word, bytes) = A32!Processed(word, bytes)
BY DEF E32!Processed, A32!Processed

-----------------------------------------------------------------------------
(* crc16.c                                                                 *)

\* A bit of the loop keeps the register to sixteen bits and makes no two
\* registers equal: the low bit of the result tells whether the generator was
\* added, and the generator and the top bit can be put back.
LEMMA BitStep16 ==
    /\ \A w \in E16!Words : E16!ProcessBit(w) \in E16!Words
    /\ \A v, w \in E16!Words : E16!ProcessBit(v) = E16!ProcessBit(w) => v = w
<1> USE DEF E16!CRC16_CCITT_FALSE_POLYNOMIAL, E16!TopBit, E16!Words
<1>1. ASSUME NEW w \in E16!Words PROVE E16!ShiftLeft(w) \in SUBSET (1 .. 15)
  BY DEF E16!ShiftLeft, E16!Shifted
<1>2. ASSUME NEW w \in E16!Words PROVE E16!ProcessBit(w) \in E16!Words /\ (0 \in E16!ProcessBit(w) <=> E16!TopBit \in w)
  BY <1>1 DEF E16!ProcessBit, E16!Xor
<1>3. ASSUME NEW v \in E16!Words, NEW w \in E16!Words, E16!ShiftLeft(v) = E16!ShiftLeft(w),
             E16!TopBit \in v <=> E16!TopBit \in w
      PROVE  v = w
  <2>1. ASSUME NEW a \in E16!Words, NEW b \in E16!Words, E16!ShiftLeft(a) = E16!ShiftLeft(b), NEW i \in a \ {E16!TopBit}
        PROVE  i \in b
    <3>1. i + 1 \in E16!ShiftLeft(b)
      BY <2>1 DEF E16!ShiftLeft, E16!Shifted
    <3>2. PICK j \in b : j + 1 = i + 1
      BY <3>1 DEF E16!ShiftLeft, E16!Shifted
    <3>3. QED
      BY <3>2
  <2>2. v \subseteq w
    BY <1>3, <2>1
  <2>3. w \subseteq v
    BY <1>3, <2>1
  <2>4. QED
    BY <2>2, <2>3
<1>4. ASSUME NEW v \in E16!Words, NEW w \in E16!Words, E16!ProcessBit(v) = E16!ProcessBit(w)
      PROVE  v = w
  <2>1. E16!TopBit \in v <=> E16!TopBit \in w
    BY <1>2, <1>4
  <2>2. E16!ShiftLeft(v) = E16!ShiftLeft(w)
    BY <1>4, <2>1 DEF E16!ProcessBit, E16!Xor
  <2>3. QED
    BY <1>3, <2>1, <2>2
<1>5. QED
  BY <1>2, <1>4

\* So do the eight bits of a byte, and two different bytes never take a
\* register to the same one.
LEMMA ByteStep16 ==
    /\ \A w \in E16!Words, b \in AllBytes : E16!crc16ProcessByte(w, b) \in E16!Words
    /\ \A v, w \in E16!Words, b \in AllBytes :
          E16!crc16ProcessByte(v, b) = E16!crc16ProcessByte(w, b) => v = w
    /\ \A w \in E16!Words, a, b \in AllBytes :
          E16!crc16ProcessByte(w, a) = E16!crc16ProcessByte(w, b) => a = b
<1>1. /\ \A w \in E16!Words : E16!FourBits(w) \in E16!Words
      /\ \A v, w \in E16!Words : E16!FourBits(v) = E16!FourBits(w) => v = w
  <2>1. /\ \A w \in E16!Words : E16!TwoBits(w) \in E16!Words
        /\ \A v, w \in E16!Words : E16!TwoBits(v) = E16!TwoBits(w) => v = w
    BY BitStep16 DEF E16!TwoBits
  <2>2. QED
    BY <2>1 DEF E16!FourBits
<1>2. \A w \in E16!Words, b \in AllBytes : E16!Xor(w, E16!Shifted(b, 8)) \in E16!Words
  <2>1. \A b \in AllBytes : E16!Shifted(b, 8) \subseteq 0 .. 15
    BY DEF E16!Shifted, AllBytes
  <2>2. QED
    BY <2>1 DEF E16!Xor, E16!Words
<1>3. \A v, w, s : E16!Xor(v, s) = E16!Xor(w, s) /\ v \in E16!Words /\ w \in E16!Words => v = w
  BY DEF E16!Xor, E16!Words
<1>4. \A w, s, t : E16!Xor(w, s) = E16!Xor(w, t) => s \subseteq t /\ t \subseteq s
  BY DEF E16!Xor
<1>5. \A a, b \in AllBytes : E16!Shifted(a, 8) \subseteq E16!Shifted(b, 8) => a \subseteq b
  <2>1. SUFFICES ASSUME NEW a \in AllBytes, NEW b \in AllBytes,
                        E16!Shifted(a, 8) \subseteq E16!Shifted(b, 8), NEW i \in a
                 PROVE  i \in b
    OBVIOUS
  <2>2. PICK j \in b : j + 8 = i + 8
    BY <2>1 DEF E16!Shifted
  <2>3. QED
    BY <2>1, <2>2 DEF AllBytes
<1>6. \A a, b \in AllBytes : a \subseteq b /\ b \subseteq a => a = b
  OBVIOUS
<1>7. QED
  BY <1>1, <1>2, <1>3, <1>4, <1>5, <1>6 DEF E16!crc16ProcessByte

\* The loop over a buffer keeps the register to sixteen bits.
LEMMA LoopTyped16 ==
    ASSUME NEW word \in E16!Words, NEW bytes \in Seq(AllBytes)
    PROVE  E16!Processed(word, bytes) \in E16!Words
BY ByteStep16, A16!ProcessedClosed, SameLoop16

\* The loop over two pieces is the loop over the whole.
LEMMA LoopContinues16 ==
    ASSUME NEW word, NEW first \in Seq(AllBytes), NEW second \in Seq(AllBytes)
    PROVE  E16!Processed(word, first \o second) = E16!Processed(E16!Processed(word, first), second)
BY A16!ProcessedConcat, SameLoop16

\* A single damaged byte changes the code, wherever it is and whatever the
\* register was.
LEMMA DamageChangesCode16 ==
    ASSUME NEW bytes \in Seq(AllBytes), NEW n \in DOMAIN bytes,
           NEW byte \in AllBytes, byte # bytes[n]
    PROVE  E16!OneShot([bytes EXCEPT ![n] = byte]) # E16!OneShot(bytes)
<1> DEFINE word == E16!CRC16_INITIAL_VALUE
           damaged == [bytes EXCEPT ![n] = byte]
<1>1. word \in E16!Words
  BY DEF E16!Words, E16!CRC16_INITIAL_VALUE
<1> HIDE DEF word
<1>2. A16!Processed(word, damaged) # A16!Processed(word, bytes)
  BY <1>1, ByteStep16, A16!ChangedByte
<1> HIDE DEF damaged
<1>3. E16!OneShot(damaged) # E16!OneShot(bytes)
  BY <1>2, SameLoop16 DEF E16!OneShot, word
<1>4. QED
  BY <1>3 DEF damaged

-----------------------------------------------------------------------------
(* crc32.c                                                                 *)

\* A bit of the loop keeps the register to thirty-two bits and makes no two
\* registers equal: the high bit of the result tells whether the generator was
\* added, and the generator and the low bit can be put back.
LEMMA BitStep32 ==
    /\ \A w \in E32!Words : E32!ProcessBit(w) \in E32!Words
    /\ \A v, w \in E32!Words : E32!ProcessBit(v) = E32!ProcessBit(w) => v = w
<1> USE DEF E32!CRC32_REFLECTED_POLYNOMIAL, E32!Words
<1>1. ASSUME NEW w \in E32!Words PROVE E32!ShiftRight(w) \in SUBSET (0 .. 30)
  BY DEF E32!ShiftRight, E32!Shifted
<1>2. ASSUME NEW w \in E32!Words PROVE E32!ProcessBit(w) \in E32!Words /\ (31 \in E32!ProcessBit(w) <=> 0 \in w)
  BY <1>1 DEF E32!ProcessBit, E32!Xor
<1>3. ASSUME NEW v \in E32!Words, NEW w \in E32!Words, E32!ShiftRight(v) = E32!ShiftRight(w),
             0 \in v <=> 0 \in w
      PROVE  v = w
  <2>1. ASSUME NEW a \in E32!Words, NEW b \in E32!Words, E32!ShiftRight(a) = E32!ShiftRight(b), NEW i \in a \ {0}
        PROVE  i \in b
    <3>1. i + (-1) \in E32!ShiftRight(b)
      BY <2>1 DEF E32!ShiftRight, E32!Shifted
    <3>2. PICK j \in b : j + (-1) = i + (-1)
      BY <3>1 DEF E32!ShiftRight, E32!Shifted
    <3>3. QED
      BY <3>2
  <2>2. v \subseteq w
    BY <1>3, <2>1
  <2>3. w \subseteq v
    BY <1>3, <2>1
  <2>4. QED
    BY <2>2, <2>3
<1>4. ASSUME NEW v \in E32!Words, NEW w \in E32!Words, E32!ProcessBit(v) = E32!ProcessBit(w)
      PROVE  v = w
  <2>1. 0 \in v <=> 0 \in w
    BY <1>2, <1>4
  <2>2. E32!ShiftRight(v) = E32!ShiftRight(w)
    BY <1>4, <2>1 DEF E32!ProcessBit, E32!Xor
  <2>3. QED
    BY <1>3, <2>1, <2>2
<1>5. QED
  BY <1>2, <1>4

\* So do the eight bits of a byte, and two different bytes never take a
\* register to the same one.
LEMMA ByteStep32 ==
    /\ \A w \in E32!Words, b \in AllBytes : E32!crc32ProcessByte(w, b) \in E32!Words
    /\ \A v, w \in E32!Words, b \in AllBytes :
          E32!crc32ProcessByte(v, b) = E32!crc32ProcessByte(w, b) => v = w
    /\ \A w \in E32!Words, a, b \in AllBytes :
          E32!crc32ProcessByte(w, a) = E32!crc32ProcessByte(w, b) => a = b
<1>1. /\ \A w \in E32!Words : E32!FourBits(w) \in E32!Words
      /\ \A v, w \in E32!Words : E32!FourBits(v) = E32!FourBits(w) => v = w
  <2>1. /\ \A w \in E32!Words : E32!TwoBits(w) \in E32!Words
        /\ \A v, w \in E32!Words : E32!TwoBits(v) = E32!TwoBits(w) => v = w
    BY BitStep32 DEF E32!TwoBits
  <2>2. QED
    BY <2>1 DEF E32!FourBits
<1>2. \A w \in E32!Words, b \in AllBytes : E32!Xor(w, b) \in E32!Words
  BY DEF E32!Xor, E32!Words, AllBytes
<1>3. \A v, w, s : E32!Xor(v, s) = E32!Xor(w, s) /\ v \in E32!Words /\ w \in E32!Words => v = w
  BY DEF E32!Xor, E32!Words
<1>4. \A w, s, t : E32!Xor(w, s) = E32!Xor(w, t) => s \subseteq t /\ t \subseteq s
  BY DEF E32!Xor
<1>5. \A a, b \in AllBytes : a \subseteq b /\ b \subseteq a => a = b
  OBVIOUS
<1>6. QED
  BY <1>1, <1>2, <1>3, <1>4, <1>5 DEF E32!crc32ProcessByte

\* The final exclusive or keeps to thirty-two bits and can be taken back.
LEMMA FinalXor ==
    /\ \A w \in E32!Words : E32!Xor(w, E32!CRC32_FINAL_XOR) \in E32!Words
    /\ \A v, w : E32!Xor(v, E32!CRC32_FINAL_XOR) = E32!Xor(w, E32!CRC32_FINAL_XOR) => v = w
<1>1. E32!CRC32_FINAL_XOR \in E32!Words
  BY DEF E32!CRC32_FINAL_XOR, E32!Words
<1>2. \A v, w, s : E32!Xor(v, s) = E32!Xor(w, s) => v \subseteq w /\ w \subseteq v
  BY DEF E32!Xor
<1>3. QED
  BY <1>1, <1>2 DEF E32!Xor, E32!Words

\* The loop over a buffer keeps the register to thirty-two bits.
LEMMA LoopTyped32 ==
    ASSUME NEW word \in E32!Words, NEW bytes \in Seq(AllBytes)
    PROVE  E32!Processed(word, bytes) \in E32!Words
BY ByteStep32, A32!ProcessedClosed, SameLoop32

\* The loop over two pieces is the loop over the whole.
LEMMA LoopContinues32 ==
    ASSUME NEW word, NEW first \in Seq(AllBytes), NEW second \in Seq(AllBytes)
    PROVE  E32!Processed(word, first \o second) = E32!Processed(E32!Processed(word, first), second)
BY A32!ProcessedConcat, SameLoop32

\* A single damaged byte changes the code, wherever it is and whatever the
\* register was.
LEMMA DamageChangesCode32 ==
    ASSUME NEW bytes \in Seq(AllBytes), NEW n \in DOMAIN bytes,
           NEW byte \in AllBytes, byte # bytes[n]
    PROVE  E32!OneShot([bytes EXCEPT ![n] = byte]) # E32!OneShot(bytes)
<1> DEFINE word == E32!CRC32_INITIAL_VALUE
           damaged == [bytes EXCEPT ![n] = byte]
<1>1. word \in E32!Words
  BY DEF E32!Words, E32!CRC32_INITIAL_VALUE
<1> HIDE DEF word
<1>2. A32!Processed(word, damaged) # A32!Processed(word, bytes)
  BY <1>1, ByteStep32, A32!ChangedByte
<1> HIDE DEF damaged
<1>3. E32!OneShot(damaged) # E32!OneShot(bytes)
  BY <1>2, SameLoop32, FinalXor DEF E32!OneShot, word
<1>4. QED
  BY <1>3 DEF damaged

-----------------------------------------------------------------------------
(* Polynomials.                                                            *)

\* Terms after a shift.
LEMMA ShiftedTerm ==
    ASSUME NEW a \in SUBSET Int, NEW n \in Int, NEW i \in Int
    PROVE  i \in Shifted(a, n) <=> i - n \in a
<1>1. ASSUME i - n \in a PROVE i \in Shifted(a, n)
  <2>1. i = (i - n) + n
    OBVIOUS
  <2>2. QED
    BY <1>1, <2>1 DEF Shifted
<1>2. ASSUME i \in Shifted(a, n) PROVE i - n \in a
  <2>1. PICK j \in a : i = j + n
    BY <1>2 DEF Shifted
  <2>2. i - n = j
    BY <2>1
  <2>3. QED
    BY <2>1, <2>2
<1>3. QED
  BY <1>1, <1>2

\* A shift of terms gives terms.
LEMMA ShiftedInt ==
    ASSUME NEW a \in SUBSET Int, NEW n \in Int
    PROVE  Shifted(a, n) \in SUBSET Int
BY DEF Shifted

\* Two shifts make one.
LEMMA ShiftedTwice ==
    ASSUME NEW a \in SUBSET Int, NEW m \in Int, NEW n \in Int
    PROVE  Shifted(Shifted(a, m), n) = Shifted(a, m + n)
<1>1. Shifted(a, m) \in SUBSET Int /\ Shifted(a, m + n) \in SUBSET Int
      /\ Shifted(Shifted(a, m), n) \in SUBSET Int
  BY ShiftedInt
<1>2. ASSUME NEW i \in Int PROVE i \in Shifted(Shifted(a, m), n) <=> i \in Shifted(a, m + n)
  <2>1. i - n - m = i - (m + n)
    OBVIOUS
  <2>2. i \in Shifted(Shifted(a, m), n) <=> i - n \in Shifted(a, m)
    BY <1>1, ShiftedTerm
  <2>3. i - n \in Shifted(a, m) <=> i - n - m \in a
    BY ShiftedTerm
  <2>4. i \in Shifted(a, m + n) <=> i - (m + n) \in a
    BY ShiftedTerm
  <2>5. QED
    BY <2>1, <2>2, <2>3, <2>4
<1>3. QED
  BY <1>1, <1>2

\* A shift by zero is none.
LEMMA ShiftedZero ==
    ASSUME NEW a \in SUBSET Int
    PROVE  Shifted(a, 0) = a
<1>1. \A i \in Int : i - 0 = i
  OBVIOUS
<1>2. Shifted(a, 0) \in SUBSET Int
  BY ShiftedInt
<1>3. \A i \in Int : i \in Shifted(a, 0) <=> i \in a
  BY <1>1, ShiftedTerm
<1>4. QED
  BY <1>2, <1>3

\* Shifting distributes over addition.
LEMMA ShiftedXor ==
    ASSUME NEW a \in SUBSET Int, NEW b \in SUBSET Int, NEW n \in Int
    PROVE  Shifted(Xor(a, b), n) = Xor(Shifted(a, n), Shifted(b, n))
<1>1. Xor(a, b) \in SUBSET Int
  BY DEF Xor
<1>2. Shifted(a, n) \in SUBSET Int /\ Shifted(b, n) \in SUBSET Int
      /\ Shifted(Xor(a, b), n) \in SUBSET Int
  BY <1>1, ShiftedInt
<1>3. ASSUME NEW i \in Int PROVE i \in Shifted(Xor(a, b), n) <=> i \in Xor(Shifted(a, n), Shifted(b, n))
  <2>1. i \in Shifted(Xor(a, b), n) <=> i - n \in Xor(a, b)
    BY <1>1, ShiftedTerm
  <2>2. (i \in Shifted(a, n) <=> i - n \in a) /\ (i \in Shifted(b, n) <=> i - n \in b)
    BY ShiftedTerm
  <2>3. QED
    BY <2>1, <2>2 DEF Xor
<1>4. QED
  BY <1>2, <1>3 DEF Xor

\* The parity of a sum is the sum of the parities.
LEMMA XorParity ==
    ASSUME NEW a, NEW b, IsFiniteSet(a), IsFiniteSet(b)
    PROVE  Cardinality(Xor(a, b)) % 2 = 1
             <=> (Cardinality(a) % 2 = 1) # (Cardinality(b) % 2 = 1)
<1> DEFINE ca == Cardinality(a)
           cb == Cardinality(b)
           both == Cardinality(a \cap b)
<1>1. /\ IsFiniteSet(a \ b) /\ Cardinality(a \ b) = ca - both
      /\ IsFiniteSet(b \ a) /\ Cardinality(b \ a) = cb - Cardinality(b \cap a)
  BY FS_Difference
<1>2. b \cap a = a \cap b /\ (a \ b) \cap (b \ a) = {}
  OBVIOUS
<1>3. IsFiniteSet(a \cap b)
  BY FS_Intersection
<1>4. ca \in Nat /\ cb \in Nat /\ both \in Nat
  BY <1>3, FS_CardinalityType
<1>5. Cardinality((a \ b) \cup (b \ a)) = Cardinality(a \ b) + Cardinality(b \ a)
  <2>1. Cardinality((a \ b) \cup (b \ a))
          = Cardinality(a \ b) + Cardinality(b \ a) - Cardinality((a \ b) \cap (b \ a))
    BY <1>1, FS_Union
  <2>2. Cardinality((a \ b) \cap (b \ a)) = 0
    BY <1>2, FS_EmptySet
  <2>3. Cardinality(a \ b) \in Nat /\ Cardinality(b \ a) \in Nat
    BY <1>1, FS_CardinalityType
  <2>4. QED
    BY <2>1, <2>2, <2>3
<1>6. Cardinality(Xor(a, b)) = ca - both + (cb - both)
  BY <1>1, <1>2, <1>5 DEF Xor
<1> HIDE DEF ca, cb, both
<1>7. (ca - both + (cb - both)) % 2 = 1 <=> (ca % 2 = 1) # (cb % 2 = 1)
  BY <1>4
<1>8. QED
  BY <1>6, <1>7 DEF ca, cb

-----------------------------------------------------------------------------
(* Remainders.                                                             *)

\* A remainder modulo x^width + poly, multiplied by x and reduced again.
TimesX(word, poly, width) ==
    LET next == Shifted(word, 1)
    IN  IF width \in next THEN Xor(next \ {width}, poly) ELSE next

\* Its terms.
LEMMA TimesXTerms ==
    ASSUME NEW width \in Nat \ {0}, NEW poly \in SUBSET (0 .. width - 1),
           NEW word \in SUBSET (0 .. width - 1)
    PROVE  /\ TimesX(word, poly, width) \in SUBSET (0 .. width - 1)
           /\ \A i \in 0 .. width - 1 :
                i \in TimesX(word, poly, width)
                  <=> (i - 1 \in word) # (width - 1 \in word /\ i \in poly)
<1> DEFINE next == Shifted(word, 1)
<1>1. word \in SUBSET Int
  OBVIOUS
<1>2. \A i \in Int : i \in next <=> i - 1 \in word
  BY <1>1, ShiftedTerm
<1>3. next \in SUBSET Int
  BY <1>1, ShiftedInt
<1>4. next \subseteq 0 .. width
  BY <1>2, <1>3
<1>5. TimesX(word, poly, width) = IF width \in next THEN Xor(next \ {width}, poly) ELSE next
  BY DEF TimesX
<1> HIDE DEF next
<1>6. width \in next <=> width - 1 \in word
  BY <1>2
<1>7. TimesX(word, poly, width) \in SUBSET (0 .. width - 1)
  <2>1. next \ {width} \subseteq 0 .. width - 1
    BY <1>4
  <2>2. QED
    BY <1>5, <2>1 DEF Xor
<1>8. ASSUME NEW i \in 0 .. width - 1
      PROVE  i \in TimesX(word, poly, width)
                  <=> (i - 1 \in word) # (width - 1 \in word /\ i \in poly)
  <2>1. i # width /\ (i \in next <=> i - 1 \in word)
    BY <1>2
  <2>2. QED
    BY <1>5, <1>6, <2>1 DEF Xor
<1>9. QED
  BY <1>7, <1>8

\* The power x^n as it stands.
Term(n) == {n}

\* The powers of x, as the equation their recursive function solves.
ArePowers(power, poly, width, last) ==
    power = [n \in 0 .. last |->
                IF n < width THEN Term(n) ELSE TimesX(power[n - 1], poly, width)]

\* One more power can be added to a table of them.
LEMMA PowersExtend ==
    ASSUME NEW poly, NEW width \in Nat \ {0}, NEW last \in Nat,
           NEW h, ArePowers(h, poly, width, last)
    PROVE  \E g : ArePowers(g, poly, width, last + 1)
<1> DEFINE g == [n \in 0 .. last + 1 |->
                    IF n \in 0 .. last THEN h[n]
                    ELSE IF n < width THEN Term(n) ELSE TimesX(h[last], poly, width)]
<1>1. \A n \in 0 .. last : h[n] = IF n < width THEN Term(n) ELSE TimesX(h[n - 1], poly, width)
  BY DEF ArePowers
<1>2. ASSUME NEW n \in 0 .. last + 1
      PROVE  g[n] = IF n < width THEN Term(n) ELSE TimesX(g[n - 1], poly, width)
  <2>1. CASE n < width
    BY <1>1, <2>1
  <2>2. CASE n \in 1 .. last /\ ~(n < width)
    <3>1. n \in 0 .. last /\ n - 1 \in 0 .. last
      BY <2>2
    <3>2. g[n] = h[n] /\ g[n - 1] = h[n - 1]
      BY <3>1
    <3>3. QED
      BY <1>1, <2>2, <3>1, <3>2
  <2>3. CASE n = last + 1 /\ ~(n < width)
    BY <2>3
  <2>4. QED
    BY <2>1, <2>2, <2>3
<1>3. g = [n \in 0 .. last + 1 |-> IF n < width THEN Term(n) ELSE TimesX(g[n - 1], poly, width)]
  BY <1>2
<1>4. QED
  BY <1>3 DEF ArePowers

\* There is a table of any length, and PowersOfX is one.
LEMMA PowersOfXAre ==
    ASSUME NEW poly, NEW width \in Nat \ {0}, NEW last \in Nat
    PROVE  ArePowers(PowersOfX(poly, width, last), poly, width, last)
<1> DEFINE None == {n \in Nat : \A h : ~ArePowers(h, poly, width, n)}
<1>1. ASSUME None # {} PROVE FALSE
  <2>1. PICK m \in None : \A k \in None : m <= k
    BY <1>1, A16!NatMinimum
  <2>2. m # 0
    <3>1. ArePowers([n \in 0 .. 0 |-> Term(n)], poly, width, 0)
      BY DEF ArePowers
    <3>2. QED
      BY <3>1
  <2>3. m - 1 \in Nat /\ m - 1 \notin None
    BY <2>1, <2>2
  <2>4. PICK h : ArePowers(h, poly, width, m - 1)
    BY <2>3
  <2>5. \E g : ArePowers(g, poly, width, (m - 1) + 1)
    BY <2>3, <2>4, PowersExtend
  <2>6. QED
    BY <2>1, <2>5
<1>2. PICK h : ArePowers(h, poly, width, last)
  BY <1>1
<1>3. PowersOfX(poly, width, last) = CHOOSE power : ArePowers(power, poly, width, last)
  BY DEF PowersOfX, ArePowers, TimesX, Term
<1>4. QED
  BY <1>2, <1>3

\* The powers below the width are plain, all are remainders, and each is the
\* one before it multiplied by x.
IsTable(power, poly, width, last) ==
    /\ \A n \in 0 .. last : power[n] \in SUBSET (0 .. width - 1)
    /\ \A n \in 0 .. last : n < width => power[n] = Term(n)
    /\ \A n \in 0 .. last - 1 : power[n + 1] = TimesX(power[n], poly, width)

LEMMA PowersTable ==
    ASSUME NEW width \in Nat \ {0}, NEW poly \in SUBSET (0 .. width - 1), NEW last \in Nat
    PROVE  IsTable(PowersOfX(poly, width, last), poly, width, last)
<1> DEFINE power == PowersOfX(poly, width, last)
<1>1. ArePowers(power, poly, width, last)
  BY PowersOfXAre
<1> HIDE DEF power
<1>2. \A n \in 0 .. last :
        power[n] = IF n < width THEN Term(n) ELSE TimesX(power[n - 1], poly, width)
  BY <1>1 DEF ArePowers
<1> DEFINE Wide == {n \in 0 .. last : power[n] \notin SUBSET (0 .. width - 1)}
<1>3. ASSUME Wide # {} PROVE FALSE
  <2>1. PICK m \in Wide : \A k \in Wide : m <= k
    <3>1. Wide \in SUBSET Nat
      OBVIOUS
    <3> HIDE DEF Wide
    <3>2. QED
      BY <1>3, <3>1, A16!NatMinimum
  <2>2. ~(m < width)
    <3>1. m < width => power[m] = Term(m)
      BY <1>2, <2>1
    <3>2. QED
      BY <2>1, <3>1 DEF Term
  <2>3. m - 1 \in 0 .. last /\ m - 1 \notin Wide
    BY <2>1, <2>2
  <2>4. power[m] = TimesX(power[m - 1], poly, width)
    BY <1>2, <2>1, <2>2
  <2>5. power[m - 1] \in SUBSET (0 .. width - 1)
    BY <2>3
  <2>6. power[m] \in SUBSET (0 .. width - 1)
    <3>1. \A w \in SUBSET (0 .. width - 1) : TimesX(w, poly, width) \in SUBSET (0 .. width - 1)
      BY TimesXTerms
    <3>2. QED
      BY <2>4, <2>5, <3>1
  <2>7. QED
    BY <2>1, <2>6
<1>4. \A n \in 0 .. last : power[n] \in SUBSET (0 .. width - 1)
  BY <1>3
<1>5. ASSUME NEW n \in 0 .. last - 1 PROVE power[n + 1] = TimesX(power[n], poly, width)
  <2>1. CASE ~(n + 1 < width)
    BY <1>2, <2>1
  <2>2. CASE n + 1 < width
    <3>1. power[n + 1] = Term(n + 1) /\ power[n] = Term(n)
      BY <1>2, <2>2
    <3>2. /\ Term(n) \in SUBSET (0 .. width - 1)
          /\ width - 1 \notin Term(n)
          /\ \A i \in Int : i - 1 \in Term(n) <=> i = n + 1
      BY <2>2 DEF Term
    <3>3. \A i \in 0 .. width - 1 : i \in TimesX(Term(n), poly, width) <=> i = n + 1
      BY <3>2, TimesXTerms
    <3>4. TimesX(Term(n), poly, width) \in SUBSET (0 .. width - 1)
      BY <3>2, TimesXTerms
    <3>5. TimesX(Term(n), poly, width) = Term(n + 1)
      BY <2>2, <3>3, <3>4 DEF Term
    <3>6. QED
      BY <3>1, <3>5
  <2>3. QED
    BY <2>1, <2>2
<1>6. QED
  BY <1>2, <1>4, <1>5 DEF IsTable, power

\* A remainder is a word of the generator's width.
LEMMA RemainderTyped ==
    ASSUME NEW width \in Nat, NEW power, NEW a
    PROVE  Remainder(a, power, width) \in SUBSET (0 .. width - 1)
BY DEF Remainder

\* The remainder of a sum is the sum of the remainders.
LEMMA RemainderXor ==
    ASSUME NEW width \in Nat, NEW power, NEW a, NEW b, IsFiniteSet(a), IsFiniteSet(b)
    PROVE  Remainder(Xor(a, b), power, width)
             = Xor(Remainder(a, power, width), Remainder(b, power, width))
<1> DEFINE In(s, i) == {n \in s : i \in power[n]}
<1>1. ASSUME NEW i \in 0 .. width - 1
      PROVE  Cardinality(In(Xor(a, b), i)) % 2 = 1
               <=> (Cardinality(In(a, i)) % 2 = 1) # (Cardinality(In(b, i)) % 2 = 1)
  <2>1. IsFiniteSet(In(a, i)) /\ IsFiniteSet(In(b, i))
    <3>1. In(a, i) \in SUBSET a /\ In(b, i) \in SUBSET b
      OBVIOUS
    <3> HIDE DEF In
    <3>2. QED
      BY <3>1, FS_Subset
  <2>2. In(Xor(a, b), i) = Xor(In(a, i), In(b, i))
    BY DEF Xor
  <2> HIDE DEF In
  <2>3. QED
    BY <2>1, <2>2, XorParity
<1>2. /\ Remainder(a, power, width) = {i \in 0 .. width - 1 : Cardinality(In(a, i)) % 2 = 1}
      /\ Remainder(b, power, width) = {i \in 0 .. width - 1 : Cardinality(In(b, i)) % 2 = 1}
      /\ Remainder(Xor(a, b), power, width)
           = {i \in 0 .. width - 1 : Cardinality(In(Xor(a, b), i)) % 2 = 1}
  BY DEF Remainder
<1> HIDE DEF In
<1>3. ASSUME NEW i \in 0 .. width - 1
      PROVE  i \in Remainder(Xor(a, b), power, width)
               <=> i \in Xor(Remainder(a, power, width), Remainder(b, power, width))
  BY <1>1, <1>2 DEF Xor
<1>4. Xor(Remainder(a, power, width), Remainder(b, power, width)) \in SUBSET (0 .. width - 1)
  BY RemainderTyped DEF Xor
<1>5. QED
  BY <1>3, <1>4, RemainderTyped

\* A word is its own remainder.
LEMMA RemainderOfWord ==
    ASSUME NEW width \in Nat \ {0}, NEW poly \in SUBSET (0 .. width - 1),
           NEW last \in Nat, NEW power, IsTable(power, poly, width, last),
           width - 1 <= last, NEW a \in SUBSET (0 .. width - 1)
    PROVE  Remainder(a, power, width) = a
<1>1. ASSUME NEW n \in a PROVE power[n] = Term(n)
  <2>1. \A k \in 0 .. last : k < width => power[k] = Term(k)
    BY DEF IsTable
  <2>2. n \in 0 .. last /\ n < width
    OBVIOUS
  <2>3. QED
    BY <2>1, <2>2
<1>2. ASSUME NEW i \in 0 .. width - 1
      PROVE  Cardinality({n \in a : i \in power[n]}) % 2 = 1 <=> i \in a
  <2>1. CASE i \in a
    <3>1. \A n \in a : i \in power[n] <=> n = i
      BY <1>1, <2>1 DEF Term
    <3>2. {n \in a : i \in power[n]} = {i}
      BY <2>1, <3>1
    <3>3. Cardinality({i}) = 1
      BY FS_Singleton
    <3>4. Cardinality({n \in a : i \in power[n]}) = 1
      BY <3>2, <3>3
    <3>5. QED
      BY <2>1, <3>4
  <2>2. CASE i \notin a
    <3>1. \A n \in a : i \notin power[n]
      BY <1>1, <2>2 DEF Term
    <3>2. {n \in a : i \in power[n]} = {}
      BY <3>1
    <3>3. Cardinality({}) = 0
      BY FS_EmptySet
    <3>4. Cardinality({n \in a : i \in power[n]}) = 0
      BY <3>2, <3>3
    <3>5. QED
      BY <2>2, <3>4
  <2>3. QED
    BY <2>1, <2>2
<1>3. QED
  BY <1>2 DEF Remainder

\* Multiplying a polynomial by x multiplies its remainder by x.
LEMMA RemainderTimesX ==
    ASSUME NEW width \in Nat \ {0}, NEW poly \in SUBSET (0 .. width - 1),
           NEW last \in Nat, NEW power, IsTable(power, poly, width, last),
           NEW a \in SUBSET (0 .. last - 1)
    PROVE  Remainder(Shifted(a, 1), power, width)
             = TimesX(Remainder(a, power, width), poly, width)
<1> DEFINE word == Remainder(a, power, width)
           In(s, i) == {n \in s : i \in power[n]}
<1>1. ASSUME NEW n \in a
      PROVE  power[n] \in SUBSET (0 .. width - 1) /\ power[n + 1] = TimesX(power[n], poly, width)
  <2>1. /\ \A k \in 0 .. last : power[k] \in SUBSET (0 .. width - 1)
        /\ \A k \in 0 .. last - 1 : power[k + 1] = TimesX(power[k], poly, width)
    BY DEF IsTable
  <2>2. n \in 0 .. last /\ n \in 0 .. last - 1
    OBVIOUS
  <2>3. QED
    BY <2>1, <2>2
<1>2. word \in SUBSET (0 .. width - 1)
  BY RemainderTyped
<1>3. IsFiniteSet(a)
  <2>1. IsFiniteSet(0 .. last - 1)
    BY FS_Interval
  <2>2. QED
    BY <2>1, FS_Subset
<1>4. \A i : IsFiniteSet(In(a, i))
  BY <1>3, FS_Subset
<1>5. \A i \in 0 .. width - 1 : i \in word <=> Cardinality(In(a, i)) % 2 = 1
  BY DEF Remainder
<1>6. ASSUME NEW i \in 0 .. width - 1
      PROVE  Cardinality(In(Shifted(a, 1), i)) % 2 = 1 <=> i \in TimesX(word, poly, width)
  <2> DEFINE B == {n \in a : i \in power[n + 1]}
             f == [n \in B |-> n + 1]
  <2>1. Cardinality(In(Shifted(a, 1), i)) = Cardinality(B)
    <3>1. f \in [B -> In(Shifted(a, 1), i)]
      BY DEF Shifted
    <3>2. \A m, n \in B : f[m] = f[n] => m = n
      OBVIOUS
    <3>3. \A k \in In(Shifted(a, 1), i) : \E n \in B : f[n] = k
      BY DEF Shifted
    <3>4. IsFiniteSet(B)
      BY <1>3, FS_Subset
    <3> HIDE DEF f, B, In
    <3>5. f \in Bijection(B, In(Shifted(a, 1), i))
      BY <3>1, <3>2, <3>3, Fun_IsBij
    <3>6. ExistsBijection(B, In(Shifted(a, 1), i))
      BY <3>5 DEF ExistsBijection
    <3>7. QED
      BY <3>4, <3>6, FS_Bijection
  <2>2. \A n \in a : i \in power[n + 1]
                       <=> (i - 1 \in power[n]) # (width - 1 \in power[n] /\ i \in poly)
    <3>1. ASSUME NEW other \in SUBSET (0 .. width - 1)
          PROVE  i \in TimesX(other, poly, width)
                   <=> (i - 1 \in other) # (width - 1 \in other /\ i \in poly)
      BY TimesXTerms
    <3>2. QED
      BY <1>1, <3>1
  <2>3. B = IF i \in poly THEN Xor(In(a, i - 1), In(a, width - 1)) ELSE In(a, i - 1)
    <3>1. CASE i \in poly
      <4> DEFINE lower == In(a, i - 1)
                 upper == In(a, width - 1)
      <4>1. \A n \in a : n \in B <=> ~(n \in lower <=> n \in upper)
        BY <2>2, <3>1
      <4>2. B \subseteq a /\ lower \subseteq a /\ upper \subseteq a
        OBVIOUS
      <4> HIDE DEF B, In, lower, upper
      <4>3. B = Xor(lower, upper)
        BY <4>1, <4>2 DEF Xor
      <4> USE DEF lower, upper
      <4>4. QED
        BY <3>1, <4>3
    <3>2. CASE i \notin poly
      <4>1. B = In(a, i - 1)
        BY <2>2, <3>2
      <4> HIDE DEF B, In
      <4>2. QED
        BY <3>2, <4>1
    <3>3. QED
      BY <3>1, <3>2
  <2>4. Cardinality(In(a, i - 1)) % 2 = 1 <=> i - 1 \in word
    <3>1. CASE i = 0
      <4>1. In(a, i - 1) = {}
        <5>1. \A n \in a : i - 1 \notin power[n]
          BY <1>1, <3>1
        <5>2. QED
          BY <5>1
      <4>2. Cardinality({}) = 0
        BY FS_EmptySet
      <4>3. i - 1 \notin word
        BY <1>2, <3>1
      <4>4. ~(0 % 2 = 1)
        OBVIOUS
      <4> HIDE DEF In, word
      <4>5. QED
        BY <4>1, <4>2, <4>3, <4>4
    <3>2. CASE i # 0
      <4>1. i - 1 \in 0 .. width - 1
        BY <3>2
      <4> HIDE DEF In, word
      <4>2. QED
        BY <1>5, <4>1
    <3>3. QED
      BY <3>1, <3>2
  <2>5. Cardinality(In(a, width - 1)) % 2 = 1 <=> width - 1 \in word
    <3>1. width - 1 \in 0 .. width - 1
      OBVIOUS
    <3> HIDE DEF In, word
    <3>2. QED
      BY <1>5, <3>1
  <2>6. IsFiniteSet(In(a, i - 1)) /\ IsFiniteSet(In(a, width - 1))
    BY <1>4
  <2>7. i \in TimesX(word, poly, width) <=> (i - 1 \in word) # (width - 1 \in word /\ i \in poly)
    BY <1>2, TimesXTerms
  <2> HIDE DEF B, In, word
  <2>8. CASE i \in poly
    BY <2>1, <2>3, <2>4, <2>5, <2>6, <2>7, <2>8, XorParity
  <2>9. CASE i \notin poly
    BY <2>1, <2>3, <2>4, <2>7, <2>9
  <2>10. QED
    BY <2>8, <2>9
<1>7. Remainder(Shifted(a, 1), power, width)
        = {i \in 0 .. width - 1 : Cardinality(In(Shifted(a, 1), i)) % 2 = 1}
  BY DEF Remainder
<1>8. TimesX(word, poly, width) \in SUBSET (0 .. width - 1)
  BY <1>2, TimesXTerms
<1> HIDE DEF In, word
<1>9. QED
  BY <1>6, <1>7, <1>8 DEF word

\* A generator with a constant term loses no word that is multiplied by x.
LEMMA TimesXNonzero ==
    ASSUME NEW width \in Nat \ {0}, NEW poly \in SUBSET (0 .. width - 1), 0 \in poly,
           NEW word \in SUBSET (0 .. width - 1), word # {}
    PROVE  TimesX(word, poly, width) # {}
<1>1. \A i \in 0 .. width - 1 :
        i \in TimesX(word, poly, width) <=> (i - 1 \in word) # (width - 1 \in word /\ i \in poly)
  BY TimesXTerms
<1>2. CASE width - 1 \in word
  <2>1. 0 \in 0 .. width - 1 /\ 0 - 1 \notin word
    OBVIOUS
  <2>2. 0 \in TimesX(word, poly, width)
    BY <1>1, <1>2, <2>1
  <2>3. QED
    BY <2>2
<1>3. CASE width - 1 \notin word
  <2>1. PICK j \in word : TRUE
    OBVIOUS
  <2>2. j \in 0 .. width - 1 /\ j # width - 1
    BY <1>3, <2>1
  <2>3. j + 1 \in 0 .. width - 1 /\ (j + 1) - 1 = j
    BY <2>2
  <2>4. j + 1 \in TimesX(word, poly, width)
    BY <1>1, <1>3, <2>1, <2>3
  <2>5. QED
    BY <2>4
<1>4. QED
  BY <1>2, <1>3

\* So no burst of terms that fits into a word is a multiple of the generator,
\* wherever it lies.
LEMMA BurstRemainder ==
    ASSUME NEW width \in Nat \ {0}, NEW poly \in SUBSET (0 .. width - 1), 0 \in poly,
           NEW last \in Nat, NEW power, IsTable(power, poly, width, last), width - 1 <= last,
           NEW burst \in SUBSET (0 .. width - 1), burst # {},
           NEW place \in Nat, Shifted(burst, place) \in SUBSET (0 .. last)
    PROVE  Remainder(Shifted(burst, place), power, width) # {}
<1> DEFINE R(n) == Remainder(Shifted(burst, n), power, width)
           Lost == {n \in Nat : Shifted(burst, n) \in SUBSET (0 .. last) /\ R(n) = {}}
<1>1. burst \in SUBSET Int
  OBVIOUS
<1>2. R(0) # {}
  <2>1. Shifted(burst, 0) = burst
    BY <1>1, ShiftedZero
  <2>2. Remainder(burst, power, width) = burst
    BY RemainderOfWord
  <2>3. QED
    BY <2>1, <2>2
<1>3. ASSUME NEW n \in Nat, Shifted(burst, n + 1) \in SUBSET (0 .. last)
      PROVE  /\ Shifted(burst, n) \in SUBSET (0 .. last)
             /\ R(n) # {} => R(n + 1) # {}
  <2>1. \A i \in burst : i \in Nat /\ i + (n + 1) \in Shifted(burst, n + 1)
    BY DEF Shifted
  <2>2. \A i \in burst : i + n \in 0 .. last - 1
    <3>1. ASSUME NEW i \in burst PROVE i + n \in 0 .. last - 1
      <4>1. i \in Nat /\ i + (n + 1) \in 0 .. last
        BY <1>3, <2>1
      <4>2. QED
        BY <4>1
    <3>2. QED
      BY <3>1
  <2>3. Shifted(burst, n) \in SUBSET (0 .. last - 1)
    BY <2>2 DEF Shifted
  <2>4. Shifted(Shifted(burst, n), 1) = Shifted(burst, n + 1)
    BY <1>1, ShiftedTwice
  <2>5. R(n + 1) = TimesX(R(n), poly, width)
    BY <2>3, <2>4, RemainderTimesX
  <2>6. R(n) \in SUBSET (0 .. width - 1)
    BY RemainderTyped
  <2> HIDE DEF R
  <2>7. R(n) # {} => R(n + 1) # {}
    BY <2>5, <2>6, TimesXNonzero
  <2>8. Shifted(burst, n) \in SUBSET (0 .. last)
    BY <2>3
  <2>9. QED
    BY <2>7, <2>8
<1> HIDE DEF R
<1>4. ASSUME Lost # {} PROVE FALSE
  <2>1. PICK n \in Lost : \A k \in Lost : n <= k
    BY <1>4, A16!NatMinimum
  <2>2. n # 0
    BY <1>2, <2>1
  <2>3. n - 1 \in Nat /\ (n - 1) + 1 = n
    BY <2>1, <2>2
  <2>4. n - 1 \in Lost
    <3>1. Shifted(burst, (n - 1) + 1) \in SUBSET (0 .. last) /\ R((n - 1) + 1) = {}
      BY <2>1, <2>3
    <3>2. QED
      BY <1>3, <2>3, <3>1
  <2>5. QED
    BY <2>1, <2>3, <2>4
<1>5. place \notin Lost
  BY <1>4
<1>6. QED
  BY <1>5 DEF R

\* Eight multiplications by x, as the two engines group them.
TimesX2(word, poly, width) == TimesX(TimesX(word, poly, width), poly, width)
TimesX4(word, poly, width) == TimesX2(TimesX2(word, poly, width), poly, width)
TimesX8(word, poly, width) == TimesX4(TimesX4(word, poly, width), poly, width)

\* Multiplying a polynomial by x^2, x^4 and x^8.
LEMMA RemainderTimesX8 ==
    ASSUME NEW width \in Nat \ {0}, NEW poly \in SUBSET (0 .. width - 1),
           NEW last \in Nat, NEW power, IsTable(power, poly, width, last),
           NEW a \in SUBSET (0 .. last - 8)
    PROVE  Remainder(Shifted(a, 8), power, width)
             = TimesX8(Remainder(a, power, width), poly, width)
<1> DEFINE R(n) == Remainder(Shifted(a, n), power, width)
<1>1. a \in SUBSET Int
  OBVIOUS
<1>2. ASSUME NEW n \in 0 .. 7 PROVE R(n + 1) = TimesX(R(n), poly, width)
  <2>1. Shifted(a, n) \in SUBSET (0 .. last - 1)
    BY DEF Shifted
  <2>2. Shifted(Shifted(a, n), 1) = Shifted(a, n + 1)
    BY <1>1, ShiftedTwice
  <2>3. QED
    BY <2>1, <2>2, RemainderTimesX
<1>3. R(0) = Remainder(a, power, width)
  BY <1>1, ShiftedZero
<1> HIDE DEF R
<1>4. R(2) = TimesX2(R(0), poly, width)
  <2>1. R(0 + 1) = TimesX(R(0), poly, width) /\ R(1 + 1) = TimesX(R(1), poly, width)
    BY <1>2
  <2>2. QED
    BY <2>1 DEF TimesX2
<1>5. R(4) = TimesX4(R(0), poly, width)
  <2>1. R(2 + 1) = TimesX(R(2), poly, width) /\ R(3 + 1) = TimesX(R(3), poly, width)
    BY <1>2
  <2>2. R(4) = TimesX2(R(2), poly, width)
    BY <2>1 DEF TimesX2
  <2>3. QED
    BY <1>4, <2>2 DEF TimesX4
<1>6. R(8) = TimesX4(R(4), poly, width)
  <2>1. /\ R(4 + 1) = TimesX(R(4), poly, width) /\ R(5 + 1) = TimesX(R(5), poly, width)
        /\ R(6 + 1) = TimesX(R(6), poly, width) /\ R(7 + 1) = TimesX(R(7), poly, width)
    BY <1>2
  <2>2. R(6) = TimesX2(R(4), poly, width) /\ R(8) = TimesX2(R(6), poly, width)
    BY <2>1 DEF TimesX2
  <2>3. QED
    BY <2>2 DEF TimesX4
<1>7. R(8) = TimesX8(R(0), poly, width)
  BY <1>5, <1>6 DEF TimesX8
<1>8. QED
  BY <1>3, <1>7 DEF R

-----------------------------------------------------------------------------
(* Messages: data as the polynomial a code is the remainder of, with an    *)
(* initial value in front.  order is what becomes of the bits of a byte.   *)

DataTerms(bytes, order, width) ==
    UNION {Shifted(order[bytes[n]], 8 * (Len(bytes) - n) + width) : n \in DOMAIN bytes}

Message(bytes, order, initial, width) ==
    Xor(DataTerms(bytes, order, width), Shifted(initial, 8 * Len(bytes)))

\* The data lie above the low word.
LEMMA DataBounds ==
    ASSUME NEW bytes \in Seq(AllBytes), NEW order \in [AllBytes -> AllBytes], NEW width \in Nat
    PROVE  DataTerms(bytes, order, width) \in SUBSET (width .. 8 * Len(bytes) + width - 1)
<1> DEFINE m == Len(bytes)
<1>1. m \in Nat /\ DOMAIN bytes = 1 .. m
  BY LenProperties
<1>2. ASSUME NEW n \in 1 .. m
      PROVE  Shifted(order[bytes[n]], 8 * (m - n) + width) \subseteq width .. 8 * m + width - 1
  <2>1. bytes[n] \in AllBytes
    BY ElementOfSeq
  <2>2. order[bytes[n]] \subseteq 0 .. 7
    BY <2>1 DEF AllBytes
  <2> HIDE DEF m
  <2>3. ASSUME NEW i \in 0 .. 7
        PROVE  i + (8 * (m - n) + width) \in width .. 8 * m + width - 1
    BY <1>1
  <2>4. QED
    BY <2>2, <2>3 DEF Shifted
<1>3. QED
  BY <1>1, <1>2 DEF DataTerms

\* With the initial value in front, eight terms for each byte and one word.
LEMMA MessageBounds ==
    ASSUME NEW bytes \in Seq(AllBytes), NEW order \in [AllBytes -> AllBytes],
           NEW width \in Nat, NEW initial \in SUBSET (0 .. width - 1)
    PROVE  Message(bytes, order, initial, width) \in SUBSET (0 .. 8 * Len(bytes) + width - 1)
<1> DEFINE m == Len(bytes)
<1>1. m \in Nat
  BY LenProperties
<1>2. DataTerms(bytes, order, width) \subseteq width .. 8 * m + width - 1
  BY DataBounds
<1> HIDE DEF m
<1>3. Shifted(initial, 8 * m) \subseteq 0 .. 8 * m + width - 1
  BY <1>1 DEF Shifted
<1>4. QED
  BY <1>1, <1>2, <1>3 DEF Message, m, Xor

\* An empty message is the initial value.
LEMMA MessageEmpty ==
    ASSUME NEW order, NEW width, NEW initial \in SUBSET Int
    PROVE  Message(<< >>, order, initial, width) = initial
<1>1. DataTerms(<< >>, order, width) = {}
  BY DEF DataTerms
<1>2. Shifted(initial, 8 * Len(<< >>)) = initial
  <2>1. 8 * Len(<< >>) = 0
    BY EmptySeq
  <2>2. QED
    BY <2>1, ShiftedZero
<1>3. QED
  BY <1>1, <1>2 DEF Message, Xor

\* One more byte multiplies the data by x^8 and comes in below them.
LEMMA DataGrow ==
    ASSUME NEW bytes \in Seq(AllBytes), NEW b \in AllBytes,
           NEW order \in [AllBytes -> AllBytes], NEW width \in Nat
    PROVE  DataTerms(Append(bytes, b), order, width)
             = Shifted(DataTerms(bytes, order, width), 8) \cup Shifted(order[b], width)
<1> DEFINE m == Len(bytes)
           more == Append(bytes, b)
           Old(n) == Shifted(order[bytes[n]], 8 * (m - n) + width)
           New(n) == Shifted(order[more[n]], 8 * (m + 1 - n) + width)
<1>1. /\ m \in Nat /\ DOMAIN bytes = 1 .. m
      /\ Len(more) = m + 1 /\ DOMAIN more = 1 .. m + 1
      /\ more[m + 1] = b /\ \A n \in 1 .. m : more[n] = bytes[n]
  BY AppendProperties, LenProperties
<1>2. \A n \in 1 .. m : order[bytes[n]] \in SUBSET Int
  <2>1. \A n \in 1 .. m : bytes[n] \in AllBytes
    BY ElementOfSeq
  <2>2. \A c \in AllBytes : order[c] \in SUBSET Int
    BY DEF AllBytes
  <2>3. QED
    BY <2>1, <2>2
<1>3. DataTerms(more, order, width) = UNION {New(n) : n \in 1 .. m + 1}
  BY <1>1 DEF DataTerms
<1>4. DataTerms(bytes, order, width) = UNION {Old(n) : n \in 1 .. m}
  BY <1>1 DEF DataTerms
<1>5. New(m + 1) = Shifted(order[b], width)
  <2>1. 8 * (m + 1 - (m + 1)) + width = width
    BY <1>1
  <2>2. QED
    BY <1>1, <2>1
<1>6. ASSUME NEW n \in 1 .. m PROVE New(n) = Shifted(Old(n), 8)
  <2>1. 8 * (m - n) + width \in Int /\ 8 * (m - n) + width + 8 = 8 * (m + 1 - n) + width
    BY <1>1
  <2>2. Shifted(Old(n), 8) = Shifted(order[bytes[n]], 8 * (m - n) + width + 8)
    BY <1>2, <2>1, ShiftedTwice
  <2>3. QED
    BY <1>1, <2>1, <2>2
<1>7. 1 .. m + 1 = (1 .. m) \cup {m + 1}
  BY <1>1
<1> HIDE DEF Old, New, m, more
<1>8. UNION {New(n) : n \in 1 .. m + 1} = (UNION {New(n) : n \in 1 .. m}) \cup New(m + 1)
  BY <1>7
<1>9. UNION {New(n) : n \in 1 .. m} = Shifted(UNION {Old(n) : n \in 1 .. m}, 8)
  BY <1>6 DEF Shifted
<1>10. QED
  BY <1>3, <1>4, <1>5, <1>8, <1>9 DEF more

\* So the message is multiplied by x^8 once the byte is added to its top word.
LEMMA MessageGrows ==
    ASSUME NEW bytes \in Seq(AllBytes), NEW b \in AllBytes,
           NEW order \in [AllBytes -> AllBytes],
           NEW width \in Nat, NEW initial \in SUBSET (0 .. width - 1)
    PROVE  Message(Append(bytes, b), order, initial, width)
             = Shifted(Xor(Message(bytes, order, initial, width),
                           Shifted(order[b], width - 8)), 8)
<1> DEFINE m == Len(bytes)
           old == DataTerms(bytes, order, width)
           low == Shifted(order[b], width)
           seed == Shifted(initial, 8 * m)
<1>1. m \in Nat /\ Len(Append(bytes, b)) = m + 1
  BY AppendProperties, LenProperties
<1>2. /\ old \in SUBSET (width .. 8 * m + width - 1)
      /\ DataTerms(Append(bytes, b), order, width) = Shifted(old, 8) \cup low
  BY DataBounds, DataGrow
<1>3. order[b] \in SUBSET Int /\ low \in SUBSET (width .. width + 7)
  BY DEF AllBytes, Shifted
<1>4. Shifted(old, 8) \in SUBSET Int /\ Shifted(old, 8) \cap low = {}
  <2>1. old \in SUBSET Int /\ \A i \in old : i >= width
    BY <1>1, <1>2
  <2>2. low \in SUBSET Int /\ \A i \in low : i <= width + 7
    BY <1>3
  <2> HIDE DEF old, low
  <2>3. \A i \in Shifted(old, 8) : i \in Int /\ i >= width + 8
    BY <2>1 DEF Shifted
  <2>4. QED
    BY <2>2, <2>3
<1>5. Shifted(Shifted(order[b], width - 8), 8) = low
  BY <1>3, ShiftedTwice
<1>6. Shifted(initial, 8 * (m + 1)) = Shifted(seed, 8)
  <2>1. 8 * m \in Int /\ 8 * m + 8 = 8 * (m + 1) /\ initial \in SUBSET Int
    BY <1>1
  <2>2. QED
    BY <2>1, ShiftedTwice
<1>7. old \in SUBSET Int /\ seed \in SUBSET Int /\ Shifted(order[b], width - 8) \in SUBSET Int
  BY <1>1, <1>2, <1>3, ShiftedInt
<1>8. Message(Append(bytes, b), order, initial, width) = Xor(Shifted(old, 8) \cup low, Shifted(seed, 8))
  BY <1>1, <1>2, <1>6 DEF Message
<1>9. Message(bytes, order, initial, width) = Xor(old, seed)
  BY DEF Message
<1> HIDE DEF m, old, seed
<1>10. Shifted(Xor(Xor(old, seed), Shifted(order[b], width - 8)), 8)
         = Xor(Xor(Shifted(old, 8), Shifted(seed, 8)), low)
  <2>1. Xor(old, seed) \in SUBSET Int
    BY <1>7 DEF Xor
  <2>2. Shifted(Xor(Xor(old, seed), Shifted(order[b], width - 8)), 8)
          = Xor(Shifted(Xor(old, seed), 8), Shifted(Shifted(order[b], width - 8), 8))
    BY <1>7, <2>1, ShiftedXor
  <2>3. QED
    BY <1>5, <1>7, <2>2, ShiftedXor
<1> HIDE DEF low
<1>11. Xor(Xor(Shifted(old, 8), Shifted(seed, 8)), low) = Xor(Shifted(old, 8) \cup low, Shifted(seed, 8))
  BY <1>4 DEF Xor
<1>12. QED
  BY <1>8, <1>9, <1>10, <1>11

\* Its remainder takes in the byte as a register does: added to the top, and
\* then moved up eight times.
LEMMA RemainderGrows ==
    ASSUME NEW width \in Nat, width >= 8, NEW poly \in SUBSET (0 .. width - 1),
           NEW last \in Nat, NEW power, IsTable(power, poly, width, last),
           NEW initial \in SUBSET (0 .. width - 1), NEW order \in [AllBytes -> AllBytes],
           NEW bytes \in Seq(AllBytes), NEW b \in AllBytes,
           8 * Len(Append(bytes, b)) + width - 1 <= last
    PROVE  Remainder(Message(Append(bytes, b), order, initial, width), power, width)
             = TimesX8(Xor(Remainder(Message(bytes, order, initial, width), power, width),
                           Shifted(order[b], width - 8)),
                       poly, width)
<1> DEFINE m == Len(bytes)
           old == Message(bytes, order, initial, width)
           top == Shifted(order[b], width - 8)
<1>1. m \in Nat /\ 8 * (m + 1) + width - 1 <= last
  BY AppendProperties, LenProperties
<1>2. old \in SUBSET (0 .. 8 * m + width - 1)
  BY MessageBounds
<1>3. top \in SUBSET (0 .. width - 1)
  <2>1. order[b] \in SUBSET (0 .. 7)
    BY DEF AllBytes
  <2>2. \A i \in 0 .. 7 : i + (width - 8) \in 0 .. width - 1
    OBVIOUS
  <2>3. QED
    BY <2>1, <2>2 DEF Shifted
<1>4. IsFiniteSet(old) /\ IsFiniteSet(top)
  <2>1. IsFiniteSet(0 .. 8 * m + width - 1) /\ IsFiniteSet(0 .. width - 1)
    <3>1. 0 \in Int /\ 8 * m + width - 1 \in Int /\ width - 1 \in Int
      BY <1>1
    <3>2. QED
      BY <3>1, FS_Interval
  <2> HIDE DEF m, old, top
  <2>2. QED
    BY <1>2, <1>3, <2>1, FS_Subset
<1>5. Message(Append(bytes, b), order, initial, width) = Shifted(Xor(old, top), 8)
  BY MessageGrows
<1> HIDE DEF m, old, top
<1>6. Xor(old, top) \in SUBSET (0 .. last - 8)
  BY <1>1, <1>2, <1>3 DEF Xor
<1>7. width \in Nat \ {0} /\ width - 1 <= last
  BY <1>1
<1>8. Remainder(Shifted(Xor(old, top), 8), power, width)
        = TimesX8(Remainder(Xor(old, top), power, width), poly, width)
  BY <1>6, <1>7, RemainderTimesX8
<1>9. Remainder(Xor(old, top), power, width) = Xor(Remainder(old, power, width), Remainder(top, power, width))
  BY <1>4, RemainderXor
<1>10. Remainder(top, power, width) = top
  BY <1>3, <1>7, RemainderOfWord
<1>11. QED
  BY <1>5, <1>8, <1>9, <1>10 DEF old, top

\* And two messages that differ in such a burst have different remainders.
LEMMA BurstChangesRemainder ==
    ASSUME NEW width \in Nat \ {0}, NEW poly \in SUBSET (0 .. width - 1), 0 \in poly,
           NEW last \in Nat, NEW power, IsTable(power, poly, width, last),
           NEW initial \in SUBSET (0 .. width - 1), NEW order \in [AllBytes -> AllBytes],
           NEW sent \in Seq(AllBytes), NEW received \in Seq(AllBytes),
           Len(received) = Len(sent), 8 * Len(sent) + width - 1 <= last,
           NEW burst \in SUBSET (0 .. width - 1), burst # {}, NEW place \in Nat,
           Xor(DataTerms(sent, order, width), DataTerms(received, order, width))
             = Shifted(burst, place)
    PROVE  Remainder(Message(sent, order, initial, width), power, width)
             # Remainder(Message(received, order, initial, width), power, width)
<1> DEFINE a == Message(sent, order, initial, width)
           b == Message(received, order, initial, width)
           top == 8 * Len(sent) + width - 1
<1>1. Len(sent) \in Nat /\ top \in Nat /\ top <= last /\ width - 1 <= last
  <2>1. Len(sent) \in Nat
    BY LenProperties
  <2>2. QED
    BY <2>1
<1>2. a \in SUBSET (0 .. top) /\ b \in SUBSET (0 .. top)
  <2>1. width \in Nat
    OBVIOUS
  <2>2. QED
    BY <2>1, MessageBounds
<1>3. Xor(a, b) = Shifted(burst, place)
  <2>1. Shifted(initial, 8 * Len(received)) = Shifted(initial, 8 * Len(sent))
    OBVIOUS
  <2>2. \A x, y, z : Xor(Xor(x, z), Xor(y, z)) = Xor(x, y)
    BY DEF Xor
  <2>3. QED
    BY <2>1, <2>2 DEF Message
<1> HIDE DEF a, b, top
<1>4. IsFiniteSet(a) /\ IsFiniteSet(b)
  <2>1. IsFiniteSet(0 .. top)
    <3>1. 0 \in Int /\ top \in Int
      BY <1>1
    <3>2. QED
      BY <3>1, FS_Interval
  <2>2. QED
    BY <1>2, <2>1, FS_Subset
<1>5. Shifted(burst, place) \in SUBSET (0 .. last)
  <2>1. 0 .. top \subseteq 0 .. last
    BY <1>1
  <2>2. Xor(a, b) \subseteq 0 .. top
    BY <1>2 DEF Xor
  <2>3. QED
    BY <1>3, <2>1, <2>2
<1>6. Remainder(Xor(a, b), power, width) # {}
  BY <1>1, <1>3, <1>5, BurstRemainder
<1>7. Remainder(Xor(a, b), power, width) = Xor(Remainder(a, power, width), Remainder(b, power, width))
  BY <1>4, RemainderXor
<1>8. \A w : Xor(w, w) = {}
  BY DEF Xor
<1>9. QED
  BY <1>6, <1>7, <1>8 DEF a, b

-----------------------------------------------------------------------------
(* What the engines compute is what the definition of the codes asks for.  *)

\* The operators of the engines on polynomials are those of the lemmas.
LEMMA SameAlgebra ==
    /\ \A a, b : E16!Xor(a, b) = Xor(a, b) /\ E32!Xor(a, b) = Xor(a, b)
    /\ \A a, n : E16!Shifted(a, n) = Shifted(a, n) /\ E32!Shifted(a, n) = Shifted(a, n)
    /\ \A a, n : E32!Mirrored(a, n) = Mirrored(a, n)
    /\ \A a, p, n : E16!Remainder(a, p, n) = Remainder(a, p, n)
    /\ \A a, p, n : E32!Remainder(a, p, n) = Remainder(a, p, n)
    /\ \A p, n, last : E16!PowersOfX(p, n, last) = PowersOfX(p, n, last)
    /\ \A p, n, last : E32!PowersOfX(p, n, last) = PowersOfX(p, n, last)
<1>1. \A a, b : E16!Xor(a, b) = Xor(a, b) /\ E32!Xor(a, b) = Xor(a, b)
  BY DEF E16!Xor, E32!Xor, Xor
<1>2. \A a, n : E16!Shifted(a, n) = Shifted(a, n) /\ E32!Shifted(a, n) = Shifted(a, n)
  BY DEF E16!Shifted, E32!Shifted, Shifted
<1>3. \A a, n : E32!Mirrored(a, n) = Mirrored(a, n)
  BY DEF E32!Mirrored, Mirrored
<1>4. \A a, p, n : E16!Remainder(a, p, n) = Remainder(a, p, n)
  BY DEF E16!Remainder, Remainder, E16!Cardinality, Cardinality
<1>5. \A a, p, n : E32!Remainder(a, p, n) = Remainder(a, p, n)
  BY DEF E32!Remainder, Remainder, E32!Cardinality, Cardinality
<1>6. \A p, n, last : E16!PowersOfX(p, n, last) = PowersOfX(p, n, last)
  BY DEF E16!PowersOfX, PowersOfX, E16!Xor, Xor, E16!Shifted, Shifted
<1>7. \A p, n, last : E32!PowersOfX(p, n, last) = PowersOfX(p, n, last)
  BY DEF E32!PowersOfX, PowersOfX, E32!Xor, Xor, E32!Shifted, Shifted
<1>8. QED
  BY <1>1, <1>2, <1>3, <1>4, <1>5, <1>6, <1>7

\* A turn of the loop of crc16.c multiplies by x.
LEMMA BitIsTimesX16 ==
    ASSUME NEW word \in E16!Words
    PROVE  E16!ProcessBit(word) = TimesX(word, E16!CRC16_CCITT_FALSE_POLYNOMIAL, 16)
<1> DEFINE next == Shifted(word, 1)
<1>1. word \in SUBSET Int /\ word \subseteq 0 .. 15
  BY DEF E16!Words
<1>2. \A i \in Int : i \in next <=> i - 1 \in word
  BY <1>1, ShiftedTerm
<1>3. 16 \in next <=> 15 \in word
  BY <1>2
<1>4. E16!ShiftLeft(word) = next \ {16}
  <2>1. word \ {15} \in SUBSET Int
    BY <1>1
  <2>2. \A i \in Int : i \in Shifted(word \ {15}, 1) <=> i - 1 \in word \ {15}
    BY <2>1, ShiftedTerm
  <2>3. \A i \in Int : i \in Shifted(word \ {15}, 1) <=> i \in next \ {16}
    BY <1>2, <2>2
  <2>4. Shifted(word \ {15}, 1) \in SUBSET Int /\ next \in SUBSET Int
    BY <1>1, <2>1, ShiftedInt
  <2> HIDE DEF next
  <2>5. Shifted(word \ {15}, 1) = next \ {16}
    BY <2>3, <2>4
  <2>6. QED
    BY <2>5, SameAlgebra DEF E16!ShiftLeft, E16!TopBit
<1> HIDE DEF next
<1>5. 16 \notin next => next \ {16} = next
  OBVIOUS
<1>6. QED
  BY <1>3, <1>4, <1>5, SameAlgebra DEF E16!ProcessBit, E16!TopBit, TimesX, next

\* So the eight turns for a byte multiply by x^8, after the byte was added.
LEMMA ByteIsTimesX16 ==
    ASSUME NEW word \in E16!Words, NEW b \in AllBytes
    PROVE  E16!crc16ProcessByte(word, b)
             = TimesX8(Xor(word, Shifted(b, 8)), E16!CRC16_CCITT_FALSE_POLYNOMIAL, 16)
<1> DEFINE poly == E16!CRC16_CCITT_FALSE_POLYNOMIAL
<1>1. \A w \in E16!Words : E16!ProcessBit(w) = TimesX(w, poly, 16) /\ E16!ProcessBit(w) \in E16!Words
  BY BitIsTimesX16, BitStep16
<1> HIDE DEF poly
<1>2. \A w \in E16!Words : E16!TwoBits(w) = TimesX2(w, poly, 16) /\ E16!TwoBits(w) \in E16!Words
  BY <1>1 DEF E16!TwoBits, TimesX2
<1>3. \A w \in E16!Words : E16!FourBits(w) = TimesX4(w, poly, 16) /\ E16!FourBits(w) \in E16!Words
  BY <1>2 DEF E16!FourBits, TimesX4
<1>4. Xor(word, Shifted(b, 8)) \in E16!Words
  <2>1. Shifted(b, 8) \in SUBSET (0 .. 15)
    BY DEF Shifted, AllBytes
  <2>2. QED
    BY <2>1 DEF Xor, E16!Words
<1>5. E16!crc16ProcessByte(word, b) = E16!FourBits(E16!FourBits(Xor(word, Shifted(b, 8))))
  BY SameAlgebra DEF E16!crc16ProcessByte
<1>6. QED
  BY <1>3, <1>4, <1>5 DEF TimesX8, poly

\* crc16.c takes a byte as it is.
Plain == [b \in AllBytes |-> b]

\* The polynomial of a buffer is its bytes in that order.
LEMMA PolynomialIsData16 ==
    ASSUME NEW bytes \in Seq(AllBytes)
    PROVE  E16!Polynomial(bytes) = DataTerms(bytes, Plain, 16)
<1>1. \A n \in DOMAIN bytes : Plain[bytes[n]] = bytes[n]
  BY ElementOfSeq DEF Plain
<1>2. QED
  BY <1>1, SameAlgebra DEF E16!Polynomial, DataTerms

\* The definition of the code is about the message with its bytes so ordered.
LEMMA DefinitionIsMessage16 ==
    ASSUME NEW bytes \in Seq(AllBytes), NEW power
    PROVE  E16!RegisterByDefinition(bytes, power)
             = Remainder(Message(bytes, Plain, E16!CRC16_INITIAL_VALUE, 16), power, 16)
BY PolynomialIsData16, SameAlgebra DEF E16!RegisterByDefinition, Message

\* The loop of crc16.c over any buffer leaves the remainder that the
\* definition of CRC-16/CCITT-FALSE asks for.
LEMMA LoopIsRemainder16 ==
    ASSUME NEW bytes \in Seq(AllBytes), NEW last \in Nat, 8 * Len(bytes) + 15 <= last
    PROVE  E16!RegisterByDefinition(bytes, E16!PowersOfX(E16!CRC16_CCITT_FALSE_POLYNOMIAL, 16, last))
             = E16!Processed(E16!CRC16_INITIAL_VALUE, bytes)
<1> DEFINE poly == E16!CRC16_CCITT_FALSE_POLYNOMIAL
           initial == E16!CRC16_INITIAL_VALUE
           power == PowersOfX(poly, 16, last)
           R(s) == Remainder(Message(s, Plain, initial, 16), power, 16)
           Bad == {s \in Seq(AllBytes) :
                      8 * Len(s) + 15 <= last /\ R(s) # E16!Processed(initial, s)}
<1>1. /\ poly \in SUBSET (0 .. 15) /\ initial \in SUBSET (0 .. 15) /\ initial \in E16!Words
      /\ Plain \in [AllBytes -> AllBytes]
  BY DEF E16!CRC16_CCITT_FALSE_POLYNOMIAL, E16!CRC16_INITIAL_VALUE, E16!Words, Plain
<1>2. 16 \in Nat \ {0} /\ 16 >= 8 /\ 16 - 1 = 15 /\ 16 - 8 = 8
  OBVIOUS
<1>3. IsTable(power, poly, 16, last)
  BY <1>1, <1>2, PowersTable
<1> HIDE DEF poly, initial, power
<1>4. << >> \notin Bad
  <2> SUFFICES ASSUME 8 * Len(<< >>) + 15 <= last PROVE R(<< >>) = E16!Processed(initial, << >>)
    OBVIOUS
  <2>1. Message(<< >>, Plain, initial, 16) = initial
    BY <1>1, MessageEmpty
  <2>2. 15 <= last
    BY EmptySeq
  <2>3. R(<< >>) = initial
    BY <1>1, <1>2, <1>3, <2>1, <2>2, RemainderOfWord
  <2>4. QED
    BY <2>3, SameLoop16, A16!ProcessedEmpty
<1>5. ASSUME NEW front \in Seq(AllBytes), NEW b \in AllBytes, front \notin Bad
      PROVE  Append(front, b) \notin Bad
  <2> DEFINE more == Append(front, b)
  <2>1. more \in Seq(AllBytes) /\ Len(more) = Len(front) + 1 /\ Len(front) \in Nat
    BY AppendProperties, LenProperties
  <2> SUFFICES ASSUME 8 * Len(more) + 15 <= last PROVE R(more) = E16!Processed(initial, more)
    OBVIOUS
  <2>2. R(front) = E16!Processed(initial, front)
    BY <1>5, <2>1
  <2>3. R(more) = TimesX8(Xor(R(front), Shifted(Plain[b], 8)), poly, 16)
    <3>1. /\ 16 \in Nat /\ poly \in SUBSET (0 .. 16 - 1) /\ initial \in SUBSET (0 .. 16 - 1)
          /\ 8 * Len(Append(front, b)) + 16 - 1 <= last
      BY <1>1, <1>2, <2>1
    <3>2. R(more) = TimesX8(Xor(R(front), Shifted(Plain[b], 16 - 8)), poly, 16)
      BY <1>1, <1>2, <1>3, <3>1, RemainderGrows
    <3>3. QED
      BY <1>2, <3>2
  <2>4. R(front) \in E16!Words
    BY <1>1, <2>2, LoopTyped16
  <2>5. R(more) = E16!crc16ProcessByte(R(front), b)
    BY <2>3, <2>4, ByteIsTimesX16 DEF Plain, poly
  <2>6. E16!Processed(initial, more) = E16!crc16ProcessByte(E16!Processed(initial, front), b)
    BY SameLoop16, A16!ProcessedAppend
  <2> HIDE DEF R, more
  <2>7. QED
    BY <2>2, <2>5, <2>6
<1>6. Bad \in SUBSET Seq(AllBytes)
  OBVIOUS
<1>7. bytes \notin Bad
  <2> HIDE DEF Bad
  <2>1. QED
    BY <1>4, <1>5, <1>6, A16!ShortestBuffer
<1>8. R(bytes) = E16!Processed(initial, bytes)
  BY <1>7
<1>9. QED
  BY <1>8, DefinitionIsMessage16, SameAlgebra DEF poly, initial, power

\* Terms read from the other end.
LEMMA MirroredTerm ==
    ASSUME NEW n \in Nat, NEW a \in SUBSET (0 .. n - 1)
    PROVE  /\ Mirrored(a, n) \in SUBSET (0 .. n - 1)
           /\ \A i \in Int : i \in Mirrored(a, n) <=> n - 1 - i \in a
<1>1. Mirrored(a, n) \in SUBSET (0 .. n - 1)
  BY DEF Mirrored
<1>2. ASSUME NEW i \in Int, n - 1 - i \in a PROVE i \in Mirrored(a, n)
  <2>1. i = n - 1 - (n - 1 - i)
    OBVIOUS
  <2>2. QED
    BY <1>2, <2>1 DEF Mirrored
<1>3. ASSUME NEW i \in Int, i \in Mirrored(a, n) PROVE n - 1 - i \in a
  <2>1. PICK j \in a : i = n - 1 - j
    BY <1>3 DEF Mirrored
  <2>2. n - 1 - i = j
    BY <2>1
  <2>3. QED
    BY <2>1, <2>2
<1>4. QED
  BY <1>1, <1>2, <1>3

\* Mirroring twice is doing nothing.
LEMMA MirroredTwice ==
    ASSUME NEW n \in Nat, NEW a \in SUBSET (0 .. n - 1)
    PROVE  Mirrored(Mirrored(a, n), n) = a
<1>1. Mirrored(a, n) \in SUBSET (0 .. n - 1)
  BY MirroredTerm
<1>2. Mirrored(Mirrored(a, n), n) \in SUBSET Int /\ a \in SUBSET Int
  BY <1>1, MirroredTerm
<1>3. ASSUME NEW i \in Int PROVE i \in Mirrored(Mirrored(a, n), n) <=> i \in a
  <2>1. i \in Mirrored(Mirrored(a, n), n) <=> n - 1 - i \in Mirrored(a, n)
    BY <1>1, MirroredTerm
  <2>2. n - 1 - i \in Mirrored(a, n) <=> n - 1 - (n - 1 - i) \in a
    BY MirroredTerm
  <2>3. n - 1 - (n - 1 - i) = i
    OBVIOUS
  <2>4. QED
    BY <2>1, <2>2, <2>3
<1>4. QED
  BY <1>2, <1>3

\* Mirroring distributes over addition.
LEMMA MirroredXor ==
    ASSUME NEW n \in Nat, NEW a \in SUBSET (0 .. n - 1), NEW b \in SUBSET (0 .. n - 1)
    PROVE  Mirrored(Xor(a, b), n) = Xor(Mirrored(a, n), Mirrored(b, n))
<1>1. Xor(a, b) \in SUBSET (0 .. n - 1)
  BY DEF Xor
<1>2. /\ Mirrored(Xor(a, b), n) \in SUBSET Int
      /\ Mirrored(a, n) \in SUBSET Int /\ Mirrored(b, n) \in SUBSET Int
  BY <1>1, MirroredTerm
<1>3. ASSUME NEW i \in Int
      PROVE  i \in Mirrored(Xor(a, b), n) <=> i \in Xor(Mirrored(a, n), Mirrored(b, n))
  <2>1. i \in Mirrored(Xor(a, b), n) <=> n - 1 - i \in Xor(a, b)
    BY <1>1, MirroredTerm
  <2>2. /\ i \in Mirrored(a, n) <=> n - 1 - i \in a
        /\ i \in Mirrored(b, n) <=> n - 1 - i \in b
    BY MirroredTerm
  <2>3. QED
    BY <2>1, <2>2 DEF Xor
<1>4. QED
  BY <1>2, <1>3 DEF Xor

\* The generator of crc32.c is that of the standard read from its other end.
LEMMA GeneratorMirrored32 ==
    \A i \in 0 .. 31 : i \in E32!CRC32_REFLECTED_POLYNOMIAL <=> 31 - i \in E32!CRC32_POLYNOMIAL
BY DEF E32!CRC32_REFLECTED_POLYNOMIAL, E32!CRC32_POLYNOMIAL

\* A turn of the loop of crc32.c multiplies the mirrored register by x.
LEMMA BitIsTimesX32 ==
    ASSUME NEW word \in E32!Words
    PROVE  E32!ProcessBit(Mirrored(word, 32)) = Mirrored(TimesX(word, E32!CRC32_POLYNOMIAL, 32), 32)
<1> DEFINE poly == E32!CRC32_POLYNOMIAL
           mirror == Mirrored(word, 32)
           next == TimesX(word, poly, 32)
<1>1. word \in SUBSET (0 .. 31) /\ poly \in SUBSET (0 .. 31) /\ 32 \in Nat \ {0} /\ 32 - 1 = 31
  BY DEF E32!Words, E32!CRC32_POLYNOMIAL
<1>2. mirror \in SUBSET (0 .. 31) /\ \A i \in Int : i \in mirror <=> 31 - i \in word
  BY <1>1, MirroredTerm
<1>3. /\ next \in SUBSET (0 .. 31)
      /\ \A i \in 0 .. 31 : i \in next <=> (i - 1 \in word) # (31 \in word /\ i \in poly)
  BY <1>1, TimesXTerms
<1> HIDE DEF poly, mirror, next
<1>4. Mirrored(next, 32) \in SUBSET (0 .. 31) /\ \A i \in Int : i \in Mirrored(next, 32) <=> 31 - i \in next
  BY <1>1, <1>3, MirroredTerm
<1>5. mirror \in E32!Words
  BY <1>2 DEF E32!Words
<1>6. E32!ProcessBit(mirror) \in SUBSET (0 .. 31)
  BY <1>5, BitStep32 DEF E32!Words
<1>7. ASSUME NEW i \in 0 .. 31
      PROVE  i \in E32!ProcessBit(mirror) <=> i \in Mirrored(next, 32)
  <2>1. i \in E32!ShiftRight(mirror) <=> i + 1 \in mirror
    <3>1. mirror \ {0} \in SUBSET Int
      BY <1>2
    <3>2. i \in Shifted(mirror \ {0}, -1) <=> i - (-1) \in mirror \ {0}
      BY <3>1, ShiftedTerm
    <3>3. i - (-1) = i + 1 /\ i + 1 # 0
      OBVIOUS
    <3>4. QED
      BY <3>2, <3>3, SameAlgebra DEF E32!ShiftRight
  <2>2. i + 1 \in mirror <=> 31 - i - 1 \in word
    <3>1. i + 1 \in Int /\ 31 - (i + 1) = 31 - i - 1
      OBVIOUS
    <3>2. QED
      BY <1>2, <3>1
  <2>3. 0 \in mirror <=> 31 \in word
    BY <1>2
  <2>4. i \in E32!CRC32_REFLECTED_POLYNOMIAL <=> 31 - i \in poly
    BY GeneratorMirrored32 DEF poly
  <2>5. i \in E32!ProcessBit(mirror)
          <=> (i + 1 \in mirror) # (0 \in mirror /\ i \in E32!CRC32_REFLECTED_POLYNOMIAL)
    BY <2>1 DEF E32!ProcessBit, E32!Xor
  <2>6. 31 - i \in 0 .. 31
    OBVIOUS
  <2>7. 31 - i \in next <=> (31 - i - 1 \in word) # (31 \in word /\ 31 - i \in poly)
    BY <1>3, <2>6
  <2>8. i \in Mirrored(next, 32) <=> 31 - i \in next
    BY <1>4
  <2>9. QED
    BY <2>2, <2>3, <2>4, <2>5, <2>7, <2>8
<1>8. E32!ProcessBit(mirror) = Mirrored(next, 32)
  BY <1>4, <1>6, <1>7
<1>9. QED
  BY <1>8 DEF mirror, next, poly

\* So the eight turns for a byte multiply by x^8, after the byte was added.
LEMMA ByteIsTimesX32 ==
    ASSUME NEW word \in E32!Words, NEW b \in AllBytes
    PROVE  E32!crc32ProcessByte(Mirrored(word, 32), b)
             = Mirrored(TimesX8(Xor(word, Shifted(Mirrored(b, 8), 24)), E32!CRC32_POLYNOMIAL, 32), 32)
<1> DEFINE poly == E32!CRC32_POLYNOMIAL
           top == Shifted(Mirrored(b, 8), 24)
<1>1. ASSUME NEW w \in E32!Words
      PROVE  /\ E32!ProcessBit(Mirrored(w, 32)) = Mirrored(TimesX(w, poly, 32), 32)
             /\ TimesX(w, poly, 32) \in E32!Words
  <2>1. poly \in SUBSET (0 .. 31) /\ 32 \in Nat \ {0} /\ 32 - 1 = 31
    BY DEF E32!CRC32_POLYNOMIAL
  <2>2. TimesX(w, poly, 32) \in SUBSET (0 .. 31)
    BY <2>1, TimesXTerms DEF E32!Words
  <2>3. QED
    BY <2>2, BitIsTimesX32 DEF E32!Words
<1> HIDE DEF poly
<1>2. \A w \in E32!Words : /\ E32!TwoBits(Mirrored(w, 32)) = Mirrored(TimesX2(w, poly, 32), 32)
                           /\ TimesX2(w, poly, 32) \in E32!Words
  BY <1>1 DEF E32!TwoBits, TimesX2
<1>3. \A w \in E32!Words : /\ E32!FourBits(Mirrored(w, 32)) = Mirrored(TimesX4(w, poly, 32), 32)
                           /\ TimesX4(w, poly, 32) \in E32!Words
  BY <1>2 DEF E32!FourBits, TimesX4
<1>4. Mirrored(b, 8) \in SUBSET (0 .. 7) /\ \A i \in Int : i \in Mirrored(b, 8) <=> 7 - i \in b
  BY MirroredTerm DEF AllBytes
<1>5. top \in SUBSET (0 .. 31) /\ \A i \in Int : i \in top <=> 31 - i \in b
  <2>1. top \in SUBSET (0 .. 31)
    BY <1>4 DEF Shifted
  <2>2. ASSUME NEW i \in Int PROVE i \in top <=> 31 - i \in b
    <3>1. i \in top <=> i - 24 \in Mirrored(b, 8)
      BY <1>4, ShiftedTerm
    <3>2. i - 24 \in Int /\ 7 - (i - 24) = 31 - i
      OBVIOUS
    <3>3. QED
      BY <1>4, <3>1, <3>2
  <2>3. QED
    BY <2>1, <2>2
<1> HIDE DEF top
<1>6. Mirrored(top, 32) = b
  <2>1. 32 \in Nat /\ 32 - 1 = 31
    OBVIOUS
  <2>2. Mirrored(top, 32) \in SUBSET (0 .. 31) /\ \A i \in Int : i \in Mirrored(top, 32) <=> 31 - i \in top
    BY <1>5, <2>1, MirroredTerm
  <2>3. ASSUME NEW i \in Int PROVE i \in Mirrored(top, 32) <=> i \in b
    <3>1. 31 - i \in Int /\ 31 - (31 - i) = i
      OBVIOUS
    <3>2. QED
      BY <1>5, <2>2, <3>1
  <2>4. b \in SUBSET Int
    BY DEF AllBytes
  <2>5. Mirrored(top, 32) \subseteq Int
    BY <2>2
  <2>6. QED
    BY <2>3, <2>4, <2>5
<1>7. Xor(word, top) \in E32!Words /\ Mirrored(Xor(word, top), 32) = Xor(Mirrored(word, 32), b)
  <2>1. word \in SUBSET (0 .. 31) /\ 32 \in Nat /\ 32 - 1 = 31
    BY DEF E32!Words
  <2>2. Mirrored(Xor(word, top), 32) = Xor(Mirrored(word, 32), Mirrored(top, 32))
    BY <1>5, <2>1, MirroredXor
  <2>3. QED
    BY <1>5, <1>6, <2>1, <2>2 DEF Xor, E32!Words
<1>8. E32!crc32ProcessByte(Mirrored(word, 32), b) = E32!FourBits(E32!FourBits(Xor(Mirrored(word, 32), b)))
  BY SameAlgebra DEF E32!crc32ProcessByte
<1>9. QED
  BY <1>3, <1>7, <1>8 DEF TimesX8, poly, top

\* crc32.c takes a byte lowest bit first.
Reversed == [b \in AllBytes |-> Mirrored(b, 8)]

\* The polynomial of a buffer is its bytes in that order.
LEMMA PolynomialIsData32 ==
    ASSUME NEW bytes \in Seq(AllBytes)
    PROVE  E32!Polynomial(bytes) = DataTerms(bytes, Reversed, 32)
<1>1. \A n \in DOMAIN bytes : Reversed[bytes[n]] = Mirrored(bytes[n], 8)
  BY ElementOfSeq DEF Reversed
<1>2. QED
  BY <1>1, SameAlgebra DEF E32!Polynomial, DataTerms

\* The definition of the code is about the message with its bytes so ordered.
LEMMA DefinitionIsMessage32 ==
    ASSUME NEW bytes \in Seq(AllBytes), NEW power
    PROVE  E32!RegisterByDefinition(bytes, power)
             = Mirrored(Remainder(Message(bytes, Reversed, E32!CRC32_INITIAL_VALUE, 32), power, 32), 32)
BY PolynomialIsData32, SameAlgebra DEF E32!RegisterByDefinition, Message

\* The loop of crc32.c over any buffer leaves the mirrored remainder that the
\* definition of CRC-32/ISO-HDLC asks for.
LEMMA LoopIsRemainder32 ==
    ASSUME NEW bytes \in Seq(AllBytes), NEW last \in Nat, 8 * Len(bytes) + 31 <= last
    PROVE  E32!RegisterByDefinition(bytes, E32!PowersOfX(E32!CRC32_POLYNOMIAL, 32, last))
             = E32!Processed(E32!CRC32_INITIAL_VALUE, bytes)
<1> DEFINE poly == E32!CRC32_POLYNOMIAL
           initial == E32!CRC32_INITIAL_VALUE
           power == PowersOfX(poly, 32, last)
           R(s) == Remainder(Message(s, Reversed, initial, 32), power, 32)
           Bad == {s \in Seq(AllBytes) :
                      8 * Len(s) + 31 <= last /\ Mirrored(R(s), 32) # E32!Processed(initial, s)}
<1>1. /\ poly \in SUBSET (0 .. 31) /\ initial \in SUBSET (0 .. 31) /\ Mirrored(initial, 32) = initial
      /\ Reversed \in [AllBytes -> AllBytes]
  <2>1. ASSUME NEW b \in AllBytes PROVE Mirrored(b, 8) \in AllBytes
    BY MirroredTerm DEF AllBytes
  <2>2. /\ initial \in SUBSET (0 .. 31) /\ 32 \in Nat /\ 32 - 1 = 31
        /\ \A i \in Int : 31 - i \in initial <=> i \in initial
    BY DEF E32!CRC32_INITIAL_VALUE
  <2>3. Mirrored(initial, 32) \in SUBSET (0 .. 31)
        /\ \A i \in Int : i \in Mirrored(initial, 32) <=> 31 - i \in initial
    <3> HIDE DEF initial
    <3>1. /\ Mirrored(initial, 32) \in SUBSET (0 .. 32 - 1)
          /\ \A i \in Int : i \in Mirrored(initial, 32) <=> 32 - 1 - i \in initial
      BY <2>2, MirroredTerm
    <3>2. QED
      BY <2>2, <3>1
  <2> HIDE DEF initial
  <2>4. Mirrored(initial, 32) = initial
    <3> DEFINE mirror == Mirrored(initial, 32)
    <3>1. mirror \subseteq Int /\ initial \subseteq Int
      <4>1. mirror \subseteq 0 .. 31 /\ initial \subseteq 0 .. 31
        BY <2>2, <2>3
      <4> HIDE DEF mirror
      <4>2. QED
        BY <4>1
    <3>2. \A i \in Int : i \in Mirrored(initial, 32) <=> i \in initial
      BY <2>2, <2>3
    <3>3. QED
      BY <3>1, <3>2
  <2>5. QED
    BY <2>1, <2>2, <2>4 DEF E32!CRC32_POLYNOMIAL, Reversed
<1>2. 32 \in Nat \ {0} /\ 32 >= 8 /\ 32 - 1 = 31 /\ 32 - 8 = 24
  OBVIOUS
<1>3. IsTable(power, poly, 32, last)
  BY <1>1, <1>2, PowersTable
<1> HIDE DEF poly, initial, power
<1>4. << >> \notin Bad
  <2> SUFFICES ASSUME 8 * Len(<< >>) + 31 <= last
               PROVE  Mirrored(R(<< >>), 32) = E32!Processed(initial, << >>)
    OBVIOUS
  <2>1. Message(<< >>, Reversed, initial, 32) = initial
    BY <1>1, MessageEmpty
  <2>2. 31 <= last
    BY EmptySeq
  <2>3. R(<< >>) = initial
    BY <1>1, <1>2, <1>3, <2>1, <2>2, RemainderOfWord
  <2>4. QED
    BY <1>1, <2>3, SameLoop32, A32!ProcessedEmpty
<1>5. ASSUME NEW front \in Seq(AllBytes), NEW b \in AllBytes, front \notin Bad
      PROVE  Append(front, b) \notin Bad
  <2> DEFINE more == Append(front, b)
  <2>1. more \in Seq(AllBytes) /\ Len(more) = Len(front) + 1 /\ Len(front) \in Nat
    BY AppendProperties, LenProperties
  <2> SUFFICES ASSUME 8 * Len(more) + 31 <= last
               PROVE  Mirrored(R(more), 32) = E32!Processed(initial, more)
    OBVIOUS
  <2>2. Mirrored(R(front), 32) = E32!Processed(initial, front)
    BY <1>5, <2>1
  <2>3. R(more) = TimesX8(Xor(R(front), Shifted(Reversed[b], 24)), poly, 32)
    <3>1. /\ 32 \in Nat /\ poly \in SUBSET (0 .. 32 - 1) /\ initial \in SUBSET (0 .. 32 - 1)
          /\ 8 * Len(Append(front, b)) + 32 - 1 <= last
      BY <1>1, <1>2, <2>1
    <3>2. R(more) = TimesX8(Xor(R(front), Shifted(Reversed[b], 32 - 8)), poly, 32)
      BY <1>1, <1>2, <1>3, <3>1, RemainderGrows
    <3>3. QED
      BY <1>2, <3>2
  <2>4. R(front) \in E32!Words
    BY <1>2, RemainderTyped DEF E32!Words
  <2>5. Mirrored(R(more), 32) = E32!crc32ProcessByte(Mirrored(R(front), 32), b)
    BY <2>3, <2>4, ByteIsTimesX32 DEF Reversed, poly
  <2>6. E32!Processed(initial, more) = E32!crc32ProcessByte(E32!Processed(initial, front), b)
    BY SameLoop32, A32!ProcessedAppend
  <2> HIDE DEF R, more
  <2>7. QED
    BY <2>2, <2>5, <2>6
<1>6. Bad \in SUBSET Seq(AllBytes)
  OBVIOUS
<1>7. bytes \notin Bad
  <2> HIDE DEF Bad
  <2>1. QED
    BY <1>4, <1>5, <1>6, A32!ShortestBuffer
<1>8. Mirrored(R(bytes), 32) = E32!Processed(initial, bytes)
  BY <1>7
<1>9. QED
  BY <1>8, DefinitionIsMessage32, SameAlgebra DEF poly, initial, power

-----------------------------------------------------------------------------
(* The application.                                                        *)

\* What the application sends are buffers of bytes, and so is what a context
\* was fed.
LEMMA PiecesAreBuffers ==
    /\ \A bytes \in Pieces : bytes \in Seq(Bytes)
    /\ \A s, t \in Seq(Bytes) : s \o t \in Seq(Bytes)
    /\ \A s \in Seq(Bytes) : s \in Seq(AllBytes)
<1>1. \A bytes \in Pieces : bytes \in Seq(Bytes)
  <2>1. SUFFICES ASSUME NEW n \in 0 .. MaxPiece, NEW bytes \in [1 .. n -> Bytes]
                 PROVE  bytes \in Seq(Bytes)
    BY DEF Pieces
  <2>2. QED
    BY LengthAssumption
<1>2. \A s, t \in Seq(Bytes) : s \o t \in Seq(Bytes)
  BY ConcatProperties
<1>3. ASSUME NEW s \in Seq(Bytes) PROVE s \in Seq(AllBytes)
  <2>1. Len(s) \in Nat /\ s \in [1 .. Len(s) -> Bytes]
    BY LenProperties
  <2>2. s \in [1 .. Len(s) -> AllBytes]
    BY <2>1, BytesAssumption DEF AllBytes
  <2>3. QED
    BY <2>1, <2>2, IsASeq
<1>4. QED
  BY <1>1, <1>2, <1>3

\* A word of sixteen bits is one of thirty-two.
LEMMA WordsTyped ==
    /\ E16!Words \subseteq E32!Words
    /\ {} \in E16!Words /\ E16!CRC16_CCITT_FALSE_POLYNOMIAL \in E16!Words
    /\ E16!CRC16_INITIAL_VALUE \in E16!Words /\ E32!CRC32_INITIAL_VALUE \in E32!Words
BY DEF E16!Words, E32!Words, E16!CRC16_CCITT_FALSE_POLYNOMIAL, E16!CRC16_INITIAL_VALUE,
       E32!CRC32_INITIAL_VALUE

\* The final exclusive or is the one of the engine.
LEMMA SameXor == \A v, w : Xor(v, w) = E32!Xor(v, w)
BY DEF Xor, E32!Xor

\* Types: whatever is sent, the register and the codes keep to their bits.
LEMMA TypeInit == Init => TypeOK
<1>1. << >> \in Seq(Bytes)
  OBVIOUS
<1>2. QED
  BY <1>1, WordsTyped DEF Init, TypeOK, Calls, Statuses, Words

LEMMA TypeStep == TypeOK /\ [Next]_vars => TypeOK'
<1> SUFFICES ASSUME TypeOK, [Next]_vars PROVE TypeOK'
  OBVIOUS
<1> USE DEF TypeOK, Calls, Statuses, Words, Answer
<1>1. << >> \in Seq(Bytes)
  OBVIOUS
<1>2. CASE crc16Init
  BY <1>1, <1>2, WordsTyped DEF crc16Init, Begins
<1>3. CASE crc32Init
  BY <1>1, <1>3, WordsTyped DEF crc32Init, Begins, Engines
<1>4. CASE crc16GetResult
  BY <1>1, <1>4 DEF crc16GetResult, Returns
<1>5. CASE crc32GetResult
  BY <1>1, <1>5, FinalXor, SameXor DEF crc32GetResult, Returns
<1>6. CASE RefuseNull
  BY <1>1, <1>6 DEF RefuseNull, Returns
<1>7. ASSUME NEW bytes \in Pieces, crc16Update(bytes) PROVE TypeOK'
  BY <1>1, <1>7, PiecesAreBuffers, LoopTyped16 DEF crc16Update, TakesIn
<1>8. ASSUME NEW bytes \in Pieces, crc32Update(bytes) PROVE TypeOK'
  BY <1>1, <1>8, PiecesAreBuffers, LoopTyped32 DEF crc32Update, TakesIn
<1>9. ASSUME NEW bytes \in Pieces, crc16Compute(bytes) PROVE TypeOK'
  BY <1>9, PiecesAreBuffers, WordsTyped, LoopTyped16 DEF crc16Compute, Returns, E16!OneShot
<1>10. ASSUME NEW bytes \in Pieces, crc32Compute(bytes) PROVE TypeOK'
  BY <1>10, PiecesAreBuffers, WordsTyped, LoopTyped32, FinalXor
     DEF crc32Compute, Returns, E32!OneShot
<1>11. ASSUME NEW bytes \in Pieces, crc16Verify(bytes) PROVE TypeOK'
  BY <1>11, PiecesAreBuffers DEF crc16Verify, Returns
<1>12. ASSUME NEW bytes \in Pieces, crc32Verify(bytes) PROVE TypeOK'
  BY <1>12, PiecesAreBuffers DEF crc32Verify, Returns
<1>13. CASE UNCHANGED vars
  BY <1>13 DEF vars
<1>14. QED
  BY <1>2, <1>3, <1>4, <1>5, <1>6, <1>7, <1>8, <1>9, <1>10, <1>11, <1>12, <1>13 DEF Next

\* The register and every code keep to sixteen or thirty-two bits, for data of
\* any length and cut in any way.
THEOREM TypeCorrect == Spec => []TypeOK
BY TypeInit, TypeStep, PTL DEF Spec

\* An engine with its history: the register goes with what was fed, and the
\* answer of a one-shot call with the data it is about.
OneShot(bytes) == IF engine = "CRC-16" THEN E16!OneShot(bytes) ELSE E32!OneShot(bytes)

ComputedIsOneShot == call = "Compute" /\ status = "SUCCESS" => crc = OneShot(data)

EngineInv == TypeOK /\ StreamingIsOneShot /\ ComputedIsOneShot

LEMMA EngineInit == Init => EngineInv
BY TypeInit DEF Init, EngineInv, StreamingIsOneShot, ComputedIsOneShot

LEMMA EngineStep == EngineInv /\ [Next]_vars => EngineInv'
<1> SUFFICES ASSUME EngineInv, [Next]_vars PROVE EngineInv'
  OBVIOUS
<1>1. TypeOK /\ TypeOK'
  BY TypeStep DEF EngineInv
<1>2. StreamingIsOneShot'
  <2> USE DEF EngineInv, StreamingIsOneShot
  <2>1. CASE crc16Init
    BY <2>1, SameLoop16, A16!ProcessedEmpty DEF crc16Init, Begins, E16!OneShot
  <2>2. CASE crc32Init
    BY <2>2, SameLoop32, SameXor, A32!ProcessedEmpty DEF crc32Init, Begins, E32!OneShot
  <2>3. CASE crc16GetResult \/ crc32GetResult \/ RefuseNull
    BY <2>3 DEF crc16GetResult, crc32GetResult, RefuseNull, Returns
  <2>4. ASSUME NEW bytes \in Pieces, crc16Update(bytes) PROVE StreamingIsOneShot'
    <3>1. fed \in Seq(AllBytes) /\ bytes \in Seq(AllBytes)
      BY <1>1, PiecesAreBuffers DEF TypeOK
    <3>2. E16!Processed(E16!CRC16_INITIAL_VALUE, fed \o bytes)
            = E16!Processed(E16!Processed(E16!CRC16_INITIAL_VALUE, fed), bytes)
      BY <3>1, LoopContinues16
    <3>3. QED
      BY <2>4, <3>2 DEF crc16Update, TakesIn, E16!OneShot
  <2>5. ASSUME NEW bytes \in Pieces, crc32Update(bytes) PROVE StreamingIsOneShot'
    <3>1. fed \in Seq(AllBytes) /\ bytes \in Seq(AllBytes)
      BY <1>1, PiecesAreBuffers DEF TypeOK
    <3>2. E32!Processed(E32!CRC32_INITIAL_VALUE, fed \o bytes)
            = E32!Processed(E32!Processed(E32!CRC32_INITIAL_VALUE, fed), bytes)
      BY <3>1, LoopContinues32
    <3>3. started => currentCRC = E32!Processed(E32!CRC32_INITIAL_VALUE, fed)
      BY <2>5, FinalXor, SameXor DEF E32!OneShot, crc32Update
    <3>4. QED
      BY <2>5, <3>2, <3>3, SameXor DEF crc32Update, TakesIn, E32!OneShot
  <2>6. ASSUME NEW bytes \in Pieces,
               \/ crc16Compute(bytes) \/ crc32Compute(bytes)
               \/ crc16Verify(bytes) \/ crc32Verify(bytes)
        PROVE  StreamingIsOneShot'
    BY <2>6 DEF crc16Compute, crc32Compute, crc16Verify, crc32Verify, Returns
  <2>7. CASE UNCHANGED vars
    BY <2>7 DEF vars
  <2>8. QED
    BY <2>1, <2>2, <2>3, <2>4, <2>5, <2>6, <2>7 DEF Next
<1>3. ComputedIsOneShot'
  <2> USE DEF EngineInv, ComputedIsOneShot, OneShot, Answer
  <2>1. CASE UNCHANGED vars
    BY <2>1 DEF vars
  <2>2. CASE crc16Init \/ crc32Init
    BY <2>2 DEF crc16Init, crc32Init, Begins
  <2>3. CASE crc16GetResult \/ crc32GetResult \/ RefuseNull
    BY <2>3 DEF crc16GetResult, crc32GetResult, RefuseNull, Returns
  <2>4. ASSUME NEW bytes \in Pieces,
               \/ crc16Update(bytes) \/ crc32Update(bytes)
               \/ crc16Verify(bytes) \/ crc32Verify(bytes)
        PROVE  ComputedIsOneShot'
    BY <2>4 DEF crc16Update, crc32Update, TakesIn, crc16Verify, crc32Verify, Returns
  <2>5. ASSUME NEW bytes \in Pieces, crc16Compute(bytes) \/ crc32Compute(bytes)
        PROVE  ComputedIsOneShot'
    BY <2>5 DEF crc16Compute, crc32Compute, Returns
  <2>6. QED
    BY <2>1, <2>2, <2>3, <2>4, <2>5 DEF Next
<1>4. QED
  BY <1>1, <1>2, <1>3 DEF EngineInv

\* Cutting data into pieces makes no difference, for data of any length.
THEOREM StreamingCorrect == Spec => []StreamingIsOneShot
<1>1. Spec => []EngineInv
  BY EngineInit, EngineStep, PTL DEF Spec
<1>2. EngineInv => StreamingIsOneShot
  BY DEF EngineInv
<1>3. QED
  BY <1>1, <1>2, PTL

\* A code computed for data is no code for the data with one byte damaged,
\* whatever the data and their length.
THEOREM DamageIsCaught == Spec => []ByteDamageCaught
<1>1. Spec => []EngineInv
  BY EngineInit, EngineStep, PTL DEF Spec
<1>2. EngineInv => ByteDamageCaught
  <2>1. SUFFICES ASSUME EngineInv, call = "Compute", status = "SUCCESS",
                        NEW n \in DOMAIN data, NEW byte \in Bytes, byte # data[n]
                 PROVE  ~Matches([data EXCEPT ![n] = byte], crc)
    BY DEF ByteDamageCaught
  <2>2. crc = OneShot(data) /\ data \in Seq(AllBytes) /\ byte \in AllBytes
    BY <2>1, PiecesAreBuffers, BytesAssumption
       DEF EngineInv, TypeOK, ComputedIsOneShot, AllBytes
  <2> DEFINE damaged == [data EXCEPT ![n] = byte]
  <2>3. /\ E16!OneShot(damaged) # E16!OneShot(data)
        /\ E32!OneShot(damaged) # E32!OneShot(data)
    BY <2>1, <2>2, DamageChangesCode16, DamageChangesCode32
  <2> HIDE DEF damaged
  <2>4. ~Matches(damaged, crc)
    BY <2>2, <2>3 DEF Matches, OneShot, E16!Matches, E32!Matches
  <2>5. QED
    BY <2>4 DEF damaged
<1>3. QED
  BY <1>1, <1>2, PTL

-----------------------------------------------------------------------------
(* The codes.                                                              *)

\* crc16Compute computes CRC-16/CCITT-FALSE: for data of every length its
\* result is the remainder that the definition of that code asks for.
THEOREM ComputesCode16 ==
    \A bytes \in Seq(AllBytes) :
        E16!OneShot(bytes) = E16!CodeByDefinition(bytes, E16!PowersTo(Len(bytes)))
<1> SUFFICES ASSUME NEW bytes \in Seq(AllBytes)
             PROVE  E16!OneShot(bytes) = E16!CodeByDefinition(bytes, E16!PowersTo(Len(bytes)))
  OBVIOUS
<1> DEFINE last == 8 * Len(bytes) + 15
<1>1. last \in Nat /\ 8 * Len(bytes) + 15 <= last
  BY LenProperties
<1> HIDE DEF last
<1>2. E16!RegisterByDefinition(bytes, E16!PowersOfX(E16!CRC16_CCITT_FALSE_POLYNOMIAL, 16, last))
        = E16!Processed(E16!CRC16_INITIAL_VALUE, bytes)
  BY <1>1, LoopIsRemainder16
<1>3. QED
  BY <1>2 DEF E16!OneShot, E16!CodeByDefinition, E16!PowersTo, last

\* crc32Compute computes CRC-32/ISO-HDLC, bytes lowest bit first, the generator
\* mirrored and the result inverted as the definition of that code asks for.
THEOREM ComputesCode32 ==
    \A bytes \in Seq(AllBytes) :
        E32!OneShot(bytes) = E32!CodeByDefinition(bytes, E32!PowersTo(Len(bytes)))
<1> SUFFICES ASSUME NEW bytes \in Seq(AllBytes)
             PROVE  E32!OneShot(bytes) = E32!CodeByDefinition(bytes, E32!PowersTo(Len(bytes)))
  OBVIOUS
<1> DEFINE last == 8 * Len(bytes) + 31
<1>1. last \in Nat /\ 8 * Len(bytes) + 31 <= last
  BY LenProperties
<1> HIDE DEF last
<1>2. E32!RegisterByDefinition(bytes, E32!PowersOfX(E32!CRC32_POLYNOMIAL, 32, last))
        = E32!Processed(E32!CRC32_INITIAL_VALUE, bytes)
  BY <1>1, LoopIsRemainder32
<1>3. QED
  BY <1>2 DEF E32!OneShot, E32!CodeByDefinition, E32!PowersTo, last

\* crc16Verify refuses every buffer that differs from the one its code was
\* computed of in a burst of damage: bits, in the order of transmission, of
\* which the first and the last are at most fifteen apart, within a byte or
\* across the borders of two or three.
THEOREM BurstIsCaught16 ==
    \A sent, received \in Seq(AllBytes), burst \in SUBSET (0 .. 15), place \in Nat :
        /\ Len(received) = Len(sent)
        /\ burst # {}
        /\ Xor(E16!Polynomial(sent), E16!Polynomial(received)) = Shifted(burst, place)
        => ~E16!Matches(received, E16!OneShot(sent))
<1> SUFFICES ASSUME NEW sent \in Seq(AllBytes), NEW received \in Seq(AllBytes),
                    NEW burst \in SUBSET (0 .. 15), NEW place \in Nat,
                    Len(received) = Len(sent), burst # {},
                    Xor(E16!Polynomial(sent), E16!Polynomial(received)) = Shifted(burst, place)
             PROVE  E16!OneShot(received) # E16!OneShot(sent)
  BY DEF E16!Matches
<1> DEFINE poly == E16!CRC16_CCITT_FALSE_POLYNOMIAL
           initial == E16!CRC16_INITIAL_VALUE
           last == 8 * Len(sent) + 15
           power == PowersOfX(poly, 16, last)
           R(s) == Remainder(Message(s, Plain, initial, 16), power, 16)
<1>1. /\ poly \in SUBSET (0 .. 15) /\ 0 \in poly /\ initial \in SUBSET (0 .. 15)
      /\ Plain \in [AllBytes -> AllBytes]
  BY DEF E16!CRC16_CCITT_FALSE_POLYNOMIAL, E16!CRC16_INITIAL_VALUE, Plain
<1>2. last \in Nat /\ 8 * Len(sent) + 15 <= last /\ 8 * Len(received) + 15 <= last
  BY LenProperties
<1>3. 16 \in Nat \ {0} /\ 16 - 1 = 15 /\ 8 * Len(sent) + 16 - 1 <= last
  <2>1. Len(sent) \in Nat
    BY LenProperties
  <2>2. QED
    BY <2>1
<1>4. R(sent) = E16!OneShot(sent) /\ R(received) = E16!OneShot(received)
  <2>1. \A s \in Seq(AllBytes) :
          R(s) = E16!RegisterByDefinition(s, E16!PowersOfX(poly, 16, last))
    BY DefinitionIsMessage16, SameAlgebra
  <2> HIDE DEF last, R
  <2>2. QED
    BY <1>2, <2>1, LoopIsRemainder16 DEF E16!OneShot
<1>5. E16!Polynomial(sent) = DataTerms(sent, Plain, 16)
      /\ E16!Polynomial(received) = DataTerms(received, Plain, 16)
  BY PolynomialIsData16
<1>6. IsTable(power, poly, 16, last)
  <2> HIDE DEF poly, last
  <2>1. QED
    BY <1>1, <1>2, <1>3, PowersTable
<1> HIDE DEF poly, initial, last, power
<1>7. R(sent) # R(received)
  BY <1>1, <1>3, <1>5, <1>6, <1>2, BurstChangesRemainder
<1>8. QED
  BY <1>4, <1>7

\* crc32Verify refuses every buffer that differs in a burst of thirty-two bits
\* or fewer, every byte taken lowest bit first.
THEOREM BurstIsCaught32 ==
    \A sent, received \in Seq(AllBytes), burst \in SUBSET (0 .. 31), place \in Nat :
        /\ Len(received) = Len(sent)
        /\ burst # {}
        /\ Xor(E32!Polynomial(sent), E32!Polynomial(received)) = Shifted(burst, place)
        => ~E32!Matches(received, E32!OneShot(sent))
<1> SUFFICES ASSUME NEW sent \in Seq(AllBytes), NEW received \in Seq(AllBytes),
                    NEW burst \in SUBSET (0 .. 31), NEW place \in Nat,
                    Len(received) = Len(sent), burst # {},
                    Xor(E32!Polynomial(sent), E32!Polynomial(received)) = Shifted(burst, place)
             PROVE  E32!OneShot(received) # E32!OneShot(sent)
  BY DEF E32!Matches
<1> DEFINE poly == E32!CRC32_POLYNOMIAL
           initial == E32!CRC32_INITIAL_VALUE
           last == 8 * Len(sent) + 31
           power == PowersOfX(poly, 32, last)
           R(s) == Remainder(Message(s, Reversed, initial, 32), power, 32)
<1>1. /\ poly \in SUBSET (0 .. 31) /\ 0 \in poly /\ initial \in SUBSET (0 .. 31)
      /\ Reversed \in [AllBytes -> AllBytes]
  <2>1. ASSUME NEW b \in AllBytes PROVE Mirrored(b, 8) \in AllBytes
    BY MirroredTerm DEF AllBytes
  <2>2. QED
    BY <2>1 DEF E32!CRC32_POLYNOMIAL, E32!CRC32_INITIAL_VALUE, Reversed
<1>2. last \in Nat /\ 8 * Len(sent) + 31 <= last /\ 8 * Len(received) + 31 <= last
  BY LenProperties
<1>3. 32 \in Nat \ {0} /\ 32 - 1 = 31 /\ 8 * Len(sent) + 32 - 1 <= last
  <2>1. Len(sent) \in Nat
    BY LenProperties
  <2>2. QED
    BY <2>1
<1>4. /\ Mirrored(R(sent), 32) = E32!Processed(initial, sent)
      /\ Mirrored(R(received), 32) = E32!Processed(initial, received)
  <2>1. \A s \in Seq(AllBytes) :
          Mirrored(R(s), 32) = E32!RegisterByDefinition(s, E32!PowersOfX(poly, 32, last))
    BY DefinitionIsMessage32, SameAlgebra
  <2> HIDE DEF last, R
  <2>2. QED
    BY <1>2, <2>1, LoopIsRemainder32
<1>5. E32!Polynomial(sent) = DataTerms(sent, Reversed, 32)
      /\ E32!Polynomial(received) = DataTerms(received, Reversed, 32)
  BY PolynomialIsData32
<1>6. IsTable(power, poly, 32, last)
  <2> HIDE DEF poly, last
  <2>1. QED
    BY <1>1, <1>2, <1>3, PowersTable
<1> HIDE DEF poly, initial, last, power
<1>7. R(sent) # R(received)
  BY <1>1, <1>3, <1>5, <1>6, <1>2, BurstChangesRemainder
<1>8. R(sent) \in SUBSET (0 .. 31) /\ R(received) \in SUBSET (0 .. 31)
  BY <1>3, RemainderTyped
<1> HIDE DEF R
<1>9. Mirrored(R(sent), 32) # Mirrored(R(received), 32)
  BY <1>3, <1>7, <1>8, MirroredTwice
<1>10. E32!Processed(initial, sent) # E32!Processed(initial, received)
  BY <1>4, <1>9
<1>11. QED
  BY <1>10, FinalXor DEF E32!OneShot, initial

\* The tables of powers that the properties use are long enough for every
\* piece and for everything that is fed.
LEMMA TablesReach ==
    ASSUME NEW bytes \in Seq(Bytes), Len(bytes) <= MaxTotal \/ Len(bytes) <= MaxPiece
    PROVE  /\ E16!RegisterByDefinition(bytes, Powers16) = E16!Processed(E16!CRC16_INITIAL_VALUE, bytes)
           /\ E32!RegisterByDefinition(bytes, Powers32) = E32!Processed(E32!CRC32_INITIAL_VALUE, bytes)
<1>1. bytes \in Seq(AllBytes) /\ Len(bytes) \in Nat
  BY PiecesAreBuffers, LenProperties
<1>2. Longest \in Nat /\ Len(bytes) <= Longest
  BY <1>1, LengthAssumption DEF Longest
<1> DEFINE last16 == 8 * Longest + 15
           last32 == 8 * Longest + 31
<1>3. /\ last16 \in Nat /\ 8 * Len(bytes) + 15 <= last16
      /\ last32 \in Nat /\ 8 * Len(bytes) + 31 <= last32
  BY <1>1, <1>2
<1> HIDE DEF last16, last32
<1>4. E16!RegisterByDefinition(bytes, E16!PowersOfX(E16!CRC16_CCITT_FALSE_POLYNOMIAL, 16, last16))
        = E16!Processed(E16!CRC16_INITIAL_VALUE, bytes)
  BY <1>1, <1>3, LoopIsRemainder16
<1>5. E32!RegisterByDefinition(bytes, E32!PowersOfX(E32!CRC32_POLYNOMIAL, 32, last32))
        = E32!Processed(E32!CRC32_INITIAL_VALUE, bytes)
  BY <1>1, <1>3, LoopIsRemainder32
<1>6. QED
  BY <1>4, <1>5 DEF Powers16, Powers32, E16!PowersTo, E32!PowersTo, last16, last32

\* So the code by definition of such data is what the one-shot function says.
LEMMA OneShotIsCode ==
    ASSUME NEW bytes \in Seq(Bytes), Len(bytes) <= MaxTotal \/ Len(bytes) <= MaxPiece
    PROVE  CodeOf(bytes) = OneShot(bytes)
BY TablesReach, SameXor
   DEF CodeOf, OneShot, E16!OneShot, E32!OneShot, E16!CodeByDefinition, E32!CodeByDefinition

\* The answers of an engine with its history, in terms of its own one-shot
\* function, and how much data they are about.
LengthsBounded == Len(fed) <= MaxTotal /\ Len(data) <= MaxPiece

AnswersAreOneShot ==
    status # "NULL_POINTER" =>
        /\ call = "Compute" => crc = OneShot(data)
        /\ call = "GetResult" /\ started => crc = OneShot(fed)
        /\ call = "Verify" => (status = "SUCCESS" <=> crc = OneShot(data))

\* No piece is longer than the constants allow.
LEMMA PiecesAreShort == \A bytes \in Pieces : Len(bytes) <= MaxPiece
BY LengthAssumption DEF Pieces

\* No step exceeds the lengths.
LEMMA LengthsStep ==
    ASSUME TypeOK, LengthsBounded, [Next]_vars
    PROVE  LengthsBounded'
<1> USE DEF LengthsBounded, Answer
<1>1. Len(<< >>) = 0 /\ MaxPiece \in Nat /\ MaxTotal \in Nat
  BY LengthAssumption
<1>2. CASE crc16Init \/ crc32Init
  BY <1>1, <1>2 DEF crc16Init, crc32Init, Begins
<1>3. CASE crc16GetResult \/ crc32GetResult \/ RefuseNull
  BY <1>1, <1>3 DEF crc16GetResult, crc32GetResult, RefuseNull, Returns
<1>4. ASSUME NEW bytes \in Pieces, Len(fed) + Len(bytes) <= MaxTotal,
             crc16Update(bytes) \/ crc32Update(bytes)
      PROVE  LengthsBounded'
  <2>1. fed \in Seq(Bytes) /\ bytes \in Seq(Bytes)
    BY PiecesAreBuffers DEF TypeOK
  <2>2. Len(fed \o bytes) = Len(fed) + Len(bytes)
    BY <2>1, ConcatProperties
  <2>3. QED
    BY <1>1, <1>4, <2>2 DEF crc16Update, crc32Update, TakesIn
<1>5. ASSUME NEW bytes \in Pieces,
             \/ crc16Compute(bytes) \/ crc32Compute(bytes)
             \/ crc16Verify(bytes) \/ crc32Verify(bytes)
      PROVE  LengthsBounded'
  BY <1>5, PiecesAreShort DEF crc16Compute, crc32Compute, crc16Verify, crc32Verify, Returns
<1>6. CASE UNCHANGED vars
  BY <1>6 DEF vars
<1>7. QED
  BY <1>2, <1>3, <1>4, <1>5, <1>6 DEF Next

\* Every call answers so, whatever was called before.
LEMMA AnswersStep ==
    ASSUME EngineInv, AnswersAreOneShot, [Next]_vars
    PROVE  AnswersAreOneShot'
<1> USE DEF AnswersAreOneShot, OneShot, Answer
<1>1. engine \in Engines
  BY DEF EngineInv, TypeOK
<1>2. CASE crc16Init \/ crc32Init
  BY <1>2 DEF crc16Init, crc32Init, Begins
<1>3. CASE crc16GetResult
  BY <1>3 DEF crc16GetResult, Returns, EngineInv, StreamingIsOneShot
<1>4. CASE crc32GetResult
  BY <1>4 DEF crc32GetResult, Returns, EngineInv, StreamingIsOneShot
<1>5. CASE RefuseNull
  BY <1>5 DEF RefuseNull, Returns
<1>6. ASSUME NEW bytes \in Pieces, crc16Update(bytes) \/ crc32Update(bytes)
      PROVE  AnswersAreOneShot'
  BY <1>6 DEF crc16Update, crc32Update, TakesIn
<1>7. ASSUME NEW bytes \in Pieces, crc16Compute(bytes) \/ crc32Compute(bytes)
      PROVE  AnswersAreOneShot'
  BY <1>7 DEF crc16Compute, crc32Compute, Returns
<1>8. ASSUME NEW bytes \in Pieces, crc16Verify(bytes) \/ crc32Verify(bytes)
      PROVE  AnswersAreOneShot'
  BY <1>8 DEF crc16Verify, crc32Verify, Returns, E16!Matches, E32!Matches
<1>9. CASE UNCHANGED vars
  BY <1>9 DEF vars
<1>10. QED
  BY <1>2, <1>3, <1>4, <1>5, <1>6, <1>7, <1>8, <1>9 DEF Next

\* Together they are inductive.
CodeInv == EngineInv /\ LengthsBounded /\ AnswersAreOneShot

LEMMA CodeInvariant == Spec => []CodeInv
<1>1. Init => CodeInv
  <2> SUFFICES ASSUME Init PROVE CodeInv
    OBVIOUS
  <2>1. LengthsBounded
    BY LengthAssumption DEF Init, LengthsBounded
  <2>2. AnswersAreOneShot
    BY DEF Init, AnswersAreOneShot
  <2>3. QED
    BY <2>1, <2>2, EngineInit DEF CodeInv
<1>2. CodeInv /\ [Next]_vars => CodeInv'
  BY EngineStep, LengthsStep, AnswersStep DEF CodeInv, EngineInv
<1>3. QED
  BY <1>1, <1>2, PTL DEF Spec

\* The register is always the remainder by definition of everything that was
\* fed, for data of any length cut in any way.
THEOREM RegisterCorrect == Spec => []RegisterIsRemainder
<1>1. CodeInv => RegisterIsRemainder
  <2> SUFFICES ASSUME CodeInv, started
               PROVE  currentCRC = IF engine = "CRC-16" THEN E16!RegisterByDefinition(fed, Powers16)
                                                      ELSE E32!RegisterByDefinition(fed, Powers32)
    BY DEF RegisterIsRemainder
  <2>1. fed \in Seq(Bytes) /\ Len(fed) <= MaxTotal
    BY DEF CodeInv, EngineInv, TypeOK, LengthsBounded
  <2>2. CASE engine = "CRC-16"
    BY <2>1, <2>2, TablesReach DEF CodeInv, EngineInv, StreamingIsOneShot, E16!OneShot
  <2>3. CASE engine # "CRC-16"
    <3>1. Xor(currentCRC, E32!CRC32_FINAL_XOR) = E32!OneShot(fed)
      BY <2>3 DEF CodeInv, EngineInv, StreamingIsOneShot
    <3>2. currentCRC = E32!Processed(E32!CRC32_INITIAL_VALUE, fed)
      BY <3>1, FinalXor, SameXor DEF E32!OneShot
    <3>3. QED
      BY <2>1, <2>3, <3>2, TablesReach
  <2>4. QED
    BY <2>2, <2>3
<1>2. QED
  BY <1>1, CodeInvariant, PTL

\* Every answer is the code by definition of exactly the data it is about, and
\* the verification confirms data exactly if the code it is given is theirs.
THEOREM ResultsCorrect == Spec => []ResultsAreCodes
<1>1. CodeInv => ResultsAreCodes
  <2> SUFFICES ASSUME CodeInv PROVE ResultsAreCodes
    OBVIOUS
  <2>1. CodeOf(fed) = OneShot(fed) /\ CodeOf(data) = OneShot(data)
    BY OneShotIsCode DEF CodeInv, EngineInv, TypeOK, LengthsBounded
  <2>2. QED
    BY <2>1 DEF CodeInv, AnswersAreOneShot, ResultsAreCodes
<1>2. QED
  BY <1>1, CodeInvariant, PTL
=============================================================================
