---------------------------- MODULE PacketProofs ----------------------------
(***************************************************************************)
(* The packet protocol, for payloads of every length: the builder and the  *)
(* parser are inverse to each other, and a damaged frame is refused.       *)
(***************************************************************************)
EXTENDS Packet, SequenceTheorems, TLAPS

\* The lemmas of CrcProofs about the arithmetic of crc16.c; the state of Crc
\* plays no part.
C == INSTANCE CrcProofs WITH
        Bytes <- SUBSET (0 .. 7), MaxPiece <- 0, MaxTotal <- 0,
        engine <- "CRC-16", currentCRC <- {}, started <- FALSE, fed <- << >>, call <- "Init",
        data <- << >>, status <- "SUCCESS", crc <- {}

AllBytes == SUBSET (0 .. 7)

-----------------------------------------------------------------------------
(* Bytes as numbers and as sets.                                           *)

\* Four digits, and the number before them.
LEMMA FourDigits ==
    \A a0, a1, a2, a3, b0, b1, b2, b3 \in 0 .. 1, x, y \in Int :
        a0 + 2 * a1 + 4 * a2 + 8 * a3 + 16 * x = b0 + 2 * b1 + 4 * b2 + 8 * b3 + 16 * y
        => a0 = b0 /\ a1 = b1 /\ a2 = b2 /\ a3 = b3 /\ x = y
OBVIOUS

\* Eight digits make one number only.
LEMMA Digits ==
    ASSUME NEW a0 \in 0 .. 1, NEW a1 \in 0 .. 1, NEW a2 \in 0 .. 1, NEW a3 \in 0 .. 1,
           NEW a4 \in 0 .. 1, NEW a5 \in 0 .. 1, NEW a6 \in 0 .. 1, NEW a7 \in 0 .. 1,
           NEW b0 \in 0 .. 1, NEW b1 \in 0 .. 1, NEW b2 \in 0 .. 1, NEW b3 \in 0 .. 1,
           NEW b4 \in 0 .. 1, NEW b5 \in 0 .. 1, NEW b6 \in 0 .. 1, NEW b7 \in 0 .. 1,
           a0 + 2 * a1 + 4 * a2 + 8 * a3 + 16 * a4 + 32 * a5 + 64 * a6 + 128 * a7
               = b0 + 2 * b1 + 4 * b2 + 8 * b3 + 16 * b4 + 32 * b5 + 64 * b6 + 128 * b7
    PROVE  /\ a0 = b0 /\ a1 = b1 /\ a2 = b2 /\ a3 = b3
           /\ a4 = b4 /\ a5 = b5 /\ a6 = b6 /\ a7 = b7
<1> DEFINE x == a4 + 2 * a5 + 4 * a6 + 8 * a7
           y == b4 + 2 * b5 + 4 * b6 + 8 * b7
<1>1. /\ x \in Int /\ y \in Int
      /\ a0 + 2 * a1 + 4 * a2 + 8 * a3 + 16 * x = b0 + 2 * b1 + 4 * b2 + 8 * b3 + 16 * y
  OBVIOUS
<1> HIDE DEF x, y
<1>2. a0 = b0 /\ a1 = b1 /\ a2 = b2 /\ a3 = b3 /\ x = y
  BY <1>1, FourDigits
<1>3. a4 + 2 * a5 + 4 * a6 + 8 * a7 + 16 * 0 = b4 + 2 * b5 + 4 * b6 + 8 * b7 + 16 * 0
  BY <1>2 DEF x, y
<1>4. a4 = b4 /\ a5 = b5 /\ a6 = b6 /\ a7 = b7
  BY <1>3, FourDigits
<1>5. QED
  BY <1>2, <1>4

\* The number of a set of bits is a byte, and tells which of the bits 0 to 7
\* are in the set.
LEMMA NumberOfBits ==
    /\ \A s : ByteNumber(s) \in Byte
    /\ \A s, t : ByteNumber(s) = ByteNumber(t) => s \cap (0 .. 7) = t \cap (0 .. 7)
<1>1. \A s, i : Bit(s, i) \in 0 .. 1
  BY DEF Bit
<1>2. \A s : ByteNumber(s) \in Byte
  BY <1>1 DEF ByteNumber, Byte
<1>3. ASSUME NEW s, NEW t, ByteNumber(s) = ByteNumber(t)
      PROVE  \A i \in 0 .. 7 : Bit(s, i) = Bit(t, i)
  <2>1. /\ Bit(s, 0) = Bit(t, 0) /\ Bit(s, 1) = Bit(t, 1) /\ Bit(s, 2) = Bit(t, 2)
        /\ Bit(s, 3) = Bit(t, 3) /\ Bit(s, 4) = Bit(t, 4) /\ Bit(s, 5) = Bit(t, 5)
        /\ Bit(s, 6) = Bit(t, 6) /\ Bit(s, 7) = Bit(t, 7)
    <3>1. Bit(s, 0) + 2 * Bit(s, 1) + 4 * Bit(s, 2) + 8 * Bit(s, 3)
              + 16 * Bit(s, 4) + 32 * Bit(s, 5) + 64 * Bit(s, 6) + 128 * Bit(s, 7)
          = Bit(t, 0) + 2 * Bit(t, 1) + 4 * Bit(t, 2) + 8 * Bit(t, 3)
              + 16 * Bit(t, 4) + 32 * Bit(t, 5) + 64 * Bit(t, 6) + 128 * Bit(t, 7)
      BY <1>3, Zenon DEF ByteNumber
    <3>2. /\ Bit(s, 0) \in 0 .. 1 /\ Bit(s, 1) \in 0 .. 1 /\ Bit(s, 2) \in 0 .. 1
          /\ Bit(s, 3) \in 0 .. 1 /\ Bit(s, 4) \in 0 .. 1 /\ Bit(s, 5) \in 0 .. 1
          /\ Bit(s, 6) \in 0 .. 1 /\ Bit(s, 7) \in 0 .. 1
          /\ Bit(t, 0) \in 0 .. 1 /\ Bit(t, 1) \in 0 .. 1 /\ Bit(t, 2) \in 0 .. 1
          /\ Bit(t, 3) \in 0 .. 1 /\ Bit(t, 4) \in 0 .. 1 /\ Bit(t, 5) \in 0 .. 1
          /\ Bit(t, 6) \in 0 .. 1 /\ Bit(t, 7) \in 0 .. 1
      BY <1>1, Zenon
    <3>3. QED
      BY <3>1, <3>2, Digits, SMTT(30)
  <2>2. QED
    BY <2>1
<1>4. ASSUME NEW s, NEW t, \A i \in 0 .. 7 : Bit(s, i) = Bit(t, i)
      PROVE  \A i \in 0 .. 7 : i \in s <=> i \in t
  BY <1>4 DEF Bit
<1>5. QED
  BY <1>2, <1>3, <1>4

\* A byte is the number of its bits, so two bytes differ in a bit.
LEMMA BitsOfByte ==
    /\ \A byte \in Byte : ByteBits(byte) \in AllBytes
    /\ \A a, b \in Byte : ByteBits(a) = ByteBits(b) => a = b
<1>1. \A byte \in Byte : ByteBits(byte) \in AllBytes
  BY DEF ByteBits, AllBytes
<1>2. ASSUME NEW byte \in Byte PROVE ByteNumber(ByteBits(byte)) = byte
  <2>1. byte = (byte % 2) + 2 * ((byte \div 2) % 2) + 4 * ((byte \div 4) % 2)
               + 8 * ((byte \div 8) % 2) + 16 * ((byte \div 16) % 2)
               + 32 * ((byte \div 32) % 2) + 64 * ((byte \div 64) % 2)
               + 128 * ((byte \div 128) % 2)
    BY DEF Byte
  <2>2. \A i \in 0 .. 7 : Bit(ByteBits(byte), i) = (byte \div PowerOfTwo[i + 1]) % 2
    BY DEF Bit, ByteBits, PowerOfTwo, Byte
  <2>3. byte \in 0 .. 255
    BY DEF Byte
  <2>4. QED
    BY <2>1, <2>2, <2>3 DEF ByteNumber, PowerOfTwo
<1>3. QED
  BY <1>1, <1>2

WordLimit == 65536

\* Two bytes make a number below 2^16.
LEMMA TwoDigits ==
    ASSUME NEW a \in 0 .. 255, NEW b \in 0 .. 255
    PROVE  256 * a + b \in Nat /\ 256 * a + b < WordLimit
BY DEF WordLimit

High(w) == Shifted(w \ (0 .. 7), -8)

LEMMA WordIsTwoBytes ==
    ASSUME NEW w
    PROVE  /\ ByteNumber(High(w)) \in 0 .. 255
           /\ ByteNumber(w) \in 0 .. 255
           /\ WordNumber(w) = 256 * ByteNumber(High(w)) + ByteNumber(w)
<1>1. WordNumber(w) = 256 * ByteNumber(High(w)) + ByteNumber(w)
  BY Zenon DEF WordNumber, High
<1>2. \A s : ByteNumber(s) \in 0 .. 255
  BY NumberOfBits, Zenon DEF Byte
<1>3. QED
  BY <1>1, <1>2, Zenon

\* A register is a number below 2^16.
LEMMA NumberOfWord == ASSUME NEW w PROVE WordNumber(w) \in Nat /\ WordNumber(w) < WordLimit
<1> DEFINE a == ByteNumber(High(w))
           b == ByteNumber(w)
           word == WordNumber(w)
<1>1. a \in 0 .. 255 /\ b \in 0 .. 255
  BY WordIsTwoBytes, Zenon
<1>2. word = 256 * a + b
  BY WordIsTwoBytes, Zenon
<1> HIDE DEF a, b, word
<1>3. 256 * a + b \in Nat /\ 256 * a + b < WordLimit
  BY <1>1, TwoDigits
<1>4. word \in Nat /\ word < WordLimit
  BY <1>2, <1>3
<1>5. QED
  BY <1>4 DEF word

\* Two registers are two numbers.
LEMMA WordOfNumber ==
    ASSUME NEW v \in Words, NEW w \in Words, WordNumber(v) = WordNumber(w)
    PROVE  v = w
<1>1. ByteNumber(High(v)) = ByteNumber(High(w)) /\ ByteNumber(v) = ByteNumber(w)
  <2> DEFINE a == ByteNumber(High(v))
             b == ByteNumber(v)
             c == ByteNumber(High(w))
             d == ByteNumber(w)
  <2>1. /\ a \in 0 .. 255 /\ b \in 0 .. 255 /\ c \in 0 .. 255 /\ d \in 0 .. 255
        /\ 256 * a + b = 256 * c + d
    <3>1. WordNumber(v) = 256 * a + b /\ WordNumber(w) = 256 * c + d
      BY WordIsTwoBytes, Zenon
    <3>2. a \in 0 .. 255 /\ b \in 0 .. 255 /\ c \in 0 .. 255 /\ d \in 0 .. 255
      BY WordIsTwoBytes, Zenon
    <3>3. QED
      BY <3>1, <3>2, Zenon
  <2> HIDE DEF a, b, c, d
  <2>2. a = c /\ b = d
    BY <2>1
  <2>3. QED
    BY <2>2, Zenon DEF a, b, c, d
<1>2. v \cap (0 .. 7) = w \cap (0 .. 7) /\ High(v) \cap (0 .. 7) = High(w) \cap (0 .. 7)
  BY <1>1, NumberOfBits, Zenon
<1>3. ASSUME NEW u \in Words, NEW i \in 8 .. 15
      PROVE  i \in u <=> i - 8 \in High(u) \cap (0 .. 7)
  <2>1. ASSUME i + (-8) \in High(u) PROVE i \in u
    <3>1. PICK j \in u \ (0 .. 7) : j + (-8) = i + (-8)
      BY <2>1 DEF Shifted, High
    <3>2. j \in 0 .. 15
      BY DEF Words
    <3>3. QED
      BY <3>1, <3>2
  <2>2. ASSUME i \in u PROVE i + (-8) \in High(u)
    BY <2>2 DEF Shifted, High
  <2>3. i - 8 = i + (-8) /\ i - 8 \in 0 .. 7
    OBVIOUS
  <2>4. QED
    BY <2>1, <2>2, <2>3
<1>4. \A i \in 0 .. 15 : i \in v <=> i \in w
  BY <1>2, <1>3
<1>5. QED
  BY <1>4 DEF Words

\* A number below 2^16 is two bytes.
LEMMA TwoBytes ==
    ASSUME NEW v \in Nat, v < WordLimit
    PROVE  /\ v \div 256 \in Byte /\ v % 256 \in Byte
           /\ v = 256 * (v \div 256) + (v % 256)
<1> DEFINE h == v \div 256
           l == v % 256
<1>1. h \in Int /\ l \in 0 .. 255 /\ v = 256 * h + l
  OBVIOUS
<1> HIDE DEF h, l
<1>2. h \in 0 .. 255
  BY <1>1 DEF WordLimit
<1>3. h \in Byte /\ l \in Byte /\ v = 256 * h + l
  BY <1>1, <1>2 DEF Byte
<1>4. QED
  BY <1>3 DEF h, l

\* Two bytes are the number they were written from.
LEMMA SameBytes ==
    ASSUME NEW a \in Byte, NEW b \in Byte
    PROVE  (256 * a + b) \div 256 = a /\ (256 * a + b) % 256 = b
BY DEF Byte

-----------------------------------------------------------------------------
(* The code.                                                               *)

\* The engine here is the engine of the lemmas.
LEMMA SameEngine ==
    /\ C!AllBytes = AllBytes
    /\ C!E16!Words = Words
    /\ \A bytes : C!E16!OneShot(bytes) = OneShot(bytes)
    /\ \A word, bytes : C!E16!Processed(word, bytes) = Processed(word, bytes)
    /\ C!E16!CRC16_INITIAL_VALUE = CRC16_INITIAL_VALUE
<1>1. \A s, n : C!E16!Shifted(s, n) = Shifted(s, n)
  BY DEF Shifted, C!E16!Shifted
<1>2. \A s, t : C!E16!Xor(s, t) = Xor(s, t)
  BY DEF Xor, C!E16!Xor
<1>3. \A w : C!E16!ShiftLeft(w) = ShiftLeft(w)
  BY <1>1 DEF ShiftLeft, C!E16!ShiftLeft, TopBit, C!E16!TopBit
<1>4. \A w : C!E16!ProcessBit(w) = ProcessBit(w)
  BY <1>2, <1>3 DEF ProcessBit, C!E16!ProcessBit, TopBit, C!E16!TopBit,
     CRC16_CCITT_FALSE_POLYNOMIAL, C!E16!CRC16_CCITT_FALSE_POLYNOMIAL
<1>5. \A w : C!E16!FourBits(w) = FourBits(w)
  BY <1>4 DEF FourBits, C!E16!FourBits, TwoBits, C!E16!TwoBits
<1>6. \A w, b : C!E16!crc16ProcessByte(w, b) = crc16ProcessByte(w, b)
  BY <1>1, <1>2, <1>5 DEF crc16ProcessByte, C!E16!crc16ProcessByte
<1>7. \A word, bytes : C!E16!Processed(word, bytes) = Processed(word, bytes)
  BY <1>6 DEF Processed, C!E16!Processed
<1>8. C!E16!CRC16_INITIAL_VALUE = CRC16_INITIAL_VALUE
  BY DEF C!E16!CRC16_INITIAL_VALUE, CRC16_INITIAL_VALUE
<1>9. \A bytes : C!E16!OneShot(bytes) = OneShot(bytes)
  BY <1>7, <1>8 DEF OneShot, C!E16!OneShot
<1>10. QED
  BY <1>7, <1>8, <1>9 DEF C!AllBytes, AllBytes, C!E16!Words, Words

BitsOf(bytes) == [n \in DOMAIN bytes |-> ByteBits(bytes[n])]

LEMMA BitsAreBytes == ASSUME NEW bytes \in Seq(Byte) PROVE BitsOf(bytes) \in Seq(AllBytes)
<1>1. Len(bytes) \in Nat /\ DOMAIN bytes = 1 .. Len(bytes)
  BY LenProperties
<1>2. \A n \in 1 .. Len(bytes) : ByteBits(bytes[n]) \in AllBytes
  BY BitsOfByte, ElementOfSeq
<1>3. QED
  BY <1>1, <1>2 DEF BitsOf

LEMMA CodeIsWord == ASSUME NEW bytes \in Seq(Byte) PROVE OneShot(BitsOf(bytes)) \in Words
<1>1. CRC16_INITIAL_VALUE \in Words
  BY DEF CRC16_INITIAL_VALUE, Words
<1>2. BitsOf(bytes) \in Seq(AllBytes)
  BY BitsAreBytes
<1>3. C!E16!Processed(CRC16_INITIAL_VALUE, BitsOf(bytes)) \in C!E16!Words
  BY <1>1, <1>2, SameEngine, C!LoopTyped16
<1>4. QED
  BY <1>3, SameEngine DEF OneShot

\* A code is two bytes.
LEMMA CodeTyped ==
    ASSUME NEW bytes
    PROVE  crc16Compute(bytes) \in Nat /\ crc16Compute(bytes) < WordLimit
<1> DEFINE register == OneShot(BitsOf(bytes))
<1>1. WordNumber(register) \in Nat /\ WordNumber(register) < WordLimit
  BY NumberOfWord
<1>2. crc16Compute(bytes) = WordNumber(register)
  BY Zenon DEF crc16Compute, BitsOf
<1> HIDE DEF register
<1>3. QED
  BY <1>1, <1>2

\* A changed byte changes the code.
LEMMA CodeTellsDamage ==
    ASSUME NEW bytes \in Seq(Byte), NEW n \in 1 .. Len(bytes), NEW byte \in Byte,
           byte # bytes[n]
    PROVE  crc16Compute([bytes EXCEPT ![n] = byte]) # crc16Compute(bytes)
<1> DEFINE other == [bytes EXCEPT ![n] = byte]
<1>1. DOMAIN bytes = 1 .. Len(bytes) /\ other \in Seq(Byte)
  BY LenProperties, ExceptSeq
<1>2. BitsOf(other) = [BitsOf(bytes) EXCEPT ![n] = ByteBits(byte)]
  BY <1>1 DEF BitsOf
<1>3. ByteBits(byte) \in AllBytes /\ ByteBits(byte) # BitsOf(bytes)[n] /\ n \in DOMAIN BitsOf(bytes)
  BY <1>1, BitsOfByte, ElementOfSeq DEF BitsOf
<1>4. OneShot(BitsOf(other)) # OneShot(BitsOf(bytes))
  BY <1>2, <1>3, BitsAreBytes, SameEngine, C!DamageChangesCode16
<1>5. WordNumber(OneShot(BitsOf(other))) # WordNumber(OneShot(BitsOf(bytes)))
  BY <1>1, <1>4, CodeIsWord, WordOfNumber
<1>6. QED
  BY <1>5, Zenon DEF crc16Compute, BitsOf

-----------------------------------------------------------------------------
(* The wire format, position by position.                                  *)

Sendable(payload) == payload \in Seq(Byte) /\ Len(payload) <= PACKET_MAX_PAYLOAD_SIZE

\* What the code of a message is computed for.
Region(c, p) == <<(1 + Len(p)) \div 256, (1 + Len(p)) % 256, c>> \o p

\* A buffer begins with the frame of a message.
Carries(raw, c, p) ==
    /\ raw[1] = 170 /\ raw[2] = 85
    /\ raw[3] = (1 + Len(p)) \div 256 /\ raw[4] = (1 + Len(p)) % 256
    /\ raw[5] = c
    /\ \A i \in 1 .. Len(p) : raw[5 + i] = p[i]
    /\ raw[6 + Len(p)] = crc16Compute(Region(c, p)) \div 256
    /\ raw[7 + Len(p)] = crc16Compute(Region(c, p)) % 256

LEMMA LengthBytes ==
    ASSUME NEW p, Sendable(p)
    PROVE  /\ Len(p) \in Nat
           /\ (1 + Len(p)) \div 256 \in Byte /\ (1 + Len(p)) % 256 \in Byte
           /\ 1 + Len(p) = 256 * ((1 + Len(p)) \div 256) + ((1 + Len(p)) % 256)
<1> DEFINE v == 1 + Len(p)
<1>1. Len(p) \in Nat /\ v \in Nat /\ v < WordLimit
  BY SizeAssumption, LenProperties DEF Sendable, WordLimit
<1> HIDE DEF v
<1>2. v \div 256 \in Byte /\ v % 256 \in Byte /\ v = 256 * (v \div 256) + (v % 256)
  BY <1>1, TwoBytes
<1>3. QED
  BY <1>1, <1>2 DEF v

LEMMA RegionShape ==
    ASSUME NEW c \in Byte, NEW p, Sendable(p)
    PROVE  /\ Region(c, p) \in Seq(Byte)
           /\ Len(Region(c, p)) = 3 + Len(p)
           /\ Region(c, p)[1] = (1 + Len(p)) \div 256
           /\ Region(c, p)[2] = (1 + Len(p)) % 256
           /\ Region(c, p)[3] = c
           /\ \A i \in 1 .. Len(p) : Region(c, p)[3 + i] = p[i]
<1> DEFINE hi == (1 + Len(p)) \div 256
           lo == (1 + Len(p)) % 256
<1>1. Len(p) \in Nat /\ hi \in Byte /\ lo \in Byte /\ p \in Seq(Byte)
  BY LengthBytes DEF Sendable
<1>2. Region(c, p) = <<hi, lo, c>> \o p
  BY DEF Region
<1> HIDE DEF hi, lo
<1>3. <<hi, lo, c>> \in Seq(Byte) /\ Len(<<hi, lo, c>>) = 3
  BY <1>1
<1>4. /\ Region(c, p) \in Seq(Byte)
      /\ Len(Region(c, p)) = 3 + Len(p)
      /\ \A i \in 1 .. 3 + Len(p) : Region(c, p)[i] = IF i <= 3 THEN <<hi, lo, c>>[i] ELSE p[i - 3]
  BY <1>1, <1>2, <1>3, ConcatProperties
<1>5. Region(c, p)[1] = hi /\ Region(c, p)[2] = lo /\ Region(c, p)[3] = c
  BY <1>1, <1>4
<1>6. \A i \in 1 .. Len(p) : Region(c, p)[3 + i] = p[i]
  BY <1>1, <1>4
<1>7. QED
  BY <1>4, <1>5, <1>6 DEF hi, lo

\* Where a buffer holds length, command and payload of a message, the region
\* that the CRC covers is that of the message.
LEMMA RegionOfMessage ==
    ASSUME NEW raw, NEW c \in Byte, NEW p, Sendable(p),
           raw[3] = (1 + Len(p)) \div 256, raw[4] = (1 + Len(p)) % 256, raw[5] = c,
           \A i \in 1 .. Len(p) : raw[5 + i] = p[i]
    PROVE  CrcRegion(raw, 1 + Len(p)) = Region(c, p)
<1> DEFINE hi == (1 + Len(p)) \div 256
           lo == (1 + Len(p)) % 256
           n == Len(p)
<1>1. n \in Nat /\ hi \in Byte /\ lo \in Byte /\ p \in Seq(Byte)
  BY LengthBytes DEF Sendable
<1>2. raw[3] = hi /\ raw[4] = lo /\ raw[5] = c /\ \A i \in 1 .. n : raw[5 + i] = p[i]
  OBVIOUS
<1>3. /\ Region(c, p) \in Seq(Byte) /\ Len(Region(c, p)) = 3 + n
      /\ Region(c, p)[1] = hi /\ Region(c, p)[2] = lo /\ Region(c, p)[3] = c
      /\ \A i \in 1 .. n : Region(c, p)[3 + i] = p[i]
  BY RegionShape
<1> HIDE DEF hi, lo
<1>4. \A i \in 3 .. 5 + n : raw[i] = Region(c, p)[i - 2]
  <2>1. SUFFICES ASSUME NEW i \in 3 .. 5 + n PROVE raw[i] = Region(c, p)[i - 2]
    OBVIOUS
  <2>2. CASE i \in 3 .. 5
    <3>1. \/ i = 3 /\ i - 2 = 1
          \/ i = 4 /\ i - 2 = 2
          \/ i = 5 /\ i - 2 = 3
      BY <2>2
    <3>2. raw[3] = Region(c, p)[1] /\ raw[4] = Region(c, p)[2] /\ raw[5] = Region(c, p)[3]
      BY <1>2, <1>3, Zenon
    <3>3. QED
      BY <3>1, <3>2
  <2>3. CASE i > 5
    <3>1. i - 5 \in 1 .. n /\ 5 + (i - 5) = i /\ 3 + (i - 5) = i - 2
      BY <1>1, <2>3
    <3>2. QED
      BY <1>2, <1>3, <3>1
  <2>4. QED
    BY <2>2, <2>3
<1>5. \A i \in 3 .. 5 + n : raw[i] \in Byte
  <2>1. \A i \in 3 .. 5 + n : i - 2 \in 1 .. 3 + n
    BY <1>1
  <2>2. QED
    BY <1>3, <1>4, <2>1, ElementOfSeq
<1>6. /\ SubSeq(raw, 3, 5 + n) \in Seq(Byte)
      /\ Len(SubSeq(raw, 3, 5 + n)) = 3 + n
      /\ \A i \in 1 .. 3 + n : SubSeq(raw, 3, 5 + n)[i] = raw[3 + i - 1]
  BY <1>1, <1>5, SubSeqProperties
<1>7. \A i \in 1 .. 3 + n : SubSeq(raw, 3, 5 + n)[i] = Region(c, p)[i]
  <2>1. \A i \in 1 .. 3 + n : 3 + i - 1 \in 3 .. 5 + n /\ (3 + i - 1) - 2 = i
    BY <1>1
  <2>2. QED
    BY <1>4, <1>6, <2>1
<1>8. SubSeq(raw, 3, 5 + n) = Region(c, p)
  BY <1>3, <1>6, <1>7, SeqEqual
<1>9. CrcRegion(raw, 1 + n) = SubSeq(raw, 3, 5 + n)
  <2>1. 4 + (1 + n) = 5 + n /\ 2 + 1 = 3
    BY <1>1
  <2>2. QED
    BY <2>1 DEF CrcRegion, PACKET_OFFSET_LENGTH, PACKET_OFFSET_COMMAND
<1>10. QED
  BY <1>8, <1>9

LEMMA FiveBytes ==
    ASSUME NEW a \in Byte, NEW b \in Byte, NEW c \in Byte, NEW d \in Byte, NEW e \in Byte
    PROVE  <<a, b>> \o <<c, d>> \o <<e>> = <<a, b, c, d, e>>
<1> DEFINE four == <<a, b>> \o <<c, d>>
           five == four \o <<e>>
<1>1. /\ <<a, b>> \in Seq(Byte) /\ <<c, d>> \in Seq(Byte) /\ <<e>> \in Seq(Byte)
      /\ Len(<<a, b>>) = 2 /\ Len(<<c, d>>) = 2 /\ Len(<<e>>) = 1
  OBVIOUS
<1>2. /\ four \in Seq(Byte) /\ Len(four) = 2 + 2
      /\ \A i \in 1 .. 2 + 2 : four[i] = IF i <= 2 THEN <<a, b>>[i] ELSE <<c, d>>[i - 2]
  BY <1>1, ConcatProperties
<1> HIDE DEF four
<1>3. four[1] = a /\ four[2] = b /\ four[3] = c /\ four[4] = d /\ Len(four) = 4
  BY <1>2
<1>4. /\ five \in Seq(Byte) /\ Len(five) = 4 + 1
      /\ \A i \in 1 .. 4 + 1 : five[i] = IF i <= 4 THEN four[i] ELSE <<e>>[i - 4]
  <2>1. /\ four \o <<e>> \in Seq(Byte) /\ Len(four \o <<e>>) = Len(four) + Len(<<e>>)
        /\ \A i \in 1 .. Len(four) + Len(<<e>>) :
              (four \o <<e>>)[i] = IF i <= Len(four) THEN four[i] ELSE <<e>>[i - Len(four)]
    BY <1>1, <1>2, ConcatProperties, Zenon
  <2>2. QED
    BY <1>1, <1>3, <2>1
<1> HIDE DEF five
<1>5. /\ five[1] = a /\ five[2] = b /\ five[3] = c /\ five[4] = d /\ five[5] = e
      /\ Len(five) = 5 /\ five \in Seq(Byte)
  BY <1>3, <1>4
<1>6. five = <<a, b, c, d, e>>
  BY <1>5
<1>7. QED
  BY <1>6 DEF five, four

\* Two sequences of bytes, one after the other.
LEMMA ByteConcat ==
    \A s, t \in Seq(Byte) :
        /\ s \o t \in Seq(Byte) /\ Len(s \o t) = Len(s) + Len(t)
        /\ \A i \in 1 .. Len(s) + Len(t) :
              (s \o t)[i] = IF i <= Len(s) THEN s[i] ELSE t[i - Len(s)]
BY ConcatProperties

\* A frame is a sequence of bytes that carries its message and nothing else.
LEMMA FrameShape ==
    ASSUME NEW c \in Byte, NEW p, Sendable(p)
    PROVE  /\ Frame(c, p) \in Seq(Byte)
           /\ Len(Frame(c, p)) = 7 + Len(p)
           /\ Carries(Frame(c, p), c, p)
<1> DEFINE n == Len(p)
           hi == (1 + n) \div 256
           lo == (1 + n) % 256
           five == <<170, 85>> \o <<hi, lo>> \o <<c>>
           start == five \o p
           code == crc16Compute(CrcRegion(start, 1 + n))
           end == <<code \div 256, code % 256>>
<1>1. n \in Nat /\ hi \in Byte /\ lo \in Byte /\ p \in Seq(Byte)
  BY LengthBytes DEF Sendable
<1>2. Frame(c, p) = start \o end
  BY DEF Frame, writeUint16BE, PACKET_HEADER1, PACKET_HEADER2
<1> HIDE DEF hi, lo
<1>3. /\ five \in Seq(Byte) /\ Len(five) = 5
      /\ five[1] = 170 /\ five[2] = 85 /\ five[3] = hi /\ five[4] = lo /\ five[5] = c
  <2>1. 170 \in Byte /\ 85 \in Byte
    BY DEF Byte
  <2>2. five = <<170, 85, hi, lo, c>>
    BY <1>1, <2>1, FiveBytes
  <2>3. QED
    BY <1>1, <2>1, <2>2
<1> HIDE DEF five
<1>4. /\ start \in Seq(Byte) /\ Len(start) = 5 + n
      /\ \A i \in 1 .. 5 + n : start[i] = IF i <= 5 THEN five[i] ELSE p[i - 5]
  <2>1. five \in Seq(Byte) /\ p \in Seq(Byte)
    BY <1>1, <1>3
  <2>2. /\ five \o p \in Seq(Byte) /\ Len(five \o p) = Len(five) + Len(p)
        /\ \A i \in 1 .. Len(five) + Len(p) :
              (five \o p)[i] = IF i <= Len(five) THEN five[i] ELSE p[i - Len(five)]
    BY <2>1, ByteConcat, Zenon
  <2>3. Len(five) = 5
    BY <1>3
  <2>4. QED
    BY <2>2, <2>3
<1> HIDE DEF start
<1>5. /\ start[1] = 170 /\ start[2] = 85 /\ start[3] = hi /\ start[4] = lo /\ start[5] = c
  BY <1>1, <1>3, <1>4
<1>6. \A i \in 1 .. n : start[5 + i] = p[i]
  BY <1>1, <1>4
<1>7. CrcRegion(start, 1 + n) = Region(c, p)
  <2>1. start[3] = (1 + Len(p)) \div 256 /\ start[4] = (1 + Len(p)) % 256
    BY <1>5, Zenon DEF hi, lo
  <2>2. QED
    BY <1>5, <1>6, <2>1, RegionOfMessage
<1>8. code \in Nat /\ code < WordLimit /\ code = crc16Compute(Region(c, p))
  BY <1>7, CodeTyped
<1> HIDE DEF code
<1>9. code \div 256 \in Byte /\ code % 256 \in Byte
  BY <1>8, TwoBytes
<1>10. /\ end \in Seq(Byte) /\ Len(end) = 2
       /\ end[1] = code \div 256 /\ end[2] = code % 256
  BY <1>9
<1> HIDE DEF end
<1>11. /\ Frame(c, p) \in Seq(Byte) /\ Len(Frame(c, p)) = 7 + n
       /\ \A i \in 1 .. 7 + n :
             Frame(c, p)[i] = IF i <= 5 + n THEN start[i] ELSE end[i - (5 + n)]
  <2>1. (5 + n) + 2 = 7 + n
    BY <1>1
  <2>2. /\ start \o end \in Seq(Byte) /\ Len(start \o end) = Len(start) + Len(end)
        /\ \A i \in 1 .. Len(start) + Len(end) :
              (start \o end)[i] = IF i <= Len(start) THEN start[i] ELSE end[i - Len(start)]
    BY <1>4, <1>10, ByteConcat, Zenon
  <2>3. Len(start) = 5 + n /\ Len(end) = 2
    BY <1>4, <1>10
  <2>4. QED
    BY <1>2, <2>1, <2>2, <2>3
<1> DEFINE fr == Frame(c, p)
<1> HIDE DEF fr
<1>12. \A i \in 1 .. 7 + n : fr[i] = IF i <= 5 + n THEN start[i] ELSE end[i - (5 + n)]
  BY <1>11 DEF fr
<1>13. /\ fr[1] = 170 /\ fr[2] = 85 /\ fr[3] = hi /\ fr[4] = lo /\ fr[5] = c
       /\ \A i \in 1 .. n : fr[5 + i] = p[i]
  <2>1. \A i \in 1 .. 5 + n : fr[i] = start[i]
    BY <1>1, <1>12
  <2>2. fr[1] = start[1] /\ fr[2] = start[2] /\ fr[3] = start[3] /\ fr[4] = start[4]
        /\ fr[5] = start[5]
    BY <1>1, <2>1
  <2>3. \A i \in 1 .. n : fr[5 + i] = start[5 + i]
    BY <1>1, <2>1
  <2>4. QED
    BY <1>5, <1>6, <2>2, <2>3
<1>14. fr[6 + n] = end[1] /\ fr[7 + n] = end[2]
  BY <1>1, <1>12
<1>15. Carries(fr, c, p)
  BY <1>8, <1>10, <1>13, <1>14, Zenon DEF Carries, hi, lo
<1>16. QED
  BY <1>11, <1>15 DEF fr

-----------------------------------------------------------------------------
(* The parser.                                                             *)

DeclaredLength(raw) == 256 * raw[3] + raw[4]

\* The parser's reads and the size it announces, without the names of offsets.
LEMMA Reads ==
    ASSUME NEW raw
    PROVE  /\ readUint16BE(raw, PACKET_OFFSET_LENGTH) = DeclaredLength(raw)
           /\ \A n \in Nat : /\ readUint16BE(raw, PACKET_OFFSET_COMMAND + (1 + n))
                                  = 256 * raw[6 + n] + raw[7 + n]
                             /\ PacketSize(1 + n) = 7 + n
<1>1. readUint16BE(raw, PACKET_OFFSET_LENGTH) = DeclaredLength(raw)
  BY DEF readUint16BE, DeclaredLength, PACKET_OFFSET_LENGTH
<1>2. ASSUME NEW n \in Nat
      PROVE  /\ readUint16BE(raw, PACKET_OFFSET_COMMAND + (1 + n))
                   = 256 * raw[6 + n] + raw[7 + n]
             /\ PacketSize(1 + n) = 7 + n
  <2>1. 4 + (1 + n) + 1 = 6 + n /\ 4 + (1 + n) + 2 = 7 + n
    OBVIOUS
  <2>2. QED
    BY <2>1 DEF readUint16BE, PacketSize, PACKET_OFFSET_COMMAND
<1>3. QED
  BY <1>1, <1>2

\* The message that the parser finds in a buffer, without names of offsets.
Found(raw, n) == [commandId |-> raw[5], payload |-> SubSeq(raw, 6, 5 + n)]

LEMMA ContentsFound ==
    ASSUME NEW raw, NEW n \in Nat, DeclaredLength(raw) = 1 + n
    PROVE  /\ Contents(ParsedFrom(raw), raw) = Found(raw, n)
           /\ ParsedFrom(raw).commandId = raw[5]
           /\ ParsedFrom(raw).payloadLength = n
           /\ ParsedFrom(raw).payload = IF n > 0 THEN 5 ELSE 0
           /\ packetParserGetPacketSize(raw) = 7 + n
<1>1. readUint16BE(raw, PACKET_OFFSET_LENGTH) - 1 = n
  BY Reads
<1>2. ParsedFrom(raw) = [commandId |-> raw[5], payloadLength |-> n,
                         payload |-> IF n > 0 THEN 5 ELSE 0]
  BY <1>1 DEF ParsedFrom, PACKET_OFFSET_COMMAND, PACKET_OFFSET_PAYLOAD, NULL
<1>3. CASE n > 0
  <2>1. 5 + 1 = 6
    OBVIOUS
  <2>2. QED
    BY <1>2, <1>3, <2>1, Reads DEF Contents, Found, packetParserGetPacketSize
<1>4. CASE n = 0
  <2>1. SubSeq(raw, 0 + 1, 0 + 0) = << >>
    BY SubSeqEmpty
  <2>2. SubSeq(raw, 6, 5 + 0) = << >>
    BY SubSeqEmpty
  <2>3. Contents(ParsedFrom(raw), raw)
            = [commandId |-> raw[5], payload |-> SubSeq(raw, 0 + 1, 0 + 0)]
    BY <1>2, <1>4 DEF Contents
  <2>4. Contents(ParsedFrom(raw), raw) = Found(raw, n)
    BY <1>4, <2>1, <2>2, <2>3, Zenon DEF Found
  <2>5. QED
    BY <1>2, <2>4, Reads DEF packetParserGetPacketSize
<1>5. QED
  BY <1>3, <1>4

\* A buffer that begins with the frame of a message is parsed to this message.
LEMMA RoundTrip ==
    ASSUME NEW raw, NEW c \in Byte, NEW p, Sendable(p), Carries(raw, c, p),
           NEW rawLength \in Nat, 7 + Len(p) <= rawLength
    PROVE  /\ ParseStatus(raw, rawLength) = "SUCCESS"
           /\ Contents(ParsedFrom(raw), raw) = [commandId |-> c, payload |-> p]
           /\ ParsedFrom(raw).commandId = c
           /\ ParsedFrom(raw).payloadLength = Len(p)
           /\ packetParserGetPacketSize(raw) = 7 + Len(p)
<1> DEFINE n == Len(p)
           code == crc16Compute(Region(c, p))
<1>1. n \in Nat /\ n <= PACKET_MAX_PAYLOAD_SIZE /\ p \in Seq(Byte)
  BY LengthBytes DEF Sendable
<1>2. DeclaredLength(raw) = 1 + n
  <2>1. raw[3] = (1 + Len(p)) \div 256 /\ raw[4] = (1 + Len(p)) % 256
    BY DEF Carries
  <2>2. 1 + Len(p) = 256 * ((1 + Len(p)) \div 256) + ((1 + Len(p)) % 256)
    BY LengthBytes
  <2>3. QED
    BY <2>1, <2>2, Zenon DEF DeclaredLength
<1>3. HeaderGood(raw)
  BY DEF Carries, HeaderGood, PACKET_HEADER1, PACKET_HEADER2
<1>4. LengthGood(raw, rawLength)
  BY <1>1, <1>2, Reads, SizeAssumption DEF LengthGood
<1>5. CrcGood(raw)
  <2>1. CrcRegion(raw, 1 + n) = Region(c, p)
    <3>1. /\ raw[3] = (1 + Len(p)) \div 256 /\ raw[4] = (1 + Len(p)) % 256 /\ raw[5] = c
          /\ \A i \in 1 .. Len(p) : raw[5 + i] = p[i]
      BY Zenon DEF Carries
    <3>2. QED
      BY <3>1, RegionOfMessage
  <2>2. raw[6 + n] = code \div 256 /\ raw[7 + n] = code % 256
    BY Zenon DEF Carries
  <2>3. code \in Nat /\ code < WordLimit
    BY CodeTyped
  <2>4. crc16Compute(CrcRegion(raw, 1 + n)) = code
    BY <2>1
  <2> HIDE DEF code, n
  <2>5. code = 256 * (code \div 256) + (code % 256)
    BY <2>3, TwoBytes
  <2>6. code = 256 * raw[6 + n] + raw[7 + n]
    BY <2>2, <2>5, Zenon
  <2>7. QED
    BY <1>1, <1>2, <2>4, <2>6, Reads DEF CrcGood
<1>6. ParseStatus(raw, rawLength) = "SUCCESS"
  BY <1>1, <1>3, <1>4, <1>5 DEF ParseStatus, PACKET_MIN_PACKET_SIZE
<1>7. raw[5] = c /\ SubSeq(raw, 6, 5 + n) = p
  <2>1. raw[5] = c /\ \A i \in 1 .. n : raw[5 + i] = p[i]
    BY Zenon DEF Carries
  <2>2. \A i \in 6 .. 5 + n : raw[i] \in Byte
    <3>1. \A i \in 6 .. 5 + n : i - 5 \in 1 .. n /\ 5 + (i - 5) = i
      BY <1>1
    <3>2. \A i \in 1 .. n : p[i] \in Byte
      BY <1>1, ElementOfSeq, Zenon
    <3>3. QED
      BY <2>1, <3>1, <3>2, Zenon
  <2>3. /\ SubSeq(raw, 6, 5 + n) \in Seq(Byte) /\ Len(SubSeq(raw, 6, 5 + n)) = n
        /\ \A i \in 1 .. n : SubSeq(raw, 6, 5 + n)[i] = raw[6 + i - 1]
    BY <1>1, <2>2, SubSeqProperties
  <2>4. \A i \in 1 .. n : SubSeq(raw, 6, 5 + n)[i] = p[i]
    <3>1. \A i \in 1 .. n : 6 + i - 1 = 5 + i
      BY <1>1
    <3>2. QED
      BY <2>1, <2>3, <3>1
  <2>5. QED
    BY <1>1, <2>1, <2>3, <2>4, SeqEqual
<1>8. QED
  BY <1>1, <1>2, <1>6, <1>7, ContentsFound DEF Found

\* What the parser accepts is a whole frame of the message it finds.
LEMMA Accepted ==
    ASSUME NEW raw \in Seq(Byte), NEW rawLength \in Nat, rawLength <= Len(raw),
           ParseStatus(raw, rawLength) = "SUCCESS"
    PROVE  \E c \in Byte, p \in Seq(Byte) :
              /\ Sendable(p)
              /\ Carries(raw, c, p)
              /\ 7 + Len(p) <= rawLength
              /\ DeclaredLength(raw) = 1 + Len(p)
<1> DEFINE d == DeclaredLength(raw)
           n == d - 1
           c == raw[5]
           p == SubSeq(raw, 6, 5 + n)
<1>1. HeaderGood(raw) /\ LengthGood(raw, rawLength) /\ CrcGood(raw) /\ rawLength >= 7
  BY DEF ParseStatus, PACKET_MIN_PACKET_SIZE
<1>2. Len(raw) \in Nat /\ Len(raw) >= 7 /\ \A i \in 1 .. Len(raw) : raw[i] \in Byte
  BY <1>1, LenProperties, ElementOfSeq
<1>3. raw[3] \in Byte /\ raw[4] \in Byte /\ raw[5] \in Byte
  BY <1>2
<1>4. d \in 1 .. 1 + PACKET_MAX_PAYLOAD_SIZE /\ PacketSize(d) <= rawLength
  BY <1>1, Reads DEF LengthGood
<1>5. d = 256 * raw[3] + raw[4]
  BY DEF DeclaredLength
<1> HIDE DEF d
<1>6. n \in Nat /\ n <= PACKET_MAX_PAYLOAD_SIZE /\ d = 1 + n
  BY <1>4, SizeAssumption
<1> HIDE DEF n
<1>7. 7 + n <= rawLength
  BY <1>4, <1>6, Reads
<1>8. /\ p \in Seq(Byte) /\ Len(p) = n
      /\ \A i \in 1 .. n : p[i] = raw[6 + i - 1]
  <2>1. \A i \in 6 .. 5 + n : raw[i] \in Byte
    BY <1>2, <1>6, <1>7
  <2>2. QED
    BY <1>6, <2>1, SubSeqProperties
<1> HIDE DEF p
<1>9. Sendable(p)
  BY <1>6, <1>8 DEF Sendable
<1>10. \A i \in 1 .. n : raw[5 + i] = p[i]
  <2>1. \A i \in 1 .. n : 6 + i - 1 = 5 + i
    BY <1>6
  <2>2. QED
    BY <1>8, <2>1
<1>11. raw[3] = (1 + Len(p)) \div 256 /\ raw[4] = (1 + Len(p)) % 256
  <2>1. 1 + Len(p) = 256 * raw[3] + raw[4]
    BY <1>5, <1>6, <1>8
  <2>2. QED
    BY <1>3, <2>1, SameBytes
<1>12. CrcRegion(raw, 1 + Len(p)) = Region(c, p)
  <2>1. \A i \in 1 .. Len(p) : raw[5 + i] = p[i]
    BY <1>8, <1>10
  <2>2. QED
    BY <1>3, <1>9, <1>11, <2>1, RegionOfMessage
<1>13. crc16Compute(Region(c, p)) = 256 * raw[6 + n] + raw[7 + n]
  <2>1. crc16Compute(CrcRegion(raw, d)) = readUint16BE(raw, PACKET_OFFSET_COMMAND + d)
    BY <1>1, Reads DEF CrcGood, d
  <2>2. QED
    BY <1>6, <1>8, <1>12, <2>1, Reads
<1>14. /\ raw[6 + n] = crc16Compute(Region(c, p)) \div 256
       /\ raw[7 + n] = crc16Compute(Region(c, p)) % 256
  <2>1. raw[6 + n] \in Byte /\ raw[7 + n] \in Byte
    BY <1>2, <1>6, <1>7
  <2>2. QED
    BY <1>13, <2>1, SameBytes
<1>15. Carries(raw, c, p)
  <2>1. raw[1] = 170 /\ raw[2] = 85
    BY <1>1 DEF HeaderGood, PACKET_HEADER1, PACKET_HEADER2
  <2>2. QED
    BY <1>8, <1>10, <1>11, <1>14, <2>1 DEF Carries
<1>16. 7 + Len(p) <= rawLength /\ DeclaredLength(raw) = 1 + Len(p)
  BY <1>6, <1>7, <1>8 DEF d
<1>17. QED
  BY <1>3, <1>8, <1>9, <1>15, <1>16, Zenon

-----------------------------------------------------------------------------
(* A damaged frame.                                                        *)

LEMMA RegionIsPart ==
    ASSUME NEW raw, NEW c \in Byte, NEW p, Sendable(p), Carries(raw, c, p)
    PROVE  \A i \in 1 .. 3 + Len(p) : Region(c, p)[i] = raw[i + 2]
<1> DEFINE region == Region(c, p)
           n == Len(p)
<1>1. /\ n \in Nat /\ region[1] = raw[3] /\ region[2] = raw[4] /\ region[3] = raw[5]
      /\ \A i \in 1 .. n : region[3 + i] = raw[5 + i]
  BY RegionShape, LengthBytes DEF Carries
<1> HIDE DEF region, n
<1>2. ASSUME NEW i \in 1 .. 3 + n PROVE region[i] = raw[i + 2]
  <2>1. CASE i > 3
    <3>1. i - 3 \in 1 .. n /\ 3 + (i - 3) = i /\ 5 + (i - 3) = i + 2
      BY <1>1, <2>1
    <3>2. QED
      BY <1>1, <3>1
  <2>2. CASE i <= 3
    BY <1>1, <2>2
  <2>3. QED
    BY <1>1, <2>1, <2>2
<1>3. QED
  BY <1>2 DEF region, n

\* No two frames of payloads of the same length differ in one byte only.
LEMMA DamageSeen ==
    ASSUME NEW fr, NEW c \in Byte, NEW p, Sendable(p), Carries(fr, c, p),
           NEW raw, NEW e \in Byte, NEW q, Sendable(q), Carries(raw, e, q),
           Len(q) = Len(p), NEW k \in 1 .. 7 + Len(p), raw[k] # fr[k],
           \A j \in 1 .. 7 + Len(p) : j # k => raw[j] = fr[j]
    PROVE  FALSE
<1> DEFINE n == Len(p)
           r == Region(c, p)
           s == Region(e, q)
           code == crc16Compute(r)
           other == crc16Compute(s)
<1>1. n \in Nat /\ k \in 1 .. 7 + n /\ \A j \in 1 .. 7 + n : j # k => raw[j] = fr[j]
  BY LengthBytes
<1>2. /\ r \in Seq(Byte) /\ Len(r) = 3 + n /\ \A i \in 1 .. 3 + n : r[i] = fr[i + 2]
      /\ s \in Seq(Byte) /\ Len(s) = 3 + n /\ \A i \in 1 .. 3 + n : s[i] = raw[i + 2]
  <2>1. r \in Seq(Byte) /\ Len(r) = 3 + n
    BY RegionShape
  <2>2. \A i \in 1 .. 3 + n : r[i] = fr[i + 2]
    BY RegionIsPart, Zenon
  <2>3. s \in Seq(Byte) /\ Len(s) = 3 + n
    BY RegionShape
  <2>4. \A i \in 1 .. 3 + Len(q) : s[i] = raw[i + 2]
    BY RegionIsPart, Zenon
  <2>5. QED
    BY <2>1, <2>2, <2>3, <2>4, Zenon
<1>3. /\ fr[6 + n] = code \div 256 /\ fr[7 + n] = code % 256
      /\ raw[6 + n] = other \div 256 /\ raw[7 + n] = other % 256
  <2>1. fr[6 + n] = code \div 256 /\ fr[7 + n] = code % 256
    BY Zenon DEF Carries
  <2>2. raw[6 + Len(q)] = other \div 256 /\ raw[7 + Len(q)] = other % 256
    BY Zenon DEF Carries
  <2>3. Len(q) = n
    OBVIOUS
  <2> HIDE DEF n, code, other
  <2>4. QED
    BY <2>1, <2>2, <2>3, Zenon
<1>4. code \in Nat /\ code < WordLimit /\ other \in Nat /\ other < WordLimit
  BY CodeTyped
<1> HIDE DEF r, s
<1>5. k \notin 1 .. 4
  <2>1. fr[1] = 170 /\ fr[2] = 85 /\ raw[1] = 170 /\ raw[2] = 85
    BY DEF Carries
  <2>2. fr[3] = raw[3] /\ fr[4] = raw[4]
    BY DEF Carries
  <2>3. QED
    BY <2>1, <2>2
<1>6. CASE k \in 5 .. 5 + n
  <2>1. s = [r EXCEPT ![k - 2] = s[k - 2]]
    <3> DEFINE t == [r EXCEPT ![k - 2] = s[k - 2]]
    <3>1. k - 2 \in 1 .. 3 + n /\ s[k - 2] \in Byte
      BY <1>1, <1>2, <1>6, ElementOfSeq
    <3>2. /\ t \in Seq(Byte) /\ Len(t) = 3 + n
          /\ \A i \in 1 .. 3 + n : t[i] = IF i = k - 2 THEN s[k - 2] ELSE r[i]
      BY <1>2, <3>1, ExceptSeq
    <3>3. \A i \in 1 .. 3 + n : s[i] = t[i]
      <4>1. SUFFICES ASSUME NEW i \in 1 .. 3 + n, i # k - 2 PROVE s[i] = r[i]
        BY <3>2
      <4>2. i + 2 \in 1 .. 7 + n /\ i + 2 # k
        BY <1>1, <4>1
      <4>3. raw[i + 2] = fr[i + 2]
        BY <1>1, <4>2, Zenon
      <4>4. QED
        BY <1>2, <4>3, Zenon
    <3>4. Len(s) = Len(t) /\ \A i \in 1 .. Len(s) : s[i] = t[i]
      BY <1>2, <3>2, <3>3, Zenon
    <3> HIDE DEF t
    <3>5. s = t
      BY <1>2, <3>2, <3>4, SeqEqual, Zenon
    <3>6. QED
      BY <3>5 DEF t
  <2>2. k - 2 \in 1 .. Len(r) /\ s[k - 2] \in Byte /\ s[k - 2] # r[k - 2]
    <3>1. k - 2 \in 1 .. 3 + n /\ (k - 2) + 2 = k
      BY <1>1, <1>6
    <3>2. s[k - 2] = raw[k] /\ r[k - 2] = fr[k]
      BY <1>2, <3>1
    <3>3. s[k - 2] \in Byte
      BY <1>2, <3>1, ElementOfSeq, Zenon
    <3>4. QED
      BY <1>2, <3>1, <3>2, <3>3, Zenon
  <2>3. other # code
    <3>1. crc16Compute([r EXCEPT ![k - 2] = s[k - 2]]) # crc16Compute(r)
      BY <1>2, <2>2, CodeTellsDamage, Zenon
    <3>2. QED
      BY <2>1, <3>1
  <2>4. raw[6 + n] = fr[6 + n] /\ raw[7 + n] = fr[7 + n]
    <3>1. /\ 6 + n \in 1 .. 7 + n /\ 6 + n # k
          /\ 7 + n \in 1 .. 7 + n /\ 7 + n # k
      BY <1>1, <1>6
    <3>2. \A j \in 1 .. 7 + n : j # k => raw[j] = fr[j]
      BY <1>1
    <3> HIDE DEF n
    <3>3. raw[6 + n] = fr[6 + n]
      BY <3>1, <3>2
    <3>4. raw[7 + n] = fr[7 + n]
      BY <3>1, <3>2
    <3>5. QED
      BY <3>3, <3>4
  <2> HIDE DEF code, other, n
  <2>5. other \div 256 = code \div 256 /\ other % 256 = code % 256
    <3>1. other \div 256 = code \div 256
      BY <1>3, <2>4, Zenon
    <3>2. other % 256 = code % 256
      BY <1>3, <2>4, Zenon
    <3>3. QED
      BY <3>1, <3>2, Zenon
  <2>6. /\ other = 256 * (other \div 256) + (other % 256)
        /\ code = 256 * (code \div 256) + (code % 256)
    BY <1>4, TwoBytes
  <2>7. QED
    BY <2>3, <2>5, <2>6, Zenon
<1>7. CASE k \in 6 + n .. 7 + n
  <2>1. \A i \in 1 .. 3 + n : s[i] = r[i]
    <3>1. \A i \in 1 .. 3 + n : i + 2 \in 1 .. 7 + n /\ i + 2 # k
      BY <1>1, <1>7
    <3>2. \A i \in 1 .. 3 + n : raw[i + 2] = fr[i + 2]
      BY <1>1, <3>1, Zenon
    <3>3. QED
      BY <1>2, <3>2, Zenon
  <2>2. s = r
    BY <1>2, <2>1, SeqEqual, Zenon
  <2>3. raw[6 + n] = fr[6 + n] /\ raw[7 + n] = fr[7 + n]
    BY <1>3, <2>2, Zenon
  <2>4. k = 6 + n \/ k = 7 + n
    BY <1>1, <1>7
  <2>5. QED
    BY <2>3, <2>4, Zenon
<1>8. QED
  BY <1>1, <1>5, <1>6, <1>7

-----------------------------------------------------------------------------
(* Types.                                                                  *)

LEMMA BuffersAreBytes ==
    ASSUME NEW b \in Buffers
    PROVE  b \in Seq(Byte) /\ Len(b) = Capacity /\ \A n \in 1 .. Capacity : b[n] \in Byte
<1>1. Capacity \in Nat /\ b \in [1 .. Capacity -> Byte]
  BY BufferAssumption DEF Buffers
<1>2. QED
  BY <1>1

LEMMA OverwrittenTyped ==
    ASSUME NEW b \in Buffers, NEW bytes \in Seq(Byte)
    PROVE  /\ Overwritten(b, bytes) \in Buffers
           /\ \A n \in 1 .. Capacity : n <= Len(bytes) => Overwritten(b, bytes)[n] = bytes[n]
<1>1. DOMAIN b = 1 .. Capacity /\ \A n \in 1 .. Capacity : b[n] \in Byte
  BY BuffersAreBytes DEF Buffers
<1>2. Capacity \in Nat /\ Len(bytes) \in Nat
  BY BufferAssumption, LenProperties
<1>3. \A n \in 1 .. Capacity : n <= Len(bytes) => bytes[n] \in Byte
  BY <1>2, ElementOfSeq
<1>4. \A n \in 1 .. Capacity :
         (IF n <= Len(bytes) THEN bytes[n] ELSE b[n]) \in Byte
  BY <1>1, <1>3
<1>5. Overwritten(b, bytes) \in Buffers
  BY <1>1, <1>4 DEF Overwritten, Buffers
<1>6. QED
  BY <1>1, <1>5 DEF Overwritten

\* What a successful build is given and returns.
LEMMA BuildFits ==
    ASSUME NEW p \in Payloads, NEW size \in BufferSizes, BuildStatus(p, size) = "SUCCESS"
    PROVE  /\ Sendable(p) /\ Len(p) \in Nat
           /\ 7 + Len(p) <= size /\ 7 + Len(p) <= Capacity
<1>1. p \in Seq(Byte) /\ Len(p) \in Nat
  BY SenderAssumption, LenProperties
<1>2. size \in Nat /\ size <= Capacity /\ Capacity \in Nat
  BY BufferAssumption
<1>3. Len(p) <= PACKET_MAX_PAYLOAD_SIZE /\ 7 + Len(p) <= size
  BY <1>1, <1>2, SizeAssumption DEF BuildStatus, PACKET_MIN_PACKET_SIZE
<1>4. QED
  BY <1>1, <1>2, <1>3 DEF Sendable

\* What the receiver may pass, when it is enough for a packet.
LEMMA LengthsFit ==
    ASSUME TypeOK, NEW rawLength \in Lengths, ParseStatus(rawData, rawLength) = "SUCCESS"
    PROVE  /\ rawLength \in Nat /\ 7 <= rawLength /\ rawLength <= Capacity
           /\ received >= 4
           /\ rawLength = received \/ packetParserGetPacketSize(rawData) <= received
<1>1. received \in Nat /\ received <= Capacity /\ Capacity \in Nat
  BY BufferAssumption, LenProperties DEF TypeOK
<1>2. \/ rawLength = received
      \/ /\ rawLength = Capacity /\ received >= 4
         /\ packetParserGetPacketSize(rawData) <= received
  BY DEF Lengths
<1>3. ~(rawLength < 7)
  BY DEF ParseStatus, PACKET_MIN_PACKET_SIZE
<1>4. QED
  BY <1>1, <1>2, <1>3

LEMMA ParsedTyped ==
    ASSUME TypeOK, NEW rawLength \in Lengths, ParseStatus(rawData, rawLength) = "SUCCESS"
    PROVE  /\ ParsedFrom(rawData).commandId \in Byte
           /\ ParsedFrom(rawData) \in
                 [commandId : Byte, payloadLength : 0 .. PACKET_MAX_PAYLOAD_SIZE,
                  payload : {NULL, PACKET_OFFSET_PAYLOAD}]
<1>1. rawData \in Seq(Byte) /\ Len(rawData) = Capacity
  BY BuffersAreBytes DEF TypeOK
<1>2. PICK c \in Byte, p \in Seq(Byte) :
         Sendable(p) /\ Carries(rawData, c, p) /\ DeclaredLength(rawData) = 1 + Len(p)
  BY <1>1, LengthsFit, Accepted
<1>3. /\ rawData[5] \in Byte /\ Len(p) \in 0 .. PACKET_MAX_PAYLOAD_SIZE
  BY <1>2, LengthBytes, SizeAssumption DEF Carries, Sendable
<1>4. /\ ParsedFrom(rawData).commandId = rawData[5]
      /\ ParsedFrom(rawData).payloadLength = Len(p)
      /\ ParsedFrom(rawData).payload = IF Len(p) > 0 THEN 5 ELSE 0
  <2>1. Len(p) \in Nat /\ DeclaredLength(rawData) = 1 + Len(p)
    BY <1>2, LengthBytes
  <2>2. QED
    BY <2>1, ContentsFound, Zenon
<1>5. ParsedFrom(rawData).payload \in {NULL, PACKET_OFFSET_PAYLOAD}
  BY <1>4 DEF NULL, PACKET_OFFSET_PAYLOAD
<1>6. ParsedFrom(rawData) = [commandId |-> ParsedFrom(rawData).commandId,
                             payloadLength |-> ParsedFrom(rawData).payloadLength,
                             payload |-> ParsedFrom(rawData).payload]
  BY DEF ParsedFrom
<1>7. QED
  BY <1>3, <1>4, <1>5, <1>6

LEMMA TypeInit == Init => TypeOK
<1> SUFFICES ASSUME Init PROVE TypeOK
  OBVIOUS
<1>1. 0 \in Byte /\ Capacity \in Nat /\ 0 \in 0 .. PACKET_MAX_PAYLOAD_SIZE
  BY BufferAssumption, SizeAssumption DEF Byte
<1>2. [n \in 1 .. Capacity |-> 0] \in Buffers
  BY <1>1 DEF Buffers
<1>3. << >> \in Seq(Byte) /\ Len(<< >>) = 0
  OBVIOUS
<1>4. NoMessage \in Messages
  BY <1>1, <1>3 DEF NoMessage, Messages
<1>5. QED
  BY <1>1, <1>2, <1>3, <1>4 DEF Init, TypeOK

LEMMA TypeBuild ==
    ASSUME TypeOK, NEW c \in Commands, NEW p \in Payloads, NEW size \in BufferSizes,
           packetBuilderBuildPacket(c, p, size)
    PROVE  TypeOK'
<1>1. /\ Sendable(p) /\ 7 + Len(p) \in 0 .. Capacity /\ c \in Byte /\ p \in Seq(Byte)
  BY BuildFits, SenderAssumption, BufferAssumption DEF packetBuilderBuildPacket, Sendable
<1>2. Frame(c, p) \in Seq(Byte)
  BY <1>1, FrameShape
<1>3. packetBuffer' \in Buffers
  BY <1>2, OverwrittenTyped DEF packetBuilderBuildPacket, TypeOK
<1>4. built' \in Messages
  BY <1>1 DEF packetBuilderBuildPacket, Messages
<1>5. packetLength' \in 0 .. Capacity
  BY <1>1 DEF packetBuilderBuildPacket, PACKET_MIN_PACKET_SIZE
<1>6. UNCHANGED <<rawData, parsedPacket, frame, received, inFlight, damaged, accepted, trusted>>
  BY DEF packetBuilderBuildPacket, line, receiver
<1>7. QED
  BY <1>3, <1>4, <1>5, <1>6 DEF TypeOK

LEMMA TypeSend ==
    ASSUME TypeOK, NEW n \in Nat, NEW byte \in Byte, Send(n, byte)
    PROVE  TypeOK'
<1>1. packetLength \in Nat /\ packetLength <= Capacity /\ Capacity \in Nat
  BY BufferAssumption DEF TypeOK
<1>2. \A k \in 1 .. packetLength : (IF k = n THEN byte ELSE packetBuffer[k]) \in Byte
  BY <1>1, BuffersAreBytes DEF TypeOK
<1>3. frame' \in Seq(Byte) /\ Len(frame') = packetLength
  <2>1. frame' = [k \in 1 .. packetLength |-> IF k = n THEN byte ELSE packetBuffer[k]]
    BY DEF Send
  <2>2. frame' \in [1 .. packetLength -> Byte]
    BY <1>2, <2>1
  <2>3. QED
    BY <1>1, <2>2
<1>4. received' = 0 /\ inFlight' = built /\ damaged' = n
  BY DEF Send
<1>5. UNCHANGED <<packetBuffer, packetLength, built, rawData, parsedPacket, accepted, trusted>>
  BY DEF Send, sender, receiver
<1>6. QED
  BY <1>1, <1>3, <1>4, <1>5 DEF TypeOK

\* How many bytes the line may deliver, and what they are.
LEMMA ReceivedBytes ==
    ASSUME TypeOK, NEW count \in Stops \cup {Len(frame)}, Receive(count)
    PROVE  /\ count \in Nat /\ received < count /\ count <= Len(frame) /\ Len(frame) <= Capacity
           /\ rawData' \in Buffers
           /\ \A k \in 1 .. count : rawData'[k] = frame[k]
<1>1. /\ Len(frame) \in Nat /\ Capacity \in Nat /\ count \in Nat
      /\ \A k \in 1 .. Len(frame) : frame[k] \in Byte
  BY LenProperties, ElementOfSeq, LineAssumption, BufferAssumption DEF TypeOK
<1>2. received < count /\ count <= Len(frame) /\ Len(frame) <= Capacity
  BY DEF Receive, TypeOK
<1> DEFINE bytes == SubSeq(frame, 1, count)
<1>3. bytes \in Seq(Byte) /\ Len(bytes) = count /\ \A k \in 1 .. count : bytes[k] = frame[k]
  <2>1. /\ bytes \in Seq(Byte) /\ Len(bytes) = IF 1 <= count THEN count - 1 + 1 ELSE 0
        /\ \A k \in 1 .. count - 1 + 1 : bytes[k] = frame[1 + k - 1]
    BY <1>1, <1>2, SubSeqProperties
  <2>2. QED
    BY <1>1, <2>1
<1>4. rawData' = Overwritten(rawData, bytes)
  BY DEF Receive
<1> HIDE DEF bytes
<1>5. /\ rawData' \in Buffers
      /\ \A k \in 1 .. Capacity : k <= count => rawData'[k] = bytes[k]
  BY <1>3, <1>4, OverwrittenTyped DEF TypeOK
<1>6. QED
  BY <1>1, <1>2, <1>3, <1>5

LEMMA TypeStep == TypeOK /\ [Next]_vars => TypeOK'
<1> SUFFICES ASSUME TypeOK, [Next]_vars PROVE TypeOK'
  OBVIOUS
<1>1. ASSUME NEW p \in Payloads, NEW size \in BufferSizes,
             \/ \E c \in Commands : packetBuilderBuildPacket(c, p, size)
             \/ BuilderRefuses(p, size)
      PROVE  TypeOK'
  <2>1. CASE \E c \in Commands : packetBuilderBuildPacket(c, p, size)
    BY <2>1, TypeBuild
  <2>2. CASE BuilderRefuses(p, size)
    BY <2>2 DEF BuilderRefuses, TypeOK, vars, sender, line, receiver
  <2>3. QED
    BY <1>1, <2>1, <2>2
<1>2. CASE Send(0, 0)
  BY <1>2, TypeSend DEF Byte
<1>3. ASSUME NEW n \in DamageAt, NEW byte \in DamageBytes, Send(n, byte) PROVE TypeOK'
  BY <1>3, TypeSend, LineAssumption
<1>4. ASSUME NEW count \in Stops \cup {Len(frame)}, Receive(count) PROVE TypeOK'
  <2>1. count \in 0 .. Len(frame) /\ rawData' \in Buffers /\ received' = count
    BY <1>4, ReceivedBytes DEF Receive
  <2>2. trusted' \in {"nothing", "result", "payload"}
    BY <1>4 DEF Receive, TypeOK
  <2>3. UNCHANGED <<packetBuffer, packetLength, built, frame, inFlight, damaged, parsedPacket,
                    accepted>>
    BY <1>4 DEF Receive, sender
  <2>4. QED
    BY <2>1, <2>2, <2>3 DEF TypeOK
<1>5. ASSUME NEW rawLength \in Lengths, packetParserParse(rawLength) PROVE TypeOK'
  <2>1. parsedPacket' \in [commandId : Byte, payloadLength : 0 .. PACKET_MAX_PAYLOAD_SIZE,
                           payload : {NULL, PACKET_OFFSET_PAYLOAD}]
    BY <1>5, ParsedTyped DEF packetParserParse
  <2>2. accepted' = inFlight /\ trusted' \in {"nothing", "result", "payload"}
    BY <1>5 DEF packetParserParse
  <2>3. UNCHANGED <<packetBuffer, packetLength, built, frame, received, inFlight, damaged,
                    rawData>>
    BY <1>5 DEF packetParserParse, sender, line
  <2>4. QED
    BY <2>1, <2>2, <2>3 DEF TypeOK
<1>6. ASSUME NEW rawLength \in Lengths, ParserRefuses(rawLength) PROVE TypeOK'
  BY <1>6 DEF ParserRefuses, TypeOK, vars, sender, line, receiver
<1>7. CASE UNCHANGED vars
  BY <1>7 DEF TypeOK, vars, sender, line, receiver
<1>8. QED
  BY <1>1, <1>2, <1>3, <1>4, <1>5, <1>6, <1>7 DEF Next

\* Lengths stay within the buffers and bytes are bytes, whatever the payloads,
\* the buffer sizes and the damage.
THEOREM TypeCorrect == Spec => []TypeOK
BY TypeInit, TypeStep, PTL DEF Spec

-----------------------------------------------------------------------------
(* The invariant: what is in the buffers and on the line.                  *)

FrameOf(message) == Frame(message.commandId, message.payload)

\* The sender's buffer begins with the frame of the message that was built.
SenderInv ==
    packetLength > 0 =>
        /\ Sendable(built.payload)
        /\ packetLength = 7 + Len(built.payload)
        /\ \A k \in 1 .. packetLength : packetBuffer[k] = FrameOf(built)[k]

\* The frame on the line is the one that was sent, but for the damaged byte.
FrameInv ==
    /\ Len(frame) > 0 =>
          /\ Sendable(inFlight.payload)
          /\ Len(frame) = 7 + Len(inFlight.payload)
          /\ \A k \in 1 .. Len(frame) : k # damaged => frame[k] = FrameOf(inFlight)[k]
    /\ damaged # 0 =>
          damaged \in 1 .. Len(frame) /\ frame[damaged] # FrameOf(inFlight)[damaged]

\* The receiver's buffer begins with what has arrived.
ArrivedInv == \A k \in 1 .. received : rawData[k] = frame[k]

LineInv == TypeOK /\ SenderInv /\ FrameInv /\ ArrivedInv

\* What begins with the bytes of a frame carries its message.
LEMMA PrefixCarries ==
    ASSUME NEW raw, NEW c \in Byte, NEW p, Sendable(p),
           \A k \in 1 .. 7 + Len(p) : raw[k] = Frame(c, p)[k]
    PROVE  Carries(raw, c, p)
<1> DEFINE n == Len(p)
           fr == Frame(c, p)
<1>1. n \in Nat /\ Carries(fr, c, p)
  BY LengthBytes, FrameShape
<1>2. \A k \in 1 .. 7 + n : raw[k] = fr[k]
  OBVIOUS
<1> HIDE DEF fr
<1>3. /\ raw[1] = fr[1] /\ raw[2] = fr[2] /\ raw[3] = fr[3] /\ raw[4] = fr[4]
      /\ raw[5] = fr[5] /\ raw[6 + n] = fr[6 + n] /\ raw[7 + n] = fr[7 + n]
  BY <1>1, <1>2
<1>4. \A i \in 1 .. n : raw[5 + i] = fr[5 + i]
  BY <1>1, <1>2
<1>5. Carries(fr, c, p)
  BY <1>1
<1>6. raw[1] = 170 /\ raw[2] = 85 /\ raw[5] = c
  BY <1>3, <1>5 DEF Carries
<1>7. raw[3] = (1 + Len(p)) \div 256 /\ raw[4] = (1 + Len(p)) % 256
  BY <1>3, <1>5, Zenon DEF Carries
<1>8. \A i \in 1 .. n : raw[5 + i] = p[i]
  BY <1>4, <1>5 DEF Carries
<1>9. /\ raw[6 + n] = crc16Compute(Region(c, p)) \div 256
      /\ raw[7 + n] = crc16Compute(Region(c, p)) % 256
  BY <1>3, <1>5, Zenon DEF Carries
<1>10. QED
  BY <1>6, <1>7, <1>8, <1>9, Zenon DEF Carries

\* What carries a message begins with the bytes of its frame.
LEMMA CarriesPrefix ==
    ASSUME NEW raw, NEW c \in Byte, NEW p, Sendable(p), Carries(raw, c, p)
    PROVE  \A k \in 1 .. 7 + Len(p) : raw[k] = Frame(c, p)[k]
<1> DEFINE n == Len(p)
           fr == Frame(c, p)
<1>1. n \in Nat /\ Carries(fr, c, p)
  BY LengthBytes, FrameShape
<1> HIDE DEF fr
<1>2. /\ raw[1] = fr[1] /\ raw[2] = fr[2] /\ raw[3] = fr[3] /\ raw[4] = fr[4]
      /\ raw[5] = fr[5] /\ raw[6 + n] = fr[6 + n] /\ raw[7 + n] = fr[7 + n]
  <2>1. raw[1] = fr[1] /\ raw[2] = fr[2] /\ raw[3] = fr[3] /\ raw[4] = fr[4]
    BY <1>1, Zenon DEF Carries
  <2>2. raw[5] = fr[5] /\ raw[6 + n] = fr[6 + n] /\ raw[7 + n] = fr[7 + n]
    BY <1>1, Zenon DEF Carries
  <2>3. QED
    BY <2>1, <2>2, Zenon
<1>3. \A i \in 1 .. n : raw[5 + i] = fr[5 + i]
  <2>1. \A i \in 1 .. n : raw[5 + i] = p[i]
    BY DEF Carries
  <2>2. \A i \in 1 .. n : fr[5 + i] = p[i]
    BY <1>1 DEF Carries
  <2>3. QED
    BY <2>1, <2>2
<1>4. ASSUME NEW k \in 1 .. 7 + n PROVE raw[k] = fr[k]
  <2>1. CASE k \in 6 .. 5 + n
    <3>1. k - 5 \in 1 .. n /\ 5 + (k - 5) = k
      BY <1>1, <2>1
    <3>2. QED
      BY <1>3, <3>1
  <2>2. CASE k \in 1 .. 5 \/ k = 6 + n \/ k = 7 + n
    BY <1>2, <2>2
  <2>3. QED
    BY <1>1, <2>1, <2>2
<1>5. QED
  BY <1>4 DEF fr

LEMMA LineInit == Init => LineInv
<1> SUFFICES ASSUME Init PROVE LineInv
  OBVIOUS
<1>1. Len(<< >>) = 0
  OBVIOUS
<1>2. SenderInv /\ FrameInv /\ ArrivedInv
  BY <1>1 DEF Init, SenderInv, FrameInv, ArrivedInv
<1>3. QED
  BY <1>2, TypeInit DEF LineInv

LEMMA LineBuild ==
    ASSUME LineInv, NEW c \in Commands, NEW p \in Payloads, NEW size \in BufferSizes,
           packetBuilderBuildPacket(c, p, size)
    PROVE  SenderInv' /\ FrameInv' /\ ArrivedInv'
<1>1. /\ Sendable(p) /\ Len(p) \in Nat /\ 7 + Len(p) <= Capacity /\ c \in Byte
      /\ packetBuffer \in Buffers
  BY BuildFits, SenderAssumption DEF packetBuilderBuildPacket, LineInv, TypeOK
<1>2. Frame(c, p) \in Seq(Byte) /\ Len(Frame(c, p)) = 7 + Len(p)
  BY <1>1, FrameShape
<1>3. built' = [commandId |-> c, payload |-> p] /\ packetLength' = 7 + Len(p)
  BY DEF packetBuilderBuildPacket, PACKET_MIN_PACKET_SIZE
<1>4. packetBuffer' = Overwritten(packetBuffer, Frame(c, p))
  BY DEF packetBuilderBuildPacket
<1>5. \A k \in 1 .. 7 + Len(p) : packetBuffer'[k] = Frame(c, p)[k]
  <2>1. \A k \in 1 .. Capacity : k <= 7 + Len(p) => packetBuffer'[k] = Frame(c, p)[k]
    BY <1>1, <1>2, <1>4, OverwrittenTyped
  <2>2. \A k \in 1 .. 7 + Len(p) : k \in 1 .. Capacity
    BY <1>1, BufferAssumption
  <2>3. QED
    BY <1>1, <2>1, <2>2
<1>6. FrameOf(built)' = Frame(c, p)
  BY <1>3 DEF FrameOf
<1>7. SenderInv'
  BY <1>1, <1>3, <1>5, <1>6 DEF SenderInv
<1>8. UNCHANGED <<frame, received, inFlight, damaged, rawData>>
  BY DEF packetBuilderBuildPacket, line, receiver
<1>9. QED
  BY <1>7, <1>8 DEF LineInv, FrameInv, ArrivedInv, FrameOf

LEMMA LineSend ==
    ASSUME LineInv, NEW n \in Nat, NEW byte \in Byte, Send(n, byte),
           n # 0 => packetBuffer[n] # byte
    PROVE  SenderInv' /\ FrameInv' /\ ArrivedInv'
<1>1. /\ packetLength \in Nat /\ packetLength > 0 /\ n <= packetLength
      /\ Sendable(built.payload) /\ packetLength = 7 + Len(built.payload)
      /\ \A k \in 1 .. packetLength : packetBuffer[k] = FrameOf(built)[k]
  BY BufferAssumption DEF LineInv, SenderInv, Send, TypeOK
<1>2. /\ frame' = [k \in 1 .. packetLength |-> IF k = n THEN byte ELSE packetBuffer[k]]
      /\ received' = 0 /\ inFlight' = built /\ damaged' = n
  BY DEF Send
<1>3. Len(frame') = packetLength
  BY <1>1, <1>2
<1>4. \A k \in 1 .. packetLength : k # n => frame'[k] = FrameOf(built)[k]
  BY <1>1, <1>2
<1>5. n # 0 => n \in 1 .. packetLength /\ frame'[n] # FrameOf(built)[n]
  BY <1>1, <1>2
<1>6. FrameInv'
  BY <1>1, <1>2, <1>3, <1>4, <1>5, Zenon DEF FrameInv, FrameOf
<1>7. ArrivedInv'
  BY <1>2 DEF ArrivedInv
<1>8. SenderInv'
  BY DEF LineInv, SenderInv, Send, sender, FrameOf
<1>9. QED
  BY <1>6, <1>7, <1>8

LEMMA LineReceive ==
    ASSUME LineInv, NEW count \in Stops \cup {Len(frame)}, Receive(count)
    PROVE  SenderInv' /\ FrameInv' /\ ArrivedInv'
<1>1. ArrivedInv'
  BY ReceivedBytes DEF LineInv, ArrivedInv, Receive
<1>2. SenderInv' /\ FrameInv'
  BY DEF LineInv, SenderInv, FrameInv, FrameOf, Receive, sender
<1>3. QED
  BY <1>1, <1>2

LEMMA LineStep == LineInv /\ [Next]_vars => LineInv'
<1> SUFFICES ASSUME LineInv, [Next]_vars PROVE LineInv'
  OBVIOUS
<1>1. TypeOK'
  BY TypeStep DEF LineInv
<1>2. SenderInv' /\ FrameInv' /\ ArrivedInv'
  <2>1. ASSUME UNCHANGED <<packetBuffer, packetLength, built, frame, received, inFlight,
                           damaged, rawData>>
        PROVE  SenderInv' /\ FrameInv' /\ ArrivedInv'
    BY <2>1 DEF LineInv, SenderInv, FrameInv, ArrivedInv, FrameOf
  <2>2. ASSUME NEW p \in Payloads, NEW size \in BufferSizes,
               \/ \E c \in Commands : packetBuilderBuildPacket(c, p, size)
               \/ BuilderRefuses(p, size)
        PROVE  SenderInv' /\ FrameInv' /\ ArrivedInv'
    BY <2>1, <2>2, LineBuild DEF BuilderRefuses, vars, sender, line, receiver
  <2>3. CASE Send(0, 0)
    BY <2>3, LineSend DEF Byte
  <2>4. ASSUME NEW n \in DamageAt, NEW byte \in DamageBytes, packetBuffer[n] # byte,
               Send(n, byte)
        PROVE  SenderInv' /\ FrameInv' /\ ArrivedInv'
    BY <2>4, LineSend, LineAssumption
  <2>5. ASSUME NEW count \in Stops \cup {Len(frame)}, Receive(count)
        PROVE  SenderInv' /\ FrameInv' /\ ArrivedInv'
    BY <2>5, LineReceive
  <2>6. ASSUME NEW rawLength \in Lengths,
               packetParserParse(rawLength) \/ ParserRefuses(rawLength)
        PROVE  SenderInv' /\ FrameInv' /\ ArrivedInv'
    BY <2>1, <2>6 DEF packetParserParse, ParserRefuses, vars, sender, line, receiver
  <2>7. CASE UNCHANGED vars
    BY <2>1, <2>7 DEF vars, sender, line, receiver
  <2>8. QED
    BY <2>2, <2>3, <2>4, <2>5, <2>6, <2>7 DEF Next
<1>3. QED
  BY <1>1, <1>2 DEF LineInv

-----------------------------------------------------------------------------
(* What the invariant says of the parser.                                  *)

LEMMA Message ==
    ASSUME NEW m \in Messages
    PROVE  m.commandId \in Byte /\ m = [commandId |-> m.commandId, payload |-> m.payload]
BY DEF Messages

LEMMA KeptByInv == LineInv => FrameKept
<1> SUFFICES ASSUME LineInv, packetLength > 0
             PROVE  /\ ParseStatus(packetBuffer, packetLength) = "SUCCESS"
                    /\ Contents(ParsedFrom(packetBuffer), packetBuffer) = built
                    /\ packetParserGetPacketSize(packetBuffer) = packetLength
  BY DEF FrameKept
<1> DEFINE c == built.commandId
           p == built.payload
<1>1. c \in Byte /\ built = [commandId |-> c, payload |-> p]
  BY Message DEF LineInv, TypeOK
<1>2. Sendable(p) /\ packetLength = 7 + Len(p) /\ packetLength \in Nat
  BY BufferAssumption DEF LineInv, SenderInv, TypeOK
<1>3. \A k \in 1 .. 7 + Len(p) : packetBuffer[k] = Frame(c, p)[k]
  BY <1>2 DEF LineInv, SenderInv, FrameOf
<1> HIDE DEF c, p
<1>4. Carries(packetBuffer, c, p)
  BY <1>1, <1>2, <1>3, PrefixCarries
<1>5. 7 + Len(p) <= packetLength
  BY <1>2
<1>6. QED
  BY <1>1, <1>2, <1>4, <1>5, RoundTrip

LEMMA FramesByInv == LineInv => OnlyFrames
<1> SUFFICES ASSUME LineInv, NEW rawLength \in Lengths,
                    ParseStatus(rawData, rawLength) = "SUCCESS"
             PROVE  LET message == Contents(ParsedFrom(rawData), rawData)
                    IN  SubSeq(rawData, 1, packetParserGetPacketSize(rawData))
                            = Frame(message.commandId, message.payload)
  BY DEF OnlyFrames
<1>1. TypeOK /\ rawData \in Seq(Byte) /\ Len(rawData) = Capacity
  BY BuffersAreBytes DEF LineInv, TypeOK
<1>2. rawLength \in Nat /\ rawLength <= Len(rawData)
  BY <1>1, LengthsFit
<1>3. PICK c \in Byte, p \in Seq(Byte) :
         Sendable(p) /\ Carries(rawData, c, p) /\ 7 + Len(p) <= rawLength
  BY <1>1, <1>2, Accepted
<1>4. /\ Contents(ParsedFrom(rawData), rawData) = [commandId |-> c, payload |-> p]
      /\ packetParserGetPacketSize(rawData) = 7 + Len(p)
  BY <1>2, <1>3, RoundTrip
<1>5. \A k \in 1 .. 7 + Len(p) : rawData[k] = Frame(c, p)[k]
  BY <1>3, CarriesPrefix
<1>6. /\ Len(p) \in Nat /\ Frame(c, p) \in Seq(Byte) /\ Len(Frame(c, p)) = 7 + Len(p)
      /\ \A k \in 1 .. Len(rawData) : rawData[k] \in Byte
  BY <1>1, <1>3, LengthBytes, FrameShape, ElementOfSeq
<1> DEFINE size == 7 + Len(p)
           fr == Frame(c, p)
<1>7. size \in Nat /\ \A k \in 1 .. size : rawData[k] \in Byte
  BY <1>1, <1>2, <1>3, <1>6, BufferAssumption
<1>8. /\ SubSeq(rawData, 1, size) \in Seq(Byte) /\ Len(SubSeq(rawData, 1, size)) = size
      /\ \A k \in 1 .. size : SubSeq(rawData, 1, size)[k] = rawData[k]
  <2> HIDE DEF size
  <2>1. /\ SubSeq(rawData, 1, size) \in Seq(Byte)
        /\ Len(SubSeq(rawData, 1, size)) = IF 1 <= size THEN size - 1 + 1 ELSE 0
        /\ \A k \in 1 .. size - 1 + 1 : SubSeq(rawData, 1, size)[k] = rawData[1 + k - 1]
    BY <1>7, SubSeqProperties
  <2>2. QED
    BY <1>7, <2>1
<1>9. SubSeq(rawData, 1, size) = fr
  <2>1. /\ fr \in Seq(Byte) /\ Len(fr) = size /\ \A k \in 1 .. size : rawData[k] = fr[k]
    BY <1>5, <1>6
  <2> HIDE DEF size, fr
  <2>2. QED
    BY <1>8, <2>1, SeqEqual
<1>10. QED
  BY <1>4, <1>9

\* The frame on the line, and how its length reads where it has arrived.
LEMMA OnTheLine ==
    ASSUME LineInv, Len(frame) > 0
    PROVE  LET c == inFlight.commandId
               p == inFlight.payload
           IN  /\ c \in Byte /\ Sendable(p) /\ Len(p) \in Nat
               /\ inFlight = [commandId |-> c, payload |-> p]
               /\ Len(frame) = 7 + Len(p) /\ Len(frame) <= Capacity
               /\ \A k \in 1 .. 7 + Len(p) : k # damaged => frame[k] = Frame(c, p)[k]
               /\ Carries(Frame(c, p), c, p)
               /\ received \in Nat /\ received <= Len(frame)
<1> DEFINE c == inFlight.commandId
           p == inFlight.payload
<1>1. c \in Byte /\ inFlight = [commandId |-> c, payload |-> p]
  BY Message DEF LineInv, TypeOK
<1>2. Sendable(p) /\ Len(frame) = 7 + Len(p)
  BY DEF LineInv, FrameInv
<1>3. \A k \in 1 .. 7 + Len(p) : k # damaged => frame[k] = Frame(c, p)[k]
  BY <1>2 DEF LineInv, FrameInv, FrameOf
<1>4. received \in Nat /\ received <= Len(frame) /\ Len(frame) <= Capacity
  BY LenProperties DEF LineInv, TypeOK
<1> HIDE DEF c, p
<1>5. Len(p) \in Nat /\ Carries(Frame(c, p), c, p)
  BY <1>1, <1>2, LengthBytes, FrameShape
<1>6. QED
  BY <1>1, <1>2, <1>3, <1>4, <1>5 DEF c, p

LEMMA LengthArrived ==
    ASSUME LineInv, received >= 4, damaged \notin {3, 4}
    PROVE  /\ Len(frame) > 0
           /\ DeclaredLength(rawData) = 1 + Len(inFlight.payload)
           /\ packetParserGetPacketSize(rawData) = Len(frame)
<1> DEFINE c == inFlight.commandId
           p == inFlight.payload
<1>1. Len(frame) > 0
  BY LenProperties DEF LineInv, TypeOK
<1>2. /\ c \in Byte /\ Sendable(p) /\ Len(p) \in Nat /\ Len(frame) = 7 + Len(p)
      /\ Carries(Frame(c, p), c, p) /\ received \in Nat
      /\ \A k \in 1 .. 7 + Len(p) : k # damaged => frame[k] = Frame(c, p)[k]
  BY <1>1, OnTheLine
<1> HIDE DEF c, p
<1>3. rawData[3] = frame[3] /\ rawData[4] = frame[4]
  BY <1>2 DEF LineInv, ArrivedInv
<1>4. frame[3] = Frame(c, p)[3] /\ frame[4] = Frame(c, p)[4]
  BY <1>2
<1>5. rawData[3] = (1 + Len(p)) \div 256 /\ rawData[4] = (1 + Len(p)) % 256
  <2>1. /\ Frame(c, p)[3] = (1 + Len(p)) \div 256
        /\ Frame(c, p)[4] = (1 + Len(p)) % 256
    BY <1>2, Zenon DEF Carries
  <2>2. QED
    BY <1>3, <1>4, <2>1, Zenon
<1>6. 1 + Len(p) = 256 * ((1 + Len(p)) \div 256) + ((1 + Len(p)) % 256)
  BY <1>2, LengthBytes
<1>7. DeclaredLength(rawData) = 1 + Len(p)
  BY <1>5, <1>6, Zenon DEF DeclaredLength
<1>8. packetParserGetPacketSize(rawData) = 7 + Len(p)
  BY <1>2, <1>7, ContentsFound
<1>9. QED
  BY <1>1, <1>2, <1>7, <1>8 DEF p

\* Where the length is intact, nothing is accepted before all of the frame has
\* arrived.
LEMMA AllArrived ==
    ASSUME LineInv, damaged \notin {3, 4}, NEW rawLength \in Lengths,
           ParseStatus(rawData, rawLength) = "SUCCESS"
    PROVE  Len(frame) > 0 /\ received = Len(frame) /\ received <= rawLength
<1>1. /\ TypeOK /\ rawLength \in Nat /\ 7 <= rawLength /\ received >= 4
      /\ rawLength = received \/ packetParserGetPacketSize(rawData) <= received
  BY LengthsFit DEF LineInv
<1>2. /\ Len(frame) > 0 /\ packetParserGetPacketSize(rawData) = Len(frame)
  BY <1>1, LengthArrived
<1>3. received \in Nat /\ received <= Len(frame) /\ Len(frame) \in Nat
  BY <1>1, LenProperties DEF TypeOK
<1>4. packetParserGetPacketSize(rawData) <= rawLength
  BY DEF ParseStatus, LengthGood, packetParserGetPacketSize
<1>5. QED
  BY <1>1, <1>2, <1>3, <1>4

LEMMA IntactArrives ==
    ASSUME LineInv, damaged = 0, received = Len(frame), received > 0
    PROVE  Carries(rawData, inFlight.commandId, inFlight.payload)
<1> DEFINE c == inFlight.commandId
           p == inFlight.payload
<1>1. /\ c \in Byte /\ Sendable(p) /\ Len(p) \in Nat /\ Len(frame) = 7 + Len(p)
      /\ \A k \in 1 .. 7 + Len(p) : k # damaged => frame[k] = Frame(c, p)[k]
  BY OnTheLine
<1> HIDE DEF c, p
<1>2. \A k \in 1 .. 7 + Len(p) : rawData[k] = Frame(c, p)[k]
  BY <1>1 DEF LineInv, ArrivedInv
<1>3. Carries(rawData, c, p)
  BY <1>1, <1>2, PrefixCarries
<1>4. QED
  BY <1>3 DEF c, p

LEMMA AcceptedByInv == LineInv => IntactAccepted
<1> SUFFICES ASSUME LineInv, damaged = 0, received = Len(frame), received > 0,
                    NEW rawLength \in {received, Capacity}
             PROVE  /\ ParseStatus(rawData, rawLength) = "SUCCESS"
                    /\ Contents(ParsedFrom(rawData), rawData) = inFlight
  BY DEF IntactAccepted
<1> DEFINE c == inFlight.commandId
           p == inFlight.payload
<1>1. /\ c \in Byte /\ Sendable(p) /\ Len(frame) = 7 + Len(p) /\ Len(frame) <= Capacity
      /\ inFlight = [commandId |-> c, payload |-> p] /\ received \in Nat /\ Len(p) \in Nat
  BY OnTheLine
<1>2. Carries(rawData, c, p)
  BY IntactArrives
<1> HIDE DEF c, p
<1>3. rawLength \in Nat /\ 7 + Len(p) <= rawLength
  BY <1>1, BufferAssumption
<1>4. QED
  BY <1>1, <1>2, <1>3, RoundTrip

LEMMA WaitsByInv == LineInv => WaitsForWhole
<1> SUFFICES ASSUME LineInv, damaged = 0, received < Len(frame)
             PROVE  /\ ParseStatus(rawData, received) = "INVALID_LENGTH"
                    /\ received >= 4 => packetParserGetPacketSize(rawData) = Len(frame)
  BY DEF WaitsForWhole
<1> DEFINE c == inFlight.commandId
           p == inFlight.payload
<1>1. received \in Nat /\ Len(frame) \in Nat /\ Len(frame) > 0
  BY LenProperties DEF LineInv, TypeOK
<1>2. /\ Len(p) \in Nat /\ Len(frame) = 7 + Len(p) /\ Carries(Frame(c, p), c, p)
      /\ \A k \in 1 .. 7 + Len(p) : k # damaged => frame[k] = Frame(c, p)[k]
  BY <1>1, OnTheLine
<1> HIDE DEF c, p
<1>3. received >= 4 => packetParserGetPacketSize(rawData) = Len(frame)
  BY LengthArrived
<1>4. CASE received < 7
  BY <1>1, <1>3, <1>4 DEF ParseStatus, PACKET_MIN_PACKET_SIZE
<1>5. CASE received >= 7
  <2>1. rawData[1] = frame[1] /\ rawData[2] = frame[2]
    BY <1>1, <1>5 DEF LineInv, ArrivedInv
  <2>2. frame[1] = Frame(c, p)[1] /\ frame[2] = Frame(c, p)[2]
    BY <1>2
  <2>3. HeaderGood(rawData)
    BY <1>2, <2>1, <2>2 DEF Carries, HeaderGood, PACKET_HEADER1, PACKET_HEADER2
  <2>4. packetParserGetPacketSize(rawData) = Len(frame)
    BY <1>1, <1>3, <1>5
  <2>5. ~LengthGood(rawData, received)
    BY <1>1, <2>4 DEF LengthGood, packetParserGetPacketSize
  <2>6. QED
    BY <1>1, <1>5, <2>3, <2>4, <2>5 DEF ParseStatus, PACKET_MIN_PACKET_SIZE
<1>6. QED
  BY <1>1, <1>4, <1>5

LEMMA RefusedByInv == LineInv => DamageRefused
<1> SUFFICES ASSUME LineInv, damaged \notin {0, 3, 4}, NEW rawLength \in Lengths,
                    ParseStatus(rawData, rawLength) = "SUCCESS"
             PROVE  FALSE
  BY DEF DamageRefused
<1> DEFINE c == inFlight.commandId
           p == inFlight.payload
           fr == Frame(c, p)
<1>1. Len(frame) > 0 /\ received = Len(frame) /\ received >= 4
  BY AllArrived, LengthsFit DEF LineInv
<1>2. /\ c \in Byte /\ Sendable(p) /\ Len(p) \in Nat /\ Len(frame) = 7 + Len(p)
      /\ Carries(fr, c, p)
      /\ \A k \in 1 .. 7 + Len(p) : k # damaged => frame[k] = fr[k]
  BY <1>1, OnTheLine
<1>3. damaged \in 1 .. 7 + Len(p) /\ frame[damaged] # fr[damaged]
  BY <1>2 DEF LineInv, FrameInv, FrameOf
<1>4. DeclaredLength(rawData) = 1 + Len(p)
  BY <1>1, LengthArrived
<1> HIDE DEF c, p, fr
<1>5. \A k \in 1 .. 7 + Len(p) : rawData[k] = frame[k]
  BY <1>1, <1>2 DEF LineInv, ArrivedInv
<1>6. rawData \in Seq(Byte) /\ rawLength \in Nat /\ rawLength <= Len(rawData)
  BY BuffersAreBytes, LengthsFit DEF LineInv, TypeOK
<1>7. PICK e \in Byte, q \in Seq(Byte) :
         Sendable(q) /\ Carries(rawData, e, q) /\ DeclaredLength(rawData) = 1 + Len(q)
  BY <1>6, Accepted
<1>8. Len(q) = Len(p)
  BY <1>2, <1>4, <1>7, LengthBytes
<1>9. /\ rawData[damaged] # fr[damaged]
      /\ \A k \in 1 .. 7 + Len(p) : k # damaged => rawData[k] = fr[k]
  BY <1>2, <1>3, <1>5
<1>10. QED
  BY <1>2, <1>3, <1>7, <1>8, <1>9, DamageSeen

-----------------------------------------------------------------------------
(* What was parsed, as long as it is to be relied on.                      *)

PacketInv == LineInv /\ AcceptedWasSent

LEMMA PacketInit == Init => PacketInv
<1> SUFFICES ASSUME Init PROVE AcceptedWasSent
  BY LineInit DEF PacketInv
<1>1. SubSeq(rawData, 0 + 1, 0 + 0) = << >> /\ Len(<< >>) = 0
  BY SubSeqEmpty
<1>2. /\ parsedPacket = [commandId |-> 0, payloadLength |-> 0, payload |-> 0]
      /\ accepted = [commandId |-> 0, payload |-> << >>]
  BY DEF Init, NoMessage, NULL
<1>3. Contents(parsedPacket, rawData) = [commandId |-> 0, payload |-> << >>]
  BY <1>1, <1>2 DEF Contents
<1>4. QED
  BY <1>1, <1>2, <1>3 DEF AcceptedWasSent

LEMMA ParsedIsSent ==
    ASSUME LineInv, NEW rawLength \in Lengths, packetParserParse(rawLength)
    PROVE  AcceptedWasSent'
<1>1. /\ ParseStatus(rawData, rawLength) = "SUCCESS"
      /\ parsedPacket' = ParsedFrom(rawData) /\ accepted' = inFlight /\ rawData' = rawData
      /\ trusted' = IF damaged \in {3, 4} THEN "nothing" ELSE "payload"
  BY DEF packetParserParse
<1>2. CASE damaged \in {3, 4}
  BY <1>1, <1>2 DEF AcceptedWasSent
<1>3. CASE damaged \notin {3, 4}
  <2> DEFINE c == inFlight.commandId
             p == inFlight.payload
  <2>1. damaged = 0
    BY <1>1, <1>3, RefusedByInv DEF DamageRefused
  <2>2. Len(frame) > 0 /\ received = Len(frame) /\ received <= rawLength
    BY <1>1, <1>3, AllArrived
  <2>3. /\ c \in Byte /\ Sendable(p) /\ Len(frame) = 7 + Len(p)
        /\ inFlight = [commandId |-> c, payload |-> p]
    BY <2>2, OnTheLine
  <2>4. Carries(rawData, c, p)
    BY <2>1, <2>2, IntactArrives
  <2>5. rawLength \in Nat /\ 7 + Len(p) <= rawLength
    BY <1>1, <2>2, <2>3, LengthsFit DEF LineInv
  <2>6. /\ Contents(ParsedFrom(rawData), rawData) = inFlight
        /\ ParsedFrom(rawData).commandId = c
        /\ ParsedFrom(rawData).payloadLength = Len(p)
    <3> HIDE DEF c, p
    <3>1. QED
      BY <2>3, <2>4, <2>5, RoundTrip
  <2>7. QED
    BY <1>1, <2>6 DEF AcceptedWasSent
<1>4. QED
  BY <1>2, <1>3

LEMMA PacketStep == PacketInv /\ [Next]_vars => PacketInv'
<1> SUFFICES ASSUME PacketInv, [Next]_vars PROVE PacketInv'
  OBVIOUS
<1>1. LineInv /\ LineInv' /\ AcceptedWasSent
  BY LineStep DEF PacketInv
<1>2. AcceptedWasSent'
  <2>1. ASSUME UNCHANGED receiver PROVE AcceptedWasSent'
    BY <1>1, <2>1 DEF AcceptedWasSent, Contents, receiver
  <2>2. ASSUME NEW p \in Payloads, NEW size \in BufferSizes,
               \/ \E c \in Commands : packetBuilderBuildPacket(c, p, size)
               \/ BuilderRefuses(p, size)
        PROVE  AcceptedWasSent'
    BY <2>1, <2>2 DEF packetBuilderBuildPacket, BuilderRefuses, vars
  <2>3. ASSUME NEW n, NEW byte, Send(n, byte) PROVE AcceptedWasSent'
    BY <2>1, <2>3 DEF Send
  <2>4. ASSUME NEW count, Receive(count) PROVE AcceptedWasSent'
    BY <1>1, <2>4 DEF Receive, AcceptedWasSent
  <2>5. ASSUME NEW rawLength \in Lengths, packetParserParse(rawLength)
        PROVE  AcceptedWasSent'
    BY <1>1, <2>5, ParsedIsSent
  <2>6. ASSUME NEW rawLength, ParserRefuses(rawLength) PROVE AcceptedWasSent'
    BY <2>1, <2>6 DEF ParserRefuses, vars
  <2>7. CASE UNCHANGED vars
    BY <2>1, <2>7 DEF vars
  <2>8. QED
    BY <2>2, <2>3, <2>4, <2>5, <2>6, <2>7 DEF Next
<1>3. QED
  BY <1>1, <1>2 DEF PacketInv

LEMMA PacketInvariant == Spec => []PacketInv
BY PacketInit, PacketStep, PTL DEF Spec

\* The builder's buffer holds what the parser takes for the last message built,
\* whatever the messages, the buffer sizes and the builds refused since.
THEOREM BuilderCorrect == Spec => []FrameKept
<1>1. PacketInv => FrameKept
  BY KeptByInv DEF PacketInv
<1>2. QED
  BY <1>1, PacketInvariant, PTL

\* The parser accepts nothing but frames that the builder builds.
THEOREM ParserSound == Spec => []OnlyFrames
<1>1. PacketInv => OnlyFrames
  BY FramesByInv DEF PacketInv
<1>2. QED
  BY <1>1, PacketInvariant, PTL

\* It accepts every intact frame that has arrived, whatever stands behind it.
THEOREM ParserComplete == Spec => []IntactAccepted
<1>1. PacketInv => IntactAccepted
  BY AcceptedByInv DEF PacketInv
<1>2. QED
  BY <1>1, PacketInvariant, PTL

\* It waits for the rest of an intact frame, wherever the line pauses.
THEOREM ParserPatient == Spec => []WaitsForWhole
<1>1. PacketInv => WaitsForWhole
  BY WaitsByInv DEF PacketInv
<1>2. QED
  BY <1>1, PacketInvariant, PTL

\* It refuses a frame with a damaged byte outside the length field, whatever
\* the message, the byte and what stands behind it in the buffer.
THEOREM DamageDetected == Spec => []DamageRefused
<1>1. PacketInv => DamageRefused
  BY RefusedByInv DEF PacketInv
<1>2. QED
  BY <1>1, PacketInvariant, PTL

\* So what was parsed is what was sent, for as long as the buffer is left alone.
THEOREM ParsedCorrect == Spec => []AcceptedWasSent
<1>1. PacketInv => AcceptedWasSent
  BY DEF PacketInv
<1>2. QED
  BY <1>1, PacketInvariant, PTL
=============================================================================
