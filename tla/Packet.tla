------------------------------- MODULE Packet -------------------------------
(***************************************************************************)
(* The packet builder and the packet parser of src/packetBuilder.c and     *)
(* src/packetParser.c, with the two applications that use them and the     *)
(* line between them.                                                      *)
(*                                                                         *)
(* The sender builds frames in its packetBuffer and sends the one it has   *)
(* there.  The line may damage a byte of it, delivers it in pieces, and    *)
(* may lose the rest of it.  The receiver's rawData is a receive buffer    *)
(* that the line writes from its beginning: behind what has arrived so far *)
(* are the bytes of earlier frames.  The receiver may call the parser at   *)
(* any moment; it passes the number of bytes that have arrived, or, once   *)
(* packetParserGetPacketSize says that a whole packet has, the size of the *)
(* buffer.  The parsed payload is a position in that buffer.               *)
(*                                                                         *)
(* Bytes are numbers here, and sets of one-bits in the CRC engine.         *)
(***************************************************************************)
EXTENDS Crc16Engine

CONSTANTS PACKET_MAX_PAYLOAD_SIZE, \* 255 in protocol.h
          Commands, Payloads,      \* what the sender wants to send
          BufferSizes,             \* the buffer sizes it passes to the builder
          Capacity,                \* the real size of either buffer
          Stops,                   \* numbers of bytes after which the line may pause
          DamageAt, DamageBytes    \* positions it may damage, and what they become

Byte == 0 .. 255

\* The length field has two bytes and counts the command too.
ASSUME SizeAssumption == PACKET_MAX_PAYLOAD_SIZE \in Nat /\ PACKET_MAX_PAYLOAD_SIZE < 65535
ASSUME SenderAssumption == Commands \subseteq Byte /\ Payloads \subseteq Seq(Byte)
ASSUME BufferAssumption == Capacity \in Nat /\ BufferSizes \subseteq 0 .. Capacity
ASSUME LineAssumption ==
    Stops \subseteq Nat /\ DamageAt \subseteq Nat \ {0} /\ DamageBytes \subseteq Byte

VARIABLES
    packetBuffer, packetLength,  \* the sender's variables
    rawData, parsedPacket,       \* the receiver's variables
    frame, received,             \* the frame on the line, and how much of it arrived
    built,       \* history: the last message that was built
    inFlight,    \* history: the message whose frame is on the line
    damaged,     \* history: the position at which that frame is damaged, or 0
    accepted,    \* history: the message in flight when a packet was last parsed,
    trusted      \* and what of the result is still to be relied on

sender == <<packetBuffer, packetLength, built>>
line == <<frame, received, inFlight, damaged>>
receiver == <<rawData, parsedPacket, accepted, trusted>>

vars == <<sender, line, receiver>>

NULL == 0
NoMessage == [commandId |-> 0, payload |-> << >>]

-----------------------------------------------------------------------------
(* The wire format.  Offset k of a C array is position k + 1 of a sequence. *)

\* Definitions whose comment begins with "Mistake" are plausible slips in the
\* code.  No specification uses them: each, put in place of the definition
\* that follows it, shows a property below to be violated.

PACKET_HEADER1 == 170
PACKET_HEADER2 == 85
PACKET_OFFSET_LENGTH == 2
PACKET_OFFSET_COMMAND == 4
PACKET_OFFSET_PAYLOAD == 5
PACKET_MIN_PACKET_SIZE == 7

writeUint16BE(value) == <<value \div 256, value % 256>>
readUint16BE(bytes, offset) == 256 * bytes[offset + 1] + bytes[offset + 2]

\* A byte as the CRC engine takes it, and its register as a number.
PowerOfTwo == <<1, 2, 4, 8, 16, 32, 64, 128>>
ByteBits(byte) == {i \in 0 .. 7 : (byte \div PowerOfTwo[i + 1]) % 2 = 1}

Bit(bits, i) == IF i \in bits THEN 1 ELSE 0
ByteNumber(bits) ==
    Bit(bits, 0) + 2 * Bit(bits, 1) + 4 * Bit(bits, 2) + 8 * Bit(bits, 3)
    + 16 * Bit(bits, 4) + 32 * Bit(bits, 5) + 64 * Bit(bits, 6) + 128 * Bit(bits, 7)
WordNumber(word) == 256 * ByteNumber(Shifted(word \ (0 .. 7), -8)) + ByteNumber(word)

crc16Compute(bytes) == WordNumber(OneShot([n \in DOMAIN bytes |-> ByteBits(bytes[n])]))

-----------------------------------------------------------------------------
(* The builder.                                                            *)

\* Mistake: the CRC does not cover the payload.
CrcRegionShort(raw, declaredLength) ==
    SubSeq(raw, PACKET_OFFSET_LENGTH + 1, PACKET_OFFSET_COMMAND + 1)

\* What the CRC covers: length, command and payload.
CrcRegion(raw, declaredLength) ==
    SubSeq(raw, PACKET_OFFSET_LENGTH + 1, PACKET_OFFSET_COMMAND + declaredLength)

Frame(commandId, payload) ==
    LET declaredLength == 1 + Len(payload)
        start == <<PACKET_HEADER1, PACKET_HEADER2>> \o writeUint16BE(declaredLength)
                 \o <<commandId>> \o payload
    IN  start \o writeUint16BE(crc16Compute(CrcRegion(start, declaredLength)))

\* Mistake: the caller's buffer is taken to be large enough.
BuildStatusUnsized(payload, packetBufferSize) ==
    IF Len(payload) > PACKET_MAX_PAYLOAD_SIZE THEN "INVALID_LENGTH" ELSE "SUCCESS"

BuildStatus(payload, packetBufferSize) ==
    IF Len(payload) > PACKET_MAX_PAYLOAD_SIZE THEN "INVALID_LENGTH"
    ELSE IF packetBufferSize < PACKET_MIN_PACKET_SIZE + Len(payload) THEN "BUFFER_TOO_SMALL"
    ELSE "SUCCESS"

\* The buffer after the first bytes of it were written.
Overwritten(buffer, bytes) ==
    [n \in DOMAIN buffer |-> IF n <= Len(bytes) THEN bytes[n] ELSE buffer[n]]

-----------------------------------------------------------------------------
(* The parser.                                                             *)

PacketSize(declaredLength) == PACKET_OFFSET_COMMAND + declaredLength + 2

\* It reads the length only: four bytes have to be there.
packetParserGetPacketSize(raw) == PacketSize(readUint16BE(raw, PACKET_OFFSET_LENGTH))

\* Mistake: one header byte is enough.
HeaderHalfGood(raw) == raw[1] = PACKET_HEADER1 \/ raw[2] = PACKET_HEADER2

HeaderGood(raw) == raw[1] = PACKET_HEADER1 /\ raw[2] = PACKET_HEADER2

\* Mistake: the code need not have arrived.
LengthGoodWithoutCrc(raw, rawLength) ==
    LET declaredLength == readUint16BE(raw, PACKET_OFFSET_LENGTH)
    IN  declaredLength \in 1 .. 1 + PACKET_MAX_PAYLOAD_SIZE
        /\ PacketSize(declaredLength) <= rawLength + 2

\* Mistake: the buffer must hold one packet and nothing else.
LengthGoodExactly(raw, rawLength) ==
    LET declaredLength == readUint16BE(raw, PACKET_OFFSET_LENGTH)
    IN  declaredLength \in 1 .. 1 + PACKET_MAX_PAYLOAD_SIZE
        /\ PacketSize(declaredLength) = rawLength

LengthGood(raw, rawLength) ==
    LET declaredLength == readUint16BE(raw, PACKET_OFFSET_LENGTH)
    IN  declaredLength \in 1 .. 1 + PACKET_MAX_PAYLOAD_SIZE
        /\ PacketSize(declaredLength) <= rawLength

CrcGood(raw) ==
    LET declaredLength == readUint16BE(raw, PACKET_OFFSET_LENGTH)
    IN  crc16Compute(CrcRegion(raw, declaredLength))
            = readUint16BE(raw, PACKET_OFFSET_COMMAND + declaredLength)

ParseStatus(raw, rawLength) ==
    IF rawLength < PACKET_MIN_PACKET_SIZE THEN "INVALID_LENGTH"
    ELSE IF ~HeaderGood(raw) THEN "INVALID_HEADER"
    ELSE IF ~LengthGood(raw, rawLength) THEN "INVALID_LENGTH"
    ELSE IF ~CrcGood(raw) THEN "CRC_MISMATCH"
    ELSE "SUCCESS"

\* Mistake: the payload length is the one on the wire.
ParsedWithCommand(raw) ==
    [commandId |-> raw[PACKET_OFFSET_COMMAND + 1],
     payloadLength |-> readUint16BE(raw, PACKET_OFFSET_LENGTH),
     payload |-> PACKET_OFFSET_PAYLOAD]

\* What the parser writes when all is well; the payload is an offset.
ParsedFrom(raw) ==
    LET payloadLength == readUint16BE(raw, PACKET_OFFSET_LENGTH) - 1
    IN  [commandId |-> raw[PACKET_OFFSET_COMMAND + 1],
         payloadLength |-> payloadLength,
         payload |-> IF payloadLength > 0 THEN PACKET_OFFSET_PAYLOAD ELSE NULL]

\* The message that a receiver finds behind a parsed packet.
Contents(packet, raw) ==
    [commandId |-> packet.commandId,
     payload |-> SubSeq(raw, packet.payload + 1, packet.payload + packet.payloadLength)]

-----------------------------------------------------------------------------
Init ==
    /\ packetBuffer = [n \in 1 .. Capacity |-> 0] /\ packetLength = 0
    /\ rawData = [n \in 1 .. Capacity |-> 0]
    /\ parsedPacket = [commandId |-> 0, payloadLength |-> 0, payload |-> NULL]
    /\ frame = << >> /\ received = 0
    /\ built = NoMessage /\ inFlight = NoMessage /\ damaged = 0
    /\ accepted = NoMessage /\ trusted = "payload"

\* A call that is refused, for any reason, leaves all variables alone.
packetBuilderBuildPacket(commandId, payload, packetBufferSize) ==
    /\ BuildStatus(payload, packetBufferSize) = "SUCCESS"
    /\ packetBuffer' = Overwritten(packetBuffer, Frame(commandId, payload))
    /\ packetLength' = PACKET_MIN_PACKET_SIZE + Len(payload)
    /\ built' = [commandId |-> commandId, payload |-> payload]
    /\ UNCHANGED <<line, receiver>>

\* Mistake: header and length are written before the size is checked.
RefusesAfterWriting(payload, packetBufferSize) ==
    /\ BuildStatus(payload, packetBufferSize) # "SUCCESS"
    /\ packetBuffer' = Overwritten(packetBuffer, <<PACKET_HEADER1, PACKET_HEADER2>>
                                                 \o writeUint16BE(1 + Len(payload)))
    /\ UNCHANGED <<packetLength, built, line, receiver>>

BuilderRefuses(payload, packetBufferSize) ==
    /\ BuildStatus(payload, packetBufferSize) # "SUCCESS"
    /\ UNCHANGED vars

\* The sender hands its frame to the line, which may damage a byte of it.  The
\* rest of the frame before is lost, and the receiver starts again at the
\* beginning of its buffer.
Send(n, byte) ==
    /\ packetLength > 0
    /\ n <= packetLength
    /\ frame' = [k \in 1 .. packetLength |-> IF k = n THEN byte ELSE packetBuffer[k]]
    /\ damaged' = n
    /\ received' = 0
    /\ inFlight' = built
    /\ UNCHANGED <<sender, receiver>>

\* Bytes arrive, up to the next stop.
Receive(count) ==
    /\ received < count /\ count <= Len(frame)
    /\ rawData' = Overwritten(rawData, SubSeq(frame, 1, count))
    /\ received' = count
    /\ trusted' = IF trusted = "payload" THEN "result" ELSE trusted
    /\ UNCHANGED <<sender, frame, inFlight, damaged, parsedPacket, accepted>>

packetParserParse(rawLength) ==
    /\ ParseStatus(rawData, rawLength) = "SUCCESS"
    /\ parsedPacket' = ParsedFrom(rawData)
    /\ accepted' = inFlight
    /\ trusted' = IF damaged \in {3, 4} THEN "nothing" ELSE "payload"
    /\ UNCHANGED <<sender, line, rawData>>

ParserRefuses(rawLength) ==
    /\ ParseStatus(rawData, rawLength) # "SUCCESS"
    /\ UNCHANGED vars

\* The lengths the receiver may pass for what is in its buffer.
Lengths ==
    {received} \cup
    {n \in {Capacity} : received >= 4 /\ packetParserGetPacketSize(rawData) <= received}

Next ==
    \/ \E payload \in Payloads, size \in BufferSizes :
          \/ \E commandId \in Commands : packetBuilderBuildPacket(commandId, payload, size)
          \/ BuilderRefuses(payload, size)
    \/ Send(0, 0)
    \/ \E n \in DamageAt, byte \in DamageBytes : packetBuffer[n] # byte /\ Send(n, byte)
    \/ \E count \in Stops \cup {Len(frame)} : Receive(count)
    \/ \E rawLength \in Lengths : packetParserParse(rawLength) \/ ParserRefuses(rawLength)

Spec == Init /\ [][Next]_vars

-----------------------------------------------------------------------------
Messages == [commandId : Byte, payload : Seq(Byte)]
Buffers == [1 .. Capacity -> Byte]

\* Lengths stay within the buffers, and everything in a buffer is a byte.
TypeOK ==
    /\ packetBuffer \in Buffers /\ rawData \in Buffers
    /\ packetLength \in 0 .. Capacity
    /\ parsedPacket \in [commandId : Byte, payloadLength : 0 .. PACKET_MAX_PAYLOAD_SIZE,
                         payload : {NULL, PACKET_OFFSET_PAYLOAD}]
    /\ frame \in Seq(Byte) /\ Len(frame) <= Capacity
    /\ received \in 0 .. Len(frame)
    /\ {built, inFlight, accepted} \subseteq Messages
    /\ damaged \in Nat
    /\ trusted \in {"nothing", "result", "payload"}

\* What the builder left in the sender's buffer is a packet that the parser
\* takes for the last message that was built, whatever was refused since:
\* a failed build writes nothing.
FrameKept ==
    packetLength > 0 =>
        /\ ParseStatus(packetBuffer, packetLength) = "SUCCESS"
        /\ Contents(ParsedFrom(packetBuffer), packetBuffer) = built
        /\ packetParserGetPacketSize(packetBuffer) = packetLength

\* As long as the rest of an intact frame is missing, the parser refuses what
\* there is of it, even where the rest of an earlier frame stands behind it;
\* and the receiver can tell from four bytes how many it has to wait for.
WaitsForWhole ==
    damaged = 0 /\ received < Len(frame) =>
        /\ ParseStatus(rawData, received) = "INVALID_LENGTH"
        /\ received >= 4 => packetParserGetPacketSize(rawData) = Len(frame)

\* An intact frame that has arrived is accepted, whatever stands behind it in
\* the buffer, and is the message that was sent.
IntactAccepted ==
    damaged = 0 /\ received = Len(frame) /\ received > 0 =>
        \A rawLength \in {received, Capacity} :
            /\ ParseStatus(rawData, rawLength) = "SUCCESS"
            /\ Contents(ParsedFrom(rawData), rawData) = inFlight

\* A frame with a damaged byte in its header, command, payload or code is not
\* accepted.
DamageRefused ==
    damaged \notin {0, 3, 4} =>
        \A rawLength \in Lengths : ParseStatus(rawData, rawLength) # "SUCCESS"

\* The parser accepts nothing but what the builder would have built, to the
\* last bit, whatever is in its buffer.
OnlyFrames ==
    \A rawLength \in Lengths :
        ParseStatus(rawData, rawLength) = "SUCCESS" =>
            LET message == Contents(ParsedFrom(rawData), rawData)
            IN  SubSeq(rawData, 1, packetParserGetPacketSize(rawData))
                    = Frame(message.commandId, message.payload)

\* A packet that was parsed is the one that was sent, unless its length was
\* damaged: its command and length stay so whatever is received or refused
\* later, and its payload as long as nothing is received into the buffer it
\* is in.
AcceptedWasSent ==
    /\ trusted # "nothing" =>
          /\ parsedPacket.commandId = accepted.commandId
          /\ parsedPacket.payloadLength = Len(accepted.payload)
    /\ trusted = "payload" => Contents(parsedPacket, rawData) = accepted

\* docs/packetParser-design.md, lines 44 to 46: the parser reads exactly 7 plus
\* the decoded length bytes, so it accepts nothing where fewer are available.
ReadsDocumentedSize ==
    \A rawLength \in Lengths :
        ParseStatus(rawData, rawLength) = "SUCCESS" =>
            rawLength >= 7 + readUint16BE(rawData, PACKET_OFFSET_LENGTH)
=============================================================================
