\* Frames of 7 to 9 bytes, messages whose frames do not fit into the buffer, and
\* damage in every field.
CONSTANTS
    PACKET_MAX_PAYLOAD_SIZE = 3
    Commands = {85}
    Payloads <- MCPayloads
    BufferSizes = {6, 8, 9}
    Capacity = 9
    Stops = {4, 7}
    DamageAt = {2, 3, 4, 5, 6, 8}
    DamageBytes = {1}
SPECIFICATION Spec
INVARIANTS
    TypeOK
    FrameKept
    WaitsForWhole
    IntactAccepted
    DamageRefused
    OnlyFrames
    AcceptedWasSent
