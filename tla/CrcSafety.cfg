\* Bytes 0x31 and 0xC8, in pieces of up to two.
CONSTANTS
    Bytes = {{0, 4, 5}, {3, 6, 7}}
    MaxPiece = 2
    MaxTotal = 3
SPECIFICATION Spec
INVARIANTS
    TypeOK
    RegisterIsRemainder
    StreamingIsOneShot
    ResultsAreCodes
    ByteDamageCaught
