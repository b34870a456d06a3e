\* Pools of 2x2, 2x4 and 3x2 bytes at address 4; 3x4 bytes overflow a size.
CONSTANTS
    Owners = {o1, o2, o3}
    BlockSizes = {0, 2, 3}
    BlockCounts = {0, 2, 4}
    StorageStart = 4
    SizeMax = 9
    AddressMax = 13
    DeclaredFlag = {FALSE}
SYMMETRY OwnerSymmetry
SPECIFICATION Spec
INVARIANTS
    TypeOK
    FreeStackExact
    HeldByOne
    AcceptsExactlyHeld
    CountsExact
    RefusedOnlyIfBuilt
PROPERTIES
    ConfiguredOnce
    ImplementsBlockAllocator
