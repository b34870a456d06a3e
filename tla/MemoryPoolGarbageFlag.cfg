\* A pool declared on the stack, not zero-initialized.
CONSTANTS
    Owners = {o1, o2, o3}
    BlockSizes = {0, 2, 3}
    BlockCounts = {0, 2, 4}
    StorageStart = 4
    SizeMax = 9
    AddressMax = 13
    DeclaredFlag = {FALSE, TRUE}
SPECIFICATION Spec
INVARIANTS
    RefusedOnlyIfBuilt
