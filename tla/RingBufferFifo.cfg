\* Three distinct elements in up to four slots, the largest capacity half the
\* range of a size_t.
CONSTANTS
    Elements = {e1, e2, e3}
    NoElement = NoElement
    Capacities = {0, 1, 2, 3, 4}
    ElementSizes = {0, 1}
    WordRange = 8
SYMMETRY ElementSymmetry
SPECIFICATION ClientSpec
INVARIANTS
    TypeOK
    QueriesAgree
    HoldsOnlyPushed
    SnapshotsHold
PROPERTIES
    ImplementsFifo
