\* A buffer of 12: the prefix of WARN has 9 or 12 characters, so that a
\* message of 2 just fits, one of 3 does not, and the prefix may not fit either.
CONSTANTS
    LOGGER_MAX_MESSAGE_LENGTH = 12
    Modules = {0, 3}
    Formats = {2, 3}
    Tasks = {t1, t2}
    MaxDepth = 2
    MaxOpen = 2
    Levels = {0, 2, 5}
    Backends = {uart}
    Contexts = {port}
    NULL = NULL
    Failures = {1}
SPECIFICATION Spec
SYMMETRY TaskSymmetry
INVARIANTS
    TypeOK
    MessageTerminated
PROPERTIES
    ImplementsLogService
