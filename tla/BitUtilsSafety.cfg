\* A word of three bits; every position, start and width of a call, and those
\* just outside; every value of a word, those too large for the field among
\* them.
CONSTANTS
    BIT_UTILS_WORD_SIZE_BITS = 3
    Counts = {0, 1, 2, 3, 4}
    Numbers = {0, 1, 2, 3, 4, 5, 6, 7}
SPECIFICATION Spec
PROPERTIES
    ImplementsBitField
