------------------------------ MODULE BitUtils ------------------------------
(***************************************************************************)
(* The bit operations of src/bitUtils.c on the register of an application, *)
(* which passes the register by value and has the result written back to   *)
(* it.  A word is its number, below two to the width of the word; the      *)
(* operators of C are the arithmetic or the work on digits that they stand *)
(* for.  A shift by the width of the word or more, which C leaves          *)
(* undefined, takes the count modulo the width, as the usual processors    *)
(* do.                                                                     *)
(*                                                                         *)
(* Every function checks the pointer for its result first: refusing NULL   *)
(* is one action, Refuse.  A call is its name, followed by its arguments   *)
(* if it has a place for its result.                                       *)
(***************************************************************************)
EXTENDS Binary

CONSTANTS
    BIT_UTILS_WORD_SIZE_BITS,
    Counts,     \* the positions and widths that the application passes
    Numbers     \* the values it inserts

ASSUME WidthAssumption == BIT_UTILS_WORD_SIZE_BITS \in Nat \ {0}
ASSUME ArgumentAssumption ==
    Counts \subseteq Nat /\ Numbers \subseteq 0 .. TwoTo[BIT_UTILS_WORD_SIZE_BITS] - 1

VARIABLES
    value,          \* the application's register
    extractedBits,  \* its variable for the results of ExtractBits
    isSet,          \* and of IsBitSet
    call, status    \* the last call, function and arguments, and what it returned

vars == <<value, extractedBits, isSet, call, status>>

UINT32_MAX == TwoTo[BIT_UTILS_WORD_SIZE_BITS] - 1
Words == 0 .. UINT32_MAX

\* The operators of C on words: ~, << and >>,
Complement(a) == UINT32_MAX - a
ShiftLeft(a, n) ==
    (a * TwoTo[n % BIT_UTILS_WORD_SIZE_BITS]) % TwoTo[BIT_UTILS_WORD_SIZE_BITS]
ShiftRight(a, n) == a \div TwoTo[n % BIT_UTILS_WORD_SIZE_BITS]

\* and &, | and ^.
OnesOf(a) == Ones(a, BIT_UTILS_WORD_SIZE_BITS)
WordOf(ones) == Number(ones, BIT_UTILS_WORD_SIZE_BITS)

And(a, b) == WordOf(OnesOf(a) \cap OnesOf(b))
Or(a, b) == WordOf(OnesOf(a) \cup OnesOf(b))
Xor(a, b) == WordOf((OnesOf(a) \ OnesOf(b)) \cup (OnesOf(b) \ OnesOf(a)))

\* Definitions whose comment begins with "Mistake" are plausible slips in the
\* code.  No specification uses them: each, put in place of the definition
\* that follows it, shows the property below to be violated.

\* Mistake: the first position outside the word passes.
validateBitPositionInclusive(bitPosition) ==
    IF bitPosition > BIT_UTILS_WORD_SIZE_BITS THEN "INVALID_BIT_POSITION" ELSE "SUCCESS"

validateBitPosition(bitPosition) ==
    IF bitPosition >= BIT_UTILS_WORD_SIZE_BITS THEN "INVALID_BIT_POSITION" ELSE "SUCCESS"

validateBitRange(startBit, numBits) ==
    IF startBit >= BIT_UTILS_WORD_SIZE_BITS THEN "INVALID_START_BIT"
    ELSE IF numBits = 0 \/ numBits > BIT_UTILS_WORD_SIZE_BITS - startBit
         THEN "INVALID_NUM_BITS" ELSE "SUCCESS"

\* Mistake: the mask of the whole word is left to the shift.
generateMaskByShift(numBits) == ShiftLeft(1, numBits) - 1

generateMask(numBits) ==
    IF numBits = BIT_UTILS_WORD_SIZE_BITS THEN UINT32_MAX ELSE ShiftLeft(1, numBits) - 1

-----------------------------------------------------------------------------
Init ==
    /\ value \in Words
    /\ extractedBits = 0 /\ isSet = FALSE
    /\ call = << >> /\ status = "SUCCESS"

Answer(request, result) == call' = request /\ status' = result

Refuse(request, reason) ==
    Answer(request, reason) /\ UNCHANGED <<value, extractedBits, isSet>>

\* The outcomes of a check: refused, or passed on to what follows it.
Refused(request, check) == check # "SUCCESS" /\ Refuse(request, check)
Accepted(request, check) == check = "SUCCESS" /\ Answer(request, "SUCCESS")

\* A function that gives the application a new word for its register.
Writes(request, check, updatedValue) ==
    \/ Refused(request, check)
    \/ Accepted(request, check) /\ value' = updatedValue /\ UNCHANGED <<extractedBits, isSet>>

bitUtilsSetBit(p) ==
    Writes(<<"SetBit", p>>, validateBitPosition(p), Or(value, ShiftLeft(1, p)))

bitUtilsClearBit(p) ==
    Writes(<<"ClearBit", p>>, validateBitPosition(p), And(value, Complement(ShiftLeft(1, p))))

bitUtilsToggleBit(p) ==
    Writes(<<"ToggleBit", p>>, validateBitPosition(p), Xor(value, ShiftLeft(1, p)))

bitUtilsIsBitSet(p) ==
    \/ Refused(<<"IsBitSet", p>>, validateBitPosition(p))
    \/ /\ Accepted(<<"IsBitSet", p>>, validateBitPosition(p))
       /\ isSet' = (And(value, ShiftLeft(1, p)) # 0)
       /\ UNCHANGED <<value, extractedBits>>

bitUtilsExtractBits(startBit, numBits) ==
    LET request == <<"ExtractBits", startBit, numBits>>
        range == validateBitRange(startBit, numBits)
        mask == ShiftLeft(generateMask(numBits), startBit)
    IN  \/ Refused(request, range)
        \/ /\ Accepted(request, range)
           /\ extractedBits' = ShiftRight(And(value, mask), startBit)
           /\ UNCHANGED <<value, isSet>>

\* Mistake: the bit above the field is cleared with it.
InsertBitsTooWide(bitsToInsert, startBit, numBits) ==
    LET maxValueForWidth == generateMask(numBits)
        mask == ShiftLeft(ShiftLeft(maxValueForWidth, 1) + 1, startBit)
        range == validateBitRange(startBit, numBits)
        check == IF range = "SUCCESS" /\ bitsToInsert > maxValueForWidth
                 THEN "INVALID_VALUE" ELSE range
    IN  Writes(<<"InsertBits", bitsToInsert, startBit, numBits>>, check,
               Or(And(value, Complement(mask)), And(ShiftLeft(bitsToInsert, startBit), mask)))

bitUtilsInsertBits(bitsToInsert, startBit, numBits) ==
    LET maxValueForWidth == generateMask(numBits)
        mask == ShiftLeft(maxValueForWidth, startBit)
        range == validateBitRange(startBit, numBits)
        check == IF range = "SUCCESS" /\ bitsToInsert > maxValueForWidth
                 THEN "INVALID_VALUE" ELSE range
    IN  Writes(<<"InsertBits", bitsToInsert, startBit, numBits>>, check,
               Or(And(value, Complement(mask)), And(ShiftLeft(bitsToInsert, startBit), mask)))

Calls == {"SetBit", "ClearBit", "ToggleBit", "IsBitSet", "ExtractBits", "InsertBits"}

Next ==
    \/ \E name \in Calls : Refuse(<<name>>, "NULL_POINTER")
    \/ \E p \in Counts :
          \/ bitUtilsSetBit(p)
          \/ bitUtilsClearBit(p)
          \/ bitUtilsToggleBit(p)
          \/ bitUtilsIsBitSet(p)
    \/ \E startBit, numBits \in Counts :
          \/ bitUtilsExtractBits(startBit, numBits)
          \/ \E bitsToInsert \in Numbers : bitUtilsInsertBits(bitsToInsert, startBit, numBits)

Spec == Init /\ [][Next]_vars

-----------------------------------------------------------------------------
\* Masks and shifts add up to operations on a row of bits, on the very bit or
\* field that the call names and with the number it passes: a field that is
\* inserted is the field that is extracted, up to the whole word and at both
\* of its ends, the bits around it stay, a value too wide for its field is
\* refused, and a refusal leaves the callers' variables as they were.
Register == INSTANCE BitField WITH
    Width <- BIT_UTILS_WORD_SIZE_BITS,
    bit <- [i \in 0 .. BIT_UTILS_WORD_SIZE_BITS - 1 |-> Digit(value, i)],
    extracted <- extractedBits

ImplementsBitField == Register!Spec
=============================================================================
