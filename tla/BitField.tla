------------------------------ MODULE BitField ------------------------------
(***************************************************************************)
(* What bitUtils promises: a register is a row of bits, of which single    *)
(* ones and whole fields are written and read; what is not written stays,  *)
(* and what is refused changes nothing.                                    *)
(***************************************************************************)
EXTENDS Binary

CONSTANTS
    Width,     \* bits of the register
    Counts,    \* the positions and widths that callers pass, bad ones too
    Numbers    \* the numbers they insert

VARIABLES
    bit,               \* the register: position 0 is the lowest
    extracted, isSet,  \* the callers' variables for what is read
    call, status       \* the last call, name and arguments, and its answer

vars == <<bit, extracted, isSet, call, status>>

Positions == 0 .. Width - 1

\* The number that the bits of a field make.
Makes(number, start, n) ==
    number < TwoTo[n] /\ \A i \in 0 .. n - 1 : Digit(number, i) = bit[start + i]

Init ==
    /\ bit \in [Positions -> {0, 1}]
    /\ extracted = 0 /\ isSet = FALSE
    /\ call = << >> /\ status = "SUCCESS"

Refuse(reason) == status' = reason /\ UNCHANGED <<bit, extracted, isSet>>

\* A bit is set, cleared or turned over.
WriteBit(operation, p) ==
    /\ p \in Positions
    /\ bit' = [bit EXCEPT ![p] = CASE operation = "SetBit" -> 1
                                   [] operation = "ClearBit" -> 0
                                   [] operation = "ToggleBit" -> 1 - bit[p]]
    /\ status' = "SUCCESS"
    /\ UNCHANGED <<extracted, isSet>>

ReadBit(p) ==
    /\ p \in Positions
    /\ isSet' = (bit[p] = 1)
    /\ status' = "SUCCESS"
    /\ UNCHANGED <<bit, extracted>>

RefuseBit(p) == p \notin Positions /\ Refuse("INVALID_BIT_POSITION")

IsField(start, n) == start \in Positions /\ n \in 1 .. Width - start

Extract(start, n) ==
    /\ IsField(start, n)
    /\ extracted' \in Nat /\ Makes(extracted', start, n)
    /\ status' = "SUCCESS"
    /\ UNCHANGED <<bit, isSet>>

Insert(number, start, n) ==
    /\ IsField(start, n) /\ number < TwoTo[n]
    /\ \A p \in Positions :
          bit'[p] = IF p \in start .. start + n - 1 THEN Digit(number, p - start) ELSE bit[p]
    /\ status' = "SUCCESS"
    /\ UNCHANGED <<extracted, isSet>>

RefuseField(start, n) ==
    \/ start \notin Positions /\ Refuse("INVALID_START_BIT")
    \/ start \in Positions /\ ~IsField(start, n) /\ Refuse("INVALID_NUM_BITS")

RefuseNumber(number, start, n) ==
    IsField(start, n) /\ number >= TwoTo[n] /\ Refuse("INVALID_VALUE")

\* What a call of each operation may do, by its arguments.
OnBit == {"SetBit", "ClearBit", "ToggleBit", "IsBitSet"}
OnField == {"ExtractBits", "InsertBits"}

Single(operation, p) ==
    \/ operation # "IsBitSet" /\ WriteBit(operation, p)
    \/ operation = "IsBitSet" /\ ReadBit(p)
    \/ RefuseBit(p)

Extraction(start, n) == Extract(start, n) \/ RefuseField(start, n)

Insertion(number, start, n) ==
    Insert(number, start, n) \/ RefuseNumber(number, start, n) \/ RefuseField(start, n)

\* The arguments of a call without a place for its result do not matter.
Next ==
    \/ \E operation \in OnBit \cup OnField :
          call' = <<operation>> /\ Refuse("NULL_POINTER")
    \/ \E operation \in OnBit, p \in Counts :
          call' = <<operation, p>> /\ Single(operation, p)
    \/ \E start, n \in Counts :
          call' = <<"ExtractBits", start, n>> /\ Extraction(start, n)
    \/ \E number \in Numbers, start, n \in Counts :
          call' = <<"InsertBits", number, start, n>> /\ Insertion(number, start, n)

Spec == Init /\ [][Next]_vars
=============================================================================
