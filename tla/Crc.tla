-------------------------------- MODULE Crc --------------------------------
(***************************************************************************)
(* The CRC engines of src/crc16.c and src/crc32.c, as an application uses  *)
(* one of them: E16 and E32 are their arithmetic, engine says which one.   *)
(*                                                                         *)
(* The state is the caller's context; the application sends it data in     *)
(* pieces of its choice, reads results in between, and uses the one-shot   *)
(* functions at any time.  A NULL piece with a length is refused before    *)
(* the context is touched; a NULL one without is the empty piece.          *)
(* crc32GetResult applies the final exclusive or to a copy, so that the    *)
(* application may read a result and go on.                                *)
(***************************************************************************)
EXTENDS Gf2, Sequences

CONSTANTS Bytes,     \* the byte values the application sends
          MaxPiece,  \* bytes in one piece, at most
          MaxTotal   \* bytes between two initialisations, at most

ASSUME BytesAssumption == Bytes \subseteq SUBSET (0 .. 7)
ASSUME LengthAssumption == MaxPiece \in Nat /\ MaxTotal \in Nat

VARIABLES
    engine,          \* the engine the application has chosen
    currentCRC,      \* CRC16_Context_t or CRC32_Context_t
    started,         \* history: the context was initialized
    fed,             \* history: the bytes it was fed since
    call, data,      \* the last call, the data it was given, and its answer
    status,
    crc              \* the caller's variable for a code

vars == <<engine, currentCRC, started, fed, call, data, status, crc>>

E16 == INSTANCE Crc16Engine
E32 == INSTANCE Crc32Engine

Engines == {"CRC-16", "CRC-32"}
Statuses == {"SUCCESS", "NULL_POINTER", "MISMATCH"}
Calls == {"Init", "Update", "GetResult", "Compute", "Verify"}
Pieces == UNION {[1 .. n -> Bytes] : n \in 0 .. MaxPiece}

Words == IF engine = "CRC-16" THEN E16!Words ELSE E32!Words

-----------------------------------------------------------------------------
\* A context that was never initialized holds anything.
Init ==
    /\ engine \in Engines
    /\ currentCRC \in {{}, E16!CRC16_CCITT_FALSE_POLYNOMIAL}
    /\ started = FALSE
    /\ fed = << >>
    /\ call = "Update" /\ data = << >> /\ status = "SUCCESS"
    /\ crc = {}

\* How the calls end: with an answer about some data,
Answer(name, bytes, result) == call' = name /\ data' = bytes /\ status' = result

\* after a new beginning,
Begins(register) ==
    /\ currentCRC' = register
    /\ started' = TRUE
    /\ fed' = << >>
    /\ Answer("Init", << >>, "SUCCESS")
    /\ UNCHANGED <<engine, crc>>

\* after another piece of data,
TakesIn(bytes, register) ==
    /\ currentCRC' = register
    /\ fed' = fed \o bytes
    /\ Answer("Update", << >>, "SUCCESS")
    /\ UNCHANGED <<engine, started, crc>>

\* or with a code, or a comparison.
Returns(name, bytes, result, code) ==
    /\ crc' = code
    /\ Answer(name, bytes, result)
    /\ UNCHANGED <<engine, currentCRC, started, fed>>

\* validateContext, validateBuffer or a NULL out-pointer: nothing is touched.
RefuseNull == \E name \in Calls : Returns(name, << >>, "NULL_POINTER", crc)

-----------------------------------------------------------------------------
(* crc16.c                                                                 *)

crc16Init == engine = "CRC-16" /\ Begins(E16!CRC16_INITIAL_VALUE)

\* Definitions whose comment begins with "Mistake" are plausible slips in the
\* code.  No specification uses them: each, put in place of the definition
\* that follows it, shows a property below to be violated.

\* Mistake: every piece starts from the initial value.
UpdateAnew(bytes) ==
    engine = "CRC-16" /\ TakesIn(bytes, E16!Processed(E16!CRC16_INITIAL_VALUE, bytes))

crc16Update(bytes) ==
    engine = "CRC-16" /\ TakesIn(bytes, E16!Processed(currentCRC, bytes))

crc16GetResult == engine = "CRC-16" /\ Returns("GetResult", << >>, "SUCCESS", currentCRC)

crc16Compute(bytes) ==
    engine = "CRC-16" /\ Returns("Compute", bytes, "SUCCESS", E16!OneShot(bytes))

\* The caller compares bytes with the code it has in crc.
crc16Verify(bytes) ==
    /\ engine = "CRC-16"
    /\ Returns("Verify", bytes, IF E16!Matches(bytes, crc) THEN "SUCCESS" ELSE "MISMATCH", crc)

-----------------------------------------------------------------------------
(* crc32.c                                                                 *)

crc32Init == engine = "CRC-32" /\ Begins(E32!CRC32_INITIAL_VALUE)

crc32Update(bytes) ==
    engine = "CRC-32" /\ TakesIn(bytes, E32!Processed(currentCRC, bytes))

\* Mistake: the final exclusive or is made in the context.
GetResultInPlace ==
    /\ engine = "CRC-32"
    /\ crc' = Xor(currentCRC, E32!CRC32_FINAL_XOR)
    /\ currentCRC' = crc'
    /\ Answer("GetResult", << >>, "SUCCESS")
    /\ UNCHANGED <<engine, started, fed>>

crc32GetResult ==
    /\ engine = "CRC-32"
    /\ Returns("GetResult", << >>, "SUCCESS", Xor(currentCRC, E32!CRC32_FINAL_XOR))

crc32Compute(bytes) ==
    engine = "CRC-32" /\ Returns("Compute", bytes, "SUCCESS", E32!OneShot(bytes))

crc32Verify(bytes) ==
    /\ engine = "CRC-32"
    /\ Returns("Verify", bytes, IF E32!Matches(bytes, crc) THEN "SUCCESS" ELSE "MISMATCH", crc)

-----------------------------------------------------------------------------
Next ==
    \/ RefuseNull
    \/ crc16Init \/ crc32Init
    \/ crc16GetResult \/ crc32GetResult
    \/ \E bytes \in Pieces :
        \/ Len(fed) + Len(bytes) <= MaxTotal /\ (crc16Update(bytes) \/ crc32Update(bytes))
        \/ crc16Compute(bytes) \/ crc32Compute(bytes)
        \/ crc16Verify(bytes) \/ crc32Verify(bytes)

Spec == Init /\ [][Next]_vars

-----------------------------------------------------------------------------
\* The register keeps to its sixteen or thirty-two bits, and so does every
\* result.
TypeOK ==
    /\ engine \in Engines
    /\ currentCRC \in Words /\ crc \in Words
    /\ started \in BOOLEAN
    /\ fed \in Seq(Bytes) /\ data \in Seq(Bytes)
    /\ call \in Calls /\ status \in Statuses

\* The powers of x modulo the two generators, as far as they are needed.
Longest == IF MaxPiece > MaxTotal THEN MaxPiece ELSE MaxTotal
Powers16 == E16!PowersTo(Longest)
Powers32 == E32!PowersTo(Longest)

CodeOf(bytes) ==
    IF engine = "CRC-16" THEN E16!CodeByDefinition(bytes, Powers16)
                         ELSE E32!CodeByDefinition(bytes, Powers32)

\* The register is the remainder that the definition of the code asks for, of
\* everything fed since the context was initialized, however it was cut into
\* pieces and whatever was read, computed or verified in between: reading a
\* result leaves no final exclusive or behind.
RegisterIsRemainder ==
    started => currentCRC = IF engine = "CRC-16" THEN E16!RegisterByDefinition(fed, Powers16)
                                                 ELSE E32!RegisterByDefinition(fed, Powers32)

\* Every answer is about exactly the data of its call, in whatever state the
\* context is: a result read from it is the code of all its pieces, a one-shot
\* result that of its own data, and the verification confirms data exactly if
\* the code it is given is theirs.
ResultsAreCodes ==
    status # "NULL_POINTER" =>
        /\ call = "Compute" => crc = CodeOf(data)
        /\ call = "GetResult" /\ started => crc = CodeOf(fed)
        /\ call = "Verify" => (status = "SUCCESS" <=> crc = CodeOf(data))

\* Cutting the data into pieces makes no difference: the result that the
\* context holds at any moment is the one-shot code of everything it was fed.
StreamingIsOneShot ==
    started => IF engine = "CRC-16" THEN currentCRC = E16!OneShot(fed)
               ELSE Xor(currentCRC, E32!CRC32_FINAL_XOR) = E32!OneShot(fed)

Matches(bytes, code) ==
    IF engine = "CRC-16" THEN E16!Matches(bytes, code) ELSE E32!Matches(bytes, code)

\* A code tells the data it was computed for from the same data with any one
\* byte damaged: the verification confirms no such buffer.
ByteDamageCaught ==
    call = "Compute" /\ status = "SUCCESS" =>
        \A n \in DOMAIN data, byte \in Bytes :
            byte # data[n] => ~Matches([data EXCEPT ![n] = byte], crc)
=============================================================================
