------------------------------ MODULE LogText ------------------------------
(***************************************************************************)
(* The text of a log message, as src/logger.c composes it: a prefix        *)
(* "[LEVEL][MODULE] " and what the caller's format yields.                 *)
(*                                                                         *)
(* What a character is does not matter, but where it comes from does: the  *)
(* characters of all texts are different.  A module name and a format with *)
(* its arguments are represented by the number of their characters.        *)
(***************************************************************************)
EXTENDS Integers, Sequences

CONSTANTS
    LOGGER_MAX_MESSAGE_LENGTH,  \* the size of the formatting buffer
    Modules,                    \* the lengths of the module names in use
    Formats                     \* the lengths of the messages in use

\* The #error of logger.h, line 232.
ASSUME LengthAssumption ==
    LOGGER_MAX_MESSAGE_LENGTH \in Nat /\ LOGGER_MAX_MESSAGE_LENGTH >= 2
ASSUME TextAssumption == Modules \subseteq Nat /\ Formats \subseteq Nat

\* LoggerLevel_t without LOGGER_LEVEL_OFF, and the thresholds, with it.
Severities == 1 .. 4
Thresholds == 0 .. 4

\* The lengths of "ERROR", "WARN", "INFO" and "DEBUG".
LevelLength == <<5, 4, 4, 5>>

PrefixText(level, module) ==
    [i \in 1 .. LevelLength[level] + module + 5 |-> <<"prefix", level, module, i>>]

BodyText(fmt) == [i \in 1 .. fmt |-> <<"message", fmt, i>>]

\* What fits into the buffer beside the terminator.
Cut(text) ==
    [i \in 1 .. (IF Len(text) < LOGGER_MAX_MESSAGE_LENGTH
                 THEN Len(text) ELSE LOGGER_MAX_MESSAGE_LENGTH - 1) |-> text[i]]

\* What the backend is given of a message: all that fits, or less when the
\* formatting of a part fails.
Texts(level, module, fmt) ==
    UNION {{Cut(prefix \o body) : body \in {BodyText(fmt), << >>}} :
              prefix \in {PrefixText(level, module), << >>}}
=============================================================================
