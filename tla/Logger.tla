------------------------------- MODULE Logger -------------------------------
(***************************************************************************)
(* The logger of src/logger.c: one Logger_t, which several tasks log to.   *)
(*                                                                         *)
(* loggerWrite is four steps: its checks, the prefix, the message, and the *)
(* call of the backend, which may itself log or configure the logger.  Any *)
(* other task may run between them.  Each call in progress has a frame     *)
(* with its arguments and its locals; frames of one task are nested.       *)
(*                                                                         *)
(* The header leaves it to the callers that the configuration is not       *)
(* changed while a call is between its checks and its backend              *)
(* (Synchronized).  The Logger_t has been initialized once.                *)
(***************************************************************************)
EXTENDS LogText, FiniteSets

CONSTANTS
    Tasks,
    MaxDepth,            \* calls of loggerWrite that a task is in, at most
    MaxOpen,             \* calls of loggerWrite that all tasks are in, at most
    Levels,              \* the levels that callers pass, bad ones too
    Backends, Contexts,  \* what they register
    NULL,
    Failures             \* characters written by a formatting that fails

ASSUME BoundAssumption == MaxDepth \in Nat /\ MaxOpen \in Nat
ASSUME CallAssumption ==
    Levels \subseteq Int /\ Levels # {} /\ Failures \subseteq Nat
ASSUME NullAssumption == NULL \notin Backends \cup Contexts \cup Modules \cup Formats

VARIABLES
    backend, backendContext, runtimeThreshold,  \* Logger_t
    depth,      \* calls of loggerWrite that a task is in
    frame,      \* and their frames, the outermost first
    answer      \* the last call that returned, and its status

logger == <<backend, backendContext, runtimeThreshold>>
vars == <<logger, depth, frame, answer>>

Calls == {"Configure", "GetLevel", "Write"}
Statuses == {"SUCCESS", "NULL_POINTER", "NO_BACKEND", "INVALID_LEVEL"}

Depths == 1 .. MaxDepth
Positions == 0 .. LOGGER_MAX_MESSAGE_LENGTH - 1

\* The terminator, and what a local array holds before it is written.
Nul == <<"NUL">>
Garbage == <<"garbage">>

NoFrame == [at |-> "none", level |-> 0, module |-> 0, fmt |-> 0,
            buffer |-> [i \in Positions |-> Garbage], used |-> 0, totalLen |-> 0,
            to |-> NULL, context |-> NULL]

InProgress == {call \in Tasks \X Depths : call[2] <= depth[call[1]]}

Top(t) == frame[t][depth[t]]
At(t, point) == depth[t] > 0 /\ Top(t).at = point

\* A task runs code of its own outside of loggerWrite, or in a backend.
Free(t) == depth[t] > 0 => Top(t).at = "backend"

\* No call is between its checks and its backend.
Synchronized == \A t \in Tasks : Free(t)

SetTop(t, new) == frame' = [frame EXCEPT ![t][depth[t]] = new]

Answer(call, level, status) == answer' = [call |-> call, level |-> level, status |-> status]

\* After loggerInit.
Init ==
    /\ backend = NULL /\ backendContext = NULL
    /\ runtimeThreshold \in Levels \cap Thresholds
    /\ depth = [t \in Tasks |-> 0]
    /\ frame = [t \in Tasks |-> [d \in Depths |-> NoFrame]]
    /\ answer = [call |-> "Configure", level |-> 0, status |-> "SUCCESS"]

-----------------------------------------------------------------------------
(* snprintf and vsnprintf, and what loggerWrite makes of their answer.     *)

\* The first n characters of a text, from a position of the buffer on.
Put(buffer, at, text, n) ==
    [i \in Positions |-> IF i >= at /\ i < at + n THEN text[i - at + 1] ELSE buffer[i]]

\* How many characters of a text there is room for, beside the terminator.
Fitting(at, text) ==
    IF Len(text) < LOGGER_MAX_MESSAGE_LENGTH - at
    THEN Len(text) ELSE LOGGER_MAX_MESSAGE_LENGTH - at - 1

\* The buffer and the answer: the length of the whole text; or a negative
\* number after any part of it, with no terminator.
Printed(buffer, at, text) ==
    {[buffer |-> [Put(buffer, at, text, Fitting(at, text)) EXCEPT ![at + Fitting(at, text)] = Nul],
      result |-> Len(text)]}
    \cup {[buffer |-> Put(buffer, at, text, n), result |-> -1] :
             n \in {k \in Failures : k <= Fitting(at, text)}}

\* Definitions whose comment begins with "Mistake" are plausible slips in the
\* code.  No specification uses them: each, put in place of the definition
\* that follows it, shows a property below to be violated.

\* Mistake: a text that just fills the buffer is taken to fit.
WrittenOffByOne(result, size) ==
    IF result < 0 THEN 0 ELSE IF result <= size THEN result ELSE size - 1

\* The clamping of prefixLen and of msgLen.
Written(result, size) ==
    IF result < 0 THEN 0 ELSE IF result < size THEN result ELSE size - 1

\* Mistake: a failed formatting leaves the buffer as it is.
UnterminatedFailure(out, at) == out.buffer

\* An encoding error is followed by a terminator.
Terminated(out, at) ==
    IF out.result < 0 THEN [out.buffer EXCEPT ![at] = Nul] ELSE out.buffer

-----------------------------------------------------------------------------
(* loggerWrite                                                             *)

\* Its checks, in their order.
Status(level, module, fmt) ==
    IF level \notin Severities THEN "INVALID_LEVEL"
    ELSE IF level > runtimeThreshold THEN "SUCCESS"
    ELSE IF module = NULL \/ fmt = NULL THEN "NULL_POINTER"
    ELSE IF backend = NULL THEN "NO_BACKEND"
    ELSE "go on"

WriteReturns(t, level, module, fmt) ==
    /\ Free(t)
    /\ Status(level, module, fmt) # "go on"
    /\ Answer("Write", level, Status(level, module, fmt))
    /\ UNCHANGED <<logger, depth, frame>>

WriteBegins(t, level, module, fmt) ==
    /\ Free(t) /\ depth[t] < MaxDepth /\ Cardinality(InProgress) < MaxOpen
    /\ Status(level, module, fmt) = "go on"
    /\ depth' = [depth EXCEPT ![t] = @ + 1]
    /\ frame' = [frame EXCEPT ![t][depth[t] + 1] =
                    [NoFrame EXCEPT !.at = "prefix", !.level = level,
                                    !.module = module, !.fmt = fmt]]
    /\ UNCHANGED <<logger, answer>>

FormatPrefix(t) ==
    /\ At(t, "prefix")
    /\ \E out \in Printed(Top(t).buffer, 0, PrefixText(Top(t).level, Top(t).module)) :
          SetTop(t, [Top(t) EXCEPT
                        !.at = "message",
                        !.buffer = Terminated(out, 0),
                        !.used = Written(out.result, LOGGER_MAX_MESSAGE_LENGTH)])
    /\ UNCHANGED <<logger, depth, answer>>

\* Mistake: the buffer is static, and all calls share it.
FormatMessageShared(t) ==
    /\ At(t, "message")
    /\ \E out \in Printed(Top(t).buffer, Top(t).used, BodyText(Top(t).fmt)) :
          frame' = [u \in Tasks |-> [d \in Depths |->
             IF u = t /\ d = depth[t]
             THEN [frame[u][d] EXCEPT
                     !.at = "call",
                     !.buffer = Terminated(out, Top(t).used),
                     !.totalLen = Top(t).used
                          + Written(out.result, LOGGER_MAX_MESSAGE_LENGTH - Top(t).used)]
             ELSE [frame[u][d] EXCEPT !.buffer = Terminated(out, Top(t).used)]]]
    /\ UNCHANGED <<logger, depth, answer>>

FormatMessage(t) ==
    /\ At(t, "message")
    /\ \E out \in Printed(Top(t).buffer, Top(t).used, BodyText(Top(t).fmt)) :
          SetTop(t, [Top(t) EXCEPT
                        !.at = "call",
                        !.buffer = Terminated(out, Top(t).used),
                        !.totalLen = Top(t).used
                             + Written(out.result, LOGGER_MAX_MESSAGE_LENGTH - Top(t).used)])
    /\ UNCHANGED <<logger, depth, answer>>

\* The pointers of the Logger_t are read again.
CallBackend(t) ==
    /\ At(t, "call")
    /\ SetTop(t, [Top(t) EXCEPT !.at = "backend", !.to = backend, !.context = backendContext])
    /\ UNCHANGED <<logger, depth, answer>>

BackendReturns(t) ==
    /\ At(t, "backend")
    /\ depth' = [depth EXCEPT ![t] = @ - 1]
    /\ SetTop(t, NoFrame)
    /\ Answer("Write", Top(t).level, "SUCCESS")
    /\ UNCHANGED logger

-----------------------------------------------------------------------------
(* The other functions.                                                    *)

loggerInit(t, initialThreshold) ==
    /\ Synchronized /\ initialThreshold \in Thresholds
    /\ backend' = NULL /\ backendContext' = NULL
    /\ runtimeThreshold' = initialThreshold
    /\ Answer("Configure", 0, "SUCCESS")
    /\ UNCHANGED <<depth, frame>>

loggerSetBackend(t, function, context) ==
    /\ Synchronized
    /\ backend' = function /\ backendContext' = context
    /\ Answer("Configure", 0, "SUCCESS")
    /\ UNCHANGED <<runtimeThreshold, depth, frame>>

loggerClearBackend(t) ==
    /\ Synchronized
    /\ backend' = NULL /\ backendContext' = NULL
    /\ Answer("Configure", 0, "SUCCESS")
    /\ UNCHANGED <<runtimeThreshold, depth, frame>>

loggerSetLevel(t, level) ==
    /\ Synchronized /\ level \in Thresholds
    /\ runtimeThreshold' = level
    /\ Answer("Configure", 0, "SUCCESS")
    /\ UNCHANGED <<backend, backendContext, depth, frame>>

loggerGetLevel(t) ==
    /\ Free(t)
    /\ Answer("GetLevel", runtimeThreshold, "SUCCESS")
    /\ UNCHANGED <<logger, depth, frame>>

\* loggerInit and loggerSetLevel with a level that is none.
RefuseLevel(t, level) ==
    /\ Free(t) /\ level \notin Thresholds
    /\ Answer("Configure", level, "INVALID_LEVEL")
    /\ UNCHANGED <<logger, depth, frame>>

\* A NULL logger, or a NULL backend or outThreshold.
RefuseNull(t, call) ==
    /\ Free(t)
    /\ Answer(call, 0, "NULL_POINTER")
    /\ UNCHANGED <<logger, depth, frame>>

-----------------------------------------------------------------------------
Next ==
    \E t \in Tasks :
        \/ FormatPrefix(t) \/ FormatMessage(t) \/ CallBackend(t) \/ BackendReturns(t)
        \/ loggerClearBackend(t) \/ loggerGetLevel(t)
        \/ \E call \in Calls : RefuseNull(t, call)
        \/ \E level \in Levels :
              \/ loggerInit(t, level)
              \/ loggerSetLevel(t, level)
              \/ RefuseLevel(t, level)
              \/ \E module \in Modules \cup {NULL}, fmt \in Formats \cup {NULL} :
                    \/ WriteReturns(t, level, module, fmt)
                    \/ WriteBegins(t, level, module, fmt)
        \/ \E function \in Backends, context \in Contexts \cup {NULL} :
              loggerSetBackend(t, function, context)

Spec == Init /\ [][Next]_vars

-----------------------------------------------------------------------------
Characters == ({"prefix"} \X Severities \X Modules \X Nat) \cup ({"message"} \X Formats \X Nat)

Frames ==
    [at : {"none", "prefix", "message", "call", "backend"},
     level : 0 .. 4, module : Modules \cup {0}, fmt : Formats \cup {0},
     buffer : [Positions -> Characters \cup {Nul, Garbage}],
     used : Positions, totalLen : Positions,
     to : Backends \cup {NULL}, context : Contexts \cup {NULL}]

\* Whatever the lengths of prefix and message, every write is inside the
\* buffer and both lengths leave room for the terminator (logger.c, line 373:
\* "always >= 1").
TypeOK ==
    /\ backend \in Backends \cup {NULL} /\ backendContext \in Contexts \cup {NULL}
    /\ runtimeThreshold \in Thresholds
    /\ depth \in [Tasks -> 0 .. MaxDepth]
    /\ frame \in [Tasks -> [Depths -> Frames]]
    /\ answer \in [call : Calls, level : Int, status : Statuses]

\* As long as a backend has a message, the length it was told is that of the
\* string: all characters up to it were written by this call, and the
\* terminator follows, truncated or not, and also after a formatting error
\* (logger.h, lines 152 to 164).
MessageTerminated ==
    \A t \in Tasks : \A d \in 1 .. depth[t] :
        frame[t][d].at = "backend" =>
            /\ frame[t][d].buffer[frame[t][d].totalLen] = Nul
            /\ \A i \in Positions :
                  i < frame[t][d].totalLen => frame[t][d].buffer[i] \in Characters

-----------------------------------------------------------------------------
(* The refinement: what backends are reading, and when.                    *)

\* The calls of a task that have reached their backend.
Delivered(t) == IF Free(t) THEN depth[t] ELSE depth[t] - 1

Reading(f) ==
    [level |-> f.level, module |-> f.module, fmt |-> f.fmt, to |-> f.to, context |-> f.context,
     text |-> [k \in 1 .. f.totalLen |-> f.buffer[k - 1]]]

Service == INSTANCE LogService WITH
    context <- backendContext, threshold <- runtimeThreshold,
    open <- [t \in Tasks |-> [d \in 1 .. Delivered(t) |-> Reading(frame[t][d])]]

\* Whatever tasks and backends do at the same time, each backend reads the
\* text of its own message until it returns, cut where the buffer ends; it is
\* the registered one and gets the registered context; and a call that
\* succeeds without a backend was above the threshold.
ImplementsLogService == Service!Spec
=============================================================================
