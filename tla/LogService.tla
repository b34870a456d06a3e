----------------------------- MODULE LogService -----------------------------
(***************************************************************************)
(* What a logger promises to its callers and to its backend.               *)
(*                                                                         *)
(* A message is refused, or dropped because it is above the threshold, or  *)
(* handed to the backend registered at that moment, together with the      *)
(* context registered with it.  Until that backend returns, the text it    *)
(* reads does not change, whatever other calls do, its own among them.     *)
(***************************************************************************)
EXTENDS LogText

CONSTANTS Tasks,                      \* the callers
          Levels,                     \* the levels they pass, bad ones too
          Backends, Contexts, NULL    \* what may be registered

VARIABLES backend, context, threshold,  \* the configuration
          open,    \* the messages that backends are reading, for each caller,
                   \* the innermost last: what was asked for, and its text
          answer   \* the last finished call, and how it ended

vars == <<backend, context, threshold, open, answer>>

Init ==
    /\ backend = NULL /\ context = NULL
    /\ threshold \in Thresholds
    /\ open = [t \in Tasks |-> << >>]
    /\ answer = [call |-> "Configure", level |-> 0, status |-> "SUCCESS"]

Answer(call, level, status) == answer' = [call |-> call, level |-> level, status |-> status]

\* The configuration changes; no context is left behind without its backend.
Configure ==
    /\ backend' \in Backends \cup {NULL} /\ context' \in Contexts \cup {NULL}
    /\ backend' = NULL => context' = NULL
    /\ threshold' \in Thresholds
    /\ Answer("Configure", 0, "SUCCESS")
    /\ UNCHANGED open

\* A call without effect: the threshold is read,
Ask == Answer("GetLevel", threshold, "SUCCESS")

\* an argument is bad,
Refuse(level) ==
    \/ \E call \in {"Configure", "GetLevel", "Write"}, any \in Levels \cup {0} :
          Answer(call, any, "NULL_POINTER")
    \/ level \notin Thresholds /\ Answer("Configure", level, "INVALID_LEVEL")
    \/ level \notin Severities /\ Answer("Write", level, "INVALID_LEVEL")

\* or the configuration excludes a message.
Drop(level) ==
    /\ level \in Severities
    /\ IF level > threshold THEN Answer("Write", level, "SUCCESS")
       ELSE backend = NULL /\ Answer("Write", level, "NO_BACKEND")

NoEffect ==
    /\ Ask \/ \E level \in Levels : Refuse(level) \/ Drop(level)
    /\ UNCHANGED <<backend, context, threshold, open>>

\* The message that was asked for, with a text that is its own.
Deliver(t, level, module, fmt) ==
    /\ backend # NULL
    /\ level \in Severities /\ level <= threshold
    /\ \E text \in Texts(level, module, fmt) :
          open' = [open EXCEPT ![t] = Append(@,
                      [level |-> level, module |-> module, fmt |-> fmt,
                       to |-> backend, context |-> context, text |-> text])]
    /\ UNCHANGED <<backend, context, threshold, answer>>

\* The backend returns.
Finish(t) ==
    /\ open[t] # << >>
    /\ open' = [open EXCEPT ![t] = SubSeq(@, 1, Len(@) - 1)]
    /\ Answer("Write", open[t][Len(open[t])].level, "SUCCESS")
    /\ UNCHANGED <<backend, context, threshold>>

Next ==
    \/ Configure
    \/ NoEffect
    \/ \E t \in Tasks :
          \/ Finish(t)
          \/ \E level \in Levels, module \in Modules, fmt \in Formats :
                Deliver(t, level, module, fmt)

Spec == Init /\ [][Next]_vars
=============================================================================
