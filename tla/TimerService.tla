---------------------------- MODULE TimerService ----------------------------
(***************************************************************************)
(* What the software timer pool promises its application: independent      *)
(* timers, each with its own countdown.  There are no slots, handles or    *)
(* generations here, and no tick in progress: a timer is known by the      *)
(* context it was created for, every step but Reset concerns one timer,    *)
(* and a deleted timer never comes back.                                   *)
(***************************************************************************)
EXTENDS Integers

CONSTANTS Contexts,    \* the timers the application may create
          MaxTimeout   \* the largest timeout

VARIABLES life,        \* what GetState tells of each timer
          left,        \* what GetRemainingTicks tells of each timer
          period,      \* the timeout it was last started with
          repeats      \* whether it was created periodic

vars == <<life, left, period, repeats>>

Live(c) == life[c] \in {"STOPPED", "RUNNING"}

Init ==
    /\ life = [c \in Contexts |-> "NONE"]
    /\ left = [c \in Contexts |-> 0]
    /\ period = [c \in Contexts |-> 0]
    /\ repeats = [c \in Contexts |-> FALSE]

\* The pool is initialized again, and all its timers are gone.
Reset ==
    /\ life' = [c \in Contexts |-> "NONE"]
    /\ left' = [c \in Contexts |-> 0]
    /\ period' = [c \in Contexts |-> 0]
    /\ repeats' = [c \in Contexts |-> FALSE]

Create(c, periodic) ==
    /\ life[c] = "NONE"
    /\ life' = [life EXCEPT ![c] = "STOPPED"]
    /\ repeats' = [repeats EXCEPT ![c] = periodic]
    /\ UNCHANGED <<left, period>>

Start(c, n) ==
    /\ Live(c)
    /\ life' = [life EXCEPT ![c] = "RUNNING"]
    /\ left' = [left EXCEPT ![c] = n]
    /\ period' = [period EXCEPT ![c] = n]
    /\ UNCHANGED repeats

Stop(c) ==
    /\ Live(c)
    /\ life' = [life EXCEPT ![c] = "STOPPED"]
    /\ left' = [left EXCEPT ![c] = 0]
    /\ UNCHANGED <<period, repeats>>

Delete(c) ==
    /\ Live(c)
    /\ life' = [life EXCEPT ![c] = "INVALID_HANDLE"]
    /\ left' = [left EXCEPT ![c] = 0]
    /\ period' = [period EXCEPT ![c] = 0]
    /\ repeats' = [repeats EXCEPT ![c] = FALSE]

Count(c) ==
    /\ life[c] = "RUNNING"
    /\ left[c] > 1
    /\ left' = [left EXCEPT ![c] = @ - 1]
    /\ UNCHANGED <<life, period, repeats>>

\* Expiry: a periodic timer goes on with a full period, a one-shot one stops.
Expire(c) ==
    /\ life[c] = "RUNNING"
    /\ left[c] = 1
    /\ \/ /\ repeats[c]
          /\ left' = [left EXCEPT ![c] = period[c]]
          /\ UNCHANGED life
       \/ /\ ~repeats[c]
          /\ life' = [life EXCEPT ![c] = "STOPPED"]
          /\ left' = [left EXCEPT ![c] = 0]
    /\ UNCHANGED <<period, repeats>>

Next ==
    \/ Reset
    \/ \E c \in Contexts :
        \/ \E periodic \in BOOLEAN : Create(c, periodic)
        \/ \E n \in 1 .. MaxTimeout : Start(c, n)
        \/ Stop(c)
        \/ Delete(c)
        \/ Count(c)
        \/ Expire(c)

Spec == Init /\ [][Next]_vars
=============================================================================
