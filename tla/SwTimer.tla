------------------------------ MODULE SwTimer ------------------------------
(***************************************************************************)
(* The software timer pool of src/swTimer.c.                               *)
(*                                                                         *)
(* A pool is an array of control blocks, here one function per field.      *)
(* The pool runs no thread of its own: the application calls Create,       *)
(* Start, Stop and Delete, and calls Tick once per time unit.  Tick scans  *)
(* the array and invokes the callback of each timer that expires           *)
(* synchronously, in the middle of the scan, and a callback may itself     *)
(* call the pool.  Tick is therefore split at those calls: phase and scan  *)
(* are its program counter, and in phase "callback" the application's      *)
(* actions are enabled as they are between ticks.                          *)
(*                                                                         *)
(* A context stands for the (callback, context pointer) pair given to      *)
(* Create; each Create gets its own, which is how the application tells    *)
(* its timers apart.  The application keeps in handle[c] the handle Create *)
(* wrote for c, also after that timer was deleted.                         *)
(*                                                                         *)
(* Arguments that are NULL are refused before any state is read and are    *)
(* not enumerated.                                                         *)
(***************************************************************************)
EXTENDS Integers

CONSTANTS
    Capacity,    \* number of control blocks given to softwareTimerInit
    IndexRange,  \* values of TimerHandle_t.index: 2^8 in the code
    GenRange,    \* values of a generation counter: 2^8 in the code
    MaxTimeout,  \* largest timeout: UINT32_MAX in the code
    Contexts,    \* the timers the application ever creates between two Inits
    NoContext,   \* the NULL callback and context of an unused slot
    NoHandle     \* what the application has before Create succeeded

Slots == 0 .. Capacity - 1
Handles == [index : 0 .. IndexRange - 1, generation : 0 .. GenRange - 1]

ASSUME CapacityAssumption == Capacity \in Nat \ {0}
ASSUME RangeAssumption == IndexRange \in Nat \ {0} /\ GenRange \in Nat \ {0}
ASSUME TimeoutAssumption == MaxTimeout \in Nat \ {0}
ASSUME NoContextAssumption == NoContext \notin Contexts
ASSUME NoHandleAssumption == NoHandle \notin Handles

States == {"UNUSED", "STOPPED", "RUNNING"}
Modes == {"ONE_SHOT", "PERIODIC"}
Statuses == {"SUCCESS", "INVALID_HANDLE", "INVALID_TIMEOUT", "INVALID_MODE",
             "POOL_FULL", "INVALID_CAPACITY"}

VARIABLES
    state, mode, timeout, remaining,   \* TimerControlBlock_t, field by field
    context, generation,
    phase,          \* where Tick is: "idle", "scan" or inside a "callback"
    scan,           \* the loop variable i of Tick
    firedHandle,    \* the locals Tick passes to the callback it is invoking
    firedContext,
    status,         \* what the last call returned
    handle,         \* the application's copy of the handle of each context
    calls,          \* history: Tick calls begun since the countdown started
    early,          \* history: started by a callback, ahead of the scan
    deletes,        \* history: number of times a slot was deleted
    birth           \* history: the slot, and its deletes, a Create took

block == <<state, mode, timeout, remaining, context, generation>>
ticking == <<phase, scan, firedHandle, firedContext>>
history == <<calls, early, deletes, birth>>
vars == <<block, ticking, status, handle, history>>

-----------------------------------------------------------------------------
\* Definitions whose comment begins with "Mistake" are plausible slips in the
\* code.  No specification uses them: each, put in place of the definition
\* that follows it, shows a property below to be violated.

\* Mistake: validateHandle does not compare generations.
ValidInUse(h) ==
    /\ h.index < Capacity
    /\ state[h.index] # "UNUSED"

\* validateHandle: in range, in use, and of the slot's current generation.
Valid(h) ==
    /\ h.index < Capacity
    /\ state[h.index] # "UNUSED"
    /\ generation[h.index] = h.generation

\* Mistake: the counter is wider than the handle's field and never wraps.
WideGeneration(g) == g + 1

\* Mistake: deleting a timer leaves the generation alone.
SameGeneration(g) == g

\* The uint8_t increment of a generation.
NextGeneration(g) == (g + 1) % GenRange

\* Mistake: handles count the slots from one.
HandleFromOne(i, g) == [index |-> (i + 1) % IndexRange, generation |-> g]

\* The handle of slot i: the index is stored in a uint8_t.
HandleOf(i, g) == [index |-> i % IndexRange, generation |-> g]

\* The application runs between ticks and inside callbacks.
AppRuns == phase \in {"idle", "callback"}

\* The Tick in progress, if any, has yet to reach slot s.
Ahead(s) == \/ phase = "scan" /\ s >= scan
            \/ phase = "callback" /\ s > scan

\* The application still has the timer it created for c.
Live(c) == handle[c] # NoHandle /\ Valid(handle[c])

\* softwareTimerGetState and softwareTimerGetRemainingTicks: what the
\* application reads about the timer it created for c.
GetState(c) ==
    IF handle[c] = NoHandle THEN "NONE"
    ELSE IF Valid(handle[c]) THEN state[handle[c].index] ELSE "INVALID_HANDLE"

GetRemainingTicks(c) == IF Live(c) THEN remaining[handle[c].index] ELSE 0

-----------------------------------------------------------------------------
\* softwareTimerInit on the caller's array.
Init ==
    /\ state = [s \in Slots |-> "UNUSED"]
    /\ mode = [s \in Slots |-> "ONE_SHOT"]
    /\ timeout = [s \in Slots |-> 0]
    /\ remaining = [s \in Slots |-> 0]
    /\ context = [s \in Slots |-> NoContext]
    /\ generation = [s \in Slots |-> 0]
    /\ phase = "idle"
    /\ scan = 0
    /\ firedHandle = NoHandle
    /\ firedContext = NoContext
    /\ status = "SUCCESS"
    /\ handle = [c \in Contexts |-> NoHandle]
    /\ calls = [s \in Slots |-> 0]
    /\ early = [s \in Slots |-> FALSE]
    /\ deletes = [s \in Slots |-> 0]
    /\ birth = [c \in Contexts |-> [slot |-> 0, life |-> 0]]

\* softwareTimerInit again: nothing refuses it, and every slot, generation
\* included, is reset.  The application drops the handles of the old pool.
Reinit ==
    /\ phase = "idle"
    /\ state' = [s \in Slots |-> "UNUSED"]
    /\ mode' = [s \in Slots |-> "ONE_SHOT"]
    /\ timeout' = [s \in Slots |-> 0]
    /\ remaining' = [s \in Slots |-> 0]
    /\ context' = [s \in Slots |-> NoContext]
    /\ generation' = [s \in Slots |-> 0]
    /\ status' = "SUCCESS"
    /\ handle' = [c \in Contexts |-> NoHandle]
    /\ calls' = [s \in Slots |-> 0]
    /\ early' = [s \in Slots |-> FALSE]
    /\ deletes' = [s \in Slots |-> 0]
    /\ birth' = [c \in Contexts |-> [slot |-> 0, life |-> 0]]
    /\ UNCHANGED ticking

\* softwareTimerInit with no control blocks: refused before the pool is touched.
ReinitRefused ==
    /\ AppRuns
    /\ status' = "INVALID_CAPACITY"
    /\ UNCHANGED <<block, ticking, handle, history>>

\* softwareTimerCreate when slot s is the first one that is unused.
CreateIn(s, c, m) ==
    /\ state[s] = "UNUSED"
    /\ \A t \in Slots : t < s => state[t] # "UNUSED"
    /\ mode' = [mode EXCEPT ![s] = m]
    /\ context' = [context EXCEPT ![s] = c]
    /\ timeout' = [timeout EXCEPT ![s] = 0]
    /\ remaining' = [remaining EXCEPT ![s] = 0]
    /\ state' = [state EXCEPT ![s] = "STOPPED"]
    /\ handle' = [handle EXCEPT ![c] = HandleOf(s, generation[s])]
    /\ birth' = [birth EXCEPT ![c] = [slot |-> s, life |-> deletes[s]]]
    /\ status' = "SUCCESS"
    /\ UNCHANGED <<generation, ticking, calls, early, deletes>>

\* softwareTimerCreate for the fresh context c.
Create(c, m) ==
    /\ AppRuns
    /\ handle[c] = NoHandle
    /\ \/ /\ m \notin Modes
          /\ status' = "INVALID_MODE"
          /\ UNCHANGED <<block, ticking, handle, history>>
       \/ m \in Modes /\ \E s \in Slots : CreateIn(s, c, m)
       \/ /\ m \in Modes
          /\ \A s \in Slots : state[s] # "UNUSED"
          /\ status' = "POOL_FULL"
          /\ UNCHANGED <<block, ticking, handle, history>>

\* What Start, Stop and Delete answer to a handle that is not valid.
RefuseHandle(c) ==
    /\ ~Valid(handle[c])
    /\ status' = "INVALID_HANDLE"
    /\ UNCHANGED <<block, ticking, handle, history>>

\* Mistake: a timer that is already running keeps its countdown.
ResumeSlot(s, n) ==
    /\ timeout' = [timeout EXCEPT ![s] = n]
    /\ remaining' = [remaining EXCEPT ![s] = IF state[s] = "RUNNING" THEN @ ELSE n]
    /\ state' = [state EXCEPT ![s] = "RUNNING"]
    /\ calls' = [calls EXCEPT ![s] = 0]
    /\ early' = [early EXCEPT ![s] = Ahead(s)]
    /\ status' = "SUCCESS"
    /\ UNCHANGED <<mode, context, generation, ticking, handle, deletes, birth>>

\* softwareTimerStart, on a timer in any state.
StartSlot(s, n) ==
    /\ timeout' = [timeout EXCEPT ![s] = n]
    /\ remaining' = [remaining EXCEPT ![s] = n]
    /\ state' = [state EXCEPT ![s] = "RUNNING"]
    /\ calls' = [calls EXCEPT ![s] = 0]
    /\ early' = [early EXCEPT ![s] = Ahead(s)]
    /\ status' = "SUCCESS"
    /\ UNCHANGED <<mode, context, generation, ticking, handle, deletes, birth>>

Start(c, n) ==
    /\ AppRuns
    /\ handle[c] # NoHandle
    /\ \/ RefuseHandle(c)
       \/ /\ Valid(handle[c])
          /\ n = 0
          /\ status' = "INVALID_TIMEOUT"
          /\ UNCHANGED <<block, ticking, handle, history>>
       \/ Valid(handle[c]) /\ n > 0 /\ StartSlot(handle[c].index, n)

\* Mistake: stopping leaves the remaining count.
PauseSlot(s) ==
    /\ state' = [state EXCEPT ![s] = "STOPPED"]
    /\ calls' = [calls EXCEPT ![s] = 0]
    /\ early' = [early EXCEPT ![s] = FALSE]
    /\ status' = "SUCCESS"
    /\ UNCHANGED <<mode, timeout, remaining, context, generation, ticking,
                   handle, deletes, birth>>

\* softwareTimerStop: idempotent, the timeout is kept.
StopSlot(s) ==
    /\ state' = [state EXCEPT ![s] = "STOPPED"]
    /\ remaining' = [remaining EXCEPT ![s] = 0]
    /\ calls' = [calls EXCEPT ![s] = 0]
    /\ early' = [early EXCEPT ![s] = FALSE]
    /\ status' = "SUCCESS"
    /\ UNCHANGED <<mode, timeout, context, generation, ticking, handle,
                   deletes, birth>>

Stop(c) ==
    /\ AppRuns
    /\ handle[c] # NoHandle
    /\ \/ RefuseHandle(c)
       \/ Valid(handle[c]) /\ StopSlot(handle[c].index)

\* softwareTimerDelete: the slot is free and its outstanding handles stale.
DeleteSlot(s) ==
    /\ state' = [state EXCEPT ![s] = "UNUSED"]
    /\ timeout' = [timeout EXCEPT ![s] = 0]
    /\ remaining' = [remaining EXCEPT ![s] = 0]
    /\ context' = [context EXCEPT ![s] = NoContext]
    /\ generation' = [generation EXCEPT ![s] = NextGeneration(@)]
    /\ calls' = [calls EXCEPT ![s] = 0]
    /\ early' = [early EXCEPT ![s] = FALSE]
    /\ deletes' = [deletes EXCEPT ![s] = @ + 1]
    /\ status' = "SUCCESS"
    /\ UNCHANGED <<mode, ticking, handle, birth>>

Delete(c) ==
    /\ AppRuns
    /\ handle[c] # NoHandle
    /\ \/ RefuseHandle(c)
       \/ Valid(handle[c]) /\ DeleteSlot(handle[c].index)

-----------------------------------------------------------------------------
\* softwareTimerTick is called.  A callback does not call it: the pool's
\* documentation lets a callback start and stop timers, not tick.
TickBegin ==
    /\ phase = "idle"
    /\ phase' = "scan"
    /\ scan' = 0
    /\ calls' = [s \in Slots |-> IF state[s] = "RUNNING" THEN calls[s] + 1
                                                         ELSE calls[s]]
    /\ UNCHANGED <<block, firedHandle, firedContext, status, handle, early,
                   deletes, birth>>

\* The remaining count after the decrement, which zero is guarded against.
Decremented(s) == IF remaining[s] > 0 THEN remaining[s] - 1 ELSE 0

\* Mistake: a slot that is not running is passed without counting i up.
TickSkipStuck ==
    /\ phase = "scan" /\ scan < Capacity
    /\ state[scan] # "RUNNING"
    /\ UNCHANGED vars

\* The scan passes a slot that is not running.
TickSkip ==
    /\ phase = "scan" /\ scan < Capacity
    /\ state[scan] # "RUNNING"
    /\ scan' = scan + 1
    /\ UNCHANGED <<block, phase, firedHandle, firedContext, status, handle,
                   history>>

\* The scan decrements a running timer that does not expire.
TickCount ==
    /\ phase = "scan" /\ scan < Capacity
    /\ state[scan] = "RUNNING"
    /\ Decremented(scan) # 0
    /\ remaining' = [remaining EXCEPT ![scan] = Decremented(scan)]
    /\ scan' = scan + 1
    /\ UNCHANGED <<state, mode, timeout, context, generation, phase,
                   firedHandle, firedContext, status, handle, history>>

\* Mistake: the handle's index is not set.
FiredHandleAtZero(s) == HandleOf(0, generation[s])

\* The handle Tick passes to the callback of slot s.
FiredHandle(s) == HandleOf(s, generation[s])

\* The scan expires a timer: the callback's arguments are captured, the timer
\* is reloaded or stopped, and then the callback is entered.
TickFire ==
    /\ phase = "scan" /\ scan < Capacity
    /\ state[scan] = "RUNNING"
    /\ Decremented(scan) = 0
    /\ firedHandle' = FiredHandle(scan)
    /\ firedContext' = context[scan]
    /\ \/ /\ mode[scan] = "PERIODIC"
          /\ remaining' = [remaining EXCEPT ![scan] = timeout[scan]]
          /\ UNCHANGED state
       \/ /\ mode[scan] # "PERIODIC"
          /\ remaining' = [remaining EXCEPT ![scan] = 0]
          /\ state' = [state EXCEPT ![scan] = "STOPPED"]
    /\ calls' = [calls EXCEPT ![scan] = 0]
    /\ early' = [early EXCEPT ![scan] = FALSE]
    /\ phase' = "callback"
    /\ UNCHANGED <<mode, timeout, context, generation, scan, status, handle,
                   deletes, birth>>

\* Mistake: the scan visits the slot again, in case its timer was restarted.
RescanSlot ==
    /\ phase = "callback"
    /\ phase' = "scan"
    /\ firedHandle' = NoHandle
    /\ firedContext' = NoContext
    /\ UNCHANGED <<block, scan, status, handle, history>>

\* Mistake: the reload follows the callback.
ReloadAfterCallback ==
    /\ phase = "callback"
    /\ phase' = "scan"
    /\ scan' = scan + 1
    /\ firedHandle' = NoHandle
    /\ firedContext' = NoContext
    /\ mode[scan] = "PERIODIC" =>
          /\ state' = [state EXCEPT ![scan] = "RUNNING"]
          /\ remaining' = [remaining EXCEPT ![scan] = timeout[scan]]
    /\ mode[scan] # "PERIODIC" => UNCHANGED <<state, remaining>>
    /\ UNCHANGED <<mode, timeout, context, generation, status, handle, history>>

\* The callback returns into the scan, which moves to the next slot.
CallbackReturn ==
    /\ phase = "callback"
    /\ phase' = "scan"
    /\ scan' = scan + 1
    /\ firedHandle' = NoHandle
    /\ firedContext' = NoContext
    /\ UNCHANGED <<block, status, handle, history>>

\* The scan is over and softwareTimerTick returns.
TickEnd ==
    /\ phase = "scan" /\ scan = Capacity
    /\ phase' = "idle"
    /\ scan' = 0
    /\ status' = "SUCCESS"
    /\ UNCHANGED <<block, firedHandle, firedContext, handle, history>>

-----------------------------------------------------------------------------
AppCall ==
    \/ Reinit \/ ReinitRefused
    \/ \E c \in Contexts :
        \/ \E m \in Modes \cup {"OTHER"} : Create(c, m)
        \/ \E n \in 0 .. MaxTimeout : Start(c, n)
        \/ Stop(c)
        \/ Delete(c)

TickStep == TickSkip \/ TickCount \/ TickFire \/ CallbackReturn \/ TickEnd

Next == AppCall \/ TickBegin \/ TickStep

Spec == Init /\ [][Next]_vars

\* The application goes on calling Tick, Tick goes on scanning, and every
\* callback returns.  Nothing obliges the application to make other calls.
FairSpec == Spec /\ WF_vars(TickBegin) /\ WF_vars(TickStep)

-----------------------------------------------------------------------------
\* Every field keeps the range of its C type and of the API: generations wrap
\* in their width, timeouts stay in bounds, and the scan never leaves the
\* array (TimerControlBlock_t and softwareTimerTick).
TypeOK ==
    /\ state \in [Slots -> States]
    /\ mode \in [Slots -> Modes]
    /\ timeout \in [Slots -> 0 .. MaxTimeout]
    /\ remaining \in [Slots -> 0 .. MaxTimeout]
    /\ context \in [Slots -> Contexts \cup {NoContext}]
    /\ generation \in [Slots -> 0 .. GenRange - 1]
    /\ phase \in {"idle", "scan", "callback"}
    /\ scan \in 0 .. Capacity
    /\ phase = "callback" => scan < Capacity
    /\ firedHandle \in Handles \cup {NoHandle}
    /\ firedContext \in Contexts \cup {NoContext}
    /\ status \in Statuses
    /\ handle \in [Contexts -> Handles \cup {NoHandle}]
    /\ calls \in [Slots -> Nat]
    /\ early \in [Slots -> BOOLEAN]
    /\ deletes \in [Slots -> Nat]
    /\ birth \in [Contexts -> [slot : Slots, life : Nat]]

\* A running timer always has between one tick and its whole timeout to go,
\* and any other timer has nothing to go: at no point, callbacks included, is
\* there a running timer at zero, so the guard of the decrement is never
\* needed and no expiry is skipped (swTimer.c, softwareTimerTick).
RunningCountdown ==
    \A s \in Slots :
        IF state[s] = "RUNNING" THEN remaining[s] \in 1 .. timeout[s]
                                ELSE remaining[s] = 0

\* What the countdown of a running timer adds up to.
Balanced(s) ==
    state[s] = "RUNNING" =>
        remaining[s] + calls[s] =
            timeout[s] + (IF Ahead(s) THEN 1 ELSE 0)
                       - (IF early[s] THEN 1 ELSE 0)

\* Tick accounting: what a running timer has to go and the Tick calls begun
\* since its countdown started add up to its timeout, up to the visit the
\* tick in progress owes it, and one tick less if a callback started it ahead
\* of the scan.  No call into the pool, from a callback or not, makes another
\* timer lose or gain a tick.
TickAccounting == \A s \in Slots : Balanced(s)

\* Expiry is on time: a timer fires in the timeout-th Tick call after its
\* countdown began (for a periodic timer also after each reload), or one call
\* sooner when a callback of a lower slot started it and the tick in progress
\* counts.
FiresOnTime ==
    [][phase = "scan" /\ phase' = "callback" =>
          calls[scan] = timeout[scan] - (IF early[scan] THEN 1 ELSE 0)]_vars

\* The header's claim, swTimer.h "Timer Accuracy": a timer with timeout N
\* expires after exactly N calls to softwareTimerTick().
FiresAfterExactlyN ==
    [][phase = "scan" /\ phase' = "callback" =>
          calls[scan] = timeout[scan]]_vars

\* The bookkeeping behind the handles, which makes the two properties below
\* inductive: a generation counts the deletes of its slot, a handle tells its
\* slot and the slot's generation when it was created, and a timer is in use
\* exactly while its slot has not been deleted since.
HandleBookkeeping ==
    /\ \A s \in Slots : generation[s] = deletes[s] % GenRange
    /\ \A c \in Contexts : handle[c] # NoHandle =>
        /\ birth[c].life <= deletes[birth[c].slot]
        /\ handle[c] = HandleOf(birth[c].slot, birth[c].life % GenRange)
        /\ birth[c].life = deletes[birth[c].slot] =>
              state[birth[c].slot] # "UNUSED" /\ context[birth[c].slot] = c
    /\ \A s \in Slots : state[s] # "UNUSED" =>
        /\ context[s] \in Contexts
        /\ handle[context[s]] # NoHandle
        /\ birth[context[s]] = [slot |-> s, life |-> deletes[s]]

\* A handle the application holds is accepted only while the slot still holds
\* the timer that Create made for it, as long as the slot was deleted fewer
\* than GenRange times since: a stale handle never starts, stops or deletes
\* the timer that reuses its slot.
HandleNamesItsTimer ==
    \A c \in Contexts :
        /\ handle[c] # NoHandle
        /\ Valid(handle[c])
        /\ deletes[handle[c].index] - birth[c].life < GenRange
        => context[handle[c].index] = c

\* Every timer in use can be reached: the handle Create wrote for it is valid
\* and leads to its slot ("Timer created; *outHandle is valid", swTimer.h).
LiveTimerReachable ==
    \A s \in Slots : state[s] # "UNUSED" =>
        /\ context[s] \in Contexts
        /\ handle[context[s]] # NoHandle
        /\ Valid(handle[context[s]])
        /\ handle[context[s]].index = s

\* A callback is given the context and the handle of one and the same timer,
\* the ones its owner knows, whatever the callback does to the pool meanwhile.
CallbackKnowsItsTimer ==
    phase = "callback" =>
        /\ firedContext \in Contexts
        /\ handle[firedContext] = firedHandle
        /\ firedHandle # NoHandle

\* Only the application sets a timer running: no step of Tick, the return
\* from a callback that stopped its own periodic timer included, re-arms one
\* (the reload precedes the callback).
TickNeverRearms ==
    [][\A s \in Slots :
          state[s] # "RUNNING" /\ state'[s] = "RUNNING" => UNCHANGED ticking]_vars

\* The pool implements independent timers: through GetState and
\* GetRemainingTicks the application sees every timer it created behave as
\* one of TimerService, which has neither slots nor handles nor a scan, as
\* long as no generation counter wraps around.
Service == INSTANCE TimerService WITH
    life <- [c \in Contexts |-> GetState(c)],
    left <- [c \in Contexts |-> GetRemainingTicks(c)],
    period <- [c \in Contexts |-> IF Live(c) THEN timeout[handle[c].index]
                                            ELSE 0],
    repeats <- [c \in Contexts |-> Live(c) /\ mode[handle[c].index] = "PERIODIC"]

ImplementsTimerService == Service!Spec

\* Every Tick call returns, whatever the callbacks start, stop, create and
\* delete while it scans.
TickReturns == phase # "idle" ~> phase = "idle"

\* A countdown comes to its end: once a tick has begun on a running timer the
\* timer fires, or the application stops, deletes or restarts it.
CountdownEnds ==
    \A s \in Slots :
        state[s] = "RUNNING" /\ calls[s] > 0
            ~> state[s] # "RUNNING" \/ calls[s] = 0
=============================================================================
