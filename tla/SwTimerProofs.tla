--------------------------- MODULE SwTimerProofs ---------------------------
(***************************************************************************)
(* Proofs about SwTimer, for every capacity, timeout range and set of      *)
(* timers: type correctness, the countdown of running timers, the tick     *)
(* accounting and, from it, that timers fire on time; the bookkeeping of   *)
(* handles; that a Tick call starts no timer and is over after a bounded   *)
(* number of steps; and that the pool implements TimerService.             *)
(***************************************************************************)
EXTENDS SwTimer, FunctionTheorems, FiniteSetTheorems, TLAPS

-----------------------------------------------------------------------------
(* Wrapping counters.                                                      *)

\* Division with remainder.
LEMMA DivMod ==
    ASSUME NEW G \in Nat \ {0}, NEW a \in Nat
    PROVE  /\ a \div G \in Nat
           /\ a % G \in 0 .. G - 1
           /\ a = G * (a \div G) + (a % G)
<1>1. a % G \in 0 .. G - 1
  OBVIOUS
<1>2. a = G * (a \div G) + (a % G)
  OBVIOUS
<1>3. a \div G \in Nat
  OBVIOUS
<1>4. QED
  BY <1>1, <1>2, <1>3

\* A remainder below the divisor is the remainder.
LEMMA RemainderUnique ==
    ASSUME NEW G \in Nat \ {0}, NEW q \in Nat, NEW r \in 0 .. G - 1
    PROVE  (G * q + r) % G = r
OBVIOUS

\* A positive multiple of a number is no smaller than it.
LEMMA MultipleAtLeast ==
    ASSUME NEW G \in Nat \ {0}, NEW q \in Int, q >= 1
    PROVE  G * q >= G
OBVIOUS

\* Two counts less than a range apart that agree modulo the range are equal.
LEMMA ModInjective ==
    ASSUME NEW G \in Nat \ {0}, NEW a \in Nat, NEW b \in Nat,
           b <= a, a - b < G, a % G = b % G
    PROVE  a = b
<1> DEFINE qa == a \div G
           qb == b \div G
           r == a % G
<1>1. qa \in Int /\ qb \in Int /\ r \in Int
  BY DivMod
<1>2. a = G * qa + r /\ b = G * qb + r
  BY DivMod
<1> HIDE DEF qa, qb, r
<1>3. a - b = G * (qa - qb)
  BY <1>1, <1>2
<1>4. ~(qa - qb >= 1)
  BY <1>1, <1>3, MultipleAtLeast
<1>5. ~(qb - qa >= 1)
  <2>1. G * (qb - qa) = b - a
    BY <1>1, <1>2
  <2>2. QED
    BY <1>1, <2>1, MultipleAtLeast
<1>6. qa = qb
  BY <1>1, <1>4, <1>5
<1>7. QED
  BY <1>1, <1>2, <1>6

\* Incrementing a wrapped count wraps the incremented count.
LEMMA ModSuccessor ==
    ASSUME NEW G \in Nat \ {0}, NEW a \in Nat
    PROVE  ((a % G) + 1) % G = (a + 1) % G
<1> DEFINE q == a \div G
           r == a % G
<1>1. q \in Nat /\ r \in 0 .. G - 1 /\ a = G * q + r
  BY DivMod
<1> HIDE DEF q, r
<1>2. CASE r + 1 < G
  <2>1. a + 1 = G * q + (r + 1)
    BY <1>1
  <2>2. (a + 1) % G = r + 1
    BY <1>1, <1>2, <2>1, RemainderUnique
  <2>3. (r + 1) % G = r + 1
    BY <1>1, <1>2
  <2>4. QED
    BY <2>2, <2>3 DEF r
<1>3. CASE r + 1 = G
  <2>1. a + 1 = G * (q + 1) + 0
    BY <1>1, <1>3
  <2>2. (a + 1) % G = 0
    BY <1>1, <2>1, RemainderUnique
  <2>3. (r + 1) % G = 0
    BY <1>3
  <2>4. QED
    BY <2>2, <2>3 DEF r
<1>4. QED
  BY <1>1, <1>2, <1>3

-----------------------------------------------------------------------------
\* A generation counter stays in range when it is incremented (the uint8_t
\* increment of softwareTimerDelete).
LEMMA NextGenerationType ==
    ASSUME NEW g \in 0 .. GenRange - 1
    PROVE  NextGeneration(g) \in 0 .. GenRange - 1
BY RangeAssumption DEF NextGeneration

\* The handle of a slot is a handle, whatever the truncation of its index.
LEMMA HandleOfType ==
    ASSUME NEW s \in Slots, NEW g \in 0 .. GenRange - 1
    PROVE  HandleOf(s, g) \in Handles
<1>1. s % IndexRange \in 0 .. IndexRange - 1
  BY CapacityAssumption, RangeAssumption DEF Slots
<1>2. QED
  BY <1>1 DEF HandleOf, Handles

-----------------------------------------------------------------------------
\* Every field of the pool, the tick in progress and the application's handles
\* keep their types, whatever sequence of calls is made.
THEOREM TypeCorrect == Spec => []TypeOK
<1>1. Init => TypeOK
  BY CapacityAssumption, RangeAssumption, TimeoutAssumption
     DEF Init, TypeOK, Slots, States, Modes, Statuses
<1>2. TypeOK /\ [Next]_vars => TypeOK'
  <2> SUFFICES ASSUME TypeOK, [Next]_vars PROVE TypeOK'
    OBVIOUS
  <2>1. CASE Reinit
    <3>1. 0 \in Slots /\ 0 \in 0 .. GenRange - 1 /\ 0 \in 0 .. MaxTimeout
      BY CapacityAssumption, RangeAssumption, TimeoutAssumption DEF Slots
    <3>2. QED
      BY <2>1, <3>1 DEF Reinit, TypeOK, States, Modes, Statuses, ticking
  <2>1a. CASE ReinitRefused
    BY <2>1a DEF ReinitRefused, TypeOK, Statuses, block, ticking, history
  <2>2. ASSUME NEW c \in Contexts, NEW m \in Modes \cup {"OTHER"}, Create(c, m)
        PROVE  TypeOK'
    <3>1. CASE UNCHANGED <<block, ticking, handle, history>> /\ status' \in Statuses
      BY <3>1 DEF TypeOK, block, ticking, history
    <3>2. ASSUME m \in Modes, NEW s \in Slots, CreateIn(s, c, m) PROVE TypeOK'
      <4>1. HandleOf(s, generation[s]) \in Handles
        BY HandleOfType DEF TypeOK
      <4>2. QED
        BY <3>2, <4>1, TimeoutAssumption
           DEF CreateIn, TypeOK, States, Statuses, ticking
    <3>3. QED
      BY <2>2, <3>1, <3>2 DEF Create, Statuses
  <2>3. ASSUME NEW c \in Contexts, handle[c] # NoHandle, Valid(handle[c])
        PROVE  handle[c].index \in Slots
    BY <2>3, CapacityAssumption, RangeAssumption DEF TypeOK, Valid, Handles, Slots
  <2>4. ASSUME NEW c \in Contexts, RefuseHandle(c) PROVE TypeOK'
    BY <2>4 DEF RefuseHandle, TypeOK, Statuses, block, ticking, history
  <2>5. ASSUME NEW c \in Contexts, NEW n \in 0 .. MaxTimeout, Start(c, n)
        PROVE  TypeOK'
    <3>1. CASE UNCHANGED <<block, ticking, handle, history>> /\ status' \in Statuses
      BY <3>1 DEF TypeOK, block, ticking, history
    <3>2. ASSUME NEW s \in Slots, StartSlot(s, n) PROVE TypeOK'
      BY <3>2 DEF StartSlot, TypeOK, States, Statuses, ticking, Ahead
    <3>3. QED
      BY <2>3, <2>4, <2>5, <3>1, <3>2 DEF Start, Statuses
  <2>6. ASSUME NEW c \in Contexts, Stop(c) PROVE TypeOK'
    <3>1. ASSUME NEW s \in Slots, StopSlot(s) PROVE TypeOK'
      BY <3>1, TimeoutAssumption DEF StopSlot, TypeOK, States, Statuses, ticking
    <3>2. QED
      BY <2>3, <2>4, <2>6, <3>1 DEF Stop
  <2>7. ASSUME NEW c \in Contexts, Delete(c) PROVE TypeOK'
    <3>1. ASSUME NEW s \in Slots, DeleteSlot(s) PROVE TypeOK'
      <4>1. NextGeneration(generation[s]) \in 0 .. GenRange - 1
        BY NextGenerationType DEF TypeOK
      <4>2. QED
        BY <3>1, <4>1, TimeoutAssumption
           DEF DeleteSlot, TypeOK, States, Statuses, ticking
    <3>2. QED
      BY <2>3, <2>4, <2>7, <3>1 DEF Delete
  <2>8. CASE TickBegin
    BY <2>8, CapacityAssumption DEF TickBegin, TypeOK, block
  <2>9. CASE TickSkip
    BY <2>9, CapacityAssumption DEF TickSkip, TypeOK, block, history
  <2>10. CASE TickCount
    <3>1. scan \in Slots
      BY <2>10, CapacityAssumption DEF TickCount, TypeOK, Slots
    <3>2. Decremented(scan) \in 0 .. MaxTimeout
      BY <3>1, TimeoutAssumption DEF Decremented, TypeOK
    <3>3. QED
      BY <2>10, <3>1, <3>2, CapacityAssumption DEF TickCount, TypeOK, history
  <2>11. CASE TickFire
    <3>1. scan \in Slots
      BY <2>11, CapacityAssumption DEF TickFire, TypeOK, Slots
    <3>2. HandleOf(scan, generation[scan]) \in Handles
      BY <3>1, HandleOfType DEF TypeOK
    <3>3. /\ remaining' \in [Slots -> 0 .. MaxTimeout]
          /\ state' \in [Slots -> States]
      BY <2>11, <3>1, TimeoutAssumption DEF TickFire, TypeOK, States
    <3>4. scan < Capacity /\ scan' = scan
      BY <2>11 DEF TickFire
    <3>5. calls' \in [Slots -> Nat] /\ early' \in [Slots -> BOOLEAN]
      BY <2>11 DEF TickFire, TypeOK
    <3>6. QED
      BY <2>11, <3>1, <3>2, <3>3, <3>4, <3>5 DEF TickFire, FiredHandle, TypeOK
  <2>12. CASE CallbackReturn
    BY <2>12, CapacityAssumption DEF CallbackReturn, TypeOK, block, history
  <2>13. CASE TickEnd
    BY <2>13, CapacityAssumption DEF TickEnd, TypeOK, Statuses, block, history
  <2>14. CASE UNCHANGED vars
    BY <2>14 DEF vars, TypeOK, block, ticking, history
  <2>15. QED
    BY <2>1, <2>1a, <2>2, <2>5, <2>6, <2>7, <2>8, <2>9, <2>10, <2>11, <2>12,
       <2>13, <2>14 DEF Next, AppCall, TickStep
<1>3. QED
  BY <1>1, <1>2, PTL DEF Spec
-----------------------------------------------------------------------------
InUse(s) == state[s] # "UNUSED"

\* A call with a valid handle works on one slot of the pool (validateHandle).
LEMMA ValidSlot ==
    ASSUME TypeOK, NEW c \in Contexts, handle[c] # NoHandle, Valid(handle[c])
    PROVE  handle[c].index \in Slots /\ InUse(handle[c].index)
BY CapacityAssumption, RangeAssumption DEF TypeOK, Valid, InUse, Handles, Slots

\* Every step is one of these: a call that succeeds in one slot, a step of
\* Tick, or a call that changes no timer.  Proofs about the slots follow it.
LEMMA StepCases ==
    ASSUME TypeOK, [Next]_vars
    PROVE  \/ Reinit
           \/ \E c \in Contexts, m \in Modes, s \in Slots :
                 AppRuns /\ handle[c] = NoHandle /\ CreateIn(s, c, m)
           \/ \E s \in Slots, n \in 1 .. MaxTimeout : AppRuns /\ InUse(s) /\ StartSlot(s, n)
           \/ \E s \in Slots : AppRuns /\ InUse(s) /\ StopSlot(s)
           \/ \E s \in Slots : AppRuns /\ InUse(s) /\ DeleteSlot(s)
           \/ TickBegin
           \/ TickSkip
           \/ scan \in Slots /\ TickCount
           \/ scan \in Slots /\ TickFire
           \/ CallbackReturn
           \/ TickEnd
           \/ UNCHANGED <<block, ticking, handle, history>>
<1>1. ASSUME NEW c \in Contexts, NEW m \in Modes \cup {"OTHER"}, Create(c, m)
      PROVE  \/ \E s \in Slots :
                   m \in Modes /\ AppRuns /\ handle[c] = NoHandle /\ CreateIn(s, c, m)
             \/ UNCHANGED <<block, ticking, handle, history>>
  BY <1>1 DEF Create
<1>2. ASSUME NEW c \in Contexts, NEW n \in 0 .. MaxTimeout, Start(c, n)
      PROVE  \/ \E s \in Slots : n > 0 /\ AppRuns /\ InUse(s) /\ StartSlot(s, n)
             \/ UNCHANGED <<block, ticking, handle, history>>
  BY <1>2, ValidSlot DEF Start, RefuseHandle
<1>3. ASSUME NEW c \in Contexts, Stop(c)
      PROVE  \/ \E s \in Slots : AppRuns /\ InUse(s) /\ StopSlot(s)
             \/ UNCHANGED <<block, ticking, handle, history>>
  BY <1>3, ValidSlot DEF Stop, RefuseHandle
<1>4. ASSUME NEW c \in Contexts, Delete(c)
      PROVE  \/ \E s \in Slots : AppRuns /\ InUse(s) /\ DeleteSlot(s)
             \/ UNCHANGED <<block, ticking, handle, history>>
  BY <1>4, ValidSlot DEF Delete, RefuseHandle
<1>5. TickCount \/ TickFire => scan \in Slots
  BY CapacityAssumption DEF TickCount, TickFire, TypeOK, Slots
<1>6. CASE Reinit
  BY <1>6
<1>6a. CASE ReinitRefused
  BY <1>6a DEF ReinitRefused
<1>7. CASE \E c \in Contexts : \E m \in Modes \cup {"OTHER"} : Create(c, m)
  BY <1>1, <1>7
<1>8. CASE \E c \in Contexts : \E n \in 0 .. MaxTimeout : Start(c, n)
  <2>1. PICK c \in Contexts, n \in 0 .. MaxTimeout : Start(c, n)
    BY <1>8
  <2>2. n > 0 => n \in 1 .. MaxTimeout
    BY TimeoutAssumption
  <2>3. QED
    BY <1>2, <2>1, <2>2
<1>9. CASE \E c \in Contexts : Stop(c) \/ Delete(c)
  BY <1>3, <1>4, <1>9
<1>10. CASE TickBegin \/ TickStep
  BY <1>5, <1>10 DEF TickStep
<1>11. CASE UNCHANGED vars
  BY <1>11 DEF vars
<1>12. QED
  BY <1>6, <1>6a, <1>7, <1>8, <1>9, <1>10, <1>11 DEF Next, AppCall

-----------------------------------------------------------------------------
\* No running timer is ever at zero, not even while a callback runs.
LEMMA CountdownStep ==
    ASSUME TypeOK, RunningCountdown, [Next]_vars
    PROVE  RunningCountdown'
<1> USE DEF RunningCountdown, TypeOK
<1>1. CASE Reinit
  BY <1>1 DEF Reinit
<1>2. ASSUME NEW c \in Contexts, NEW m \in Modes, NEW s \in Slots, CreateIn(s, c, m)
      PROVE  RunningCountdown'
  BY <1>2 DEF CreateIn
<1>3. ASSUME NEW s \in Slots, NEW n \in 1 .. MaxTimeout, StartSlot(s, n)
      PROVE  RunningCountdown'
  BY <1>3 DEF StartSlot
<1>4. ASSUME NEW s \in Slots, StopSlot(s) PROVE RunningCountdown'
  BY <1>4 DEF StopSlot
<1>5. ASSUME NEW s \in Slots, DeleteSlot(s) PROVE RunningCountdown'
  BY <1>5 DEF DeleteSlot
<1>6. CASE UNCHANGED block
  BY <1>6 DEF block
<1>7. CASE scan \in Slots /\ TickCount
  BY <1>7 DEF TickCount, Decremented
<1>8. CASE scan \in Slots /\ TickFire
  <2>1. CASE mode[scan] = "PERIODIC"
    <3>1. timeout[scan] \in 1 .. timeout[scan]
      BY <1>8 DEF TickFire
    <3>2. QED
      BY <1>8, <2>1, <3>1 DEF TickFire
  <2>2. CASE mode[scan] # "PERIODIC"
    BY <1>8, <2>2 DEF TickFire
  <2>3. QED
    BY <2>1, <2>2
<1>9. CASE TickBegin \/ TickSkip \/ CallbackReturn \/ TickEnd
  BY <1>6, <1>9 DEF TickBegin, TickSkip, CallbackReturn, TickEnd
<1>10. QED
  BY StepCases, <1>1, <1>2, <1>3, <1>4, <1>5, <1>6, <1>7, <1>8, <1>9

\* A running timer has between one tick and its timeout to go, and no other
\* timer has anything to go, for every pool and every sequence of calls.
THEOREM CountdownCorrect == Spec => []RunningCountdown
<1>1. Init => RunningCountdown
  BY DEF Init, RunningCountdown
<1>2. TypeOK /\ RunningCountdown /\ [Next]_vars => RunningCountdown'
  BY CountdownStep
<1>3. QED
  BY <1>1, <1>2, TypeCorrect, PTL DEF Spec
-----------------------------------------------------------------------------
\* A slot the tick in progress still owes a visit changes only when the scan
\* passes it: the application's calls leave Ahead alone.
LEMMA AheadUnchanged ==
    ASSUME UNCHANGED ticking, NEW s \in Slots
    PROVE  Ahead(s)' <=> Ahead(s)
BY DEF ticking, Ahead

\* Passing slot scan settles the visit owed to it and to no other slot.
LEMMA AheadAdvances ==
    ASSUME TypeOK, NEW s \in Slots,
           \/ phase = "scan" /\ phase' = "scan" /\ scan' = scan + 1
           \/ phase = "scan" /\ phase' = "callback" /\ scan' = scan
    PROVE  /\ Ahead(s) <=> s >= scan
           /\ Ahead(s)' <=> s >= scan /\ s # scan
<1>1. s \in Int /\ scan \in Int
  BY CapacityAssumption DEF TypeOK, Slots
<1>2. CASE phase = "scan" /\ phase' = "scan" /\ scan' = scan + 1
  BY <1>1, <1>2 DEF Ahead
<1>3. CASE phase = "scan" /\ phase' = "callback" /\ scan' = scan
  BY <1>1, <1>3 DEF Ahead
<1>4. QED
  BY <1>2, <1>3

\* No step upsets the accounting of a slot.
LEMMA AccountingStep ==
    ASSUME TypeOK, RunningCountdown, TickAccounting, [Next]_vars
    PROVE  TickAccounting'
<1> SUFFICES ASSUME NEW t \in Slots PROVE Balanced(t)'
  BY DEF TickAccounting, Balanced
<1>0. Balanced(t)
  BY DEF TickAccounting, Balanced
<1>1. CASE Reinit
  BY <1>1 DEF Reinit, Balanced
<1>2. ASSUME NEW c \in Contexts, NEW m \in Modes, NEW s \in Slots, CreateIn(s, c, m)
      PROVE  Balanced(t)'
  BY <1>0, <1>2, AheadUnchanged DEF CreateIn, Balanced, TypeOK
<1>3. ASSUME NEW s \in Slots, NEW n \in 1 .. MaxTimeout, StartSlot(s, n)
      PROVE  Balanced(t)'
  <2>1. CASE t = s
    <3>1. /\ remaining'[t] = n /\ timeout'[t] = n /\ calls'[t] = 0
          /\ early'[t] = Ahead(t)
      BY <1>3, <2>1 DEF StartSlot, TypeOK
    <3>2. Ahead(t)' <=> Ahead(t)
      BY <1>3, AheadUnchanged DEF StartSlot
    <3>3. QED
      BY <3>1, <3>2 DEF Balanced
  <2>2. CASE t # s
    BY <1>0, <1>3, <2>2, AheadUnchanged DEF StartSlot, Balanced, TypeOK
  <2>3. QED
    BY <2>1, <2>2
<1>4. ASSUME NEW s \in Slots, StopSlot(s) PROVE Balanced(t)'
  BY <1>0, <1>4, AheadUnchanged DEF StopSlot, Balanced, TypeOK
<1>5. ASSUME NEW s \in Slots, DeleteSlot(s) PROVE Balanced(t)'
  BY <1>0, <1>5, AheadUnchanged DEF DeleteSlot, Balanced, TypeOK
<1>6. CASE TickBegin
  \* Every running timer is owed one visit more, and has seen one call more.
  <2>1. ~Ahead(t) /\ Ahead(t)'
    BY <1>6, CapacityAssumption DEF TickBegin, Ahead, Slots
  <2>2. UNCHANGED <<state[t], remaining[t], timeout[t], early[t]>>
    BY <1>6 DEF TickBegin, block
  <2>3. state[t] = "RUNNING" => calls'[t] = calls[t] + 1
    BY <1>6 DEF TickBegin
  <2>4. calls[t] \in Nat /\ remaining[t] \in Nat /\ timeout[t] \in Nat
    BY DEF TypeOK
  <2>5. QED
    BY <1>0, <2>1, <2>2, <2>3, <2>4 DEF Balanced
<1>7. CASE TickSkip
  BY <1>0, <1>7, AheadAdvances DEF TickSkip, Balanced, block, history
<1>8. CASE scan \in Slots /\ TickCount
  \* The visit owed to slot scan is paid with one of its remaining ticks.
  <2>1. UNCHANGED <<state, timeout, calls, early>>
    BY <1>8 DEF TickCount, history
  <2>2. Ahead(t) <=> t >= scan
    BY <1>8, AheadAdvances DEF TickCount
  <2>3. Ahead(t)' <=> t >= scan /\ t # scan
    BY <1>8, AheadAdvances DEF TickCount
  <2>4. CASE t = scan
    <3>1. remaining'[t] = remaining[t] - 1
      BY <1>8, <2>4 DEF TickCount, Decremented, TypeOK
    <3>2. Ahead(t) /\ ~Ahead(t)'
      BY <1>8, <2>2, <2>3, <2>4, CapacityAssumption DEF Slots
    <3>3. calls[t] \in Nat /\ remaining[t] \in Nat /\ timeout[t] \in Nat
      BY DEF TypeOK
    <3>4. QED
      BY <1>0, <2>1, <3>1, <3>2, <3>3 DEF Balanced
  <2>5. CASE t # scan
    <3>1. remaining'[t] = remaining[t]
      BY <1>8, <2>5 DEF TickCount, TypeOK
    <3>2. QED
      BY <1>0, <2>1, <2>2, <2>3, <2>5, <3>1 DEF Balanced
  <2>6. QED
    BY <2>4, <2>5
<1>9. CASE scan \in Slots /\ TickFire
  <2>1. Ahead(t) <=> t >= scan
    BY <1>9, AheadAdvances DEF TickFire
  <2>2. Ahead(t)' <=> t >= scan /\ t # scan
    BY <1>9, AheadAdvances DEF TickFire
  <2>3. CASE t = scan
    <3>1. ~Ahead(t)' /\ calls'[t] = 0 /\ early'[t] = FALSE /\ timeout' = timeout
      BY <1>9, <2>2, <2>3 DEF TickFire, TypeOK
    <3>2. state'[t] = "RUNNING" => remaining'[t] = timeout[t]
      BY <1>9, <2>3 DEF TickFire, TypeOK
    <3>3. timeout[t] \in Nat
      BY DEF TypeOK
    <3>4. QED
      BY <3>1, <3>2, <3>3 DEF Balanced
  <2>4. CASE t # scan
    <3>1. UNCHANGED <<state[t], remaining[t], timeout[t], calls[t], early[t]>>
      BY <1>9, <2>4 DEF TickFire, TypeOK
    <3>2. QED
      BY <1>0, <2>1, <2>2, <2>4, <3>1 DEF Balanced
  <2>5. QED
    BY <2>3, <2>4
<1>10. CASE CallbackReturn
  <2>1. Ahead(t)' <=> Ahead(t)
    BY <1>10 DEF CallbackReturn, Ahead, TypeOK, Slots
  <2>2. QED
    BY <1>0, <1>10, <2>1 DEF CallbackReturn, Balanced, block, history
<1>11. CASE TickEnd
  <2>1. ~Ahead(t) /\ ~Ahead(t)'
    BY <1>11, CapacityAssumption DEF TickEnd, Ahead, Slots
  <2>2. QED
    BY <1>0, <1>11, <2>1 DEF TickEnd, Balanced, block, history
<1>12. CASE UNCHANGED <<block, ticking, handle, history>>
  BY <1>0, <1>12, AheadUnchanged DEF Balanced, block, history
<1>13. QED
  BY StepCases, <1>1, <1>2, <1>3, <1>4, <1>5, <1>6, <1>7, <1>8, <1>9, <1>10,
     <1>11, <1>12

\* The accounting of ticks holds for every pool, every timeout and every
\* interleaving of calls, ticks and callbacks.
THEOREM AccountingCorrect == Spec => []TickAccounting
<1>1. Init => TickAccounting
  BY DEF Init, TickAccounting, Balanced
<1>2. TypeOK /\ RunningCountdown /\ TickAccounting /\ [Next]_vars => TickAccounting'
  BY AccountingStep
<1>3. QED
  BY <1>1, <1>2, TypeCorrect, CountdownCorrect, PTL DEF Spec

\* A timer fires in the timeout-th Tick call of its countdown, or one call
\* sooner when a callback started it ahead of the scan, and at no other time.
THEOREM OnTime == Spec => FiresOnTime
<1>1. ASSUME TypeOK, RunningCountdown, TickAccounting, [Next]_vars,
             phase = "scan", phase' = "callback"
      PROVE  calls[scan] = timeout[scan] - (IF early[scan] THEN 1 ELSE 0)
  <2>1. scan \in Slots /\ TickFire
    BY <1>1, StepCases DEF Reinit, CreateIn, StartSlot, StopSlot, DeleteSlot,
       AppRuns, TickBegin, TickSkip, TickCount, CallbackReturn, TickEnd, ticking
  <2>2. remaining[scan] = 1
    BY <1>1, <2>1 DEF TickFire, Decremented, RunningCountdown, TypeOK
  <2>3. Ahead(scan) /\ state[scan] = "RUNNING"
    BY <1>1, <2>1, CapacityAssumption DEF TickFire, Ahead, Slots
  <2>4. calls[scan] \in Nat /\ timeout[scan] \in Nat
    BY <1>1, <2>1 DEF TypeOK
  <2>5. QED
  BY <1>1, <2>1, <2>2, <2>3, <2>4 DEF TickAccounting, Balanced
<1>2. QED
  BY <1>1, TypeCorrect, CountdownCorrect, AccountingCorrect, PTL DEF Spec, FiresOnTime
-----------------------------------------------------------------------------
\* The bookkeeping of handles is an invariant, whatever the ranges are.
LEMMA BookkeepingStep ==
    ASSUME TypeOK, HandleBookkeeping, [Next]_vars
    PROVE  HandleBookkeeping'
<1> DEFINE Lives ==
             /\ UNCHANGED <<context, generation, handle, deletes, birth>>
             /\ \A s \in Slots : (state'[s] = "UNUSED") <=> (state[s] = "UNUSED")
<1>1. CASE Reinit
  <2>1. 0 % GenRange = 0
    BY RangeAssumption
  <2>2. QED
    BY <1>1, <2>1 DEF Reinit, HandleBookkeeping
<1>2. ASSUME NEW c \in Contexts, NEW m \in Modes, NEW s \in Slots,
             handle[c] = NoHandle, CreateIn(s, c, m)
      PROVE  HandleBookkeeping'
  <2>1. /\ generation' = generation /\ deletes' = deletes
        /\ handle' = [handle EXCEPT ![c] = HandleOf(s, deletes[s] % GenRange)]
        /\ birth' = [birth EXCEPT ![c] = [slot |-> s, life |-> deletes[s]]]
        /\ context' = [context EXCEPT ![s] = c]
        /\ state[s] = "UNUSED" /\ state' = [state EXCEPT ![s] = "STOPPED"]
    BY <1>2 DEF CreateIn, HandleBookkeeping
  <2>2. HandleOf(s, deletes[s] % GenRange) # NoHandle
    BY HandleOfType, NoHandleAssumption DEF TypeOK, HandleBookkeeping
  <2>3. ASSUME NEW d \in Contexts, handle'[d] # NoHandle
        PROVE  /\ birth'[d].life <= deletes'[birth'[d].slot]
               /\ handle'[d] = HandleOf(birth'[d].slot, birth'[d].life % GenRange)
               /\ birth'[d].life = deletes'[birth'[d].slot] =>
                     /\ state'[birth'[d].slot] # "UNUSED"
                     /\ context'[birth'[d].slot] = d
    <3>1. CASE d = c
      BY <2>1, <3>1 DEF TypeOK
    <3>2. CASE d # c
      BY <2>1, <2>3, <3>2 DEF TypeOK, HandleBookkeeping
    <3>3. QED
      BY <3>1, <3>2
  <2>4. ASSUME NEW t \in Slots, state'[t] # "UNUSED"
        PROVE  /\ context'[t] \in Contexts
               /\ handle'[context'[t]] # NoHandle
               /\ birth'[context'[t]] = [slot |-> t, life |-> deletes'[t]]
    <3>1. CASE t = s
      BY <2>1, <2>2, <3>1 DEF TypeOK
    <3>2. CASE t # s
      BY <1>2, <2>1, <2>4, <3>2 DEF TypeOK, HandleBookkeeping
    <3>3. QED
      BY <3>1, <3>2
  <2>5. QED
    BY <2>1, <2>3, <2>4 DEF HandleBookkeeping
<1>3. ASSUME NEW s \in Slots, DeleteSlot(s) PROVE HandleBookkeeping'
  <2>1. /\ handle' = handle /\ birth' = birth
        /\ state' = [state EXCEPT ![s] = "UNUSED"]
        /\ context' = [context EXCEPT ![s] = NoContext]
        /\ generation' = [generation EXCEPT ![s] = NextGeneration(@)]
        /\ deletes' = [deletes EXCEPT ![s] = @ + 1]
    BY <1>3 DEF DeleteSlot
  <2>2. ASSUME NEW t \in Slots PROVE generation'[t] = deletes'[t] % GenRange
    BY <2>1, ModSuccessor, RangeAssumption
       DEF NextGeneration, TypeOK, HandleBookkeeping
  <2>3. ASSUME NEW d \in Contexts, handle'[d] # NoHandle
        PROVE  /\ birth'[d].life <= deletes'[birth'[d].slot]
               /\ handle'[d] = HandleOf(birth'[d].slot, birth'[d].life % GenRange)
               /\ birth'[d].life = deletes'[birth'[d].slot] =>
                     /\ state'[birth'[d].slot] # "UNUSED"
                     /\ context'[birth'[d].slot] = d
    BY <2>1, <2>3 DEF TypeOK, HandleBookkeeping
  <2>4. ASSUME NEW t \in Slots, state'[t] # "UNUSED"
        PROVE  /\ context'[t] \in Contexts
               /\ handle'[context'[t]] # NoHandle
               /\ birth'[context'[t]] = [slot |-> t, life |-> deletes'[t]]
    BY <2>1, <2>4 DEF TypeOK, HandleBookkeeping
  <2>5. QED
    BY <2>2, <2>3, <2>4 DEF HandleBookkeeping
<1>4. CASE Lives
  BY <1>4 DEF HandleBookkeeping, TypeOK
<1>5. ASSUME NEW s \in Slots, InUse(s),
             (\E n \in 1 .. MaxTimeout : StartSlot(s, n)) \/ StopSlot(s)
      PROVE  HandleBookkeeping'
  BY <1>4, <1>5 DEF StartSlot, StopSlot, InUse, TypeOK
<1>6. CASE scan \in Slots /\ TickFire
  BY <1>4, <1>6 DEF TickFire, FiredHandle, TypeOK
<1>7. CASE UNCHANGED <<block, handle, deletes, birth>>
  BY <1>4, <1>7 DEF block
<1>8. CASE TickBegin \/ TickSkip \/ CallbackReturn \/ TickEnd
  BY <1>7, <1>8 DEF TickBegin, TickSkip, CallbackReturn, TickEnd, history
<1>9. CASE TickCount
  BY <1>4, <1>9 DEF TickCount, history
<1>10. CASE UNCHANGED <<block, ticking, handle, history>>
  BY <1>7, <1>10 DEF history
<1>11. QED
  BY StepCases, <1>1, <1>2, <1>3, <1>5, <1>6, <1>8, <1>9, <1>10

\* Generations, handles and slots agree in every reachable state of the pool.
THEOREM BookkeepingCorrect == Spec => []HandleBookkeeping
<1>1. Init => HandleBookkeeping
  <2>1. 0 % GenRange = 0
    BY RangeAssumption
  <2>2. QED
    BY <2>1 DEF Init, HandleBookkeeping
<1>2. TypeOK /\ HandleBookkeeping /\ [Next]_vars => HandleBookkeeping'
  BY BookkeepingStep
<1>3. QED
  BY <1>1, <1>2, TypeCorrect, PTL DEF Spec

-----------------------------------------------------------------------------
\* An index below the range of its uint8_t is stored as it is.
LEMMA IndexKept ==
    ASSUME Capacity <= IndexRange, NEW s \in Slots, NEW g
    PROVE  HandleOf(s, g).index = s
BY CapacityAssumption, RangeAssumption DEF HandleOf, Slots

\* The handle of a timer in use tells its slot and the slot's generation.
LEMMA InUseHandle ==
    ASSUME TypeOK, HandleBookkeeping, NEW s \in Slots, state[s] # "UNUSED"
    PROVE  /\ context[s] \in Contexts
           /\ handle[context[s]] # NoHandle
           /\ handle[context[s]] = HandleOf(s, generation[s])
<1> DEFINE c == context[s]
<1>1. /\ c \in Contexts
      /\ handle[c] # NoHandle
      /\ birth[c] = [slot |-> s, life |-> deletes[s]]
  BY DEF HandleBookkeeping
<1> HIDE DEF c
<1>2. handle[c] = HandleOf(birth[c].slot, birth[c].life % GenRange)
  BY <1>1 DEF HandleBookkeeping
<1>3. birth[c].slot = s /\ birth[c].life % GenRange = generation[s]
  BY <1>1 DEF HandleBookkeeping
<1>4. QED
  BY <1>1, <1>2, <1>3 DEF c

\* With at most IndexRange slots (256 in the code) every timer in use can be
\* reached through the handle its creator was given.
THEOREM Reachable ==
    ASSUME Capacity <= IndexRange
    PROVE  Spec => []LiveTimerReachable
<1>1. TypeOK /\ HandleBookkeeping => LiveTimerReachable
  <2> SUFFICES ASSUME TypeOK, HandleBookkeeping,
                      NEW s \in Slots, state[s] # "UNUSED"
               PROVE  /\ context[s] \in Contexts
                      /\ handle[context[s]] # NoHandle
                      /\ Valid(handle[context[s]])
                      /\ handle[context[s]].index = s
    BY DEF LiveTimerReachable
  <2>1. /\ context[s] \in Contexts
        /\ handle[context[s]] # NoHandle
        /\ handle[context[s]] = HandleOf(s, generation[s])
    BY InUseHandle
  <2>2. handle[context[s]].index = s /\ handle[context[s]].generation = generation[s]
    BY <2>1, IndexKept DEF HandleOf
  <2>3. s < Capacity
    BY CapacityAssumption DEF Slots
  <2>4. QED
    BY <2>1, <2>2, <2>3 DEF Valid
<1>2. QED
  BY <1>1, TypeCorrect, BookkeepingCorrect, PTL

\* With at most IndexRange slots a stale handle never reaches the timer that
\* reuses its slot, before GenRange deletes of that slot (256 in the code).
THEOREM StaleHandlesRefused ==
    ASSUME Capacity <= IndexRange
    PROVE  Spec => []HandleNamesItsTimer
<1>1. TypeOK /\ HandleBookkeeping => HandleNamesItsTimer
  <2> SUFFICES ASSUME TypeOK, HandleBookkeeping,
                      NEW c \in Contexts, handle[c] # NoHandle, Valid(handle[c]),
                      deletes[handle[c].index] - birth[c].life < GenRange
               PROVE  context[handle[c].index] = c
    BY DEF HandleNamesItsTimer
  <2> DEFINE s == birth[c].slot
             b == birth[c].life
  <2>1. s \in Slots /\ b \in Nat /\ deletes[s] \in Nat
    BY DEF TypeOK
  <2>2. /\ b <= deletes[s]
        /\ handle[c] = HandleOf(s, b % GenRange)
        /\ b = deletes[s] => context[s] = c
        /\ generation[s] = deletes[s] % GenRange
    BY <2>1 DEF HandleBookkeeping
  <2>3. handle[c].index = s /\ handle[c].generation = b % GenRange
    BY <2>1, <2>2, IndexKept DEF HandleOf
  <2>4. deletes[s] % GenRange = b % GenRange
    BY <2>2, <2>3 DEF Valid
  <2>5. deletes[s] = b
    BY <2>1, <2>2, <2>3, <2>4, RangeAssumption, ModInjective
  <2>6. QED
    BY <2>2, <2>3, <2>5
<1>2. QED
  BY <1>1, TypeCorrect, BookkeepingCorrect, PTL

\* A callback is given its own timer's context and handle, for every pool and
\* whatever the callback does.
THEOREM CallbackIdentity == Spec => []CallbackKnowsItsTimer
<1>1. Init => CallbackKnowsItsTimer
  BY DEF Init, CallbackKnowsItsTimer
<1>2. ASSUME TypeOK, HandleBookkeeping, CallbackKnowsItsTimer, [Next]_vars
      PROVE  CallbackKnowsItsTimer'
  <2> USE DEF CallbackKnowsItsTimer
  <2>1. ASSUME NEW c \in Contexts, NEW m \in Modes, NEW s \in Slots,
               handle[c] = NoHandle, CreateIn(s, c, m)
        PROVE  CallbackKnowsItsTimer'
    BY <1>2, <2>1 DEF CreateIn, ticking, TypeOK
  <2>2. CASE scan \in Slots /\ TickFire
    <3>1. /\ context[scan] \in Contexts
          /\ handle[context[scan]] # NoHandle
          /\ handle[context[scan]] = HandleOf(scan, generation[scan])
      BY <1>2, <2>2, InUseHandle DEF TickFire
    <3>2. QED
      BY <2>2, <3>1 DEF TickFire, FiredHandle
  <2>3. CASE UNCHANGED <<ticking, handle>>
    BY <1>2, <2>3 DEF ticking
  <2>4. ASSUME NEW s \in Slots,
               \/ \E n \in 1 .. MaxTimeout : StartSlot(s, n)
               \/ StopSlot(s)
               \/ DeleteSlot(s)
        PROVE  CallbackKnowsItsTimer'
    BY <2>3, <2>4 DEF StartSlot, StopSlot, DeleteSlot
  <2>5. CASE Reinit
    BY <2>5 DEF Reinit, ticking
  <2>6. CASE TickBegin \/ TickSkip \/ TickCount \/ CallbackReturn \/ TickEnd
    BY <1>2, <2>6 DEF TickBegin, TickSkip, TickCount, CallbackReturn, TickEnd
  <2>7. QED
    BY <1>2, StepCases, <2>1, <2>2, <2>3, <2>4, <2>5, <2>6
<1>3. QED
  BY <1>1, <1>2, TypeCorrect, BookkeepingCorrect, PTL DEF Spec

-----------------------------------------------------------------------------
\* Tick re-arms nothing: a timer that starts to run does so in a call of the
\* application, for every pool and whatever the callbacks do.
THEOREM NeverRearmed == Spec => TickNeverRearms
<1>1. ASSUME TypeOK, [Next]_vars
      PROVE  \A s \in Slots :
                state[s] # "RUNNING" /\ state'[s] = "RUNNING" => UNCHANGED ticking
  <2> SUFFICES ASSUME NEW s \in Slots, state[s] # "RUNNING", state'[s] = "RUNNING"
               PROVE  UNCHANGED ticking
    OBVIOUS
  <2>1. ASSUME NEW t \in Slots,
               \/ \E c \in Contexts, m \in Modes : CreateIn(t, c, m)
               \/ \E n \in 1 .. MaxTimeout : StartSlot(t, n)
               \/ StopSlot(t) \/ DeleteSlot(t)
        PROVE  UNCHANGED ticking
    BY <2>1 DEF CreateIn, StartSlot, StopSlot, DeleteSlot
  <2>2. CASE Reinit
    BY <2>2 DEF Reinit
  <2>3. ~(TickBegin \/ TickSkip \/ TickCount \/ CallbackReturn \/ TickEnd)
    BY <1>1 DEF TickBegin, TickSkip, TickCount, CallbackReturn, TickEnd, block
  <2>4. ~TickFire
    BY <1>1 DEF TickFire, TypeOK
  <2>5. QED
    BY <1>1, StepCases, <2>1, <2>2, <2>3, <2>4
<1>2. QED
  BY <1>1, TypeCorrect, PTL DEF Spec, TickNeverRearms

\* The steps that are left of the Tick call in progress: two for each slot that
\* has a timer to fire, and the return.
StepsLeft == CASE phase = "idle"     -> 0
               [] phase = "scan"     -> 2 * (Capacity - scan) + 1
               [] phase = "callback" -> 2 * (Capacity - scan)

\* A Tick call is bounded by the number of slots: each of its steps brings the
\* end nearer and no call of a callback puts it off, not even the start of the
\* timer that has just fired.  (That it goes on to its end takes fairness.)
TickIsBounded ==
    [][/\ TickStep => StepsLeft \in 1 .. 2 * Capacity + 1 /\ StepsLeft' \in 0 .. StepsLeft - 1
       /\ phase # "idle" /\ ~TickStep => StepsLeft' = StepsLeft]_vars

\* No callback can keep Tick from returning, for every number of slots.
THEOREM TickBounded == Spec => TickIsBounded
<1>1. ASSUME TypeOK, [Next]_vars
      PROVE  /\ TickStep => StepsLeft \in 1 .. 2 * Capacity + 1 /\ StepsLeft' \in 0 .. StepsLeft - 1
             /\ phase # "idle" /\ ~TickStep => StepsLeft' = StepsLeft
  <2>1. Capacity \in Nat \ {0} /\ scan \in 0 .. Capacity
        /\ (phase = "callback" => scan < Capacity)
    BY <1>1, CapacityAssumption DEF TypeOK
  <2> DEFINE Nearer == StepsLeft \in 1 .. 2 * Capacity + 1 /\ StepsLeft' \in 0 .. StepsLeft - 1
  <2>2. TickSkip \/ TickCount => Nearer
    BY <2>1 DEF TickSkip, TickCount, StepsLeft
  <2>3. TickFire => Nearer
    BY <2>1 DEF TickFire, StepsLeft
  <2>4. CallbackReturn => Nearer
    BY <2>1 DEF CallbackReturn, StepsLeft
  <2>5. TickEnd => Nearer
    BY <2>1 DEF TickEnd, StepsLeft
  <2>6. ASSUME phase # "idle", ~TickStep PROVE StepsLeft' = StepsLeft
    <3>1. UNCHANGED ticking
      BY <1>1, <2>6, StepCases DEF TickStep, TickBegin, Reinit, CreateIn, StartSlot,
         StopSlot, DeleteSlot
    <3>2. QED
      BY <3>1 DEF ticking, StepsLeft
  <2>7. QED
    BY <2>2, <2>3, <2>4, <2>5, <2>6 DEF TickStep
<1>2. QED
  BY <1>1, TypeCorrect, PTL DEF Spec, TickIsBounded

-----------------------------------------------------------------------------
(* SwTimer implements TimerService.                                        *)

\* What the application can tell of a timer, besides GetState and
\* GetRemainingTicks.
Period(c) == IF Live(c) THEN timeout[handle[c].index] ELSE 0
Repeats(c) == Live(c) /\ mode[handle[c].index] = "PERIODIC"

\* No handle is used after GenRange deletes of its slot, when the generation
\* counter is again where it was: the accepted ones are younger than that.
NoGenerationWraps ==
    \A c \in Contexts :
        handle[c] # NoHandle /\ Valid(handle[c]) =>
            deletes[handle[c].index] - birth[c].life < GenRange

\* The slot of a timer was not deleted since Create took it.
NotDeleted(c) == birth[c].life = deletes[birth[c].slot]

\* What the bookkeeping comes to for the application: the handle of a timer is
\* valid as long as its slot was not deleted, and leads to it.
HandlesAreCurrent ==
    \A c \in Contexts : handle[c] # NoHandle =>
        /\ birth[c].slot \in Slots
        /\ birth[c].life \in Nat
        /\ birth[c].life <= deletes[birth[c].slot]
        /\ handle[c].index = birth[c].slot
        /\ Valid(handle[c]) <=> NotDeleted(c)
        /\ NotDeleted(c) =>
              state[birth[c].slot] # "UNUSED" /\ context[birth[c].slot] = c

LEMMA CurrentHandles ==
    ASSUME Capacity <= IndexRange, TypeOK, HandleBookkeeping, NoGenerationWraps
    PROVE  HandlesAreCurrent
<1> SUFFICES ASSUME NEW c \in Contexts, handle[c] # NoHandle
             PROVE  /\ birth[c].slot \in Slots
                    /\ birth[c].life \in Nat
                    /\ birth[c].life <= deletes[birth[c].slot]
                    /\ handle[c].index = birth[c].slot
                    /\ Valid(handle[c]) <=> NotDeleted(c)
                    /\ NotDeleted(c) =>
                          state[birth[c].slot] # "UNUSED" /\ context[birth[c].slot] = c
  BY DEF HandlesAreCurrent
<1> DEFINE s == birth[c].slot
           b == birth[c].life
<1>1. s \in Slots /\ b \in Nat /\ deletes[s] \in Nat
  BY DEF TypeOK
<1>2. /\ b <= deletes[s]
      /\ handle[c] = HandleOf(s, b % GenRange)
      /\ NotDeleted(c) => state[s] # "UNUSED" /\ context[s] = c
      /\ generation[s] = deletes[s] % GenRange
  BY <1>1 DEF HandleBookkeeping, NotDeleted
<1>3. handle[c].index = s /\ handle[c].generation = b % GenRange
  BY <1>1, <1>2, IndexKept DEF HandleOf
<1>4. ASSUME Valid(handle[c]) PROVE NotDeleted(c)
  <2>1. deletes[s] % GenRange = b % GenRange
    BY <1>2, <1>3, <1>4 DEF Valid
  <2>2. deletes[s] - b < GenRange
    BY <1>3, <1>4 DEF NoGenerationWraps
  <2>3. QED
    BY <1>1, <1>2, <2>1, <2>2, RangeAssumption, ModInjective DEF NotDeleted
<1>5. ASSUME NotDeleted(c) PROVE Valid(handle[c])
  <2>1. s < Capacity
    BY <1>1, CapacityAssumption DEF Slots
  <2>2. QED
    BY <1>2, <1>3, <1>5, <2>1 DEF Valid, NotDeleted
<1>6. QED
  BY <1>1, <1>2, <1>3, <1>4, <1>5

\* What the application sees of a timer is what is in the slot it was born in,
\* until that is deleted.
SeenInSlot ==
    \A c \in Contexts :
        LET s == birth[c].slot
            live == handle[c] # NoHandle /\ NotDeleted(c)
        IN  /\ GetState(c) = IF handle[c] = NoHandle THEN "NONE"
                             ELSE IF live THEN state[s] ELSE "INVALID_HANDLE"
            /\ GetRemainingTicks(c) = IF live THEN remaining[s] ELSE 0
            /\ Period(c) = IF live THEN timeout[s] ELSE 0
            /\ Repeats(c) = (live /\ mode[s] = "PERIODIC")

LEMMA CurrentIsSeen == HandlesAreCurrent => SeenInSlot
<1> SUFFICES ASSUME HandlesAreCurrent, NEW c \in Contexts
             PROVE  LET s == birth[c].slot
                        live == handle[c] # NoHandle /\ NotDeleted(c)
                    IN  /\ GetState(c) = IF handle[c] = NoHandle THEN "NONE"
                                         ELSE IF live THEN state[s] ELSE "INVALID_HANDLE"
                        /\ GetRemainingTicks(c) = IF live THEN remaining[s] ELSE 0
                        /\ Period(c) = IF live THEN timeout[s] ELSE 0
                        /\ Repeats(c) = (live /\ mode[s] = "PERIODIC")
  BY DEF SeenInSlot
<1>1. Live(c) <=> handle[c] # NoHandle /\ NotDeleted(c)
  BY DEF HandlesAreCurrent, Live
<1>2. handle[c] # NoHandle => handle[c].index = birth[c].slot
  BY DEF HandlesAreCurrent
<1>3. QED
  BY <1>1, <1>2 DEF HandlesAreCurrent, Live, GetState, GetRemainingTicks, Period, Repeats

\* All that is seen of a timer is unchanged.
Unseen(c) == /\ GetState(c)' = GetState(c)
             /\ GetRemainingTicks(c)' = GetRemainingTicks(c)
             /\ Period(c)' = Period(c)
             /\ Repeats(c)' = Repeats(c)

\* A step in another slot is not seen.
LEMMA OtherSlotUnseen ==
    ASSUME HandlesAreCurrent, SeenInSlot, SeenInSlot', NEW c \in Contexts,
           UNCHANGED <<handle[c], birth[c]>>,
           LET s == birth[c].slot
           IN  handle[c] # NoHandle /\ (NotDeleted(c) \/ NotDeleted(c)') =>
                  UNCHANGED <<state[s], remaining[s], timeout[s], mode[s], deletes[s]>>
    PROVE  Unseen(c)
BY DEF SeenInSlot, Unseen, NotDeleted

\* A timer in use is seen in its slot, and no other timer is seen there.
LEMMA InUseSeen ==
    ASSUME HandleBookkeeping, HandlesAreCurrent, NEW s \in Slots, InUse(s)
    PROVE  /\ context[s] \in Contexts
           /\ handle[context[s]] # NoHandle
           /\ birth[context[s]].slot = s
           /\ NotDeleted(context[s])
           /\ \A d \in Contexts :
                 handle[d] # NoHandle /\ NotDeleted(d) /\ birth[d].slot = s => d = context[s]
<1>1. /\ context[s] \in Contexts
      /\ handle[context[s]] # NoHandle
      /\ birth[context[s]] = [slot |-> s, life |-> deletes[s]]
  BY DEF HandleBookkeeping, InUse
<1>2. birth[context[s]].slot = s /\ birth[context[s]].life = deletes[s]
  BY <1>1
<1>3. NotDeleted(context[s])
  BY <1>2 DEF NotDeleted
<1>4. ASSUME NEW d \in Contexts, handle[d] # NoHandle, NotDeleted(d), birth[d].slot = s
      PROVE  d = context[s]
  BY <1>4 DEF HandlesAreCurrent
<1>5. QED
  BY <1>1, <1>2, <1>3, <1>4

\* A step that touches the slot of one timer only is not seen of the others.
LEMMA OthersUnseen ==
    ASSUME TypeOK, HandleBookkeeping, HandlesAreCurrent, SeenInSlot, SeenInSlot',
           UNCHANGED <<handle, birth>>, NEW s \in Slots, InUse(s),
           \A t \in Slots \ {s} :
              UNCHANGED <<state[t], remaining[t], timeout[t], mode[t], deletes[t]>>,
           deletes'[s] \in {deletes[s], deletes[s] + 1},
           NEW d \in Contexts, d # context[s]
    PROVE  Unseen(d)
<1>1. handle[d] # NoHandle =>
        /\ birth[d].slot \in Slots /\ birth[d].life \in Nat
        /\ birth[d].life <= deletes[birth[d].slot] /\ deletes[birth[d].slot] \in Nat
  BY DEF HandlesAreCurrent, TypeOK
<1>2. handle[d] # NoHandle /\ birth[d].slot = s => ~NotDeleted(d)
  BY InUseSeen
<1>3. handle[d] # NoHandle /\ birth[d].slot = s => ~NotDeleted(d)'
  BY <1>1, <1>2 DEF NotDeleted
<1>4. QED
  BY <1>1, <1>2, <1>3, OtherSlotUnseen

\* The steps of TimerService, each by what is seen of its timer.
UnseenBut(c) == \A d \in Contexts \ {c} : Unseen(d)

LEMMA SeenCreate ==
    ASSUME NEW c \in Contexts, UnseenBut(c), NEW periodic \in BOOLEAN,
           GetState(c) = "NONE", GetState(c)' = "STOPPED", Repeats(c)' = periodic,
           Period(c)' = Period(c), GetRemainingTicks(c)' = GetRemainingTicks(c)
    PROVE  Service!Create(c, periodic)
BY DEF UnseenBut, Unseen, Service!Create, Period, Repeats

LEMMA SeenStart ==
    ASSUME NEW c \in Contexts, UnseenBut(c), NEW n \in Nat,
           GetState(c) \in {"STOPPED", "RUNNING"}, GetState(c)' = "RUNNING",
           GetRemainingTicks(c)' = n, Period(c)' = n, Repeats(c)' = Repeats(c)
    PROVE  Service!Start(c, n)
BY DEF UnseenBut, Unseen, Service!Start, Service!Live, Period, Repeats

LEMMA SeenStop ==
    ASSUME NEW c \in Contexts, UnseenBut(c),
           GetState(c) \in {"STOPPED", "RUNNING"}, GetState(c)' = "STOPPED",
           GetRemainingTicks(c)' = 0, Period(c)' = Period(c), Repeats(c)' = Repeats(c)
    PROVE  Service!Stop(c)
BY DEF UnseenBut, Unseen, Service!Stop, Service!Live, Period, Repeats

LEMMA SeenDelete ==
    ASSUME NEW c \in Contexts, UnseenBut(c),
           GetState(c) \in {"STOPPED", "RUNNING"}, GetState(c)' = "INVALID_HANDLE",
           GetRemainingTicks(c)' = 0, Period(c)' = 0, Repeats(c)' = FALSE
    PROVE  Service!Delete(c)
BY DEF UnseenBut, Unseen, Service!Delete, Service!Live, Period, Repeats

LEMMA SeenCount ==
    ASSUME NEW c \in Contexts, UnseenBut(c),
           GetState(c) = "RUNNING", GetState(c)' = GetState(c), GetRemainingTicks(c) > 1,
           GetRemainingTicks(c)' = GetRemainingTicks(c) - 1,
           Period(c)' = Period(c), Repeats(c)' = Repeats(c)
    PROVE  Service!Count(c)
BY DEF UnseenBut, Unseen, Service!Count, Period, Repeats

LEMMA SeenExpire ==
    ASSUME NEW c \in Contexts, UnseenBut(c),
           GetState(c) = "RUNNING", GetRemainingTicks(c) = 1,
           Period(c)' = Period(c), Repeats(c)' = Repeats(c),
           IF Repeats(c)
           THEN GetState(c)' = GetState(c) /\ GetRemainingTicks(c)' = Period(c)
           ELSE GetState(c)' = "STOPPED" /\ GetRemainingTicks(c)' = 0
    PROVE  Service!Expire(c)
BY DEF UnseenBut, Unseen, Service!Expire, Period, Repeats

LEMMA NothingSeen ==
    ASSUME \A c \in Contexts : Unseen(c)
    PROVE  UNCHANGED Service!vars
BY DEF Unseen, Service!vars, Period, Repeats

\* Everything known of a state of the pool in which no generation has wrapped.
PoolSeen == TypeOK /\ RunningCountdown /\ HandleBookkeeping /\ HandlesAreCurrent /\ SeenInSlot

\* What is seen of the timer in a slot in use.
LEMMA TimerSeen ==
    ASSUME PoolSeen, NEW s \in Slots, InUse(s), NEW c, c = context[s]
    PROVE  /\ c \in Contexts /\ handle[c] # NoHandle
           /\ birth[c].slot = s /\ NotDeleted(c)
           /\ GetState(c) = state[s] /\ state[s] \in {"STOPPED", "RUNNING"}
           /\ GetRemainingTicks(c) = remaining[s]
           /\ Period(c) = timeout[s]
           /\ Repeats(c) = (mode[s] = "PERIODIC")
<1>1. /\ c \in Contexts /\ handle[c] # NoHandle
      /\ birth[c].slot = s /\ NotDeleted(c)
  BY InUseSeen DEF PoolSeen
<1>2. state[s] \in {"STOPPED", "RUNNING"}
  BY DEF PoolSeen, TypeOK, States, InUse
<1>3. /\ GetState(c) = state[s] /\ GetRemainingTicks(c) = remaining[s]
      /\ Period(c) = timeout[s] /\ Repeats(c) = (mode[s] = "PERIODIC")
  BY <1>1 DEF PoolSeen, SeenInSlot
<1>4. QED
  BY <1>1, <1>2, <1>3

\* The same after a step that deletes nothing and leaves the handles alone.
LEMMA TimerSeenNext ==
    ASSUME PoolSeen, PoolSeen', NEW s \in Slots, InUse(s), NEW c, c = context[s],
           UNCHANGED <<handle, birth, deletes>>
    PROVE  /\ GetState(c)' = state'[s]
           /\ GetRemainingTicks(c)' = remaining'[s]
           /\ Period(c)' = timeout'[s]
           /\ Repeats(c)' = (mode'[s] = "PERIODIC")
<1>1. c \in Contexts /\ handle[c] # NoHandle /\ birth[c].slot = s /\ NotDeleted(c)
  BY TimerSeen
<1>2. handle'[c] # NoHandle /\ birth'[c].slot = s /\ NotDeleted(c)'
  BY <1>1 DEF NotDeleted
<1>3. QED
  BY <1>1, <1>2 DEF PoolSeen, SeenInSlot

\* Steps in the slot of one timer are steps of that timer in TimerService.
LEMMA SlotSteps ==
    ASSUME PoolSeen, PoolSeen', NEW s \in Slots, InUse(s), NEW c, c = context[s]
    PROVE  /\ \A n \in 1 .. MaxTimeout : StartSlot(s, n) => Service!Start(c, n)
           /\ StopSlot(s) => Service!Stop(c)
           /\ DeleteSlot(s) => Service!Delete(c)
           /\ scan = s /\ TickCount => Service!Count(c)
           /\ scan = s /\ TickFire => Service!Expire(c)
<1>1. /\ c \in Contexts /\ handle[c] # NoHandle
      /\ birth[c].slot = s /\ NotDeleted(c)
      /\ GetState(c) = state[s] /\ state[s] \in {"STOPPED", "RUNNING"}
      /\ GetRemainingTicks(c) = remaining[s]
      /\ Period(c) = timeout[s]
      /\ Repeats(c) = (mode[s] = "PERIODIC")
  BY TimerSeen
<1>2. ASSUME UNCHANGED <<handle, birth>>,
             \A t \in Slots \ {s} :
                UNCHANGED <<state[t], remaining[t], timeout[t], mode[t], deletes[t]>>,
             deletes'[s] \in {deletes[s], deletes[s] + 1}
      PROVE  UnseenBut(c)
  BY <1>2, OthersUnseen DEF PoolSeen, UnseenBut
<1>3. ASSUME UNCHANGED <<handle, birth, deletes>>
      PROVE  /\ GetState(c)' = state'[s]
             /\ GetRemainingTicks(c)' = remaining'[s]
             /\ Period(c)' = timeout'[s]
             /\ Repeats(c)' = (mode'[s] = "PERIODIC")
  BY <1>3, TimerSeenNext
<1>4. TypeOK /\ RunningCountdown
  BY DEF PoolSeen
<1>5. ASSUME NEW n \in 1 .. MaxTimeout, StartSlot(s, n) PROVE Service!Start(c, n)
  <2>1. UnseenBut(c)
    BY <1>2, <1>4, <1>5 DEF StartSlot, TypeOK
  <2>2. state'[s] = "RUNNING" /\ remaining'[s] = n /\ timeout'[s] = n /\ mode' = mode
    BY <1>4, <1>5 DEF StartSlot, TypeOK
  <2>3. UNCHANGED <<handle, birth, deletes>>
    BY <1>5 DEF StartSlot
  <2>4. QED
    BY <1>1, <1>3, <2>1, <2>2, <2>3, SeenStart
<1>6. ASSUME StopSlot(s) PROVE Service!Stop(c)
  <2>1. UnseenBut(c)
    BY <1>2, <1>4, <1>6 DEF StopSlot, TypeOK
  <2>2. state'[s] = "STOPPED" /\ remaining'[s] = 0 /\ timeout' = timeout /\ mode' = mode
    BY <1>4, <1>6 DEF StopSlot, TypeOK
  <2>3. UNCHANGED <<handle, birth, deletes>>
    BY <1>6 DEF StopSlot
  <2>4. QED
    BY <1>1, <1>3, <2>1, <2>2, <2>3, SeenStop
<1>7. ASSUME DeleteSlot(s) PROVE Service!Delete(c)
  <2>1. UnseenBut(c)
    BY <1>2, <1>4, <1>7 DEF DeleteSlot, TypeOK
  <2>2. handle'[c] # NoHandle /\ ~NotDeleted(c)'
    BY <1>1, <1>4, <1>7 DEF DeleteSlot, TypeOK, NotDeleted
  <2>3. /\ GetState(c)' = "INVALID_HANDLE" /\ GetRemainingTicks(c)' = 0
        /\ Period(c)' = 0 /\ Repeats(c)' = FALSE
    BY <1>1, <2>2 DEF PoolSeen, SeenInSlot
  <2>4. QED
    BY <1>1, <2>1, <2>3, SeenDelete
<1>8. ASSUME scan = s, TickCount PROVE Service!Count(c)
  <2>1. UnseenBut(c)
    BY <1>2, <1>4, <1>8 DEF TickCount, TypeOK, history
  <2>2. /\ state[s] = "RUNNING" /\ state' = state
        /\ remaining[s] > 1 /\ remaining'[s] = remaining[s] - 1
        /\ timeout' = timeout /\ mode' = mode
    BY <1>4, <1>8 DEF TickCount, TypeOK, Decremented
  <2>3. UNCHANGED <<handle, birth, deletes>>
    BY <1>8 DEF TickCount, history
  <2>4. QED
    BY <1>1, <1>3, <2>1, <2>2, <2>3, SeenCount
<1>9. ASSUME scan = s, TickFire PROVE Service!Expire(c)
  <2>1. UnseenBut(c)
    BY <1>2, <1>4, <1>9 DEF TickFire, TypeOK
  <2>2. /\ state[s] = "RUNNING" /\ remaining[s] = 1
        /\ timeout' = timeout /\ mode' = mode
    BY <1>4, <1>9 DEF TickFire, TypeOK, Decremented, RunningCountdown
  <2>3. IF mode[s] = "PERIODIC"
        THEN state' = state /\ remaining'[s] = timeout[s]
        ELSE state'[s] = "STOPPED" /\ remaining'[s] = 0
    BY <1>4, <1>9 DEF TickFire, TypeOK
  <2>4. UNCHANGED <<handle, birth, deletes>>
    BY <1>9 DEF TickFire
  <2>5. /\ GetState(c) = "RUNNING" /\ GetRemainingTicks(c) = 1
        /\ Period(c) = timeout[s] /\ Repeats(c) = (mode[s] = "PERIODIC")
    BY <1>1, <2>2
  <2>6. /\ GetState(c)' = state'[s] /\ GetRemainingTicks(c)' = remaining'[s]
        /\ Period(c)' = Period(c) /\ Repeats(c)' = Repeats(c)
    BY <1>3, <2>2, <2>4, <2>5
  <2>7. IF Repeats(c)
        THEN GetState(c)' = GetState(c) /\ GetRemainingTicks(c)' = Period(c)
        ELSE GetState(c)' = "STOPPED" /\ GetRemainingTicks(c)' = 0
    BY <2>2, <2>3, <2>5, <2>6
  <2>8. QED
    BY <1>1, <2>1, <2>5, <2>6, <2>7, SeenExpire
<1>10. QED
  BY <1>5, <1>6, <1>7, <1>8, <1>9

\* Every step of the pool is a step of TimerService or not seen at all.
LEMMA ServiceStep ==
    ASSUME PoolSeen, PoolSeen', [Next]_vars
    PROVE  [Service!Next]_(Service!vars)
<1>1. TypeOK /\ HandleBookkeeping
  BY DEF PoolSeen
<1>2. CASE Reinit
  <2>1. \A c \in Contexts : handle'[c] = NoHandle
    BY <1>2 DEF Reinit
  <2>2. \A c \in Contexts : /\ GetState(c)' = "NONE" /\ GetRemainingTicks(c)' = 0
                            /\ Period(c)' = 0 /\ Repeats(c)' = FALSE
    BY <2>1 DEF PoolSeen, SeenInSlot
  <2>3. Service!Reset
    BY <2>2 DEF Service!Reset, Period, Repeats
  <2>4. QED
    BY <2>3 DEF Service!Next
<1>3. ASSUME NEW c \in Contexts, NEW m \in Modes, NEW s \in Slots,
             handle[c] = NoHandle, CreateIn(s, c, m)
      PROVE  Service!Create(c, m = "PERIODIC")
  <2>1. /\ state'[s] = "STOPPED" /\ remaining'[s] = 0 /\ timeout'[s] = 0 /\ mode'[s] = m
        /\ handle'[c] # NoHandle
        /\ birth'[c] = [slot |-> s, life |-> deletes[s]]
    BY <1>1, <1>3, HandleOfType, NoHandleAssumption DEF CreateIn, TypeOK
  <2>2. NotDeleted(c)' /\ birth'[c].slot = s
    BY <1>3, <2>1 DEF CreateIn, NotDeleted
  <2>3. /\ GetState(c)' = "STOPPED" /\ GetRemainingTicks(c)' = 0
        /\ Period(c)' = 0 /\ Repeats(c)' = (m = "PERIODIC")
    BY <2>1, <2>2 DEF PoolSeen, SeenInSlot
  <2>4. GetState(c) = "NONE" /\ GetRemainingTicks(c) = 0 /\ Period(c) = 0
    BY <1>3 DEF PoolSeen, SeenInSlot
  <2>5. ASSUME NEW d \in Contexts \ {c} PROVE Unseen(d)
    <3>1. handle'[d] = handle[d] /\ birth'[d] = birth[d] /\ deletes' = deletes
      BY <1>1, <1>3, <2>5 DEF CreateIn, TypeOK
    <3>2. NotDeleted(d)' <=> NotDeleted(d)
      BY <3>1 DEF NotDeleted
    <3>3. handle[d] # NoHandle /\ NotDeleted(d) => birth[d].slot \in Slots \ {s}
      BY <1>3 DEF PoolSeen, HandlesAreCurrent, CreateIn
    <3>4. \A t \in Slots \ {s} :
             UNCHANGED <<state[t], remaining[t], timeout[t], mode[t], deletes[t]>>
      BY <1>1, <1>3 DEF CreateIn, TypeOK
    <3>5. QED
      BY <3>1, <3>2, <3>3, <3>4, OtherSlotUnseen DEF PoolSeen
  <2>6. UnseenBut(c)
    BY <2>5 DEF UnseenBut
  <2>7. (m = "PERIODIC") \in BOOLEAN
    OBVIOUS
  <2>8. QED
    BY <2>3, <2>4, <2>6, <2>7, SeenCreate
<1>4. ASSUME NEW s \in Slots, InUse(s), NEW n \in 1 .. MaxTimeout, StartSlot(s, n)
      PROVE  \E c \in Contexts : Service!Start(c, n)
  BY <1>4, SlotSteps, TimerSeen
<1>5. ASSUME NEW s \in Slots, InUse(s), StopSlot(s) \/ DeleteSlot(s)
      PROVE  \E c \in Contexts : Service!Stop(c) \/ Service!Delete(c)
  BY <1>5, SlotSteps, TimerSeen
<1>6. ASSUME scan \in Slots, TickCount \/ TickFire
      PROVE  \E c \in Contexts : Service!Count(c) \/ Service!Expire(c)
  <2>1. InUse(scan)
    BY <1>6 DEF TickCount, TickFire, InUse
  <2>2. QED
    BY <1>6, <2>1, SlotSteps, TimerSeen
<1>7. CASE UNCHANGED <<block, handle, deletes, birth>>
  <2>1. ASSUME NEW c \in Contexts PROVE Unseen(c)
    BY <1>7, OtherSlotUnseen DEF PoolSeen, block
  <2>2. QED
    BY <2>1, NothingSeen
<1>8. CASE TickBegin \/ TickSkip \/ CallbackReturn \/ TickEnd
  BY <1>7, <1>8 DEF TickBegin, TickSkip, CallbackReturn, TickEnd, history
<1>9. CASE UNCHANGED <<block, ticking, handle, history>>
  BY <1>7, <1>9 DEF history
<1>10. (\E c \in Contexts, m \in Modes, s \in Slots : handle[c] = NoHandle /\ CreateIn(s, c, m))
          => \E c \in Contexts : \E periodic \in BOOLEAN : Service!Create(c, periodic)
  BY <1>3
<1>11. QED
  BY <1>1, StepCases, <1>2, <1>4, <1>5, <1>6, <1>8, <1>9, <1>10 DEF Service!Next

\* As long as no generation counter wraps around while a handle is kept, and
\* with at most IndexRange slots (256 of each in the code), the pool is the
\* independent timers of TimerService.
THEOREM RefinementUnwrapped ==
    ASSUME Capacity <= IndexRange
    PROVE  Spec /\ []NoGenerationWraps => ImplementsTimerService
<1>1. Spec /\ []NoGenerationWraps => []PoolSeen
  <2>1. TypeOK /\ RunningCountdown /\ HandleBookkeeping /\ NoGenerationWraps => PoolSeen
    BY CurrentHandles, CurrentIsSeen DEF PoolSeen
  <2>2. QED
    BY <2>1, TypeCorrect, CountdownCorrect, BookkeepingCorrect, PTL
<1>2. Init => Service!Init
  BY DEF Init, Service!Init, GetState, GetRemainingTicks, Live
<1>3. PoolSeen /\ PoolSeen' /\ [Next]_vars => [Service!Next]_(Service!vars)
  BY ServiceStep
<1>4. QED
  BY <1>1, <1>2, <1>3, PTL DEF Spec, ImplementsTimerService, Service!Spec

\* Every use of a slot that has ended was the use by some timer, and no timer
\* is created twice: as many deletes, as many timers.
LivesHaveTimers ==
    \A s \in Slots, k \in Nat : k < deletes[s] =>
        \E c \in Contexts : handle[c] # NoHandle /\ birth[c] = [slot |-> s, life |-> k]

LEMMA LivesStep ==
    ASSUME TypeOK, HandleBookkeeping, LivesHaveTimers, [Next]_vars
    PROVE  LivesHaveTimers'
<1>1. CASE Reinit
  BY <1>1 DEF Reinit, LivesHaveTimers
<1>2. ASSUME NEW c \in Contexts, NEW m \in Modes, NEW s \in Slots,
             handle[c] = NoHandle, CreateIn(s, c, m)
      PROVE  LivesHaveTimers'
  <2>1. /\ deletes' = deletes
        /\ \A d \in Contexts \ {c} : handle'[d] = handle[d] /\ birth'[d] = birth[d]
    BY <1>2 DEF CreateIn, TypeOK
  <2>2. SUFFICES ASSUME NEW t \in Slots, NEW k \in Nat, k < deletes[t]
                 PROVE  \E d \in Contexts :
                           handle'[d] # NoHandle /\ birth'[d] = [slot |-> t, life |-> k]
    BY <2>1 DEF LivesHaveTimers
  <2>3. PICK d \in Contexts : handle[d] # NoHandle /\ birth[d] = [slot |-> t, life |-> k]
    BY <2>2 DEF LivesHaveTimers
  <2>4. d # c
    BY <1>2, <2>3
  <2>5. QED
    BY <2>1, <2>3, <2>4
<1>3. ASSUME NEW s \in Slots, InUse(s), DeleteSlot(s) PROVE LivesHaveTimers'
  <2>1. /\ handle' = handle /\ birth' = birth
        /\ \A t \in Slots : deletes'[t] = IF t = s THEN deletes[s] + 1 ELSE deletes[t]
    BY <1>3 DEF DeleteSlot, TypeOK
  <2>2. /\ context[s] \in Contexts /\ handle[context[s]] # NoHandle
        /\ birth[context[s]] = [slot |-> s, life |-> deletes[s]]
    BY <1>3 DEF HandleBookkeeping, InUse
  <2>3. SUFFICES ASSUME NEW t \in Slots, NEW k \in Nat, k < deletes'[t]
                 PROVE  \E c \in Contexts :
                           handle[c] # NoHandle /\ birth[c] = [slot |-> t, life |-> k]
    BY <2>1 DEF LivesHaveTimers
  <2>4. CASE t = s /\ k = deletes[s]
    BY <2>2, <2>4
  <2>5. CASE ~(t = s /\ k = deletes[s])
    <3>1. k < deletes[t]
      <4>1. deletes[t] \in Nat
        BY DEF TypeOK
      <4>2. t = s => deletes'[t] = deletes[t] + 1 /\ k # deletes[t]
        BY <2>1, <2>5
      <4>3. t # s => deletes'[t] = deletes[t]
        BY <2>1
      <4>4. QED
        BY <2>3, <4>1, <4>2, <4>3
    <3>2. QED
      BY <3>1 DEF LivesHaveTimers
  <2>6. QED
    BY <2>4, <2>5
<1>4. CASE UNCHANGED <<handle, deletes, birth>>
  BY <1>4 DEF LivesHaveTimers
<1>5. ASSUME NEW s \in Slots, (\E n \in 1 .. MaxTimeout : StartSlot(s, n)) \/ StopSlot(s)
      PROVE  LivesHaveTimers'
  BY <1>4, <1>5 DEF StartSlot, StopSlot
<1>6. CASE TickBegin \/ TickSkip \/ TickCount \/ TickFire \/ CallbackReturn \/ TickEnd
  BY <1>4, <1>6 DEF TickBegin, TickSkip, TickCount, TickFire, CallbackReturn, TickEnd, history
<1>7. CASE UNCHANGED <<block, ticking, handle, history>>
  BY <1>4, <1>7 DEF history
<1>8. QED
  BY StepCases, <1>1, <1>2, <1>3, <1>5, <1>6, <1>7

\* With no more timers than generations, no handle outlives the generations.
LEMMA FewTimersNoWrap ==
    ASSUME Capacity <= IndexRange, IsFiniteSet(Contexts), Cardinality(Contexts) <= GenRange,
           TypeOK, HandleBookkeeping, LivesHaveTimers
    PROVE  NoGenerationWraps
<1> SUFFICES ASSUME NEW c \in Contexts, handle[c] # NoHandle, Valid(handle[c])
             PROVE  deletes[handle[c].index] - birth[c].life < GenRange
  BY DEF NoGenerationWraps
<1> DEFINE s == handle[c].index
           D == deletes[s]
<1>1. s \in Slots /\ state[s] # "UNUSED" /\ D \in Nat
  BY ValidSlot DEF InUse, TypeOK
<1>2. ASSUME NEW k \in 0 .. D
      PROVE  \E d \in Contexts : birth[d] = [slot |-> s, life |-> k]
  <2>1. CASE k < D
    BY <1>1, <2>1 DEF LivesHaveTimers
  <2>2. CASE k = D
    BY <1>1, <2>2 DEF HandleBookkeeping
  <2>3. QED
    BY <1>1, <2>1, <2>2
<1> DEFINE user == [k \in 0 .. D |->
                       CHOOSE d \in Contexts : birth[d] = [slot |-> s, life |-> k]]
<1>3. \A k \in 0 .. D : user[k] \in Contexts /\ birth[user[k]] = [slot |-> s, life |-> k]
  BY <1>2
<1> HIDE DEF user, s, D
<1>4. \A j, k \in 0 .. D : user[j] = user[k] => j = k
  <2>1. SUFFICES ASSUME NEW j \in 0 .. D, NEW k \in 0 .. D, user[j] = user[k]
                 PROVE  j = k
    OBVIOUS
  <2>2. birth[user[j]] = [slot |-> s, life |-> j] /\ birth[user[k]] = [slot |-> s, life |-> k]
    BY <1>3
  <2>3. QED
    BY <2>1, <2>2
<1>5. user \in Injection(0 .. D, Contexts)
  BY <1>3, <1>4, Fun_IsInj DEF user
<1>6. Cardinality(0 .. D) <= Cardinality(Contexts)
  BY <1>5, FS_Injection
<1>7. Cardinality(0 .. D) = D + 1 /\ Cardinality(Contexts) \in Nat
  BY <1>1, FS_Interval, FS_CardinalityType
<1>8. birth[c].life \in Nat
  BY DEF TypeOK
<1>9. QED
  BY <1>1, <1>6, <1>7, <1>8, RangeAssumption DEF s, D

\* Between two calls of softwareTimerInit, as many timers may be created as
\* there are generations without any confusion: the pool is the independent
\* timers of TimerService.
THEOREM Refinement ==
    ASSUME Capacity <= IndexRange, IsFiniteSet(Contexts), Cardinality(Contexts) <= GenRange
    PROVE  Spec => ImplementsTimerService
<1>1. Init => LivesHaveTimers
  BY DEF Init, LivesHaveTimers
<1>2. TypeOK /\ HandleBookkeeping /\ LivesHaveTimers /\ [Next]_vars => LivesHaveTimers'
  BY LivesStep
<1>3. TypeOK /\ HandleBookkeeping /\ LivesHaveTimers => NoGenerationWraps
  BY FewTimersNoWrap
<1>4. Spec /\ []NoGenerationWraps => ImplementsTimerService
  BY RefinementUnwrapped
<1>5. QED
  BY <1>1, <1>2, <1>3, <1>4, TypeCorrect, BookkeepingCorrect, PTL DEF Spec
=============================================================================
