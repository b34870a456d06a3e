-------------------------- MODULE RingBufferProofs --------------------------
(***************************************************************************)
(* Proofs about RingBuffer and RingBufferClients, for every capacity up to *)
(* half the range of a size_t and every set of elements.                   *)
(***************************************************************************)
EXTENDS RingBufferClients, SequenceTheorems, TLAPS

-----------------------------------------------------------------------------
(* Positions on a circle.                                                  *)

\* A remainder below the divisor is the remainder.
LEMMA RemainderUnique ==
    ASSUME NEW G \in Nat \ {0}, NEW q \in Nat, NEW r \in 0 .. G - 1
    PROVE  (G * q + r) % G = r
OBVIOUS

\* A remainder, within one modulus of its range, without division.
LEMMA WrapOnce ==
    ASSUME NEW n \in Nat \ {0}, NEW x \in Int, 0 <= x + n, x < 2 * n
    PROVE  x % n = IF x < 0 THEN x + n ELSE IF x < n THEN x ELSE x - n
<1>1. CASE x < 0
  <2>1. x + n \in 0 .. n - 1 /\ x = n * (-1) + (x + n)
    BY <1>1
  <2>2. QED
    BY <1>1, <2>1
<1>2. CASE 0 <= x /\ x < n
  BY <1>2
<1>3. CASE n <= x
  <2>1. x - n \in 0 .. n - 1 /\ x = n * 1 + (x - n)
    BY <1>3
  <2>2. x % n = x - n
    BY <2>1, RemainderUnique
  <2>3. QED
    BY <1>3, <2>2
<1>4. QED
  BY <1>1, <1>2, <1>3

\* The i-th position of a circle of n, counted from t.
LEMMA CirclePosition ==
    ASSUME NEW n \in Nat \ {0}, NEW t \in 0 .. n - 1, NEW i \in 1 .. n
    PROVE  (t + i - 1) % n = IF t + i - 1 < n THEN t + i - 1 ELSE t + i - 1 - n
<1> DEFINE y == t + i - 1
<1>1. y \in Int /\ 0 <= y + n /\ y < 2 * n /\ 0 <= y
  OBVIOUS
<1> HIDE DEF y
<1>2. y % n = IF y < 0 THEN y + n ELSE IF y < n THEN y ELSE y - n
  BY <1>1, WrapOnce
<1>3. y % n = IF y < n THEN y ELSE y - n
  BY <1>1, <1>2
<1>4. QED
  BY <1>3 DEF y

-----------------------------------------------------------------------------
\* Positions, without division: the next one, and the slot of element i.
LEMMA NextIndexValue ==
    ASSUME capacity \in Nat \ {0}, NEW i \in Slots
    PROVE  /\ NextIndex(i) = IF i + 1 = capacity THEN 0 ELSE i + 1
           /\ NextIndex(i) \in Slots
<1> DEFINE y == i + 1
<1>1. /\ capacity \in Nat \ {0} /\ y \in Int
      /\ 0 <= y + capacity /\ y < 2 * capacity /\ 0 < y /\ y <= capacity
  BY DEF Slots
<1>2. NextIndex(i) = y % capacity
  BY DEF NextIndex
<1> HIDE DEF y
<1>3. y % capacity = IF y < 0 THEN y + capacity ELSE IF y < capacity THEN y ELSE y - capacity
  BY <1>1, WrapOnce
<1>4. NextIndex(i) = IF y = capacity THEN 0 ELSE y
  BY <1>1, <1>2, <1>3
<1>5. QED
  BY <1>1, <1>4 DEF Slots, y

\* What TypeOK says of a buffer that has storage.
LEMMA InStorage ==
    ASSUME TypeOK, HasStorage
    PROVE  /\ capacity \in Nat /\ capacity >= 2 /\ 2 * capacity <= WordRange
           /\ head \in Slots /\ tail \in Slots
           /\ head \in Int /\ 0 <= head /\ head < capacity
           /\ tail \in Int /\ 0 <= tail /\ tail < capacity
           /\ GetSize \in 0 .. capacity - 1
BY DEF TypeOK, HasStorage, Slots, GetSize

\* The positions stay inside the storage in force, on every lap and over every
\* re-initialisation, and no operation leaves a position without storage.
THEOREM TypeCorrect == Spec => []TypeOK
<1>1. Init => TypeOK
  BY CapacityAssumption DEF Init, TypeOK, Slots, HasStorage, Calls, Statuses
<1>2. TypeOK /\ [Next]_vars => TypeOK'
  <2> SUFFICES ASSUME TypeOK, [Next]_vars PROVE TypeOK'
    OBVIOUS
  <2>1. ASSUME NEW c \in Capacities, NEW size \in ElementSizes, RingBufferInit(c, size)
        PROVE  TypeOK'
    <3>1. CASE c >= 2 /\ size >= 1
      BY <2>1, <3>1, CapacityAssumption, SizeAssumption
         DEF RingBufferInit, TypeOK, Slots, HasStorage, Calls, Statuses
    <3>2. CASE ~(c >= 2 /\ size >= 1)
      BY <2>1, <3>2, CapacityAssumption, SizeAssumption
         DEF RingBufferInit, TypeOK, Slots, HasStorage, Calls, Statuses, ring
    <3>3. QED
      BY <3>1, <3>2
  <2>2. CASE UNCHANGED ring /\ call' \in Calls /\ status' \in Statuses
             /\ out' \in Elements \cup {NoElement}
    BY <2>2 DEF TypeOK, Slots, HasStorage, ring
  <2>3. ASSUME HasStorage PROVE NextIndex(head) \in Slots /\ NextIndex(tail) \in Slots
    BY <2>3, InStorage, NextIndexValue
  <2>4. ASSUME NEW x \in Elements, Push(x) PROVE TypeOK'
    <3>1. CASE HasStorage /\ ~IsFull
      BY <2>3, <2>4, <3>1 DEF Push, NoStorage, TypeOK, Slots, HasStorage, Calls, Statuses
    <3>2. CASE ~(HasStorage /\ ~IsFull)
      BY <2>2, <2>4, <3>2 DEF Push, NoStorage, TypeOK, Calls, Statuses
    <3>3. QED
      BY <3>1, <3>2
  <2>5. ASSUME HasStorage, ~IsEmpty PROVE buffer[tail] \in Elements \cup {NoElement}
    BY <2>5, InStorage DEF TypeOK
  <2>6. CASE Pop
    <3>1. CASE HasStorage /\ ~IsEmpty
      BY <2>3, <2>5, <2>6, <3>1
         DEF Pop, NoStorage, NothingToRead, TypeOK, Slots, HasStorage, Calls, Statuses
    <3>2. CASE ~(HasStorage /\ ~IsEmpty)
      BY <2>2, <2>6, <3>2 DEF Pop, NoStorage, NothingToRead, TypeOK, Calls, Statuses
    <3>3. QED
      BY <3>1, <3>2
  <2>7. CASE Peek
    BY <2>2, <2>5, <2>7 DEF Peek, NoStorage, NothingToRead, TypeOK, Calls, Statuses
  <2>8. CASE Clear
    <3>1. CASE HasStorage
      BY <2>8, <3>1 DEF Clear, NoStorage, TypeOK, Slots, HasStorage, Calls, Statuses
    <3>2. CASE ~HasStorage
      BY <2>2, <2>8, <3>2 DEF Clear, NoStorage, TypeOK, Calls, Statuses
    <3>3. QED
      BY <3>1, <3>2
  <2>9. CASE UNCHANGED vars
    BY <2>2, <2>9 DEF vars, TypeOK
  <2>10. QED
    BY <2>1, <2>4, <2>6, <2>7, <2>8, <2>9 DEF Next
<1>3. QED
  BY <1>1, <1>2, PTL DEF Spec

-----------------------------------------------------------------------------
\* The available space, without wrapping arithmetic.
LEMMA AvailableSpaceValue ==
    ASSUME TypeOK, HasStorage
    PROVE  GetAvailableSpace = capacity - 1 - GetSize
<1> DEFINE x == tail - head - 1
           gap == x % WordRange
<1>1. /\ capacity \in Nat \ {0} /\ WordRange \in Nat \ {0} /\ 2 * capacity <= WordRange
      /\ x \in Int /\ 0 <= x + capacity /\ x < capacity
  BY InStorage, CapacityAssumption
<1>2. gap = IF x < 0 THEN x + WordRange ELSE x
  BY <1>1, WrapOnce
<1>3. GetAvailableSpace = ((gap + capacity) % WordRange) % capacity
  BY DEF GetAvailableSpace
<1>4. x < 0 <=> head >= tail
  BY InStorage
<1>5. GetSize = IF x < 0 THEN -x - 1 ELSE capacity - x - 1
  BY InStorage, <1>4 DEF GetSize
<1> HIDE DEF x, gap
<1>6. CASE x < 0
  <2>1. (gap + capacity) % WordRange = x + capacity
    <3> DEFINE z == gap + capacity
    <3>1. /\ z \in Int /\ 0 <= z + WordRange /\ z >= WordRange /\ z < 2 * WordRange
          /\ z - WordRange = x + capacity
      BY <1>1, <1>2, <1>6
    <3> HIDE DEF z
    <3>2. z % WordRange =
            IF z < 0 THEN z + WordRange ELSE IF z < WordRange THEN z ELSE z - WordRange
      BY <1>1, <3>1, WrapOnce
    <3>3. z % WordRange = x + capacity
      BY <1>1, <3>1, <3>2
    <3>4. QED
      BY <3>3 DEF z
  <2>2. (x + capacity) % capacity = x + capacity
    BY <1>1, <1>6
  <2>3. QED
    BY <1>1, <1>3, <1>5, <1>6, <2>1, <2>2
<1>7. CASE ~(x < 0)
  <2>1. (gap + capacity) % WordRange = x + capacity
    BY <1>1, <1>2, <1>7
  <2>2. (x + capacity) % capacity = x
    <3>1. x + capacity \in Int /\ x + capacity >= capacity /\ x + capacity < 2 * capacity
      BY <1>1, <1>7
    <3>2. QED
      BY <1>1, <3>1, WrapOnce
  <2>3. QED
    BY <1>1, <1>3, <1>5, <1>7, <2>1, <2>2
<1>8. QED
  BY <1>6, <1>7

\* The four queries agree for every capacity and every pair of positions.
THEOREM QueriesCorrect == Spec => []QueriesAgree
<1>1. TypeOK => QueriesAgree
  <2> SUFFICES ASSUME TypeOK, HasStorage
               PROVE  /\ GetSize + GetAvailableSpace = GetCapacity
                      /\ IsFull <=> GetAvailableSpace = 0
                      /\ IsEmpty <=> GetSize = 0
    BY DEF QueriesAgree
  <2>1. GetAvailableSpace = capacity - 1 - GetSize
    BY AvailableSpaceValue
  <2>2. NextIndex(head) = IF head + 1 = capacity THEN 0 ELSE head + 1
    BY InStorage, NextIndexValue
  <2>3. GetSize + GetAvailableSpace = GetCapacity
    BY <2>1, InStorage DEF GetCapacity
  <2>4. IsFull <=> GetSize = capacity - 1
    BY <2>2, InStorage DEF IsFull, GetSize
  <2>5. IsEmpty <=> GetSize = 0
    BY InStorage DEF IsEmpty, GetSize
  <2>6. QED
    BY <2>1, <2>3, <2>4, <2>5, InStorage
<1>2. QED
  BY <1>1, TypeCorrect, PTL

-----------------------------------------------------------------------------
\* The slot of the i-th oldest element.
SlotOf(i) == (tail + i - 1) % capacity

LEMMA SlotOfValue ==
    ASSUME TypeOK, HasStorage, NEW i \in 1 .. capacity
    PROVE  /\ SlotOf(i) = IF tail + i - 1 < capacity THEN tail + i - 1
                                                     ELSE tail + i - 1 - capacity
           /\ SlotOf(i) \in Slots
<1>1. capacity \in Nat \ {0} /\ tail \in 0 .. capacity - 1
  BY InStorage DEF Slots
<1>2. SlotOf(i) = IF tail + i - 1 < capacity THEN tail + i - 1
                                             ELSE tail + i - 1 - capacity
  BY <1>1, CirclePosition DEF SlotOf
<1>3. QED
  BY <1>1, <1>2 DEF Slots

\* The contents, as a sequence.
LEMMA ContentsValue ==
    ASSUME TypeOK, HoldsOnlyPushed
    PROVE  /\ GetSize \in Nat
           /\ Contents \in Seq(Elements)
           /\ Len(Contents) = GetSize
           /\ \A i \in 1 .. GetSize : Contents[i] = buffer[SlotOf(i)]
<1>1. GetSize \in Nat
  BY InStorage DEF TypeOK, HasStorage, GetSize
<1>2. Contents \in [1 .. GetSize -> Elements]
  BY DEF HoldsOnlyPushed, Contents
<1>3. Contents \in Seq(Elements) /\ Len(Contents) = GetSize
  BY <1>1, <1>2
<1>4. QED
  BY <1>1, <1>3 DEF Contents, SlotOf

\* A push that finds room appends its element.
LEMMA PushAppends ==
    ASSUME TypeOK, HoldsOnlyPushed, TypeOK', NEW x \in Elements,
           HasStorage, ~IsFull, Push(x)
    PROVE  HoldsOnlyPushed' /\ Contents' = Append(Contents, x)
<1>1. /\ buffer' = [buffer EXCEPT ![head] = x]
      /\ head' = NextIndex(head) /\ tail' = tail /\ capacity' = capacity
  BY DEF Push, NoStorage
<1>2. NextIndex(head) = IF head + 1 = capacity THEN 0 ELSE head + 1
  BY InStorage, NextIndexValue
<1>3. GetSize' = GetSize + 1 /\ GetSize + 1 < capacity
  BY <1>1, <1>2, InStorage DEF GetSize, IsFull
<1>4. ASSUME NEW i \in 1 .. GetSize PROVE SlotOf(i) \in Slots /\ SlotOf(i) # head
  BY <1>3, InStorage, SlotOfValue DEF GetSize
<1>5. SlotOf(GetSize + 1) = head
  BY <1>3, InStorage, SlotOfValue DEF GetSize
<1>6. Contents' = [i \in 1 .. GetSize + 1 |-> buffer'[SlotOf(i)]]
  BY <1>1, <1>3 DEF Contents, SlotOf
<1>7. DOMAIN buffer = Slots /\ head \in Slots
  BY InStorage DEF TypeOK
<1>8. \A i \in 1 .. GetSize : Contents'[i] = Contents[i]
  BY <1>1, <1>3, <1>4, <1>6, <1>7, InStorage, ContentsValue
<1>9. Contents'[GetSize + 1] = x
  BY <1>1, <1>5, <1>6, <1>7, InStorage
<1>10. Contents' \in Seq(Elements) /\ Len(Contents') = GetSize + 1
  <2>1. \A i \in 1 .. GetSize + 1 : i \in 1 .. GetSize \/ i = GetSize + 1
    BY ContentsValue
  <2>2. \A i \in 1 .. GetSize + 1 : Contents'[i] \in Elements
    BY <1>8, <1>9, <2>1 DEF HoldsOnlyPushed
  <2>3. Contents' \in [1 .. GetSize + 1 -> Elements]
    BY <1>6, <2>2
  <2>4. QED
    BY <2>3, ContentsValue
<1>11. Contents' = Append(Contents, x)
  <2>1. /\ Append(Contents, x) \in Seq(Elements)
        /\ Len(Append(Contents, x)) = GetSize + 1
        /\ \A i \in 1 .. GetSize : Append(Contents, x)[i] = Contents[i]
        /\ Append(Contents, x)[GetSize + 1] = x
    BY ContentsValue, AppendProperties
  <2>2. \A i \in 1 .. GetSize + 1 : Contents'[i] = Append(Contents, x)[i]
    BY <1>8, <1>9, <2>1, ContentsValue
  <2>3. QED
    BY <1>10, <2>1, <2>2, SeqEqual
<1>12. HoldsOnlyPushed'
  BY <1>3, <1>10 DEF HoldsOnlyPushed
<1>13. QED
  BY <1>11, <1>12

\* A pop that finds an element takes the oldest one away.
LEMMA PopTakes ==
    ASSUME TypeOK, HoldsOnlyPushed, TypeOK', HasStorage, ~IsEmpty, Pop
    PROVE  /\ HoldsOnlyPushed'
           /\ Contents # << >> /\ out' = Head(Contents)
           /\ Contents' = Tail(Contents)
<1>1. /\ out' = buffer[tail] /\ tail' = NextIndex(tail)
      /\ buffer' = buffer /\ head' = head /\ capacity' = capacity
  BY DEF Pop, NoStorage, NothingToRead
<1>2. NextIndex(tail) = IF tail + 1 = capacity THEN 0 ELSE tail + 1
  BY InStorage, NextIndexValue
<1>3. GetSize >= 1 /\ GetSize' = GetSize - 1 /\ GetSize < capacity
  BY <1>1, <1>2, InStorage DEF GetSize, IsEmpty
<1>4. ASSUME NEW i \in 1 .. GetSize - 1 PROVE SlotOf(i)' = SlotOf(i + 1)
  <2>1. /\ i \in 1 .. capacity /\ i + 1 \in 1 .. capacity
        /\ capacity \in Nat \ {0} /\ tail' \in 0 .. capacity - 1
    BY <1>1, <1>2, <1>3, InStorage
  <2>2. SlotOf(i)' = IF tail' + i - 1 < capacity THEN tail' + i - 1
                                                ELSE tail' + i - 1 - capacity
    BY <1>1, <2>1, CirclePosition DEF SlotOf
  <2>3. SlotOf(i + 1) = IF tail + i < capacity THEN tail + i ELSE tail + i - capacity
    BY <2>1, InStorage, SlotOfValue
  <2>4. QED
    BY <1>1, <1>2, <2>1, <2>2, <2>3, InStorage
<1>5. Contents' = [i \in 1 .. GetSize - 1 |-> buffer[SlotOf(i)']]
  BY <1>1, <1>3 DEF Contents, SlotOf
<1>6. \A i \in 1 .. GetSize - 1 : Contents'[i] = Contents[i + 1]
  BY <1>3, <1>4, <1>5, ContentsValue
<1>7. Contents # << >> /\ Contents[1] = buffer[tail]
  <2>1. 1 \in 1 .. GetSize /\ 1 \in 1 .. capacity
    BY <1>3, InStorage, ContentsValue
  <2>2. SlotOf(1) = tail
    BY <2>1, InStorage, SlotOfValue
  <2>3. Contents[1] = buffer[SlotOf(1)]
    BY <2>1, ContentsValue
  <2>4. Contents # << >>
    BY <1>3, ContentsValue
  <2>5. QED
    BY <2>2, <2>3, <2>4
<1>8. Contents' \in Seq(Elements) /\ Len(Contents') = GetSize - 1
  <2>1. Contents' \in [1 .. GetSize - 1 -> Elements]
    BY <1>3, <1>5, <1>6, ContentsValue DEF HoldsOnlyPushed
  <2>2. QED
    BY <1>3, <2>1, ContentsValue
<1>9. Contents' = Tail(Contents)
  <2>1. /\ Tail(Contents) \in Seq(Elements)
        /\ Len(Tail(Contents)) = GetSize - 1
        /\ \A i \in 1 .. GetSize - 1 : Tail(Contents)[i] = Contents[i + 1]
    BY <1>7, ContentsValue, HeadTailProperties
  <2>2. QED
    BY <1>6, <1>8, <2>1, SeqEqual
<1>10. HoldsOnlyPushed'
  BY <1>3, <1>8 DEF HoldsOnlyPushed
<1>11. QED
  BY <1>1, <1>7, <1>9, <1>10

-----------------------------------------------------------------------------
\* What the queue looks like after a step that leaves head = tail, and after
\* one that leaves the buffer alone.
LEMMA EmptiedContents ==
    ASSUME head' = 0, tail' = 0
    PROVE  HoldsOnlyPushed' /\ Contents' = << >>
<1>1. GetSize' = 0
  BY DEF GetSize
<1>2. QED
  BY <1>1 DEF HoldsOnlyPushed, Contents

LEMMA SameContents ==
    ASSUME HoldsOnlyPushed, UNCHANGED ring
    PROVE  HoldsOnlyPushed' /\ Contents' = Contents
BY DEF HoldsOnlyPushed, Contents, GetSize, ring

Room == IF HasStorage THEN GetCapacity ELSE 0

LEMMA SameRoom ==
    ASSUME capacity' = capacity
    PROVE  Room' = Room
BY DEF Room, HasStorage, GetCapacity

\* The state of the abstract queue, in the ring buffer's terms.
LEMMA AbstractState ==
    ASSUME TypeOK, HoldsOnlyPushed
    PROVE  /\ ~HasStorage => Room = 0
           /\ HasStorage => Room > 0 /\ Len(Contents) <= Room
           /\ HasStorage /\ IsFull <=> HasStorage /\ Len(Contents) = Room
           /\ HasStorage /\ IsEmpty <=> HasStorage /\ Contents = << >>
<1>1. CASE ~HasStorage
  BY <1>1 DEF Room
<1>2. CASE HasStorage
  <2>1. Room = capacity - 1
    BY <1>2 DEF Room, GetCapacity
  <2>2. NextIndex(head) = IF head + 1 = capacity THEN 0 ELSE head + 1
    BY <1>2, InStorage, NextIndexValue
  <2>3. IsFull <=> GetSize = capacity - 1
    BY <1>2, <2>2, InStorage DEF IsFull, GetSize
  <2>4. IsEmpty <=> GetSize = 0
    BY <1>2, InStorage DEF IsEmpty, GetSize
  <2>5. Contents = << >> <=> GetSize = 0
    BY ContentsValue, EmptySeq
  <2>6. QED
    BY <1>2, <2>1, <2>3, <2>4, <2>5, InStorage, ContentsValue
<1>3. QED
  BY <1>1, <1>2

\* Every step is a step of the queue, and keeps its contents pushed elements.
LEMMA FifoStep ==
    ASSUME TypeOK, TypeOK', HoldsOnlyPushed, [Next]_vars
    PROVE  HoldsOnlyPushed' /\ [Fifo!Next]_(Fifo!vars)
<1> DEFINE Unchanged == UNCHANGED <<Contents, Room, out>>
<1>1. ASSUME UNCHANGED <<ring, out>> PROVE HoldsOnlyPushed' /\ Unchanged
  BY <1>1, SameContents, SameRoom DEF ring
<1>2. ASSUME NEW c \in Capacities, NEW size \in ElementSizes, RingBufferInit(c, size)
      PROVE  HoldsOnlyPushed' /\ Fifo!Size
  <2>1. CASE c >= 2 /\ size >= 1
    <3>1. HoldsOnlyPushed' /\ Contents' = << >>
      BY <1>2, <2>1, CapacityAssumption, SizeAssumption, EmptiedContents DEF RingBufferInit
    <3>2. Room' = c - 1 /\ Room' \in {d - 1 : d \in Capacities} \ {0}
      BY <1>2, <2>1, CapacityAssumption, SizeAssumption DEF RingBufferInit, Room, HasStorage, GetCapacity
    <3>3. call' = "Init" /\ status' = "SUCCESS" /\ UNCHANGED out
      BY <1>2, <2>1, CapacityAssumption, SizeAssumption DEF RingBufferInit
    <3>4. QED
      BY <3>1, <3>2, <3>3 DEF Fifo!Size, Room
  <2>2. CASE ~(c >= 2 /\ size >= 1)
    <3>1. /\ call' = "Init" /\ status' \in {"INVALID_CAPACITY", "INVALID_ELEMENT_SIZE"}
          /\ UNCHANGED <<ring, out>>
      BY <1>2, <2>2 DEF RingBufferInit
    <3>2. QED
      BY <1>1, <3>1 DEF Fifo!Size, Fifo!Refuse, Room
  <2>3. QED
    BY <2>1, <2>2
<1>3. ASSUME NEW x \in Elements, Push(x)
      PROVE  HoldsOnlyPushed' /\ Fifo!Put(x)
  <2>1. CASE HasStorage /\ ~IsFull
    <3>1. HoldsOnlyPushed' /\ Contents' = Append(Contents, x)
      BY <1>3, <2>1, PushAppends
    <3>2. Room' = Room /\ call' = "Push" /\ status' = "SUCCESS" /\ UNCHANGED out
      BY <1>3, <2>1, SameRoom DEF Push, NoStorage
    <3>3. Len(Contents) < Room
      BY <2>1, AbstractState, InStorage, ContentsValue DEF Room, GetCapacity
    <3>4. QED
      BY <3>1, <3>2, <3>3 DEF Fifo!Put, Room
  <2>2. CASE ~(HasStorage /\ ~IsFull)
    <3>1. /\ call' = "Push" /\ UNCHANGED <<ring, out>>
          /\ status' = IF HasStorage THEN "FULL" ELSE "NULL_POINTER"
      BY <1>3, <2>2 DEF Push, NoStorage
    <3>2. QED
      BY <1>1, <2>2, <3>1, AbstractState DEF Fifo!Put, Fifo!Refuse, Room
  <2>3. QED
    BY <2>1, <2>2
<1>4. ASSUME Pop \/ Peek PROVE HoldsOnlyPushed' /\ Fifo!Read
  <2>1. CASE ~(HasStorage /\ ~IsEmpty)
    <3>1. /\ call' \in {"Pop", "Peek"} /\ UNCHANGED <<ring, out>>
          /\ status' = IF HasStorage THEN "EMPTY" ELSE "NULL_POINTER"
      BY <1>4, <2>1 DEF Pop, Peek, NoStorage, NothingToRead
    <3>2. QED
      BY <1>1, <2>1, <3>1, AbstractState DEF Fifo!Read, Fifo!Refuse, Room
  <2>2. CASE HasStorage /\ ~IsEmpty /\ Pop
    <3>1. /\ HoldsOnlyPushed' /\ Contents # << >>
          /\ out' = Head(Contents) /\ Contents' = Tail(Contents)
      BY <2>2, PopTakes
    <3>2. Room' = Room /\ call' = "Pop" /\ status' = "SUCCESS"
      BY <2>2, SameRoom DEF Pop, NoStorage, NothingToRead
    <3>3. QED
      BY <3>1, <3>2 DEF Fifo!Read, Room
  <2>3. CASE HasStorage /\ ~IsEmpty /\ Peek
    <3>1. UNCHANGED ring /\ out' = buffer[tail] /\ call' = "Peek" /\ status' = "SUCCESS"
      BY <2>3 DEF Peek, NoStorage, NothingToRead
    <3>2. HoldsOnlyPushed' /\ Contents' = Contents /\ Room' = Room
      BY <3>1, SameContents, SameRoom DEF ring
    <3>3. Contents # << >>
      BY <2>3, AbstractState
    <3>4. GetSize >= 1 /\ SlotOf(1) = tail
      BY <2>3, <3>3, InStorage, SlotOfValue DEF IsEmpty, GetSize
    <3>5. Head(Contents) = buffer[tail]
      BY <3>4, ContentsValue
    <3>6. QED
      BY <3>1, <3>2, <3>3, <3>5 DEF Fifo!Read, Room
  <2>4. QED
    BY <1>4, <2>1, <2>2, <2>3
<1>5. ASSUME Clear PROVE HoldsOnlyPushed' /\ Fifo!Clear
  <2>1. CASE HasStorage
    <3>1. HoldsOnlyPushed' /\ Contents' = << >> /\ Room' = Room
      BY <1>5, <2>1, EmptiedContents, SameRoom DEF Clear, NoStorage
    <3>2. call' = "Clear" /\ status' = "SUCCESS" /\ UNCHANGED out
      BY <1>5, <2>1 DEF Clear, NoStorage
    <3>3. QED
      BY <2>1, <3>1, <3>2, AbstractState DEF Fifo!Clear, Room
  <2>2. CASE ~HasStorage
    <3>1. call' = "Clear" /\ status' = "NULL_POINTER" /\ UNCHANGED <<ring, out>>
      BY <1>5, <2>2 DEF Clear, NoStorage
    <3>2. QED
      BY <1>1, <2>2, <3>1, AbstractState DEF Fifo!Clear, Fifo!Refuse, Room
  <2>3. QED
    BY <2>1, <2>2
<1>6. CASE UNCHANGED vars
  BY <1>1, <1>6 DEF vars, Fifo!vars, Room
<1>7. QED
  BY <1>2, <1>3, <1>4, <1>5, <1>6 DEF Next, Fifo!Next

\* Only pushed elements are ever in the queue, for every capacity.
THEOREM OnlyPushed == Spec => []HoldsOnlyPushed
<1>1. Init => HoldsOnlyPushed
  BY DEF Init, HoldsOnlyPushed, GetSize
<1>2. TypeOK /\ TypeOK' /\ HoldsOnlyPushed /\ [Next]_vars => HoldsOnlyPushed'
  BY FifoStep
<1>3. QED
  BY <1>1, <1>2, TypeCorrect, PTL DEF Spec

\* The ring buffer implements the bounded queue, for every capacity up to half
\* the range of a size_t and every sequence of calls.
THEOREM Refinement == Spec => ImplementsFifo
<1>1. Init => Fifo!Init
  <2> SUFFICES ASSUME Init PROVE Fifo!Init
    OBVIOUS
  <2>1. Contents = << >>
    BY DEF Init, Contents, GetSize
  <2>2. QED
    BY <2>1, ElementAssumption DEF Init, Fifo!Init, HasStorage
<1>2. TypeOK /\ TypeOK' /\ HoldsOnlyPushed /\ [Next]_vars => [Fifo!Next]_(Fifo!vars)
  BY FifoStep
<1>3. QED
  BY <1>1, <1>2, TypeCorrect, OnlyPushed, PTL DEF Spec, ImplementsFifo, Fifo!Spec

-----------------------------------------------------------------------------
\* Clients that plan ahead use the buffer as any others do.
LEMMA ClientStep == [NextClients]_clientVars => [Next]_vars
BY DEF NextClients, clientVars, AskSpace, AskSize, Produce, Consume, Look, Resize, Empty, Next

\* What is left of a snapshot is covered by what the buffer has: the pushes the
\* producer may still do by its free slots, the pops the consumer may still do
\* by its elements.
SnapshotsCovered ==
    /\ space \in Nat /\ ready \in Nat
    /\ ~HasStorage => space = 0 /\ ready = 0
    /\ HasStorage => space + GetSize <= capacity - 1 /\ ready <= GetSize

\* What the calls do to the number of elements.
LEMMA PushGrows ==
    ASSUME TypeOK, NEW x \in Elements, Push(x)
    PROVE  /\ capacity' = capacity
           /\ IF HasStorage /\ ~IsFull THEN GetSize' = GetSize + 1 ELSE GetSize' = GetSize
<1>1. CASE HasStorage /\ ~IsFull
  <2>1. head' = NextIndex(head) /\ tail' = tail /\ capacity' = capacity
    BY <1>1 DEF Push, NoStorage
  <2>2. NextIndex(head) = IF head + 1 = capacity THEN 0 ELSE head + 1
    BY <1>1, InStorage, NextIndexValue
  <2>3. QED
    BY <1>1, <2>1, <2>2, InStorage DEF GetSize, IsFull
<1>2. CASE ~(HasStorage /\ ~IsFull)
  BY <1>2 DEF Push, NoStorage, ring, GetSize
<1>3. QED
  BY <1>1, <1>2

LEMMA PopShrinks ==
    ASSUME TypeOK, Pop
    PROVE  /\ capacity' = capacity
           /\ IF HasStorage /\ ~IsEmpty THEN GetSize' = GetSize - 1 ELSE GetSize' = GetSize
<1>1. CASE HasStorage /\ ~IsEmpty
  <2>1. tail' = NextIndex(tail) /\ head' = head /\ capacity' = capacity
    BY <1>1 DEF Pop, NoStorage, NothingToRead
  <2>2. NextIndex(tail) = IF tail + 1 = capacity THEN 0 ELSE tail + 1
    BY <1>1, InStorage, NextIndexValue
  <2>3. QED
    BY <1>1, <2>1, <2>2, InStorage DEF GetSize, IsEmpty
<1>2. CASE ~(HasStorage /\ ~IsEmpty)
  BY <1>2 DEF Pop, NoStorage, NothingToRead, ring, GetSize
<1>3. QED
  BY <1>1, <1>2

\* A buffer is full or empty by its number of elements.
LEMMA FullOrEmpty ==
    ASSUME TypeOK, HasStorage
    PROVE  /\ IsFull <=> GetSize = capacity - 1
           /\ IsEmpty <=> GetSize = 0
<1>1. NextIndex(head) = IF head + 1 = capacity THEN 0 ELSE head + 1
  BY InStorage, NextIndexValue
<1>2. QED
  BY <1>1, InStorage DEF IsFull, IsEmpty, GetSize

\* A snapshot never promises too much, for every capacity, and however long
\* the other client has gone on since it was taken.
THEOREM SnapshotsCorrect == ClientSpec => []SnapshotsHold
<1>1. ClientSpec => Spec
  <2>1. InitClients => Init
    BY DEF InitClients
  <2>2. QED
    BY <2>1, ClientStep, PTL DEF ClientSpec, Spec
<1>2. InitClients => SnapshotsCovered
  BY DEF InitClients, Init, SnapshotsCovered, HasStorage
<1>3. TypeOK /\ SnapshotsCovered /\ [NextClients]_clientVars => SnapshotsCovered'
  <2> SUFFICES ASSUME TypeOK, SnapshotsCovered, [NextClients]_clientVars
               PROVE  SnapshotsCovered'
    OBVIOUS
  <2>1. HasStorage => GetSize \in 0 .. capacity - 1 /\ capacity \in Nat
    BY InStorage
  <2>2. ASSUME UNCHANGED ring, space' \in Nat, ready' \in Nat,
               ~HasStorage => space' = 0 /\ ready' = 0,
               HasStorage => space' + GetSize <= capacity - 1 /\ ready' <= GetSize
        PROVE  SnapshotsCovered'
    BY <2>2 DEF SnapshotsCovered, ring, HasStorage, GetSize
  <2>3. CASE AskSpace
    <3>1. GetAvailableSpace = capacity - 1 - GetSize
      BY <2>3, AvailableSpaceValue DEF AskSpace
    <3>2. QED
      BY <2>1, <2>2, <2>3, <3>1 DEF AskSpace, SnapshotsCovered, vars
  <2>4. CASE AskSize
    BY <2>1, <2>2, <2>4 DEF AskSize, SnapshotsCovered, vars
  <2>5. ASSUME NEW x \in Elements, Produce(x) PROVE SnapshotsCovered'
    <3>1. CASE HasStorage /\ ~IsFull
      <4>1. GetSize' = GetSize + 1 /\ capacity' = capacity /\ GetSize < capacity - 1
        BY <2>1, <2>5, <3>1, PushGrows, FullOrEmpty DEF Produce
      <4>2. QED
        BY <2>1, <2>5, <3>1, <4>1 DEF Produce, Spent, SnapshotsCovered, HasStorage
    <3>2. CASE ~(HasStorage /\ ~IsFull)
      <4>1. UNCHANGED ring
        BY <2>5, <3>2 DEF Produce, Push, NoStorage
      <4>2. QED
        BY <2>1, <2>2, <2>5, <4>1 DEF Produce, Spent, SnapshotsCovered
    <3>3. QED
      BY <3>1, <3>2
  <2>6. CASE Consume
    <3>1. CASE HasStorage /\ ~IsEmpty
      <4>1. GetSize' = GetSize - 1 /\ capacity' = capacity /\ GetSize > 0
        BY <2>1, <2>6, <3>1, PopShrinks, FullOrEmpty DEF Consume
      <4>2. QED
        BY <2>1, <2>6, <3>1, <4>1 DEF Consume, Spent, SnapshotsCovered, HasStorage
    <3>2. CASE ~(HasStorage /\ ~IsEmpty)
      <4>1. UNCHANGED ring
        BY <2>6, <3>2 DEF Consume, Pop, NoStorage, NothingToRead
      <4>2. QED
        BY <2>1, <2>2, <2>6, <4>1 DEF Consume, Spent, SnapshotsCovered
    <3>3. QED
      BY <3>1, <3>2
  <2>7. CASE Look
    <3>1. UNCHANGED ring
      BY <2>7 DEF Look, Peek, NoStorage, NothingToRead
    <3>2. QED
      BY <2>2, <2>7, <3>1 DEF Look, SnapshotsCovered
  <2>8. ASSUME NEW c \in Capacities, NEW size \in ElementSizes, Resize(c, size)
        PROVE  SnapshotsCovered'
    <3>1. CASE c >= 2 /\ size >= 1
      <4>1. /\ status' = "SUCCESS" /\ capacity' = c /\ head' = 0 /\ tail' = 0
            /\ c \in Nat
        BY <2>8, <3>1, CapacityAssumption, SizeAssumption DEF Resize, RingBufferInit
      <4>2. space' = 0 /\ ready' = 0 /\ GetSize' = 0
        BY <2>8, <4>1 DEF Resize, GetSize
      <4>3. QED
        BY <3>1, <4>1, <4>2 DEF SnapshotsCovered, HasStorage
    <3>2. CASE ~(c >= 2 /\ size >= 1)
      <4>1. UNCHANGED ring /\ status' # "SUCCESS"
        BY <2>8, <3>2 DEF Resize, RingBufferInit
      <4>2. QED
        BY <2>2, <2>8, <4>1 DEF Resize, SnapshotsCovered
    <3>3. QED
      BY <3>1, <3>2
  <2>9. CASE Empty
    <3>1. CASE HasStorage
      <4>1. head' = 0 /\ tail' = 0 /\ capacity' = capacity
        BY <2>9, <3>1 DEF Empty, Clear, NoStorage
      <4>2. GetSize' = 0
        BY <4>1 DEF GetSize
      <4>3. QED
        BY <2>1, <2>9, <3>1, <4>1, <4>2 DEF Empty, SnapshotsCovered, HasStorage
    <3>2. CASE ~HasStorage
      <4>1. UNCHANGED ring
        BY <2>9, <3>2 DEF Empty, Clear, NoStorage
      <4>2. QED
        BY <2>2, <2>9, <3>2, <4>1 DEF Empty, SnapshotsCovered
    <3>3. QED
      BY <3>1, <3>2
  <2>10. CASE UNCHANGED clientVars
    BY <2>2, <2>10 DEF clientVars, vars, SnapshotsCovered
  <2>11. QED
    BY <2>3, <2>4, <2>5, <2>6, <2>7, <2>8, <2>9, <2>10 DEF NextClients
<1>4. TypeOK /\ SnapshotsCovered => SnapshotsHold
  <2> SUFFICES ASSUME TypeOK, SnapshotsCovered PROVE SnapshotsHold
    OBVIOUS
  <2>1. CASE HasStorage
    BY <2>1, InStorage, FullOrEmpty DEF SnapshotsCovered, SnapshotsHold
  <2>2. CASE ~HasStorage
    BY <2>2 DEF SnapshotsCovered, SnapshotsHold
  <2>3. QED
    BY <2>1, <2>2
<1>5. QED
  BY <1>1, <1>2, <1>3, <1>4, TypeCorrect, PTL DEF ClientSpec
=============================================================================
