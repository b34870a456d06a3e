----------------------------- MODULE RingBuffer -----------------------------
(***************************************************************************)
(* The ring buffer of src/ringBuffer.c: a fixed array of element slots, a  *)
(* write position head and a read position tail.  One slot is kept empty,  *)
(* so that head = tail means empty and never full.                         *)
(*                                                                         *)
(* A slot holds one element; the byte offset of slot i is i * elementSize, *)
(* so distinct slots are disjoint and the copies are modelled element by   *)
(* element.  The struct starts zeroed, with no storage.  Pointers to the   *)
(* caller's data are never NULL.                                           *)
(***************************************************************************)
EXTENDS Integers, Sequences

CONSTANTS
    Elements,      \* what the callers push
    NoElement,     \* what a slot or a destination holds before any copy
    Capacities,    \* the capacities passed to ringBufferInit, 0 and 1 too
    ElementSizes,  \* the element sizes passed to ringBufferInit, 0 too
    WordRange      \* the number of size_t values

ASSUME ElementAssumption == NoElement \notin Elements

\* No object is larger than half the address space, so a capacity is at most
\* half the range of a size_t.
ASSUME CapacityAssumption ==
    /\ WordRange \in Nat \ {0}
    /\ \A c \in Capacities : c \in Nat /\ 2 * c <= WordRange
ASSUME SizeAssumption == ElementSizes \subseteq Nat

VARIABLES
    buffer,              \* the slots; none while the struct has no storage
    head, tail, capacity, elementSize,
    call,                \* the last operation called
    status,              \* and what it returned
    out                  \* the destination the callers of Pop and Peek pass

ring == <<buffer, head, tail, capacity, elementSize>>
vars == <<ring, call, status, out>>

Calls == {"Init", "Push", "Pop", "Peek", "Clear"}

Statuses == {"SUCCESS", "NULL_POINTER", "INVALID_CAPACITY",
             "INVALID_ELEMENT_SIZE", "FULL", "EMPTY"}

Slots == 0 .. capacity - 1

\* ringBuffer->buffer != NULL
HasStorage == capacity > 0

\* Definitions whose comment begins with "Mistake" are plausible slips in the
\* code.  No specification uses them: each, put in place of the definition
\* that follows it, shows a property below to be violated.

\* Mistake: the position does not wrap around.
NextIndexUnwrapped(i) == i + 1

\* ringBufferNextIndex
NextIndex(i) == (i + 1) % capacity

\* Mistake: fullness is tested without wrapping around.
IsFullUnwrapped == HasStorage /\ head + 1 = tail

\* ringBufferIsFull and ringBufferIsEmpty
IsFull == HasStorage /\ NextIndex(head) = tail
IsEmpty == HasStorage => head = tail

\* Mistake: a buffer with head = tail counts as one that has wrapped around.
GetSizeStrict == IF head > tail THEN head - tail ELSE capacity - (tail - head)

\* ringBufferGetSize
GetSize == IF head >= tail THEN head - tail ELSE capacity - (tail - head)

\* ringBufferGetCapacity
GetCapacity == capacity - 1

\* Mistake: the reserved slot is forgotten.
SpaceUnreserved ==
    ((tail - head + capacity) % WordRange) % capacity

\* ringBufferGetAvailableSpace, whose size_t subtractions wrap around.
GetAvailableSpace ==
    LET gap == (tail - head - 1) % WordRange IN
    ((gap + capacity) % WordRange) % capacity

-----------------------------------------------------------------------------
Init ==
    /\ buffer = [s \in {} |-> NoElement]
    /\ head = 0 /\ tail = 0 /\ capacity = 0 /\ elementSize = 0
    /\ call = "Clear" /\ status = "SUCCESS"
    /\ out = NoElement

\* ringBufferInit, the first time or again; whatever the storage holds, none
\* of it is part of the queue.
RingBufferInit(c, size) ==
    /\ call' = "Init"
    /\ \/ /\ c < 2
          /\ status' = "INVALID_CAPACITY"
          /\ UNCHANGED <<ring, out>>
       \/ /\ c >= 2 /\ size < 1
          /\ status' = "INVALID_ELEMENT_SIZE"
          /\ UNCHANGED <<ring, out>>
       \/ /\ c >= 2 /\ size >= 1
          /\ buffer' = [s \in 0 .. c - 1 |-> NoElement]
          /\ capacity' = c
          /\ elementSize' = size
          /\ head' = 0
          /\ tail' = 0
          /\ status' = "SUCCESS"
          /\ UNCHANGED out

\* What every operation answers while the struct has no storage.
NoStorage ==
    /\ ~HasStorage
    /\ status' = "NULL_POINTER"
    /\ UNCHANGED <<ring, out>>

\* ringBufferPush
Push(x) ==
    /\ call' = "Push"
    /\ \/ NoStorage
       \/ /\ HasStorage /\ IsFull
          /\ status' = "FULL"
          /\ UNCHANGED <<ring, out>>
       \/ /\ HasStorage /\ ~IsFull
          /\ buffer' = [buffer EXCEPT ![head] = x]
          /\ head' = NextIndex(head)
          /\ status' = "SUCCESS"
          /\ UNCHANGED <<tail, capacity, elementSize, out>>

\* What Pop and Peek answer when there is nothing to read.
NothingToRead ==
    /\ HasStorage /\ IsEmpty
    /\ status' = "EMPTY"
    /\ UNCHANGED <<ring, out>>

\* ringBufferPop
Pop ==
    /\ call' = "Pop"
    /\ \/ NoStorage
       \/ NothingToRead
       \/ /\ HasStorage /\ ~IsEmpty
          /\ out' = buffer[tail]
          /\ tail' = NextIndex(tail)
          /\ status' = "SUCCESS"
          /\ UNCHANGED <<buffer, head, capacity, elementSize>>

\* ringBufferPeek
Peek ==
    /\ call' = "Peek"
    /\ \/ NoStorage
       \/ NothingToRead
       \/ /\ HasStorage /\ ~IsEmpty
          /\ out' = buffer[tail]
          /\ status' = "SUCCESS"
          /\ UNCHANGED ring

\* Mistake: only the write position goes back.
ClearHead ==
    /\ call' = "Clear"
    /\ \/ NoStorage
       \/ /\ HasStorage
          /\ head' = 0
          /\ status' = "SUCCESS"
          /\ UNCHANGED <<buffer, tail, capacity, elementSize, out>>

\* ringBufferClear
Clear ==
    /\ call' = "Clear"
    /\ \/ NoStorage
       \/ /\ HasStorage
          /\ head' = 0
          /\ tail' = 0
          /\ status' = "SUCCESS"
          /\ UNCHANGED <<buffer, capacity, elementSize, out>>

Next ==
    \/ \E c \in Capacities, size \in ElementSizes : RingBufferInit(c, size)
    \/ \E x \in Elements : Push(x)
    \/ Pop
    \/ Peek
    \/ Clear

Spec == Init /\ [][Next]_vars

-----------------------------------------------------------------------------
\* Both positions stay inside the storage on every lap, and a buffer that was
\* never sized has none (RingBuffer_t).
TypeOK ==
    /\ capacity \in Nat /\ 2 * capacity <= WordRange
    /\ capacity # 1
    /\ buffer \in [Slots -> Elements \cup {NoElement}]
    /\ HasStorage => head \in Slots /\ tail \in Slots
    /\ ~HasStorage => head = 0 /\ tail = 0
    /\ elementSize \in Nat
    /\ call \in Calls /\ status \in Statuses
    /\ out \in Elements \cup {NoElement}

\* The elements in the buffer, the oldest first.
Contents == [i \in 1 .. GetSize |-> buffer[(tail + i - 1) % capacity]]

\* The four queries agree, wherever the two positions have wrapped around to:
\* the elements stored and the space available add up to the usable capacity,
\* the buffer is full exactly when there is no space, and empty exactly when
\* there is no element.  The wrapping arithmetic of GetAvailableSpace is the
\* delicate part.
QueriesAgree ==
    HasStorage =>
        /\ GetSize + GetAvailableSpace = GetCapacity
        /\ IsFull <=> GetAvailableSpace = 0
        /\ IsEmpty <=> GetSize = 0

\* Only elements that were pushed are ever in the queue: no slot between tail
\* and head is read before it was written, on any lap around the buffer.
HoldsOnlyPushed == \A i \in 1 .. GetSize : Contents[i] \in Elements

\* The ring buffer implements a bounded queue: elements come out in the order
\* they were pushed, none is lost, duplicated or overwritten, and an operation
\* fails exactly when it has to and then disturbs nothing.
Fifo == INSTANCE BoundedFifo WITH
    queue <- Contents,
    room <- IF HasStorage THEN GetCapacity ELSE 0,
    Rooms <- {c - 1 : c \in Capacities}

ImplementsFifo == Fifo!Spec
=============================================================================
