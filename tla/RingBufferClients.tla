-------------------------- MODULE RingBufferClients --------------------------
(***************************************************************************)
(* A ring buffer between a producer and a consumer that plan ahead.  Each  *)
(* asks how much it may do, ringBufferGetAvailableSpace or                 *)
(* ringBufferGetSize, and goes by that snapshot for a while; in the        *)
(* meantime the other one goes on.  Calls do not overlap: the header makes *)
(* the clients see to that (ringBuffer.h, Thread Safety).                  *)
(*                                                                         *)
(* Whoever sizes or clears the buffer tells the clients whose snapshot it  *)
(* voids.                                                                  *)
(***************************************************************************)
EXTENDS RingBuffer

VARIABLES
    space,    \* pushes left of the producer's last snapshot
    ready     \* pops left of the consumer's last snapshot

clientVars == <<vars, space, ready>>

InitClients == Init /\ space = 0 /\ ready = 0

\* One use of a snapshot.
Spent(n) == IF n > 0 THEN n - 1 ELSE 0

\* The producer takes a snapshot, of a buffer with storage.
AskSpace ==
    /\ HasStorage
    /\ space' = GetAvailableSpace
    /\ UNCHANGED <<vars, ready>>

\* The consumer takes a snapshot.
AskSize ==
    /\ ready' = IF HasStorage THEN GetSize ELSE 0
    /\ UNCHANGED <<vars, space>>

Produce(x) ==
    /\ Push(x)
    /\ space' = Spent(space)
    /\ UNCHANGED ready

Consume ==
    /\ Pop
    /\ ready' = Spent(ready)
    /\ UNCHANGED space

Look == Peek /\ UNCHANGED <<space, ready>>

\* A new storage voids both snapshots, unless it is refused.
Resize(c, size) ==
    /\ RingBufferInit(c, size)
    /\ space' = IF status' = "SUCCESS" THEN 0 ELSE space
    /\ ready' = IF status' = "SUCCESS" THEN 0 ELSE ready

\* An emptied buffer has nothing for the consumer, and room for the producer.
Empty == Clear /\ ready' = 0 /\ UNCHANGED space

NextClients ==
    \/ AskSpace
    \/ AskSize
    \/ \E x \in Elements : Produce(x)
    \/ Consume
    \/ Look
    \/ \E c \in Capacities, size \in ElementSizes : Resize(c, size)
    \/ Empty

ClientSpec == InitClients /\ [][NextClients]_clientVars

-----------------------------------------------------------------------------
\* A snapshot may be stale but never promises too much: as long as some of it
\* is left, the producer's next push finds room and the consumer's next pop an
\* element, whatever the other one did since and wherever the positions are
\* (ringBufferGetAvailableSpace and ringBufferGetSize).
SnapshotsHold ==
    /\ space > 0 => HasStorage /\ ~IsFull
    /\ ready > 0 => HasStorage /\ ~IsEmpty
=============================================================================
