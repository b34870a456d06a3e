---------------------------- MODULE BoundedFifo ----------------------------
(***************************************************************************)
(* What a ring buffer promises: a queue of at most room elements, first    *)
(* in, first out.  Each operation succeeds whenever the queue allows it    *)
(* and otherwise changes nothing; a queue without a size refuses them all. *)
(***************************************************************************)
EXTENDS Integers, Sequences

CONSTANTS Elements,    \* what may be put in the queue
          Rooms        \* the sizes a queue may be given

VARIABLES queue,       \* the elements, the oldest first
          room,        \* how many elements the queue holds at most
          call,        \* the last operation called
          status,      \* and how it ended
          out          \* where the reader's last element was copied to

vars == <<queue, room, call, status, out>>

Init ==
    /\ queue = << >> /\ room = 0
    /\ call = "Clear" /\ status = "SUCCESS"
    /\ out \notin Elements

\* How the operations fail.
Refuse(reason) == status' = reason /\ UNCHANGED <<queue, room, out>>

\* The queue is given its size, and loses what it held.
Size ==
    /\ call' = "Init"
    /\ \/ \E reason \in {"INVALID_CAPACITY", "INVALID_ELEMENT_SIZE"} : Refuse(reason)
       \/ /\ queue' = << >>
          /\ room' \in Rooms \ {0}
          /\ status' = "SUCCESS"
          /\ UNCHANGED out

Put(x) ==
    /\ call' = "Push"
    /\ \/ room = 0 /\ Refuse("NULL_POINTER")
       \/ room > 0 /\ Len(queue) = room /\ Refuse("FULL")
       \/ /\ Len(queue) < room
          /\ queue' = Append(queue, x)
          /\ status' = "SUCCESS"
          /\ UNCHANGED <<room, out>>

\* The oldest element is copied out, and stays or goes.
Read ==
    \/ room = 0 /\ Refuse("NULL_POINTER") /\ call' \in {"Pop", "Peek"}
    \/ room > 0 /\ queue = << >> /\ Refuse("EMPTY") /\ call' \in {"Pop", "Peek"}
    \/ /\ queue # << >>
       /\ out' = Head(queue)
       /\ \/ call' = "Pop" /\ queue' = Tail(queue)
          \/ call' = "Peek" /\ UNCHANGED queue
       /\ status' = "SUCCESS"
       /\ UNCHANGED room

Clear ==
    /\ call' = "Clear"
    /\ \/ room = 0 /\ Refuse("NULL_POINTER")
       \/ /\ room > 0
          /\ queue' = << >>
          /\ status' = "SUCCESS"
          /\ UNCHANGED <<room, out>>

Next == Size \/ Read \/ Clear \/ \E x \in Elements : Put(x)

Spec == Init /\ [][Next]_vars
=============================================================================
