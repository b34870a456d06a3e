--------------------------- MODULE BlockAllocator ---------------------------
(***************************************************************************)
(* What a memory pool promises: it hands out blocks, never one that        *)
(* somebody holds, and refuses only when all of them are held; a call that *)
(* does not give out or take back a block disturbs nothing.  There is no   *)
(* free stack and no address here beyond the identity of a block.  (That   *)
(* Release refuses no block that is held is MemoryPool's                   *)
(* AcceptsExactlyHeld.)                                                    *)
(***************************************************************************)
EXTENDS Integers

CONSTANTS Owners,      \* the parts of the application that hold blocks
          Pointers     \* everything that may be a block

VARIABLES blocks,      \* the blocks of the pool, once it is initialized
          holds,       \* the blocks each owner holds
          refusing     \* the last call was an Acquire that found no block

vars == <<blocks, holds, refusing>>

Held == UNION {holds[o] : o \in Owners}

Init ==
    /\ blocks = {}
    /\ holds = [o \in Owners |-> {}]
    /\ refusing = FALSE

\* The pool is initialized, once.
Provide ==
    /\ blocks = {}
    /\ blocks' \in (SUBSET Pointers) \ {{}}
    /\ refusing' = FALSE
    /\ UNCHANGED holds

Acquire(o) ==
    /\ \E b \in blocks \ Held : holds' = [holds EXCEPT ![o] = @ \cup {b}]
    /\ refusing' = FALSE
    /\ UNCHANGED blocks

\* Acquire fails: every block is held.
Refuse ==
    /\ blocks # {} /\ blocks \subseteq Held
    /\ refusing' = TRUE
    /\ UNCHANGED <<blocks, holds>>

Release(o, b) ==
    /\ b \in holds[o]
    /\ holds' = [holds EXCEPT ![o] = @ \ {b}]
    /\ refusing' = FALSE
    /\ UNCHANGED blocks

\* Any other call, misuse included, disturbs nothing.
Ignore ==
    /\ refusing' = FALSE
    /\ UNCHANGED <<blocks, holds>>

Next ==
    \/ Provide
    \/ Refuse
    \/ Ignore
    \/ \E o \in Owners : Acquire(o) \/ \E b \in holds[o] : Release(o, b)

Spec == Init /\ [][Next]_vars
=============================================================================
