----------------------------- MODULE MemoryPool -----------------------------
(***************************************************************************)
(* The fixed-size memory pool of src/memoryPool.c.                         *)
(*                                                                         *)
(* Free blocks are kept as a stack of block indices; state tells for each  *)
(* block whether it is free, and is what Release validates a pointer       *)
(* against.  Pointers are addresses, and Release computes the block index  *)
(* from one with the code's arithmetic.                                    *)
(*                                                                         *)
(* The pool's users are Owners.  An owner releases the pointers it holds,  *)
(* and may release by mistake any pointer that no other owner holds: NULL, *)
(* one outside the storage, one inside a block, or a block that is already *)
(* free.  (A pointer that was released and has been acquired again by      *)
(* another owner is indistinguishable from that owner's: docs,             *)
(* memoryPool-design.md section 2.)  Out-pointers are never NULL.          *)
(***************************************************************************)
EXTENDS Integers, FiniteSets

CONSTANTS
    Owners,         \* the parts of the application that use the pool
    BlockSizes,     \* block sizes passed to memoryPoolInit, 0 among them
    BlockCounts,    \* block counts passed to memoryPoolInit, 0 among them
    StorageStart,   \* the address of the storage
    SizeMax,        \* SIZE_MAX
    AddressMax,     \* UINTPTR_MAX
    DeclaredFlag    \* values of pool->initialized before the first Init

ASSUME SizesAssumption == BlockSizes \subseteq Nat /\ BlockCounts \subseteq Nat
ASSUME AddressAssumption ==
    /\ StorageStart \in Nat \ {0} /\ AddressMax \in Nat /\ SizeMax \in Nat
ASSUME FlagAssumption == DeclaredFlag \subseteq BOOLEAN

VARIABLES
    initialized,    \* MemoryPool_t, field by field
    blockSize, blockCount, freeCount,
    state, freeStack,
    status,         \* what the last call returned
    built,          \* the application: a call of Init has returned SUCCESS
    holds           \* the application: the pointers each owner holds

pool == <<initialized, blockSize, blockCount, freeCount, state, freeStack>>
vars == <<pool, status, built, holds>>

Null == 0
Addresses == 0 .. AddressMax
Statuses == {"SUCCESS", "NOT_INITIALIZED", "ALREADY_INITIALIZED",
             "INVALID_BLOCK_SIZE", "INVALID_BLOCK_COUNT", "SIZE_OVERFLOW",
             "POOL_FULL", "INVALID_BLOCK"}

Blocks == 0 .. blockCount - 1
Held == UNION {holds[o] : o \in Owners}

-----------------------------------------------------------------------------
\* Definitions whose comment begins with "Mistake" are plausible slips in the
\* code.  No specification uses them: each, put in place of the definition
\* that follows it, shows a property below to be violated.

\* The application declares the pool.  Its initialized flag is whatever the
\* declaration left there: FALSE in a static pool, anything on the stack.
Init ==
    /\ initialized \in DeclaredFlag
    /\ blockSize = 0 /\ blockCount = 0 /\ freeCount = 0
    /\ state = [b \in {} |-> "FREE"]
    /\ freeStack = [i \in {} |-> 0]
    /\ status = "SUCCESS"
    /\ built = FALSE
    /\ holds = [o \in Owners |-> {}]

\* Mistake: an initialized pool may be initialized again.
InitStatusUnguarded(size, count) ==
    IF size = 0 THEN "INVALID_BLOCK_SIZE"
    ELSE IF count = 0 THEN "INVALID_BLOCK_COUNT"
    ELSE IF size > SizeMax \div count THEN "SIZE_OVERFLOW"
    ELSE "SUCCESS"

\* What memoryPoolInit answers, in the order of its checks.
InitStatus(size, count) ==
    IF initialized THEN "ALREADY_INITIALIZED"
    ELSE IF size = 0 THEN "INVALID_BLOCK_SIZE"
    ELSE IF count = 0 THEN "INVALID_BLOCK_COUNT"
    ELSE IF size > SizeMax \div count THEN "SIZE_OVERFLOW"
    ELSE "SUCCESS"

\* The caller's side of memoryPoolInit: the storage it passes is a real object
\* of size * count bytes, unless no object can be as large.
StorageIsReal(size, count) ==
    size * count <= SizeMax => StorageStart + size * count <= AddressMax

\* Mistake: the flag is set first, before the checks.
InitFlagFirst(size, count) ==
    /\ StorageIsReal(size, count)
    /\ status' = InitStatus(size, count)
    /\ initialized' = TRUE
    /\ \/ /\ status' # "SUCCESS"
          /\ UNCHANGED <<blockSize, blockCount, freeCount, state, freeStack,
                         built, holds>>
       \/ /\ status' = "SUCCESS"
          /\ state' = [b \in 0 .. count - 1 |-> "FREE"]
          /\ freeStack' = [i \in 0 .. count - 1 |-> i]
          /\ blockSize' = size
          /\ blockCount' = count
          /\ freeCount' = count
          /\ built' = TRUE
          /\ UNCHANGED holds

MemoryPoolInit(size, count) ==
    /\ StorageIsReal(size, count)
    /\ status' = InitStatus(size, count)
    /\ \/ /\ status' # "SUCCESS"
          /\ UNCHANGED <<pool, built, holds>>
       \/ /\ status' = "SUCCESS"
          /\ state' = [b \in 0 .. count - 1 |-> "FREE"]
          /\ freeStack' = [i \in 0 .. count - 1 |-> i]
          /\ blockSize' = size
          /\ blockCount' = count
          /\ freeCount' = count
          /\ initialized' = TRUE
          /\ built' = TRUE
          /\ UNCHANGED holds

-----------------------------------------------------------------------------
\* The application calls Acquire and Release on a pool it has initialized, or
\* on one that says it is not; on one whose flag is garbage anything happens.
MayCall == built \/ ~initialized

\* validatePool
NotInitialized ==
    /\ ~initialized
    /\ status' = "NOT_INITIALIZED"
    /\ UNCHANGED <<pool, built, holds>>

AddressOf(b) == StorageStart + b * blockSize

\* memoryPoolAcquire: pop the free stack and mark the block.
Pop(o) ==
    LET index == freeStack[freeCount - 1] IN
    /\ freeCount' = freeCount - 1
    /\ state' = [state EXCEPT ![index] = "ALLOCATED"]
    /\ holds' = [holds EXCEPT ![o] = @ \cup {AddressOf(index)}]
    /\ status' = "SUCCESS"
    /\ UNCHANGED <<initialized, blockSize, blockCount, freeStack, built>>

Acquire(o) ==
    /\ MayCall
    /\ \/ NotInitialized
       \/ /\ initialized
          /\ freeCount = 0
          /\ status' = "POOL_FULL"
          /\ UNCHANGED <<pool, built, holds>>
       \/ initialized /\ freeCount # 0 /\ Pop(o)

\* Mistake: the storage is taken to end where its last block begins.
SizeWithoutLast == blockSize * (blockCount - 1)

\* The size_t product of memoryPoolRelease.
TotalSize == (blockSize * blockCount) % (SizeMax + 1)

\* Mistake: the byte offset is used as the block index.
ByteOffset(a) == a - StorageStart

\* The block a pointer into the storage lies in.
IndexOf(a) == (a - StorageStart) \div blockSize

\* Mistake: a pointer into the middle of a block is accepted.
AcceptsUnaligned(a) ==
    /\ a # Null
    /\ StorageStart <= AddressMax - TotalSize
    /\ StorageStart <= a /\ a < StorageStart + TotalSize
    /\ IndexOf(a) < blockCount
    /\ state[IndexOf(a)] = "ALLOCATED"

\* Mistake: a block that is already free is accepted.
AcceptsFreeBlock(a) ==
    /\ a # Null
    /\ StorageStart <= AddressMax - TotalSize
    /\ StorageStart <= a /\ a < StorageStart + TotalSize
    /\ (a - StorageStart) % blockSize = 0
    /\ IndexOf(a) < blockCount

\* The validation of memoryPoolRelease: the pointer lies in the storage, on a
\* block boundary, and its block is allocated.
Accepts(a) ==
    /\ a # Null
    /\ StorageStart <= AddressMax - TotalSize
    /\ StorageStart <= a /\ a < StorageStart + TotalSize
    /\ (a - StorageStart) % blockSize = 0
    /\ IndexOf(a) < blockCount
    /\ state[IndexOf(a)] = "ALLOCATED"

\* Mistake: the stack shrinks where it should grow.
PushDown(o, a) ==
    LET index == IndexOf(a) IN
    /\ state' = [state EXCEPT ![index] = "FREE"]
    /\ freeStack' = [freeStack EXCEPT ![freeCount] = index]
    /\ freeCount' = freeCount - 1
    /\ holds' = [holds EXCEPT ![o] = @ \ {a}]
    /\ status' = "SUCCESS"
    /\ UNCHANGED <<initialized, blockSize, blockCount, built>>

\* memoryPoolRelease: unmark the block and push it.
Push(o, a) ==
    LET index == IndexOf(a) IN
    /\ state' = [state EXCEPT ![index] = "FREE"]
    /\ freeStack' = [freeStack EXCEPT ![freeCount] = index]
    /\ freeCount' = freeCount + 1
    /\ holds' = [holds EXCEPT ![o] = @ \ {a}]
    /\ status' = "SUCCESS"
    /\ UNCHANGED <<initialized, blockSize, blockCount, built>>

Release(o, a) ==
    /\ MayCall
    /\ \A p \in Owners \ {o} : a \notin holds[p]
    /\ \/ NotInitialized
       \/ /\ initialized
          /\ ~Accepts(a)
          /\ status' = "INVALID_BLOCK"
          /\ UNCHANGED <<pool, built, holds>>
       \/ initialized /\ Accepts(a) /\ Push(o, a)

\* memoryPoolGetFreeCount and memoryPoolGetUsedCount on an initialized pool.
GetFreeCount == freeCount

\* Mistake: the free stack's next position is counted as used.
UsedOneShort == IF freeCount = 0 THEN blockCount ELSE blockCount - freeCount + 1

GetUsedCount == blockCount - freeCount

-----------------------------------------------------------------------------
Next ==
    \/ \E size \in BlockSizes, count \in BlockCounts : MemoryPoolInit(size, count)
    \/ \E o \in Owners : Acquire(o) \/ \E a \in Addresses : Release(o, a)

Spec == Init /\ [][Next]_vars

-----------------------------------------------------------------------------
\* Every field keeps its range, and the two arrays have one entry per block of
\* the configuration (MemoryPool_t): no index the code computes leaves them.
TypeOK ==
    /\ initialized \in BOOLEAN /\ built \in BOOLEAN
    /\ blockSize \in Nat /\ blockCount \in Nat /\ freeCount \in Nat
    /\ state \in [Blocks -> {"FREE", "ALLOCATED"}]
    /\ freeStack \in [Blocks -> Nat]
    /\ status \in Statuses
    /\ holds \in [Owners -> SUBSET Addresses]

\* The free stack and the block states tell the same story
\* (memoryPool-design.md section 13, invariants 2 to 5): a block is free iff
\* it is on the stack, where it is exactly once, and the stack never outgrows
\* its array.
FreeStackExact ==
    /\ freeCount <= blockCount
    /\ \A i \in 0 .. freeCount - 1 :
        /\ freeStack[i] \in Blocks
        /\ state[freeStack[i]] = "FREE"
        /\ \A j \in 0 .. freeCount - 1 : freeStack[i] = freeStack[j] => i = j
    /\ \A b \in Blocks : state[b] = "FREE" =>
        \E i \in 0 .. freeCount - 1 : freeStack[i] = b

\* Every allocated block is held by exactly one owner: the pool never hands
\* the same block to two of them (invariant 10), and no block is lost.
HeldByOne ==
    /\ \A b \in Blocks : state[b] = "ALLOCATED" => AddressOf(b) \in Held
    /\ \A o, p \in Owners : o # p => holds[o] \cap holds[p] = {}

\* What the other invariants need of the configuration and of the holders: an
\* initialized pool has storage that exists, one that is not has no blocks,
\* and only the address of an allocated block is ever held.
Configured ==
    IF built
    THEN /\ initialized
         /\ blockSize > 0 /\ blockCount > 0
         /\ blockSize * blockCount <= SizeMax
         /\ StorageStart + blockSize * blockCount <= AddressMax
    ELSE blockCount = 0 /\ freeCount = 0

OnlyBlocksHeld ==
    \A a \in Held : \E b \in Blocks : a = AddressOf(b) /\ state[b] = "ALLOCATED"

\* Release accepts exactly the pointers that are held: it refuses a block that
\* is already free, a pointer into the middle of a block or outside the
\* storage and NULL, and it never refuses a block that Acquire handed out.
AcceptsExactlyHeld ==
    built => \A a \in Addresses : Accepts(a) <=> a \in Held

\* The statistics agree with what the application holds, and Acquire finds the
\* pool full only when every block is held.
CountsExact ==
    /\ GetUsedCount = Cardinality(Held)
    /\ status = "POOL_FULL" => Cardinality(Held) = blockCount

\* "ALREADY_INITIALIZED" means what it says: an earlier Init has succeeded.
\* The header promises it for every pool, zero-initialized or not.
RefusedOnlyIfBuilt == status = "ALREADY_INITIALIZED" => built

\* The configuration is fixed by the first Init that succeeds, and nothing
\* ever takes initialized back (invariant 12).
ConfiguredOnce ==
    [][built => UNCHANGED <<initialized, blockSize, blockCount, built>>]_vars

\* The pool implements an allocator of blocks without stack or addresses.
Allocator == INSTANCE BlockAllocator WITH
    Pointers <- Addresses,
    blocks <- {AddressOf(b) : b \in Blocks},
    holds <- holds,
    refusing <- status = "POOL_FULL"

ImplementsBlockAllocator == Allocator!Spec
=============================================================================
