-------------------------- MODULE MemoryPoolProofs --------------------------
(***************************************************************************)
(* Proofs about MemoryPool, for every block size and count, every address  *)
(* of the storage and any number of owners.                                *)
(***************************************************************************)
EXTENDS MemoryPool, FunctionTheorems, FiniteSetTheorems, TLAPS

-----------------------------------------------------------------------------
(* Division with remainder, as Init, Acquire and Release use it.           *)

\* Division with remainder.
LEMMA DivMod ==
    ASSUME NEW G \in Nat \ {0}, NEW a \in Nat
    PROVE  /\ a \div G \in Nat
           /\ a % G \in 0 .. G - 1
           /\ a = G * (a \div G) + (a % G)
<1>1. a % G \in 0 .. G - 1
  OBVIOUS
<1>2. a = G * (a \div G) + (a % G)
  OBVIOUS
<1>3. a \div G \in Nat
  OBVIOUS
<1>4. QED
  BY <1>1, <1>2, <1>3

\* Multiplication and division as Acquire and Release use them.
LEMMA IndexArithmetic ==
    ASSUME NEW size \in Nat \ {0}, NEW count \in Nat, NEW b \in 0 .. count - 1
    PROVE  /\ b * size \in Nat
           /\ b * size < size * count
           /\ (b * size) % size = 0
           /\ (b * size) \div size = b
<1>1. b \in Nat /\ b + 1 <= count
  OBVIOUS
<1>2. (b * size) % size = 0 /\ (b * size) \div size = b
  BY <1>1
<1>3. b * size \in Nat
  BY <1>1
<1>4. (count - b - 1) * size >= 0
  BY <1>1
<1>5. b * size + size <= size * count
  BY <1>1, <1>4
<1>6. QED
  BY <1>2, <1>3, <1>5

\* The division in Release inverts the multiplication in Acquire.
LEMMA OffsetArithmetic ==
    ASSUME NEW size \in Nat \ {0}, NEW count \in Nat,
           NEW d \in Nat, d < size * count, d % size = 0
    PROVE  /\ d \div size \in 0 .. count - 1
           /\ (d \div size) * size = d
<1> DEFINE q == d \div size
           r == d % size
<1>1. q \in Nat /\ d = size * q + r /\ r = 0
  BY DivMod
<1> HIDE DEF q, r
<1>2. d = size * q
  BY <1>1
<1>3. ~(q >= count)
  <2> SUFFICES ASSUME q >= count PROVE FALSE
    OBVIOUS
  <2>1. size * (q - count) >= 0
    BY <1>1
  <2>2. size * q >= size * count
    BY <1>1, <2>1
  <2>3. QED
    BY <1>2, <2>2
<1>4. QED
  BY <1>1, <1>2, <1>3 DEF q

\* The overflow check of memoryPoolInit by division is exact.
LEMMA OverflowCheck ==
    ASSUME NEW size \in Nat, NEW count \in Nat \ {0}, NEW max \in Nat
    PROVE  size > max \div count <=> size * count > max
<1> DEFINE q == max \div count
           r == max % count
<1>1. q \in Nat /\ r \in 0 .. count - 1 /\ max = count * q + r
  OBVIOUS
<1> HIDE DEF q, r
<1>2. CASE size > q
  <2>1. (size - q - 1) * count >= 0
    BY <1>1, <1>2
  <2>2. size * count >= count * q + count
    BY <1>1, <2>1
  <2>3. QED
    BY <1>1, <1>2, <2>2 DEF q
<1>3. CASE size <= q
  <2>1. (q - size) * count >= 0
    BY <1>1, <1>3
  <2>2. size * count <= count * q
    BY <1>1, <2>1
  <2>3. QED
    BY <1>1, <1>3, <2>2 DEF q
<1>4. QED
  BY <1>1, <1>2, <1>3
-----------------------------------------------------------------------------
\* The invariant that is inductive as it stands.
PoolInv == TypeOK /\ Configured /\ FreeStackExact /\ HeldByOne /\ OnlyBlocksHeld

\* It holds of a pool that was declared and not initialized yet.
LEMMA PoolInvInit == Init => PoolInv
<1> SUFFICES ASSUME Init PROVE PoolInv
  OBVIOUS
<1>1. Blocks = {}
  BY DEF Init, Blocks
<1>2. TypeOK
  BY <1>1, FlagAssumption DEF Init, TypeOK, Statuses
<1>3. Held = {}
  BY DEF Init, Held
<1>4. FreeStackExact
  BY <1>1 DEF Init, FreeStackExact
<1>5. HeldByOne /\ OnlyBlocksHeld
  BY <1>1, <1>3 DEF Init, HeldByOne, OnlyBlocksHeld
<1>6. QED
  BY <1>2, <1>4, <1>5 DEF Init, Configured, PoolInv

\* A pool in use: what the application may call Acquire and Release on.
LEMMA InUse ==
    ASSUME PoolInv, MayCall, initialized
    PROVE  /\ built
           /\ blockSize \in Nat \ {0} /\ blockCount \in Nat \ {0}
           /\ StorageStart + blockSize * blockCount <= AddressMax
           /\ TotalSize = blockSize * blockCount
<1>1. built /\ blockSize \in Nat \ {0} /\ blockCount \in Nat \ {0}
  BY DEF PoolInv, Configured, MayCall, TypeOK
<1>2. blockSize * blockCount \in 0 .. SizeMax
  BY <1>1, AddressAssumption DEF PoolInv, Configured
<1>3. TotalSize = blockSize * blockCount
  BY <1>2, AddressAssumption DEF TotalSize
<1>4. QED
  BY <1>1, <1>3 DEF PoolInv, Configured

\* The address of a block passes the checks of Release and leads back to it.
LEMMA AddressOfBlock ==
    ASSUME PoolInv, built, NEW b \in Blocks
    PROVE  /\ AddressOf(b) \in Addresses
           /\ IndexOf(AddressOf(b)) = b
           /\ Accepts(AddressOf(b)) <=> state[b] = "ALLOCATED"
<1>1. /\ blockSize \in Nat \ {0} /\ blockCount \in Nat \ {0}
      /\ StorageStart + blockSize * blockCount <= AddressMax
      /\ TotalSize = blockSize * blockCount
  BY InUse DEF PoolInv, Configured, MayCall
<1> DEFINE d == b * blockSize
<1>2. /\ d \in Nat /\ d < blockSize * blockCount
      /\ d % blockSize = 0 /\ d \div blockSize = b
  BY <1>1, IndexArithmetic DEF Blocks
<1>3. /\ AddressOf(b) = StorageStart + d
      /\ AddressOf(b) - StorageStart = d
  BY <1>2, AddressAssumption DEF AddressOf
<1>4. blockSize * blockCount \in Nat /\ b < blockCount
  BY <1>1 DEF Blocks
<1> HIDE DEF d
<1>5. IndexOf(AddressOf(b)) = b
  BY <1>2, <1>3 DEF IndexOf
<1>6. /\ AddressOf(b) \in Addresses
      /\ AddressOf(b) # Null
      /\ StorageStart <= AddressOf(b)
      /\ AddressOf(b) < StorageStart + TotalSize
      /\ StorageStart <= AddressMax - TotalSize
  BY <1>1, <1>2, <1>3, <1>4, AddressAssumption DEF Addresses, Null
<1>7. QED
  BY <1>2, <1>3, <1>4, <1>5, <1>6 DEF Accepts

\* What Release accepts is the address of an allocated block.
LEMMA AcceptedIsBlock ==
    ASSUME PoolInv, built, NEW a \in Addresses, Accepts(a)
    PROVE  /\ IndexOf(a) \in Blocks
           /\ a = AddressOf(IndexOf(a))
           /\ state[IndexOf(a)] = "ALLOCATED"
<1>1. blockSize \in Nat \ {0} /\ blockCount \in Nat \ {0}
      /\ TotalSize = blockSize * blockCount
  BY InUse DEF PoolInv, Configured, MayCall
<1> DEFINE d == a - StorageStart
<1>2. d \in Nat /\ d < blockSize * blockCount /\ d % blockSize = 0
  BY <1>1, AddressAssumption DEF Accepts, Addresses
<1>3. a = StorageStart + d
  BY AddressAssumption DEF Addresses
<1>4. IndexOf(a) = d \div blockSize
  BY DEF IndexOf
<1> HIDE DEF d
<1>5. d \div blockSize \in Blocks /\ (d \div blockSize) * blockSize = d
  BY <1>1, <1>2, OffsetArithmetic DEF Blocks
<1>6. QED
  BY <1>3, <1>4, <1>5 DEF Accepts, AddressOf

\* Release accepts exactly the pointers somebody holds.
LEMMA AcceptsHeld ==
    ASSUME PoolInv
    PROVE  AcceptsExactlyHeld
<1> SUFFICES ASSUME built, NEW a \in Addresses PROVE Accepts(a) <=> a \in Held
  BY DEF AcceptsExactlyHeld
<1>1. Accepts(a) => a \in Held
  BY AcceptedIsBlock DEF PoolInv, HeldByOne
<1>2. ASSUME a \in Held PROVE Accepts(a)
  <2>1. PICK b \in Blocks : a = AddressOf(b) /\ state[b] = "ALLOCATED"
    BY <1>2 DEF PoolInv, OnlyBlocksHeld
  <2>2. QED
    BY <2>1, AddressOfBlock
<1>3. QED
  BY <1>1, <1>2
-----------------------------------------------------------------------------
\* What a successful memoryPoolInit knows of its arguments, and what it does.
LEMMA InitValues ==
    ASSUME PoolInv, NEW size \in BlockSizes, NEW count \in BlockCounts,
           MemoryPoolInit(size, count), status' = "SUCCESS"
    PROVE  /\ size \in Nat \ {0} /\ count \in Nat \ {0}
           /\ size * count <= SizeMax
           /\ StorageStart + size * count <= AddressMax
           /\ ~initialized /\ ~built
           /\ state' = [b \in 0 .. count - 1 |-> "FREE"]
           /\ freeStack' = [i \in 0 .. count - 1 |-> i]
           /\ blockSize' = size /\ blockCount' = count /\ freeCount' = count
           /\ initialized' = TRUE /\ built' = TRUE /\ holds' = holds
<1>1. ~initialized /\ size # 0 /\ count # 0 /\ ~(size > SizeMax \div count)
  BY DEF MemoryPoolInit, InitStatus
<1>2. size \in Nat \ {0} /\ count \in Nat \ {0}
  BY <1>1, SizesAssumption
<1>3. size * count <= SizeMax
  BY <1>1, <1>2, OverflowCheck, AddressAssumption
<1>4. StorageStart + size * count <= AddressMax
  BY <1>3 DEF MemoryPoolInit, StorageIsReal
<1>5. ~built
  BY <1>1 DEF PoolInv, Configured
<1>6. QED
  BY <1>1, <1>2, <1>3, <1>4, <1>5 DEF MemoryPoolInit

\* A successful memoryPoolInit establishes the invariant.
LEMMA InitStep ==
    ASSUME PoolInv, NEW size \in BlockSizes, NEW count \in BlockCounts,
           MemoryPoolInit(size, count), status' = "SUCCESS"
    PROVE  PoolInv'
<1>1. /\ size \in Nat \ {0} /\ count \in Nat \ {0}
      /\ size * count <= SizeMax
      /\ StorageStart + size * count <= AddressMax
      /\ ~initialized /\ ~built
  BY InitValues
<1>2. /\ state' = [b \in 0 .. count - 1 |-> "FREE"]
      /\ freeStack' = [i \in 0 .. count - 1 |-> i]
      /\ blockSize' = size /\ blockCount' = count /\ freeCount' = count
      /\ initialized' = TRUE /\ built' = TRUE /\ holds' = holds
  BY InitValues
<1>3. Held = {}
  \* The pool had no blocks yet, so nobody holds one.
  <2>1. Blocks = {}
    BY <1>1 DEF PoolInv, Configured, Blocks
  <2>2. QED
    BY <2>1 DEF PoolInv, OnlyBlocksHeld
<1>4. Blocks' = 0 .. count - 1
  BY <1>2 DEF Blocks
<1>5. TypeOK'
  BY <1>1, <1>2, <1>4 DEF PoolInv, TypeOK, Statuses
<1>6. Configured'
  BY <1>1, <1>2 DEF Configured
<1>7. FreeStackExact'
  BY <1>1, <1>2, <1>4 DEF FreeStackExact
<1>8. HeldByOne' /\ OnlyBlocksHeld'
  <2>1. Held' = {}
    BY <1>2, <1>3 DEF Held
  <2>2. \A b \in Blocks' : state'[b] # "ALLOCATED"
    BY <1>2, <1>4
  <2>3. \A o, p \in Owners : o # p => holds'[o] \cap holds'[p] = {}
    BY <1>2 DEF PoolInv, HeldByOne
  <2>4. QED
    BY <2>1, <2>2, <2>3 DEF HeldByOne, OnlyBlocksHeld
<1>9. QED
  BY <1>5, <1>6, <1>7, <1>8 DEF PoolInv

\* A successful memoryPoolAcquire hands out a block that was free, and that
\* nobody held.
LEMMA PopStep ==
    ASSUME PoolInv, built, NEW o \in Owners, freeCount # 0, Pop(o)
    PROVE  PoolInv'
<1> DEFINE top == freeCount - 1
           index == freeStack[top]
           addr == AddressOf(index)
<1>1. freeCount \in Nat /\ top \in 0 .. freeCount - 1 /\ top \in Nat
  BY DEF PoolInv, TypeOK
<1>2. index \in Blocks /\ state[index] = "FREE"
  BY <1>1 DEF PoolInv, FreeStackExact
<1>3. /\ freeCount' = top /\ state' = [state EXCEPT ![index] = "ALLOCATED"]
      /\ holds' = [holds EXCEPT ![o] = @ \cup {addr}]
      /\ status' = "SUCCESS"
      /\ UNCHANGED <<initialized, blockSize, blockCount, freeStack, built>>
  BY DEF Pop
<1>4. addr \in Addresses /\ addr \notin Held
  <2>1. addr \in Addresses /\ ~Accepts(addr)
    BY <1>2, AddressOfBlock
  <2>2. QED
    BY <2>1, AcceptsHeld DEF AcceptsExactlyHeld
<1>5. Blocks' = Blocks /\ \A b \in Blocks : AddressOf(b)' = AddressOf(b)
  BY <1>3 DEF Blocks, AddressOf
<1>6. Held' = Held \cup {addr}
  BY <1>3 DEF Held, PoolInv, TypeOK
<1> HIDE DEF addr, index
<1>7. TypeOK'
  BY <1>1, <1>2, <1>3, <1>4, <1>5 DEF PoolInv, TypeOK, Statuses
<1>8. Configured'
  BY <1>3 DEF PoolInv, Configured
<1>9. FreeStackExact'
  <2>1. freeCount' <= blockCount'
    BY <1>1, <1>3 DEF PoolInv, FreeStackExact, TypeOK
  <2>2. ASSUME NEW i \in 0 .. freeCount' - 1
        PROVE  /\ i \in 0 .. freeCount - 1 /\ i # top
               /\ freeStack[i] \in Blocks /\ state'[freeStack[i]] = "FREE"
    <3>1. i \in 0 .. freeCount - 1 /\ i # top
      BY <1>1, <1>3
    <3>2. freeStack[i] # index
      BY <1>1, <3>1 DEF PoolInv, FreeStackExact, index
    <3>3. QED
      BY <1>3, <3>1, <3>2 DEF PoolInv, FreeStackExact, TypeOK
  <2>3. ASSUME NEW b \in Blocks, state'[b] = "FREE"
        PROVE  \E i \in 0 .. freeCount' - 1 : freeStack[i] = b
    <3>1. b # index /\ state[b] = "FREE"
      BY <1>2, <1>3, <2>3 DEF PoolInv, TypeOK
    <3>2. PICK i \in 0 .. freeCount - 1 : freeStack[i] = b
      BY <3>1 DEF PoolInv, FreeStackExact
    <3>3. i # top
      BY <3>1, <3>2 DEF index
    <3>4. QED
      BY <1>1, <1>3, <3>2, <3>3
  <2>4. \A i, j \in 0 .. freeCount' - 1 : freeStack[i] = freeStack[j] => i = j
    BY <2>2 DEF PoolInv, FreeStackExact
  <2>5. QED
    BY <1>3, <1>5, <2>1, <2>2, <2>3, <2>4 DEF FreeStackExact
<1>10. HeldByOne'
  <2>1. ASSUME NEW b \in Blocks, state'[b] = "ALLOCATED"
        PROVE  AddressOf(b) \in Held'
    <3>1. CASE b = index
      BY <1>6, <3>1 DEF addr
    <3>2. CASE b # index
      BY <1>3, <1>6, <2>1, <3>2 DEF PoolInv, HeldByOne, TypeOK
    <3>3. QED
      BY <3>1, <3>2
  <2>2. ASSUME NEW p \in Owners, NEW q \in Owners, p # q
        PROVE  holds'[p] \cap holds'[q] = {}
    <3>1. holds[p] \cap holds[q] = {} /\ addr \notin holds[p] /\ addr \notin holds[q]
      BY <1>4, <2>2 DEF PoolInv, HeldByOne, Held
    <3>2. QED
      BY <1>3, <2>2, <3>1 DEF PoolInv, TypeOK
  <2>3. QED
    BY <1>5, <2>1, <2>2 DEF HeldByOne
<1>11. OnlyBlocksHeld'
  <2> SUFFICES ASSUME NEW a \in Held'
               PROVE  \E b \in Blocks : a = AddressOf(b) /\ state'[b] = "ALLOCATED"
    BY <1>5 DEF OnlyBlocksHeld
  <2>1. CASE a = addr
    BY <1>2, <1>3, <2>1 DEF addr, PoolInv, TypeOK
  <2>2. CASE a \in Held
    <3>1. PICK b \in Blocks : a = AddressOf(b) /\ state[b] = "ALLOCATED"
      BY <2>2 DEF PoolInv, OnlyBlocksHeld
    <3>2. state'[b] = "ALLOCATED"
      BY <1>3, <3>1 DEF PoolInv, TypeOK
    <3>3. QED
      BY <3>1, <3>2
  <2>3. QED
    BY <1>6, <2>1, <2>2
<1>12. QED
  BY <1>7, <1>8, <1>9, <1>10, <1>11 DEF PoolInv
-----------------------------------------------------------------------------
\* There is room on the free stack for any block that is allocated: the stack
\* holds distinct free blocks only.
LEMMA RoomOnStack ==
    ASSUME PoolInv, NEW index \in Blocks, state[index] = "ALLOCATED"
    PROVE  freeCount < blockCount
<1> DEFINE D == 0 .. freeCount - 1
           f == [i \in D |-> freeStack[i]]
<1>1. freeCount \in Nat /\ blockCount \in Nat /\ freeCount <= blockCount
  BY DEF PoolInv, TypeOK, FreeStackExact
<1>2. f \in [D -> Blocks]
  BY DEF PoolInv, FreeStackExact
<1>3. f \in Injection(D, Blocks)
  BY <1>2, Fun_IsInj DEF PoolInv, FreeStackExact
<1>4. f \notin Surjection(D, Blocks)
  <2> SUFFICES ASSUME f \in Surjection(D, Blocks) PROVE FALSE
    OBVIOUS
  <2>1. PICK i \in D : f[i] = index
    BY DEF Surjection
  <2>2. QED
    BY <2>1 DEF PoolInv, FreeStackExact
<1>5. IsFiniteSet(D) /\ Cardinality(D) = freeCount
  BY <1>1, FS_Interval
<1>6. IsFiniteSet(Blocks) /\ Cardinality(Blocks) = blockCount
  BY <1>1, FS_Interval DEF Blocks
<1> HIDE DEF D, f
<1>7. Cardinality(D) # Cardinality(Blocks)
  BY <1>3, <1>4, <1>6, FS_Injection
<1>8. QED
  BY <1>1, <1>5, <1>6, <1>7

\* A successful memoryPoolRelease takes back the block its caller held.
LEMMA PushStep ==
    ASSUME PoolInv, built, NEW o \in Owners, NEW a \in Addresses,
           \A p \in Owners \ {o} : a \notin holds[p],
           Accepts(a), Push(o, a)
    PROVE  PoolInv'
<1> DEFINE index == IndexOf(a)
<1>1. index \in Blocks /\ a = AddressOf(index) /\ state[index] = "ALLOCATED"
  BY AcceptedIsBlock
<1>2. /\ state' = [state EXCEPT ![index] = "FREE"]
      /\ freeStack' = [freeStack EXCEPT ![freeCount] = index]
      /\ freeCount' = freeCount + 1
      /\ holds' = [holds EXCEPT ![o] = @ \ {a}]
      /\ status' = "SUCCESS"
      /\ UNCHANGED <<initialized, blockSize, blockCount, built>>
  BY DEF Push
<1>3. freeCount \in Nat /\ blockCount \in Nat /\ freeCount < blockCount
  BY <1>1, RoomOnStack DEF PoolInv, TypeOK
<1>4. Blocks' = Blocks /\ \A b \in Blocks : AddressOf(b)' = AddressOf(b)
  BY <1>2 DEF Blocks, AddressOf
<1>5. Held' = Held \ {a}
  <2>1. \A p \in Owners : holds'[p] = holds[p] \ {a}
    BY <1>2 DEF PoolInv, TypeOK
  <2>2. QED
    BY <2>1 DEF Held
<1>6. \A b \in Blocks : b # index => AddressOf(b) # a
  BY <1>1, AddressOfBlock
<1> HIDE DEF index
<1>7. freeCount \in Blocks
  BY <1>3 DEF Blocks
<1>8. TypeOK'
  <2>1. index \in Nat
    BY <1>1 DEF Blocks
  <2>2. /\ state' \in [Blocks -> {"FREE", "ALLOCATED"}]
        /\ freeStack' \in [Blocks -> Nat]
    BY <1>1, <1>2, <2>1 DEF PoolInv, TypeOK
  <2>3. holds' \in [Owners -> SUBSET Addresses]
    BY <1>2 DEF PoolInv, TypeOK
  <2>4. QED
    BY <1>2, <1>3, <1>4, <2>2, <2>3 DEF PoolInv, TypeOK, Statuses
<1>9. Configured'
  BY <1>2 DEF PoolInv, Configured
<1>10. FreeStackExact'
  <2>1. freeCount' <= blockCount'
    BY <1>2, <1>3
  <2>2. freeStack'[freeCount] = index
    BY <1>2, <1>7 DEF PoolInv, TypeOK
  <2>3. ASSUME NEW i \in 0 .. freeCount - 1
        PROVE  freeStack'[i] = freeStack[i] /\ freeStack[i] # index
    <3>1. i \in Blocks /\ i # freeCount
      BY <1>3 DEF Blocks
    <3>2. freeStack'[i] = freeStack[i]
      BY <1>2, <3>1 DEF PoolInv, TypeOK
    <3>3. QED
      BY <1>1, <3>2 DEF PoolInv, FreeStackExact
  <2>4. \A i \in 0 .. freeCount' - 1 : i = freeCount \/ i \in 0 .. freeCount - 1
    BY <1>2, <1>3
  <2>5. ASSUME NEW i \in 0 .. freeCount' - 1
        PROVE  freeStack'[i] \in Blocks /\ state'[freeStack'[i]] = "FREE"
    <3>1. CASE i = freeCount
      BY <1>1, <1>2, <2>2, <3>1 DEF PoolInv, TypeOK
    <3>2. CASE i \in 0 .. freeCount - 1
      BY <1>2, <2>3, <3>2 DEF PoolInv, FreeStackExact, TypeOK
    <3>3. QED
      BY <2>4, <3>1, <3>2
  <2>6. ASSUME NEW i \in 0 .. freeCount' - 1, NEW j \in 0 .. freeCount' - 1,
               freeStack'[i] = freeStack'[j]
        PROVE  i = j
    BY <2>2, <2>3, <2>4, <2>6 DEF PoolInv, FreeStackExact
  <2>7. ASSUME NEW b \in Blocks, state'[b] = "FREE"
        PROVE  \E i \in 0 .. freeCount' - 1 : freeStack'[i] = b
    <3>1. CASE b = index
      <4>1. freeCount \in 0 .. freeCount' - 1
        BY <1>2, <1>3
      <4>2. QED
        BY <2>2, <3>1, <4>1
    <3>2. CASE b # index
      <4>1. state[b] = "FREE"
        BY <1>2, <2>7, <3>2 DEF PoolInv, TypeOK
      <4>2. PICK i \in 0 .. freeCount - 1 : freeStack[i] = b
        BY <4>1 DEF PoolInv, FreeStackExact
      <4>3. i \in 0 .. freeCount' - 1
        BY <1>2, <1>3
      <4>4. QED
        BY <2>3, <4>2, <4>3
    <3>3. QED
      BY <3>1, <3>2
  <2>8. QED
    BY <1>4, <2>1, <2>5, <2>6, <2>7 DEF FreeStackExact
<1>11. HeldByOne'
  <2>1. ASSUME NEW b \in Blocks, state'[b] = "ALLOCATED"
        PROVE  AddressOf(b) \in Held'
    <3>1. b # index /\ state[b] = "ALLOCATED"
      BY <1>1, <1>2, <2>1 DEF PoolInv, TypeOK
    <3>2. QED
      BY <1>5, <1>6, <3>1 DEF PoolInv, HeldByOne
  <2>2. \A p, q \in Owners : p # q => holds'[p] \cap holds'[q] = {}
    BY <1>2 DEF PoolInv, HeldByOne, TypeOK
  <2>3. QED
    BY <1>4, <2>1, <2>2 DEF HeldByOne
<1>12. OnlyBlocksHeld'
  <2> SUFFICES ASSUME NEW c \in Held'
               PROVE  \E b \in Blocks : c = AddressOf(b) /\ state'[b] = "ALLOCATED"
    BY <1>4 DEF OnlyBlocksHeld
  <2>1. c \in Held /\ c # a
    BY <1>5
  <2>2. PICK b \in Blocks : c = AddressOf(b) /\ state[b] = "ALLOCATED"
    BY <2>1 DEF PoolInv, OnlyBlocksHeld
  <2>3. state'[b] = "ALLOCATED"
    BY <1>1, <1>2, <2>1, <2>2 DEF PoolInv, TypeOK
  <2>4. QED
    BY <2>2, <2>3
<1>13. QED
  BY <1>8, <1>9, <1>10, <1>11, <1>12 DEF PoolInv

\* Calls that change no field of the pool; one that newly reports the pool to
\* be full has found the free stack of an initialized pool empty.
Untouched ==
    /\ UNCHANGED <<pool, built, holds>>
    /\ status' \in Statuses
    /\ status' = "POOL_FULL" => status = "POOL_FULL" \/ (built /\ freeCount = 0)

\* It speaks of these variables only.
LEMMA PoolUntouched ==
    ASSUME PoolInv, Untouched
    PROVE  PoolInv'
<1> USE DEF Untouched
<1>1. Blocks' = Blocks /\ Held' = Held /\ \A b : AddressOf(b)' = AddressOf(b)
  BY DEF pool, Blocks, Held, AddressOf
<1>2. TypeOK' /\ Configured'
  BY <1>1 DEF PoolInv, TypeOK, Configured, pool
<1>3. FreeStackExact'
  BY <1>1 DEF PoolInv, FreeStackExact, pool
<1>4. HeldByOne' /\ OnlyBlocksHeld'
  BY <1>1 DEF PoolInv, HeldByOne, OnlyBlocksHeld, pool
<1>5. QED
  BY <1>2, <1>3, <1>4 DEF PoolInv

\* Every step is a successful Init, Acquire or Release, or leaves the pool and
\* its holders alone.
LEMMA PoolSteps ==
    ASSUME PoolInv, [Next]_vars
    PROVE  \/ \E size \in BlockSizes, count \in BlockCounts :
                 MemoryPoolInit(size, count) /\ status' = "SUCCESS"
           \/ \E o \in Owners : built /\ initialized /\ freeCount # 0 /\ Pop(o)
           \/ \E o \in Owners, a \in Addresses :
                 /\ built /\ initialized /\ Accepts(a)
                 /\ \A p \in Owners \ {o} : a \notin holds[p]
                 /\ Push(o, a)
           \/ Untouched
<1> USE DEF Untouched
<1>1. ASSUME NEW size \in BlockSizes, NEW count \in BlockCounts,
             MemoryPoolInit(size, count), status' # "SUCCESS"
      PROVE  Untouched
  BY <1>1 DEF MemoryPoolInit, InitStatus, Statuses
<1>2. NotInitialized => Untouched
  BY DEF NotInitialized, Statuses
<1>3. ASSUME NEW o \in Owners, Acquire(o)
      PROVE  \/ built /\ initialized /\ freeCount # 0 /\ Pop(o)
             \/ Untouched
  BY <1>2, <1>3 DEF Acquire, MayCall, Statuses
<1>4. ASSUME NEW o \in Owners, NEW a \in Addresses, Release(o, a)
      PROVE  \/ /\ built /\ initialized /\ Accepts(a)
                /\ \A p \in Owners \ {o} : a \notin holds[p]
                /\ Push(o, a)
             \/ Untouched
  BY <1>2, <1>4 DEF Release, MayCall, Statuses
<1>5. CASE UNCHANGED vars
  BY <1>5 DEF vars, PoolInv, TypeOK
<1>6. QED
  BY <1>1, <1>3, <1>4, <1>5 DEF Next

\* Every call keeps it: the lemmas above, one for each.
LEMMA PoolInvStep == PoolInv /\ [Next]_vars => PoolInv'
BY PoolSteps, InitStep, PopStep, PushStep, PoolUntouched

\* The invariant holds in every reachable state of every pool.
LEMMA PoolInvariant == Spec => []PoolInv
BY PoolInvInit, PoolInvStep, PTL DEF Spec

-----------------------------------------------------------------------------
\* The fields of the pool keep their types, for every configuration.
THEOREM TypeCorrect == Spec => []TypeOK
<1>1. PoolInv => TypeOK
  BY DEF PoolInv
<1>2. QED
  BY <1>1, PoolInvariant, PTL

\* The free stack lists the free blocks, each exactly once, for pools of every
\* size (invariants 2 to 5 of the design).
THEOREM FreeStackCorrect == Spec => []FreeStackExact
<1>1. PoolInv => FreeStackExact
  BY DEF PoolInv
<1>2. QED
  BY <1>1, PoolInvariant, PTL

\* No block is ever held by two owners, and none is lost (invariant 10).
THEOREM NoSharing == Spec => []HeldByOne
<1>1. PoolInv => HeldByOne
  BY DEF PoolInv
<1>2. QED
  BY <1>1, PoolInvariant, PTL

\* Release accepts exactly the pointers that are held, for every block size
\* and every address: the validation arithmetic neither lets a wrong pointer
\* through nor refuses a right one.
THEOREM ValidationExact == Spec => []AcceptsExactlyHeld
<1>1. PoolInv => AcceptsExactlyHeld
  BY AcceptsHeld
<1>2. QED
  BY <1>1, PoolInvariant, PTL
\* The configuration of a pool in use never changes, and it stays initialized
\* (invariant 12).
THEOREM FixedConfiguration == Spec => ConfiguredOnce
<1>1. PoolInv /\ [Next]_vars =>
        (built => UNCHANGED <<initialized, blockSize, blockCount, built>>)
  BY PoolSteps DEF PoolInv, Configured, MemoryPoolInit, InitStatus, Pop, Push,
     Untouched, pool
<1>2. QED
  BY <1>1, PoolInvariant, PTL DEF Spec, ConfiguredOnce

\* A pool declared with its initialized flag false, as static and zeroed pools
\* are, is refused by Init only after an Init that succeeded.
THEOREM RefusalIsHonest ==
    ASSUME DeclaredFlag = {FALSE}
    PROVE  Spec => []RefusedOnlyIfBuilt
<1> DEFINE Inv == RefusedOnlyIfBuilt /\ (initialized => built)
<1>1. Init => Inv
  BY DEF Init, RefusedOnlyIfBuilt
<1>2. Inv /\ [Next]_vars => Inv'
  <2> SUFFICES ASSUME Inv, [Next]_vars PROVE Inv'
    OBVIOUS
  <2> USE DEF RefusedOnlyIfBuilt
  <2>1. ASSUME NEW size \in BlockSizes, NEW count \in BlockCounts,
               MemoryPoolInit(size, count)
        PROVE  Inv'
    BY <2>1 DEF MemoryPoolInit, InitStatus, pool
  <2>2. ASSUME NEW o \in Owners, Acquire(o) PROVE Inv'
    BY <2>2 DEF Acquire, Pop, NotInitialized, pool
  <2>3. ASSUME NEW o \in Owners, NEW a \in Addresses, Release(o, a) PROVE Inv'
    BY <2>3 DEF Release, Push, NotInitialized, pool
  <2>4. CASE UNCHANGED vars
    BY <2>4 DEF vars, pool
  <2>5. QED
    BY <2>1, <2>2, <2>3, <2>4 DEF Next
<1>3. QED
  BY <1>1, <1>2, PTL DEF Spec

-----------------------------------------------------------------------------
\* An empty free stack means that somebody holds each of the blocks.
LEMMA EmptyStackAllHeld ==
    ASSUME PoolInv, freeCount = 0, NEW b \in Blocks
    PROVE  AddressOf(b) \in Held
BY DEF PoolInv, TypeOK, FreeStackExact, HeldByOne

\* Every step of the pool is a step of the abstract allocator, or none.
LEMMA AllocatorStep ==
    ASSUME PoolInv, PoolInv', [Next]_vars
    PROVE  [Allocator!Next]_(Allocator!vars)
<1> USE DEF Allocator!vars, Allocator!Held, Held
<1> DEFINE blocks == {AddressOf(b) : b \in Blocks}
<1>1. ASSUME NEW size \in BlockSizes, NEW count \in BlockCounts,
             MemoryPoolInit(size, count), status' = "SUCCESS"
      PROVE  Allocator!Provide
  <2>1. /\ size \in Nat \ {0} /\ count \in Nat \ {0}
        /\ StorageStart + size * count <= AddressMax
        /\ ~built /\ holds' = holds
        /\ blockSize' = size /\ blockCount' = count
    BY <1>1, InitValues
  <2>2. blocks = {}
    BY <2>1 DEF PoolInv, Configured, Blocks
  <2>3. blocks' = {StorageStart + b * size : b \in 0 .. count - 1}
    BY <2>1 DEF Blocks, AddressOf
  <2>4. \A b \in 0 .. count - 1 : StorageStart + b * size \in Addresses
    BY <2>1, IndexArithmetic, AddressAssumption DEF Addresses
  <2>5. 0 \in 0 .. count - 1
    BY <2>1
  <2>6. blocks' \in (SUBSET Addresses) \ {{}}
    BY <2>3, <2>4, <2>5
  <2>7. (status = "POOL_FULL")' = FALSE
    BY <1>1
  <2>8. QED
    BY <2>1, <2>2, <2>6, <2>7 DEF Allocator!Provide
<1>2. ASSUME built, NEW o \in Owners, freeCount # 0, Pop(o)
      PROVE  Allocator!Acquire(o)
  <2> DEFINE index == freeStack[freeCount - 1]
             addr == AddressOf(index)
  <2>1. index \in Blocks /\ state[index] = "FREE"
    BY <1>2 DEF PoolInv, FreeStackExact, TypeOK
  <2>2. addr \notin Held
    BY <1>2, <2>1, AddressOfBlock, AcceptsHeld DEF AcceptsExactlyHeld
  <2>3. addr \in blocks \ UNION {holds[p] : p \in Owners}
    BY <2>1, <2>2
  <2>4. /\ holds' = [holds EXCEPT ![o] = @ \cup {addr}]
        /\ status' = "SUCCESS"
        /\ UNCHANGED <<blockSize, blockCount>>
    BY <1>2 DEF Pop
  <2>5. blocks' = blocks
    BY <2>4 DEF Blocks, AddressOf
  <2> HIDE DEF addr, blocks
  <2>6. QED
    BY <2>3, <2>4, <2>5 DEF Allocator!Acquire, blocks
<1>3. ASSUME built, NEW o \in Owners, NEW a \in Addresses, Accepts(a),
             \A p \in Owners \ {o} : a \notin holds[p], Push(o, a)
      PROVE  a \in holds[o] /\ Allocator!Release(o, a)
  <2>1. a \in holds[o]
    BY <1>3, AcceptsHeld DEF AcceptsExactlyHeld
  <2>2. /\ holds' = [holds EXCEPT ![o] = @ \ {a}]
        /\ status' = "SUCCESS"
        /\ UNCHANGED <<blockSize, blockCount>>
    BY <1>3 DEF Push
  <2>3. blocks' = blocks
    BY <2>2 DEF Blocks, AddressOf
  <2>4. QED
    BY <2>1, <2>2, <2>3 DEF Allocator!Release
<1>4. CASE Untouched
  <2>1. blocks' = blocks /\ holds' = holds
    BY <1>4 DEF Untouched, pool, Blocks, AddressOf
  <2>2. CASE status' # "POOL_FULL"
    BY <2>1, <2>2 DEF Allocator!Ignore, Allocator!Next
  <2>3. CASE status' = "POOL_FULL" /\ status = "POOL_FULL"
    BY <2>1, <2>3
  <2>4. CASE status' = "POOL_FULL" /\ built /\ freeCount = 0
    <3>1. blocks \subseteq Held
      BY <2>4, EmptyStackAllHeld
    <3>2. 0 \in Blocks
      BY <2>4 DEF PoolInv, Configured, TypeOK, Blocks
    <3>3. Allocator!Refuse
      BY <2>1, <2>4, <3>1, <3>2 DEF Allocator!Refuse
    <3>4. QED
      BY <3>3 DEF Allocator!Next
  <2>5. QED
    BY <1>4, <2>2, <2>3, <2>4 DEF Untouched
<1>5. QED
  BY <1>1, <1>2, <1>3, <1>4, PoolSteps DEF Allocator!Next

\* The pool implements the abstract allocator, for every configuration: its
\* free stack and addresses are an implementation of "some free block".
THEOREM Refinement == Spec => ImplementsBlockAllocator
<1>1. Init => Allocator!Init
  BY DEF Init, Allocator!Init, Blocks
<1>2. PoolInv /\ PoolInv' /\ [Next]_vars => [Allocator!Next]_(Allocator!vars)
  BY AllocatorStep
<1>3. QED
  BY <1>1, <1>2, PoolInvariant, PTL
     DEF Spec, ImplementsBlockAllocator, Allocator!Spec
-----------------------------------------------------------------------------
(* The statistics.                                                         *)

\* What is held and what is free make up the pool: the free stack numbers the
\* free blocks, and the addresses that are held number the others.
LEMMA HeldCount ==
    ASSUME PoolInv
    PROVE  Cardinality(Held) = blockCount - freeCount
<1> DEFINE D == 0 .. freeCount - 1
           Free == {b \in Blocks : state[b] = "FREE"}
           f == [i \in D |-> freeStack[i]]
           Taken == Blocks \ Free
           g == [b \in Taken |-> AddressOf(b)]
<1>1. freeCount \in Nat /\ blockCount \in Nat
  BY DEF PoolInv, TypeOK
<1>2. Cardinality(Free) = freeCount
  <2>1. f \in [D -> Free]
    BY DEF PoolInv, FreeStackExact
  <2>2. f \in Injection(D, Free)
    BY <2>1, Fun_IsInj DEF PoolInv, FreeStackExact
  <2>3. \A b \in Free : \E i \in D : f[i] = b
    BY DEF PoolInv, FreeStackExact
  <2>4. f \in Surjection(D, Free)
    BY <2>1, <2>3, Fun_IsSurj
  <2>5. ExistsBijection(D, Free)
    BY <2>2, <2>4 DEF ExistsBijection, Bijection
  <2>6. IsFiniteSet(D) /\ Cardinality(D) = freeCount
    BY <1>1, FS_Interval
  <2> HIDE DEF D, Free, f
  <2>7. QED
    BY <2>5, <2>6, FS_Bijection
<1>3. IsFiniteSet(Blocks) /\ Cardinality(Blocks) = blockCount
  BY <1>1, FS_Interval DEF Blocks
<1>4. IsFiniteSet(Taken) /\ Cardinality(Taken) = blockCount - freeCount
  <2>1. Blocks \cap Free = Free
    OBVIOUS
  <2> HIDE DEF Free
  <2>2. QED
    BY <1>2, <1>3, <2>1, FS_Difference
<1>5. \A b \in Taken : state[b] = "ALLOCATED" /\ AddressOf(b) \in Held
  BY DEF PoolInv, TypeOK, HeldByOne
<1>6. g \in Injection(Taken, Held)
  <2>1. g \in [Taken -> Held]
    BY <1>5
  <2>2. Blocks # {} => built
    BY DEF PoolInv, Configured, Blocks
  <2>3. ASSUME NEW b \in Taken, NEW c \in Taken, g[b] = g[c] PROVE b = c
    <3>1. IndexOf(AddressOf(b)) = b /\ IndexOf(AddressOf(c)) = c
      BY <2>2, AddressOfBlock
    <3>2. AddressOf(b) = AddressOf(c)
      BY <2>3
    <3>3. QED
      BY <3>1, <3>2
  <2>4. QED
    BY <2>1, <2>3, Fun_IsInj
<1>7. g \in Surjection(Taken, Held)
  <2>1. g \in [Taken -> Held]
    BY <1>5
  <2>2. ASSUME NEW a \in Held PROVE \E b \in Taken : g[b] = a
    <3>1. PICK b \in Blocks : a = AddressOf(b) /\ state[b] = "ALLOCATED"
      BY DEF PoolInv, OnlyBlocksHeld
    <3>2. b \in Taken /\ g[b] = a
      BY <3>1
    <3>3. QED
      BY <3>2
  <2>3. QED
    BY <2>1, <2>2, Fun_IsSurj
<1>8. ExistsBijection(Taken, Held)
  BY <1>6, <1>7 DEF ExistsBijection, Bijection
<1> HIDE DEF Taken, g
<1>9. QED
  BY <1>4, <1>8, FS_Bijection

\* As long as the last answer is that the pool is full, its stack is empty.
FullIsFull == status = "POOL_FULL" => freeCount = 0

\* The statistics agree with what the application holds, for pools of every
\* size, and memoryPoolAcquire reports a full pool only when every block is
\* held.
THEOREM CountsCorrect == Spec => []CountsExact
<1>1. Init => FullIsFull
  BY DEF Init, FullIsFull
<1>2. PoolInv /\ FullIsFull /\ [Next]_vars => FullIsFull'
  BY PoolSteps DEF FullIsFull, Pop, Push, Untouched, pool
<1>3. PoolInv /\ FullIsFull => CountsExact
  <2> SUFFICES ASSUME PoolInv, FullIsFull PROVE CountsExact
    OBVIOUS
  <2>1. blockCount \in Nat /\ freeCount \in Nat
    BY DEF PoolInv, TypeOK
  <2>2. QED
    BY <2>1, HeldCount DEF CountsExact, GetUsedCount, FullIsFull
<1>4. QED
  BY <1>1, <1>2, <1>3, PoolInvariant, PTL DEF Spec
=============================================================================
