# TLA+ specifications of ecu-platform

ecu-platform is a library of small C modules for embedded control units: a
software timer pool, a fixed-size memory pool, a ring buffer, two CRC engines,
a packet builder and parser, a logger and bit utilities. Nothing in it
allocates memory, blocks, or runs a thread. Every module is a handful of
functions over a structure that its caller owns, so what is hard about it is
not parallelism inside a call but *sequences* of calls: callbacks that
re-enter the module in the middle of a scan, handles and pointers that outlive
what they named, counters and indices that wrap around, checks in an order that
matters, and the bookkeeping of two arrays that must tell the same story.

This directory holds TLA+ models of that code, configurations that check them
with TLC on small instances, and proofs that TLAPS checks for every instance.

## Inventory

Paths are relative to the repository; the library is `src/*.c` and `include/*.h`.

| component | state | operations | called by / calls |
|---|---|---|---|
| software timer pool, `swTimer.c` | array of control blocks (state, mode, timeout, remaining, callback, context, generation) | Init, Create, Start, Stop, Delete, Tick; GetState, GetRemainingTicks | Tick calls the application's callbacks, which call the pool |
| memory pool, `memoryPool.c` | initialized, blockSize, blockCount, freeCount, block states, free stack | Init, Acquire, Release; GetFreeCount, GetUsedCount, GetBlockSize, GetCapacity | independent |
| ring buffer, `ringBuffer.c` | buffer, head, tail, capacity, elementSize | Init, Push, Pop, Peek, Clear; IsEmpty, IsFull, GetSize, GetCapacity, GetAvailableSpace | independent |
| CRC-16/CCITT-FALSE, `crc16.c` | register of an incremental computation | Init, Update, GetResult; Compute, Verify | called by the packet builder and parser |
| CRC-32/ISO-HDLC, `crc32.c` | register, kept without its final XOR | Init, Update, GetResult; Compute, Verify | independent |
| packet builder, `packetBuilder.c` | none (writes the caller's buffer) | Build | calls CRC-16 |
| packet parser, `packetParser.c` | none (reads the caller's buffer, writes the caller's packet) | Parse, GetPacketSize | calls CRC-16 |
| logger, `logger.c` | backend, backendContext, runtimeThreshold | Init, SetBackend, ClearBackend, SetLevel, Write; GetLevel; macros that a compile-time level removes | Write calls the backend synchronously |
| bit utilities, `bitUtils.c` | none | Set, Clear, Toggle, IsSet, ExtractBits, InsertBits | independent |

The modules share no state. They interact by calls only: builder and parser
agree on a frame layout (`include/protocol.h`) and on CRC-16; the timer pool
and the logger call out to functions the application registered, which may call
back in. The headers leave mutual exclusion to the caller (an interrupt that
uses the same pool or buffer must be masked). The one exception is `loggerWrite`, which
several tasks may call at once as long as nobody reconfigures the logger meanwhile.

What makes each component correct:

* **Timer pool** - a timer expires in the Tick call it is due, whatever callbacks
  do to this or any other timer meanwhile; a handle never reaches a timer other
  than its own; a callback is given its own timer's handle; Tick returns.
* **Memory pool** - no block is held twice and none is lost; Release accepts
  exactly what Acquire handed out and was not yet given back; the free stack and
  the block states agree; the configuration is fixed by the first successful Init.
* **Ring buffer** - a bounded first-in first-out queue over any number of laps;
  its queries agree with each other; no slot is read before it was written; what a
  producer or a consumer was told may be stale, but not promise too much.
* **CRC engines** - incremental and one-shot computation agree however the data
  are split; a result may be read at any time without disturbing the computation;
  the register equals the polynomial remainder; the reflected form is the plain one
  on mirrored data.
* **Packets** - what the builder accepts the parser returns unchanged; it accepts
  nothing else; it waits for all of a frame, whatever is left of earlier ones; the
  outputs are written only on success; a damaged frame is not taken for a good one.
* **Logger** - a message reaches the backend iff its level is valid and within the
  threshold, module and format are there and a backend is registered, tested in this
  order; its text fits the buffer and is terminated however long it is, also when
  formatting fails; a backend reads its own text until it returns, whatever others log.
* **Bit utilities** - masks and shifts are operations on a row of bits: other bits are
  left alone, also at the boundary of a field as wide as the word, and a refusal leaves the
  results alone.

The hazards that these properties answer are listed with their lines in
`PROJECT.json` ("hazards").

## Plan

| stage | modules | abstract specification | theorems | state |
|---|---|---|---|---|
| 1 | `SwTimer` | `TimerService` | ticks add up, on-time expiry, handles | done |
| 2 | `MemoryPool` | `BlockAllocator` | free stack, no sharing, exact validation, refinement | done |
| 3 | `RingBuffer` | `BoundedFifo` | queries agree, refinement | done |
| 4 | `Gf2`, `Accumulator`, `Crc16Engine`, `Crc32Engine`, `Crc` | polynomial remainder | widths, pieces make no difference, a damaged byte is caught | done |
| 5 | `Packet`: builder, parser and the line between them | the message that was sent, or nothing | builder and parser are inverse, partial and damaged frames are refused | done |
| 6 | `LogText`, `Logger`, with tasks and backends that log and reconfigure | `LogService` | fits and is terminated at every length, refinement | done |
| 7 | `Binary`, `BitUtils` | `BitField` | refinement | done |
| 8 | `RingBufferClients`: producer and consumer with stale snapshots | | snapshots hold | done |
| 9 | more proofs | `TimerService`, polynomial remainder | the pool implements `TimerService`; a Tick call is bounded and starts nothing; statistics; the register of either engine is the remainder; bursts of damaged bits are caught | done |
| 10 | more proofs | | bursts that reach from the data of a frame into its code | next |

## The modules

### SwTimer: the software timer pool

One function per field of `TimerControlBlock_t`, indexed by slot. Create, Start,
Stop and Delete are one action each, with their error answers as disjuncts; a
repeated Init is `Reinit`, or `ReinitRefused` when its capacity is 0. **Tick is not atomic**: the code invokes callbacks in the middle of
its scan, and a callback may create, start, stop or delete any timer, its own
included. So `TickBegin`, one of `TickSkip`, `TickCount` and `TickFire` per slot,
`CallbackReturn` and `TickEnd` step through the scan with `phase` and `scan` as
the program counter, and while `phase = "callback"` the application's actions are
enabled as they are between ticks. A callback's effect is thus *any* sequence of
calls. What Tick captured before the call (`firedHandle`, `firedContext`) is state,
because a callback may overwrite the slot it came from.

A context stands for the pair of callback and context pointer that identifies a
timer to the application, which keeps each handle for ever, stale or not.
`index` and `generation` of a handle wrap at `IndexRange` and `GenRange` (256 and
256 in the code). `calls`, `early`, `deletes` and `birth` are history variables
that no action reads: Tick calls since the countdown began, whether a callback
started it ahead of the scan, deletes of each slot, and where and when each timer
was created.

`TimerService` is what the application is promised: timers known by their
context, with no slots, handles or scan. `SwTimer` maps to it through the two
queries the application has, `GetState` and `GetRemainingTicks`.

Outside the model: a Tick from within a callback (the header allows callbacks to
start, stop, create and delete), a successful Init from within a callback, one that
gives the pool another array or another number of slots, handles made before a
repeated Init, NULL arguments.

### MemoryPool

The fields of `MemoryPool_t` and, for the application, the pointers each of
several owners holds. Pointers are integers and `Accepts` is the arithmetic of
`memoryPoolRelease` on them, `size_t` product included. Owners release what they
hold *and any other pointer nobody else holds*: NULL, outside the storage, inside
a block, a block already free. `BlockAllocator` has blocks and owners, no stack
and no addresses.

### RingBuffer

The two positions, the slots and the sizes. `GetAvailableSpace` is computed modulo
`WordRange` as the code's `size_t` arithmetic is. `call` and `status` are the last
operation and its answer, so that the abstract `BoundedFifo` can say that an
operation succeeds *exactly when* the queue allows it.

`RingBufferClients` adds a producer that asks for the free space and a consumer that
asks for the size. The header calls the first answer a snapshot that "may become stale
immediately" (`include/ringBuffer.h`): `space` and `ready` are what is left of the last
snapshots while the other client goes on. A successful Init voids both, Clear the consumer's.

### Gf2, Accumulator, Crc16Engine, Crc32Engine, Crc: the checksum engines

A machine word is the set of its one-bits, which is a polynomial over GF(2) too:
shifts and exclusive or are translated bit by bit (`ShiftLeft` drops the top bit as a
`uint16_t` does), and the reference they are compared with is `Remainder`, division of
the data by the generator of the standard, written from the definition and not from the
code. `ProcessBit` is one turn of the loop of `crc16ProcessByte` or `crc32ProcessByte`; eight
turns are three doublings. `Processed` (`Accumulator`) is the loop of the Update functions over
a buffer: the last of a run of registers, one per byte. It is written with a function
and not as a RECURSIVE operator so that it can be proved about.

The two C modules are twins, so `Crc` is one context and its application for either: `engine`
is chosen at the beginning, and each function of each module is an action. The application
updates the context with pieces of its choice, empty ones included, reads results in between,
and computes and verifies other data. A context starts with any register. `started`, `fed`,
`call` and `data` are history. The CRC-32 register is the reflected one, kept without its final
exclusive or, and its reference is plain division by the unreflected generator on mirrored bytes.
`MCCrc` checks the reference itself against the published check values.

### Packet: the builder, the parser and a line

The two modules have no state; what can go wrong is in the buffers that their callers
keep. So the model is both applications: a sender with one frame buffer, a line that may
damage a byte, delivers in pieces and may lose the rest of a frame when the next
one is sent, and a receiver whose buffer is written from its beginning and never cleared,
and which may parse at any moment, with what has arrived as the length or with the size
of the buffer once `packetParserGetPacketSize` says that a packet is there. A parsed
payload is a position in the buffer, as it is a pointer in the code; `Contents` is what
the receiver finds there *now*. `Frame`, `HeaderGood`, `LengthGood` and `CrcGood`
are the layout and the checks in the order of the code; CRCs are computed with `Crc16Engine`.
`built`, `inFlight`, `damaged`, `accepted` and `trusted` are history.

A refused call changes nothing, and that a refused build leaves the waiting frame alone
is part of `FrameKept`. Outside the model: NULL arguments, a payload that lies in the
destination buffer, and the answers for a failing `crc16Compute`, which cannot fail with
the arguments it is given. `DamageRefused` excepts the two bytes of the length field:
damage there moves the place where the code is looked for, and in the checked instance
the parser does find a code that fits there; `OnlyFrames` still holds.

### LogText, Logger, LogService: the logger

One `Logger_t` and several tasks. `loggerWrite` is four steps: its checks in their order
(`Status`), the prefix, the message, and the call of the backend, for which the code reads
`backend` and `backendContext` again. Each call in progress has a frame with its arguments and
the locals of the C function (`buffer`, `used`, `totalLen`); a backend may itself log, so
frames nest. Between any two steps another task may take one. A character is known by the
text it comes from and its place in it, so that a buffer that mixes two messages shows;
module names and formats are their lengths. `Printed` is `snprintf`: the part that fits and a terminator, or,
when an encoding fails, any beginning without a terminator and a negative answer.

`Synchronized` is what `include/logger.h:76` asks of the callers: no reconfiguration while a call
is between its checks and its backend. While a backend runs, it and the other tasks may
reconfigure. `LogService` has no buffers and no steps: a message is refused, dropped, or handed
over whole, and does not change until its backend returns. `Deliver` names the module, the format and
the level that the task asked for, and the backend that is then registered. Its `Texts` leave out the prefix
or the message where formatting failed, as the code drops what was written of it.

Outside the model: the `LOGGER_*` macros, which decide at compile time whether `loggerWrite` is
called at all; unsynchronized reconfiguration, a data race.

### Binary, BitUtils, BitField: the bit utilities

The functions keep nothing; the state is an application's register, passed by value and
written back from `updatedValue`, and its variables for results. Words are numbers: a shift to the left
is a multiplication modulo the range, one to the right a division, and `&`, `|` and `^` combine the sets of
places that hold a one (`Binary`). A shift by the whole width, undefined in C, takes the count modulo the
width as common processors do, so that a mask made by such a shift would show. Powers of two are a
function (`TwoTo`) and not `2^n`, and the operators of C are not those of the `Bitwise` module, which are
RECURSIVE: the provers know nothing of either. `call` holds the name and the arguments of the last call, in both
modules: a step of the program must be the abstract step with the same position, field and number. `BitField` has no
masks, and words only as the arguments of fields: a row of bits that are written and read one by one or
as fields. The comment at `src/bitUtils.c:251` lists an INVALID_VALUE that ExtractBits never
returns; the model follows the code.

### Definitions marked "Mistake"

Next to some definitions stands a variant whose comment begins with "Mistake": a
plausible slip in that piece of code. No specification uses them. Each, put in
place of the definition that follows it, makes TLC report the property named in
`PROJECT.json` ("mutants"), which is how we know that the property can fail.

## What TLC checks

| run | shows | instance |
|---|---|---|
| `SwTimerSafety` | countdowns add up, expiries are on time, handles name their own timer, callbacks get their own timer, Tick re-arms nothing | 2 slots, 3 timers, timeouts up to 2, generations wrap at 2 |
| `SwTimerPromises` | `SwTimer` implements `TimerService`; every Tick call returns, every countdown ends | 2 slots, 3 timers, generations wrap at 3 |
| `MemoryPoolSafety` | free stack, holders, validation, statistics, configuration; `MemoryPool` implements `BlockAllocator` | 3 owners; pools of 2x2, 2x4 and 3x2 bytes at address 4, and a 3x4 one whose size overflows |
| `RingBufferFifo` | queries agree, only pushed elements are read, snapshots hold; `RingBuffer` implements `BoundedFifo` | 3 elements, capacities 0 to 4, positions anywhere on the circle |
| `CrcSafety` | register and codes of both engines are the remainders of the standard however data are cut; verification is exact; a damaged byte is caught | 2 byte values, pieces of up to 2 bytes, data of up to 3 |
| `PacketSafety` | the sender's frame survives refused builds; the parser waits for whole frames, accepts intact ones and only frames, refuses damage; what was parsed was sent | payloads of 0 to 2 bytes, one of 3 that the buffer is too small for and one of 4 that is too long; buffers of 9 bytes; stops after 4 and 7 bytes; damage in every field |
| `LoggerSafety` | lengths stay inside the buffer, every text that a backend reads is terminated; `Logger` implements `LogService` | 2 tasks, 2 calls in progress, nested or in both tasks; a buffer of 12 |
| `BitUtilsSafety` | `BitUtils` implements `BitField`: each call changes and reports the bits that its arguments name | a word of 3 bits; positions, starts and widths of 0 to 4; every number of the word |
| `SwTimerExactTicks` | *violated*, see Findings | 2 slots, 2 timers |
| `SwTimerLargePool` | *violated*, see Findings | 3 slots, handles that can name 2 |
| `MemoryPoolGarbageFlag` | *violated*, see Findings | flag uninitialized |
| `PacketDocumentedSize` | *violated*, see Findings | that of `PacketSafety` |

Why these bounds suffice. Two slots give a slot behind and a slot ahead of the
scan, which is all the code distinguishes; three timers for two slots force a full
pool and the reuse of a slot, also while the first timer's handle is still used;
a timeout of 2 has a tick that does not expire. Generations that wrap at 2 make
`HandleNamesItsTimer` meet its own limit; for the refinement they must not wrap,
and each timer being created once, 3 generations suffice. The storage at address
4 under `AddressMax = 13` ends exactly at the last address for the largest pool,
and leaves pointers below, above and between blocks to try. Ring buffers of four
slots have every position of head relative to tail before and after the wrap;
`WordRange = 8` is twice the largest capacity, the tightest allowed. The two byte
values of the CRC runs have bits in both halves and at both ends; three bytes pass the
first through every place of the 16-bit register. Payloads of two lengths besides
the empty one let a short frame stand before the rest of a longer one, a payload
of a header byte tries the parser on a header in the wrong place, the payload of two
bytes is the code of the message without payload, so that a damaged length does go
unnoticed, and the stops fall inside the smallest frame and before, inside and behind the code of larger ones. A build
is given buffers too small for any, for some and for no frame. In the logger's buffer of 12
characters a message just fits, is cut, or finds no room, and a prefix that just fits
leaves room for the terminator only; two calls in progress are one nested in the other's backend or two
tasks side by side, and a formatting that fails does so after one character. A word of three bits
has fields at both ends, in the middle, and as wide as the word, next to bits that must stay. The theorems
below remove the bounds for most of these properties.

Fairness. Only `SwTimerPromises` assumes any: weak fairness of `TickBegin` (the
application keeps calling Tick; it is a time base) and of `TickStep` (the scan goes
on, which includes that callbacks return). Both concern the driver of the pool,
which has no thread of its own. No call of the application is fair.

Deadlock is checked in every run. Symmetry is used over timers' contexts, owners,
elements and tasks, which the code copies and never compares, and in no liveness run.

## What TLAPS proves

All for every value of the constants that satisfies the named assumptions in the
modules; further hypotheses are in the statement.

* **`SwTimerProofs`.** `TypeCorrect`; `CountdownCorrect` (no running timer is ever at
  zero) and `AccountingCorrect` (remaining count and Tick calls add up) by induction
  with one lemma per step, from which `OnTime` follows: a timer fires in the Tick call
  that is due, at every capacity and timeout. For the handles the inductive
  invariant is `HandleBookkeeping`: `HandleNamesItsTimer` is not inductive, because
  nothing in it says that a generation counts the deletes of its slot.
  `BookkeepingCorrect` proves it without hypotheses, also for pools where handles
  truncate; `Reachable` and `StaleHandlesRefused` add `Capacity <= IndexRange`, which is
  where the truncation matters, and derive `LiveTimerReachable` and
  `HandleNamesItsTimer`; `CallbackIdentity` needs neither. `NeverRearmed` is the action
  property that no step of Tick sets a timer running, and `TickBounded` counts the steps of the
  scan (`StepsLeft`): at most two for each slot and one to end, and nothing a callback
  does adds one. The refinement of `TimerService` needs that a handle is good exactly until
  its timer is deleted. That is so unless a generation wraps (`RefinementUnwrapped`, with
  `NoGenerationWraps` as its hypothesis), and a generation cannot wrap while there are no more
  timers than generations: `LivesHaveTimers` maps the deletes of a slot
  one-to-one into the timers that lived in it. So `Refinement` has no hypothesis on the behaviour,
  only on the constants. Each step of a slot is one step of the service (`SlotSteps`), and a timer in
  another slot is not seen to change (`OtherSlotUnseen`).
* **`MemoryPoolProofs`.** The inductive invariant `PoolInv` joins `TypeOK`, `FreeStackExact`
  and `HeldByOne` with `Configured` (storage exists and its size does not wrap) and
  `OnlyBlocksHeld`. Release pushes inside the array because a stack of distinct free
  blocks that misses one has room (`RoomOnStack`, a cardinality argument); its
  arithmetic inverts Acquire's (`IndexArithmetic`, `OffsetArithmetic`). From it:
  `FreeStackCorrect`, `NoSharing`, `ValidationExact`, `FixedConfiguration`, and
  `Refinement`. `CountsCorrect` counts: the free stack numbers the free blocks and the addresses
  number all of them, so that the held ones are the difference (`HeldCount`); that a pool which
  has just answered POOL_FULL is full is one more invariant (`FullIsFull`). `RefusalIsHonest` assumes `DeclaredFlag = {FALSE}`, a zeroed pool.
* **`RingBufferProofs`.** `TypeOK` and `HoldsOnlyPushed` are inductive together.
  `QueriesCorrect` shows that the wrapping subtraction of `GetAvailableSpace` is right
  for every capacity up to half a `size_t`, which `TypeOK` keeps because a larger
  buffer cannot be allocated; `Refinement` that the buffer is a `BoundedFifo`.
  `SnapshotsHold` is not inductive, since it does not say how much is left to promise;
  `SnapshotsCovered` is: the pushes left of a snapshot and the elements stored stay within the
  usable capacity, and the pops left within the elements stored.
* **`CrcProofs`**, for both engines, on the lemmas of `AccumulatorProofs`. One turn of the loop
  is one-to-one on registers, because a bit of the result tells whether the generator was
  added; so is a byte, for a fixed register as for a fixed byte (`BitStep`, `ByteStep`). About
  `Processed`, for data of every length: it continues over a concatenation
  (`ProcessedConcat`), and a changed byte changes the register after it, and every one
  after that (`ChangedByte`). Hence `StreamingCorrect`, `DamageIsCaught` and the
  widths, `TypeCorrect`. That the register *is* the remainder goes by induction on the message.
  A turn of the loop multiplies by x modulo the generator; the remainder of a sum is the sum of
  the remainders, because a coefficient is a parity and parities add (`RemainderXor`); and one more byte
  multiplies the message by x^8 and adds to its lowest byte. The reflected register of CRC-32 is the mirror
  image of a plain one at every turn, so it needs no second argument. `ComputesCode16` and
  `ComputesCode32` say it of every buffer; `RegisterCorrect` and `ResultsCorrect` of the running
  context, by the inductive `CodeInv`. `Longest` bounds the powers of x that the reference
  looks up by the data there can be. From the same algebra follows what neither a test nor a run
  reaches, `BurstIsCaught16` and `BurstIsCaught32`: two buffers whose polynomials differ by a
  word's worth of neighbouring terms, anywhere and however long the data, never have the same
  code, because their remainders differ by a word times a power of x, and a generator with a
  constant term sends no nonempty word to the empty one (`TimesXNonzero`, `BurstRemainder`).
* **`PacketProofs`**, for every payload size that the length field can say, so also for
  the code's 255: `Carries` says position by position that a buffer begins with
  the frame of a message. A buffer that carries a message is parsed to it
  (`RoundTrip`), what is accepted carries the message it is parsed to (`Accepted`), and
  no two frames of one length differ in a single byte (`DamageSeen`, which is where the
  CRC lemmas come in). The inductive invariant `LineInv` says that the sender's buffer
  begins with the frame built last, the line holds the frame sent but for the damaged
  byte, and the receiver's buffer begins with what has arrived. From it all seven
  properties of `PacketSafety` follow.
* **`LoggerProofs`**, for every size of the buffer, all lengths of names and messages, and any number of tasks
  and nested calls. `LoggerInv` says of each frame what the C function has established at
  the point where it is: after the prefix the first `used` characters are the prefix, cut
  where the buffer ends; after the message, `totalLen` characters are one of the `Texts` and the
  terminator follows (`Formatting` does the arithmetic of both calls once); and before the backend
  is called, it is registered and the level within the threshold, which holds
  because of `Synchronized`. `TypeCorrect`, `MessageIsTerminated` and `Refinement` follow; for the
  last, the formatting steps stutter, the call of the backend is `Deliver` and its return `Finish`.

* **`BitUtilsProofs`**, for words of every width. A number below a power of two is known by its
  ones (`OnesDetermine`, `OnesExist`), so the operators of C become set operations: union and
  intersection, complement (`DigitOfComplement`), and sets moved up or down with what leaves the word
  dropped (`ShiftLeftOnes`, `ShiftRightOnes`). `MaskOnes` and `FieldMask` say what `generateMask` makes, the whole
  word included. `Refinement` is then that each function, given a position, a field or a number, answers and writes what
  `BitField` does for the same arguments (they are in `call`), with no hypothesis and no invariant but that the register is a word.

Induction over the length of data: the library's induction theorems take an operator as
parameter, which the provers cannot instantiate. `AccumulatorProofs` takes a shortest
counterexample instead (`ShortestBuffer`, from the well-founded order of the naturals), and
`BitUtilsProofs` states induction as a fact about a set (`Induction`).

Model-checked only: `TickReturns` and `CountdownEnds`, because liveness under fairness and ENABLED
are out of TLAPS's reach here; `TickBounded` is the safety half of the first.

## Findings

* **A timer can expire a tick early** (`SwTimerExactTicks`). `include/swTimer.h:43`: a timer
  with timeout N expires after exactly N calls of Tick. The scan also counts a timer
  that a callback of a lower slot has just started: it expires one call early, with
  N = 1 within the call that was under way. `FiresOnTime` says what the code does.
* **Pools of more than 256 slots** (`SwTimerLargePool`). Init accepts any capacity, and
  Create stores the slot number in a `uint8_t`: Create succeeds for slot 256 + k with
  slot k's number in the handle.
* **The initialized flag is read before it is written** (`MemoryPoolGarbageFlag`).
  `include/memoryPool.h:151` says a pool need not be zero-initialized; Init then reads a
  flag with any value and may refuse the first call.
* **The size of a packet** (`PacketDocumentedSize`). `docs/packetParser-design.md:44` says that
  the parser reads 7 plus the decoded length bytes, and line 54 that this is at most 263. The
  decoded length counts the command, so the size is 6 plus it, at most 262, and the
  code reads no more.

## What is not modelled

Calls on one memory pool or ring buffer that overlap, for instance from an interrupt: the headers
have the caller keep them apart (`include/memoryPool.h` and `include/ringBuffer.h`, Thread Safety),
and without that they are a data race on plain fields, of which no order of steps is the
program's. The models take each of these calls as one step. NULL arguments where the call refuses
them before it reads any state, unless the order of the checks matters (the logger, the bit utilities,
the CRC engines). `ringBufferGetAvailableSpace` on a structure that was never initialized, a remainder
by zero: the models ask only buffers with storage. A nested Tick, handles kept over a second
`softwareTimerInit`, and blocks released by an earlier holder: the code cannot tell these from
proper use (of the last, docs/memoryPool-design.md, section 2, says so). Demonstration programs, unit tests and build files
have no state of their own.

## Running

    tlc -config SwTimerSafety.cfg MCSwTimer
    tlapm SwTimerProofs.tla

The module of each run is in `PROJECT.json` ("runs").
