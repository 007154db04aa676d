# Verification of the dashcam encryption pipeline

The repository holds programs for a Raspberry Pi dash camera that encrypts what it records with
the stream cipher Trivium, on the CPU or on the VideoCore GPU, and a Qt client that receives,
decrypts and plays the stream. This directory holds TLA+ models of these programs, the TLC
configurations that check them on small instances, and theorems about them whose proofs TLAPS
checks.

Paths below are relative to the repository; `file:line` names a line of it.

## 1. The system

| Part | State | Operations | Interacts with |
| --- | --- | --- | --- |
| `BlockingQueue` (`hybrid/BlockingQueue.h`) | a `std::queue`, a mutex, a condition variable | two `push`, two `pop` | shared by the main and the worker thread |
| Hybrid programs (`hybrid/TriviumKeygen*.cpp`, `GPUEncryption`, `CPUEncryption`) | blocks on the heap, the local variables of two threads, stdin and stdout with their buffers | `copy_stdin2stdout`, `generateKey`, `run`, the end of `main` | `BlockingQueue`, `Trivium`, the XOR kernel |
| `Trivium` (`hybrid/trivium.cpp`; copies in `camera/`, `Client/`, `cpu_programming/`) | three registers of 3, 3 and 4 ints, `offset_integer` | `initiation`, `get_integer`, `cypher`, the conversions between characters and ints | everything that encrypts |
| GPU kernels (`gpu_programming/Tests/Encrypt.cpp`, `hybrid/GPUEncryption.cpp`, `gpu_encryption/Trivium_encryption.cpp` and copies) | per QPU: pointers, a FIFO of memory requests, registers; shared arrays | prefetch, XOR, store | the ARM starts them and waits |
| Camera (`camera/video-streaming.py`, `encryption.cpp`, `pi-server-socket.py`) | three processes joined by pipes; one listening and one connected socket | encrypt a block; accept, send a line, give up a client | TCP to the client |
| Client (`Client/mainwindow.cpp`, `tcpsocketstreaming.cpp`, `tcpserverstreaming.cpp`) | a button, a socket, a buffer, one `Trivium` object, a server for the viewer | Qt slots: button, `readyRead`, `sendData`, `disconnected`, `clientConnect` | TCP to camera and viewer, signals between its objects |
| File tools `crypt`, `decrypt` | a file, a `Trivium` | one `cypher` | `Trivium` |
| QPULib (`*/Lib`, three equal copies) | the statements of a kernel; per pass of the compiler the instructions, liveness, registers given; the registers and flags of a QPU | translate, liveness, allocation, satisfy, remove labels, encode; run | every GPU kernel is compiled by it |
| raspicam (`camera/raspicam`) | three flags and a buffer shared with a callback; the headers and queues of MMAL's video port | `open`, `startCapture`, `grab`, `retrieve`, `release`; `video_buffer_callback` | the GPU's camera fills the buffers; MMAL's action thread calls back |
| Client settings, image path, C prototypes, RC4, experiments | see section 8 | | |

`camera | encryption | server -> TCP -> client -> viewer` is one pipeline; `stdin -> main ->
BlockingQueue -> worker (CPU or GPU) -> stdout` is the other. Both rest on the cipher. What
makes them hard:

- **Interleaving.** Two threads share a queue whose `push` notifies after it has unlocked; each
  block's buffers change hands through it. A dozen QPUs prefetch and store in one array.
- **Position is everything.** A stream cipher has no marks in its text: one character that is
  lost, doubled, overtaken or skipped by a key stream that advances by whole vectors of 64
  characters makes all that follows unreadable.
- **Partial reads and writes.** `fread` may be short, `fwrite` buffers, TCP and `readyRead` cut
  anywhere, lines of a binary stream have any length.
- **Connections.** A client that has left is noticed late; data is lost with it; its successor
  inherits the rest of its buffer and the state of its cipher.
- **Asynchrony below.** A QPU sees a register one instruction late and a branch three late; the
  emulator that the tests use does not. The callback of the camera runs in MMAL's thread or,
  while the port is being disabled, in the user's, and both take from one pool.
- **Ends.** `main` sleeps one second and returns whatever the worker does. The last characters
  of a video do not fill a block. A kernel stores rows that are longer than the array.

What would make each part correct: the queue is an atomic FIFO queue and loses no wake-up; the
hybrid program writes a prefix of the encrypted input, in order, and frees each buffer once; the
registers in words are shift registers of bits, and no round forgets anything; `cypher` is
undone by itself for the same cuts of the text; the kernels XOR each word with its own word of
the key; the viewer sees the video as long as nothing is lost; compiled kernels print what the
interpreter prints; what `grab` has got is one whole new frame, and stays so.

## 2. Modules and how they correspond to the code

`PROJECT.json` ("map") gives the lines of every definition. Actions are named for the statement
or the function they stand for.

### BlockingQueue, FifoQueue, MCBlockingQueue, BlockingQueueProofs
`BlockingQueue` has one action per statement of `push` and `pop` that another thread can
observe: lock, append, unlock, notify; lock, test, wait, front, pop, unlock. `pc` says where
each thread is, `item` is the argument of `push` and the local `item` of `pop`. `wait` gives the
mutex back and joins the waiters in one step, as the C++ standard says, may return without
notification, and tests again with the mutex. `FifoQueue` is the abstract queue: a call is
pending, takes effect at one moment, returns. The refinement mapping takes `queue_.push` and
`queue_.pop` for these moments. `MCBlockingQueue` adds a bound on the number of queued elements
for TLC; the proofs are about the unbounded `Spec`.

### HybridPipeline, PipelineProofs
Both programs, `TriviumKeygen` (`onGPU`) and `TriviumKeygenCPU`. It contains an *instance of
BlockingQueue* with `main` as the producer and the worker as the consumer, so that every
statement of the queue is interleaved with those around it. `heap` maps each allocated buffer to
its contents; `unread`, `eof` and `errors` are stdin, `stdio` and `out` are the buffer of stdout
and what has left it. Characters are positions, so that an encrypted character tells which
character was encrypted with which key character of which block. `Return` is `sleep(1); return
0`: at any time after the last push the process may end, and the destructor of the joinable
`std::thread` ends it for the worker too.

### CameraStream, MCCamera, CameraProofs
The whole way of the video. `encryption` reads blocks (`EncryptBlock`, `EncryptShort`,
`EncryptLast`); `pipe` is stdin of `pi-server-socket.py`, which accepts, sends lines of any
length (`SendLine`: `send` may take a part of a line only, and the rest is lost, because what it
returns is not looked at), and finds out about a client that left only by a failing `send`
(`SendUnnoticed`, `SendFails`: the line is gone, and so is the listening socket with its
backlog). `send` also fails on a broken network to a client that is there: what is under way is
lost too, and the client has a connection that the server dropped. `link` is the state of every
connection, `wire` what is under way. In the client each Qt slot is one action, including
everything it calls: `ReadyRead` is `readAll` and `sendData` with its loop. Vectors of the key
stream are counted (`encVectors`, `decVectors`) as `cypher` uses them. `Restart` starts the
client program anew. `MCCamera` has behaviours of two kinds: in the one the video ends, in the
other the camera goes on for ever, and positions are counted anew whenever nothing is on the
way.

### XorKernel, XorKernelProofs
The four forms the XOR kernel has, on all QPUs at once. `fifo` holds the requests of `gather`,
`receive` takes the oldest; a word of an array is its index, so that a stored word tells which
word of the message was XORed with which of the key. The "trivium" form makes its key in each
QPU; it is compared with `multi_core_trivium_cpu`, which runs on the ARM. `main` gives all cores
the same registers, so the key streams are equal in fact; the model names an integer of the key
stream by its core, and so also tells apart two cores that change places.

### ShiftRegisters, TriviumRegisters, MCTriviumRegisters, TriviumProofs
`TriviumRegisters` is `initiation` and `get_integer` word by word: an int is a function from the
shift amount to the bit that `x >> shift` leaves in the lowest place. `ShiftIn` is the shift of
all words of a register with the bits `bit1`, `bit2`, `bit3` that cross between them.
`ShiftRegisters` is the generator as one thinks of it: three sequences of bits that are shifted
together, and a key stream. The refinement mapping cuts the words to the 93, 83 and 114 (in
`get_integer` 110) places that have an effect, and reads the key stream off the integers
returned and the part of one that is being made. Where two copies of the code are the same, the
map names for `ShiftRegisters` the functions of `gpu_encryption/Trivium_encryption.cpp` and
`cpu_programming/trivium.cpp`, for `TriviumRegisters` those of `hybrid/trivium.cpp`.

### TriviumCypher, TriviumCypherProofs
Two `Trivium` objects with the same key. One encrypts a text piece by piece, the other decrypts
it in pieces of its own. A character is the set of what has been XORed to get it, so that XOR is
symmetric difference, and garbage, key bytes and text are told apart. What `cypher` reads behind
its buffer, whole vectors at a time, is garbage.

### QpuInstructions, QpuLanguage, QpuCompiler, MCQpuCompiler, QpuCompilerProofs
QPULib for integer kernels. `QpuInstructions` is the target language, with what an instruction
reads, writes and computes; `QpuLanguage` is the source language, its interpreter and
`translateStmt` (recursive, as in the code; only TLC uses it). `QpuCompiler` has one action per
turn of the loops of the back end: liveness backwards until nothing changes, `introduceAccum`,
the preferences and the allocation of `regAlloc`, the moves and NOPs of `satisfy`,
`removeLabels`, the checks of `encode`. Then it runs the code on a QPU that, other than
`Emulator.cpp`, has the delays of the processor that `Satisfy.cpp` speaks of. `MCQpuCompiler`
makes the kernels: a prologue as `Kernel` makes it, one statement, and prints.

### RaspiCam, RaspiCamProofs
The user's thread, the action thread, the camera and the callback, which runs in either thread,
with one action for each statement that another of them can observe. Headers of buffers are
counted and not named, except for those that the camera has returned, of which it matters in
which order they have a frame. `transit` and `sema` are the count and the semaphore of
`IN_TRANSIT_*`; `contexts` is how many headers the port can take, which is fixed when it is
enabled and before the pool is made.

## 3. What the runs check

| Run | Shows |
| --- | --- |
| `queue` | mutual exclusion; a consumer past the loop finds an element and removes the one it read; no wake-up is lost although `notify_one` follows `unlock`; the queue is an atomic FIFO queue, and a fair one: pushes return, elements are taken |
| `hybrid` | stdout is always a prefix of the input, each character encrypted with its own key character; every buffer of a block has one owner and is freed once; exactly the buffers the code forgets are leaked; `main` reaches its sleep; with a long enough sleep all of the input has been read and written |
| `hybrid_exit` (violation) | ... and without one it is not: see section 7 |
| `camera_stream` | nothing is duplicated or overtaken over any sequence of connections; the viewer sees the video while nothing is lost, however it is cut; behind a loss nothing is readable ever again; no connection is left behind by the button; a client that stays connected gets and decrypts everything but the rest that fills no block; a client that left is noticed as long as the camera goes on |
| `camera_retransmits` (violation) | the line on which `send` fails is sent to nobody |
| `xor_kernels` | each stored word is the XOR of its own words; all words are stored, none twice; how far behind the array each form writes, and no farther; requests and receives balance; all QPUs finish |
| `trivium_registers` | words, carries and masks are registers of bits; each round can be undone |
| `trivium_output` (violation) | the comments name other bits than the code taps |
| `trivium_cypher` | a character is recovered exactly if both sides have skipped as much of the key stream; garbage from behind the buffer never gets out; no byte of the key is used twice |
| `qpu_compiler` | 344 compilations: variables that are live together get different registers, with only two in each file; the encoder refuses nothing but the conflict of section 7 and a rotation by an amount in a register; on a QPU with delays the code prints what the interpreter prints, or the compiler says that it has no register left |
| `qpu_conflict` (violation) | a kernel that adds `index()` to the variable in register 1 is refused |
| `raspicam` | the pool is never empty where a header is taken, and no header but those the port has no context for is lost; after `grab` the buffer has one whole frame that came after the call, until the next; every call returns |

Every property has a mutant (a plausible mistake in the code: a test that is not repeated after
a wait, a notification only for the first element, a carry from the wrong word, a forgotten
`removeFirst` ...) for which TLC finds it violated. The mutants stand before the definitions
they change and are marked as such.

## 4. Bounds

- `queue`: 2 producers, 2 consumers, 2 elements, at most 2 queued before a push starts (so up to
  3 or 4 when two are under way). Two consumers are what it takes to steal an element from one
  that was woken, two producers to have two notifications outstanding. For more threads there
  are the proofs.
- `hybrid`: blocks of 3 characters, words of 2, inputs of 0, 1, 4 and 6 characters: empty, less
  than a block, no multiple, a multiple; a block that does not fill its last word. One read
  error at any place. Up to three blocks at a time, in the queue, with main and with the worker.
- `camera_stream`: blocks of 4 characters and vectors of 2, 8 characters of video, lines of up
  to 3, a pipe of 4, 3 connections, a short read, a restart. A block is never a line, so that
  every cut occurs; the third connection meets what two have left.
- `xor_kernels`: 3 QPUs, 2 lanes, n from 0 to two rows and one word, with the sizes around one
  vector (1, 2, 3), one row (5, 6, 7) and two rows (12, 13).
- `trivium_registers`: not scaled down: registers, the 4*288 rounds and the taps are those of
  the code; the key of the constructor and one of all ones; 16 integers. For other keys there
  are the proofs.
- `trivium_cypher`: 2 characters in an integer, 2 integers in a vector, up to three pieces on
  each side of 0, 1, 3, 4, 6, 8 or 9 characters: shorter than an integer, than a vector, whole
  vectors, more.

- `qpu_compiler`: lanes 2, of which one can take a branch or a condition and the other not; 6
  bits in a word; two registers in each file, so that kernels with up to six variables also run
  out of them; every operator and comparison, `where` within `where`, `if` and `while` with
  conditions of up to three comparisons. `qpu_conflict` has all 32 registers.
- `raspicam`: up to 3 buffers asked for and up to 3 contexts, equal, more or fewer; any number
  of calls. The proofs are for any number of buffers.

## 5. Fairness

- `queue`: a thread inside `push` or `pop` keeps running (weak fairness of its own steps), and a
  mutex that keeps becoming free is some time given to each thread that asks (strong fairness of
  lock and relock). No thread need call anything, and no wait wakes up by itself. A `std::mutex`
  promises no fairness; under Linux, with threads that do other work between their calls, it
  holds.
- `hybrid`: the same for both threads. Nothing is assumed of `sleep`: `Return` has no fairness,
  and `WorkerCatchesUp` speaks of behaviours in which it takes long enough.
- `camera_stream`: the processes run, TCP delivers, and of the sends to a client that has gone
  not all succeed (strong fairness of `SendFails` with a client that has gone: after the reset,
  a send fails). The network need not break, nor need a client hear of a connection that the
  server dropped. Users are not fair.
- `xor_kernels`: every QPU runs. `qpu_compiler`: so does the compiler.
- `raspicam`: the threads go on (weak fairness of the callback), get a mutex that becomes free
  again and again (strong fairness of the user's thread in a call, of the return of `grab` and
  of the action thread), and a camera that has buffers again and again fills some
  (`SF_vars(CameraReturns(TRUE))`). The user need call nothing.

Deadlock is checked in `hybrid` and `xor_kernels`, which end in an explicit final step, and in
`queue` and `raspicam`, whose callers can always call again. The camera, cipher, register and
compiler runs may stop, at their bounds or when the program halts, so it is switched off there.

## 6. What is proved

For every value of the constants, checked by TLAPS:

**BlockingQueueProofs** (any finite sets of producers and consumers, any elements).
- `TypeCorrect`, `MutualExclusionHolds`, `TakesWhatItReadHolds`. None of the properties is
  inductive alone. The invariant `IndInv` adds that whoever is in `waiters` is at `wait`, and
  that a producer on its way to append has an element as its argument. That `TakesWhatItRead`
  survives the steps of other threads rests on mutual exclusion: nobody else is in a place where
  `queue_` changes.
- `NoLostWakeupHolds`: a statement about cardinalities. Each step moves one thread in or out of
  `Notifying` or `Awake`, or adds or removes one element; the cases are `PopWait`, where the
  queue is empty, `NotifyNobody`, where nobody waits, `NotifyOne`, which turns a notifier into
  an awake consumer, and `PopRemove`, which takes the element with the consumer.
- `ImplementsFifoHolds`: every step maps to one of `FifoQueue` or to none. The step that needs
  the invariant is `PopRemove`: what it removes is what was read.

**TriviumProofs** (any set of keys, any number of rounds and integers).
- `TypeCorrect`: the registers hold bits, that is the masks with 1 suffice.
- `InvertibleHolds`: after each round, the lost bit of each register is the XOR of bits that are
  still there. It is about the places in use: `get_integer` counts 110 of them in `r3`, and the
  bits that `initiation` leaves behind in places 110 to 113 are not recovered. It rests on
  `BitOfShiftIn` (a shift of words with its carries is a shift of places) and on cancellation of
  XOR. It would fail for taps that do not reach the end of a register.
- `ImplementsShiftRegistersHolds`: the words implement `ShiftRegisters`. The invariant `IndInv`
  adds the bounds of the two loops: `initiation` returns with `i = Rounds`, which makes its
  return a stuttering step, and `get_integer` makes no more than 32 bits. The key stream is
  shown to grow by the output bit in `GetBit` (`KeyStreamGrows`) and to be unchanged when the 32
  bits of `z` become an integer (`KeyStreamKept`). The places behind the ends of the registers,
  which the words still hold, do not matter (`ShiftRegistersShift`).

**CameraProofs** (blocks, vectors, lines, videos and pipes of any size, any number of
connections and restarts). The invariant `IInv` has three parts.
- `CameraTypes` and `ClientTypes` are the types: `TypesHold`.
- `Session`: `SessionTypes`, `NoSessionLeftBehind`, and `WireConnected` (what is under way
  belongs to a connection that is up). `ButtonTellsTheSession` follows.
- `Data`: where every character is. `KeysUsed` relates the vectors encrypted to the characters
  taken; `InPipe`, `OnLine` and `Shown` say of the pipe, the line with the client's buffer, and
  the viewer that positions rise and that each character was encrypted at its own key position.
  The heart is in `OnLine`: a character's position is the number of those lost before it, plus
  those the client has decrypted, plus its place on the line. So the client's key position is
  right for it exactly if nothing before it is lost. No part is inductive alone: what
  `ReadyRead` shows depends on what both sides have used.
`EachCharacterOnce`, `VideoIsSeen` and `NothingHealsALoss` follow. The facts about sequences of
characters (`LineGrows`, `LineIsCut`, `LineDecrypted`, `PipeGives` ...) are lemmas without
variables.

**XorKernelProofs** (any number of QPUs, any width of a vector, messages of any length, the four
kernels). A word has a place: lane, QPU and row, by division by `Lanes` and `NumQPUs`
(`WordPlace`, `PlaceWord`: a bijection). The invariant `IInv` says of each QPU (`Local`) that
its pointer is at the first word of a row of its own and its loop variable is that of the row
(`InStep`), that its FIFO has the requests for this row, the next or both (`Requested`), what
its registers hold (`Received`), and what its last loop test found (`Control`); of the result,
that it has the words of the rows counted so far and no other (`WordsStored`), each its own XOR.
`TypesHold`, `NeverOutOfStep`, `NothingOverdue` and `NoWordTwice` follow from it; `NoWordIsLeft`
and `NoFurther` need the limits of the loops in rows, for the Trivium kernel that the first
`nb_vector % nb_core` QPUs make one more (`TriviumRows`). That the key stream's integer is the
one `multi_core_trivium_cpu` uses rests on `UsedCount`, which counts the vectors of a core by a
bijection. `NoFurther` assumes `Lanes > 1` (it is 16): with one QPU and one lane the hybrid
kernel stores one word of an empty message.

**TriviumCypherProofs** (integers and vectors of any size, texts of any length, any pieces).
Sums over pieces are folds over sets in an order that `CHOOSE` gives, so their first facts
(`SumAppend`, `SumSmaller`) need induction. The library's induction theorems cannot be
instantiated; `Induction` gets it from two facts that can, the well-foundedness of the finite
sets under inclusion and `WFMin`, and speaks of a set instead of an operator. `CypherIs` says
what the conversions, the rounding up to whole vectors and the order of the integers in a vector
come to: character `c` of a piece is XORed with `Byte(first + c)`, and `Byte` numbers the bytes
of the key stream without repetition (`ByteInjective`). The invariant `IInv`: each object stands
behind what it has used and skipped (`Positioned`); what is skipped before a character never
decreases (`Ordered`); each character under way or shown is text and key at these places. No
part holds alone: a call keeps the place of a character only if the object stands where the cuts
say. `Recovered`, `NoGarbage` and `KeyUsedOnce` follow, and two statements about the cuts the
programs make: `CutAlikeIsClear` (the file tools) and `WholeVectorsAreClear` (blocks of 2048
characters are 32 vectors).

**QpuCompilerProofs** (any programs, any number of registers).
- `LivenessIsFixed`: the sweeps end only at a fixed point; the invariant `Swept` says that a
  sweep which has changed nothing has found all instructions behind it in order.
- `RegistersApart`: for what `LiveEnough` says is live, `Given` and `AllocatedApart` are kept by
  `Allocate`, and `introduceAccum` adds no variable to any instruction.
- `TypeCorrect` and `EncodableHolds` rest on `FlowInv`, which says in each phase what the passes
  behind it have made of the code. `Before`: up to the allocation the tags and labels are those
  of the program, and no operation has two immediates. `Moving` and `Padding`: a pass has so far
  put out all instructions it must keep, and only instructions it may add (`Rewritten`), so that
  labels keep their branches (`Closed`) and nothing becomes unencodable (`Accepted`). `Linking`:
  three NOPs behind each branch (`Slotted`), only NOPs behind the end (`Ended`). `Running`: each
  linked branch leads to an instruction not behind the end (`Bounded`), and the QPU is between
  the first instruction and the end, or in delay slots whose branch leads there (`OnTrack`).
  That `qpu.pc` stays in the code (in `TypeOK`) is what is hard: it needs all of these, since
  the offset that `removeLabels` computes is right only if the label is before the end and the
  slots are there. For `removeLabels` the places without labels are numbered by a cardinality;
  `PlaceBefore` and `PlaceOnto` make it a bijection.

**RaspiCamProofs** (any number of buffers). `IInv` is `Types`; `Counted`, which accounts for
every header and every one in transit; `Stages`, which ties the place of the user's thread to
the state of the port; `PoolKept`, how many headers the pool has while `startCapture` and the
callback take from it; and `ForGrab`, which says that a frame is copied for a grab only and
announced to it alone. `TypesHold`, `BuffersAreKept` and `WhatIsGrabbedIsFresh` follow.

**PipelineProofs** (blocks and words of any size, inputs of any length, any number of short
reads, both workers). The blocks have numbers, and `IInv` says everything by them. `Types` and
`Control` say where the two threads are and what they have in the queue. `Numbers`: the worker
has begun `Jobs` blocks, the queue begins with number `Queued` and ends in front of `Given`, and
every struct has the buffers of its number. `Live = Allocated`: the heap holds an interval of
messages, one of keys, and so on, whose ends follow from where the threads are; every `malloc`
and `free` moves one end by one. `Contents(st)` says what the buffers hold and what the structs'
`len` are, given the number `st[k]` of characters in front of block `k`; there is some such `st`
in each state, and only `Reads` extends it, so that no history variable is needed. `Right` says
that what has left the worker is a prefix of what was read. No part is inductive alone: that the
worker's buffers are there needs the numbers in the queue, which need its control. `XoredOnGPU`
shows that the conversions to integers around the kernel, with a last word that need not be
full, give what the CPU's loop gives; it rests on `CharacterOfWord` and `WordCharacter`.
`Typed`, `InOrder` and `Accounted` follow, the last from `AllAccounted`, which turns the
intervals into what is `Owned` and `Leaked`.

The assumptions are the named ones at the constants, which say no more than that threads are
different, sets finite and sizes natural numbers, most of them positive: `ThreadsAssumption`,
`TriviumAssumption`, `KernelAssumption`, `ProgramAssumption` (of the compiler's input: it ends
with END, variables are counted, each branch has its label, no operation has two immediates),
`MaxBuffersAssumption`, `PipelineAssumption` and those of `CameraStream` (`StreamAssumption`).

Every safety invariant and action property that a run checks is also a theorem. Liveness
(`ImplementsFairFifo`, `MainFinishes`, `WorkerCatchesUp`, `VideoArrives`, `ServesAgain`,
`Terminates`, `SameOutput`, `CallsReturn`) and everything that speaks of ENABLED stays with TLC,
as do recursive operators, which cost the provers their arithmetic: `translateStmt` and the
interpreter in `QpuLanguage`. So the theorems about the compiler are for any code that
`ProgramAssumption` describes and not only for what `translateStmt` makes; TLC checks that the
latter fulfils it.

## 7. Disagreements between documents and code

Each has a run that shows it.

1. `README.md:27,31`: a file piped through `TriviumKeygen` is encrypted. `TriviumKeygen.cpp:80`
   waits a second and ends; blocks in the queue, in work or in the stdout buffer are missing
   (`hybrid_exit`).
2. `camera/pi-server-socket.py:20`: data is received and retransmitted. The line on which `send`
   fails is dropped (`camera_retransmits`), as is what a `send` leaves of its line, which with a
   stream cipher costs everything behind it (`LossIsForever`).
3. `hybrid/trivium.cpp:184-188,147`: the output is made of bits 66, 93, 162, 177, 243 and 288 of
   registers of 93, 84 and 111 bits. The code taps others in the second and third register
   (`trivium_output`).
4. `hybrid/Lib/Target/Satisfy.cpp:84`: two different registers of one file are never left in an
   instruction. Line 95 compares their numbers only, so that a special register and an allocated
   one with its number pass, and `Encode.cpp:341` aborts (`qpu_conflict`).

Noticed in MMAL without a run: `mmal_vc_api.c:312` asserts when a port is disabled that
`available_count` is `buffer_num`; raspicam changes `buffer_num` after the port was enabled
(`private_impl.cpp:293`), so that the assertion fails if the camera recommends another number.
On the Raspberry Pi `VCOS_BKPT` does nothing (`vcos_assert.h:176`): the call goes on, so that
`PortDisabled` has no such guard and `CallsReturn` holds. Noticed in `hybrid/trivium.cpp`
without a run: `initiation` taps `r3[3]` at 15, 16, 17 (:155-163) where `get_integer` taps 11,
12, 13 under the same bit numbers (:188, :200); "the first 80 bits" (:128) of key and vector
reach beyond the ends of the 93 and 83 places in use, so that 3 bits of the key and 13 of the
vector have no effect; "the last 3 bits of r3 are 1" (:136) sets one bit; `initiation` does not
clear `r3[0..2]`, so a second call would not be a reset (nobody makes one). Noticed in
`hybrid/Lib/Target/Encode.cpp` without a run of its own: the assertion in line 297 asks an
amount of rotation in a register to be in ACC5 but looks at `srcA`, which line 294 wants to be
ACC0, so that every rotation by a variable aborts (`RotatedByRegister`; `qpu_compiler` has one).
In the client, `portClient` is used only by the abandoned image socket, both `connect` and
`listen` of the streaming take `portServer`.

## 8. Not modelled

- *Client settings* (`settings.cpp`, `settingsdialog.cpp`): a dialog, a singleton and a file
  with four values. `CameraStream` takes address and port as fixed; a port that is changed while
  the server listens is used by the next `connect` only.
- *Image path of the client* and `continuous-image-capture.py`: its construction is commented
  out in `mainwindow.cpp:19-21`, it never reads the size of an image, and `ImageDecrypter`
  decrypts nothing.
- *C prototypes, LFSR* (`cpu_programming/c_programming`, `processor_encryption.c`): sequential,
  used by nothing; the conversions are earlier versions of those in `TriviumCypher`.
- *RC4 and key generators*: `rc4_encryption.cpp` and `generate_key.cpp` hold unresolved merge
  conflicts and do not compile.
- *Experiments* (`Triviumv2.cpp`, `tmp.cpp`, `hybrid/test*.cpp` ...): abandoned variants of what
  is modelled, or a few lines without state. `TriviumMultiCore`, `camerasocket.py`,
  `mysocket.py` are named in places but are not in the tree.
- *In QPULib*: floats, strides, `gather`/`receive`/`store` with the load-store pass and the DMA
  and VPM set-up they become (`XorKernel` models the three as the kernels use them), semaphores,
  and `LiveRangeSplit`, whose call is commented out.
- *In raspicam and MMAL*: the still camera, parameters, connections and graphs of components,
  containers, the OpenMAX wrapper and everything on the GPU's side. They make up most of the
  lines of the repository and are called by nothing in it. `startCapture` while capturing and
  calls from two threads are not modelled.
- *Qt, picamera, the C++ library*: as the code uses them.
- Contents of files, reading of arguments, timing and log output.

## 9. Order of the modules, and what could follow

Written in this order: BlockingQueue with its abstract queue, HybridPipeline, CameraStream,
XorKernel, TriviumRegisters with its abstract registers, TriviumCypher, QpuCompiler, RaspiCam,
with the proofs of each after it.

What would add most: the load-store pass of QPULib with the VPM and DMA instructions, which
would replace the FIFO of `XorKernel` by what the compiler makes of it; an abstract
specification of the video path (a channel that delivers, in order, a prefix of the video with
gaps) and `CameraStream` shown to implement it; the still camera of raspicam, whose wait for a
frame is another than that of the video; the client's settings.
