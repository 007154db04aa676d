--------------------------- MODULE PipelineProofs ---------------------------
(***************************************************************************)
(* The invariants of HybridPipeline for blocks and words of any size and   *)
(* inputs of any length.                                                   *)
(*                                                                         *)
(* Blocks have numbers 0, 1, ...; the worker has begun Jobs of them, those *)
(* up to Given are in its hands or in the queue, main is at work on the   *)
(* next.  st[k] is the number of characters in front of block k.           *)
(***************************************************************************)
EXTENDS HybridPipeline, SequenceTheorems, TLAPS

\* Division with a remainder; the provers use the two numbers best by their names.
Quotient(a, b)  == a \div b
Remainder(a, b) == a % b

----------------------------------------------------------------------------
MainPlaces == {"start", "malloc", "read", "keygen", "push", "in push", "sleep", "terminated"}

\* Places at which the worker has a block in hand, has not written it, has allocated
\* the buffer for the result, has not freed the message, the key.
NotWritten == {"xor", "kernel", "convert", "write"}
Decrypting == {"write", "flush", "free msg", "free key", "free decrypted"}
HasMsg     == NotWritten \cup {"flush", "free msg"}
HasKey     == HasMsg \cup {"free key"}
HasBlock   == HasKey \cup {"free decrypted"}

WorkerPlaces == HasBlock \cup {"not started", "pop", "in pop"}

\* A character with the key character of its block.
Char == Nat \X (Nat \X Nat)

PushPC == {"idle", "lock", "push", "pushed", "notify"}
PopPC  == {"idle", "lock", "test", "wait", "woken", "front", "remove", "return"}

Types == /\ onGPU \in BOOLEAN
         /\ mainAt \in MainPlaces /\ workerAt \in WorkerPlaces
         /\ pc \in [{Main, Worker} -> PushPC \cup PopPC]
         /\ pc[Main] \in PushPC /\ pc[Worker] \in PopPC
         /\ item \in [{Main, Worker} -> Data \cup {None}]
         /\ queue_ \in Seq(Data)
         /\ waiters \subseteq {Worker}
         /\ data \in Data \cup {None} /\ job \in Data \cup {None}
         /\ id \in Nat /\ unread \in Nat /\ errors \in 0..MaxErrors /\ eof \in BOOLEAN

Streams == expected \in Seq(Char) /\ stdio \in Seq(Char) /\ out \in Seq(Char)

\* Where the two threads are in the queue, and what they have there.
MainControl == /\ mainAt = "start" => workerAt = "not started"
               /\ mainAt # "in push" => pc[Main] = "idle"
               /\ mainAt \in {"read", "keygen", "push", "in push"} => data \in Data
               /\ pc[Main] = "lock" \/ pc[Main] = "push" => item[Main] = data

WorkerControl == /\ workerAt # "in pop" => pc[Worker] = "idle"
                 /\ waiters # {} => pc[Worker] = "wait"
                 /\ pc[Worker] = "front" \/ pc[Worker] = "remove" => queue_ # <<>>
                 /\ pc[Worker] = "remove" => item[Worker] = Head(queue_)
                 /\ workerAt # "flush" => stdio = <<>>

\* Only the kernel has these two places.
GPUControl == workerAt \in {"kernel", "convert"} => onGPU

Control == MainControl /\ WorkerControl /\ GPUControl

\* How many blocks the worker has begun.
Jobs == IF job = None THEN 0 ELSE job.id + 1

\* What has been taken out of the queue and not begun, and what block the queue begins with.
Taken == workerAt = "in pop" /\ (pc[Worker] = "idle" \/ pc[Worker] = "return")

Queued == IF Taken THEN Jobs + 1 ELSE Jobs

\* main has read a block and not yet put it into the queue.
MainHas == \/ mainAt = "keygen" \/ mainAt = "push"
           \/ mainAt = "in push" /\ (pc[Main] = "lock" \/ pc[Main] = "push")

Given == IF MainHas THEN id - 1 ELSE id

IsBlock(e, k) == e \in Data /\ e.id = k /\ e.msg = <<"msg", k>> /\ e.key = <<"key", k>>

Numbers ==
  /\ workerAt \in HasBlock => job # None
  /\ job # None => IsBlock(job, Jobs - 1)
  /\ Queued + Len(queue_) = Given
  /\ Taken => IsBlock(item[Worker], Jobs)
  /\ \A k \in 1..Len(queue_) : IsBlock(queue_[k], Queued + k - 1)
  /\ mainAt = "read" => data.id = id /\ data.msg = <<"msg", id>>
                        /\ data.key = <<"unused", id>> /\ data.len = 0
  /\ mainAt = "keygen" => data.id = id - 1 /\ data.msg = <<"msg", id - 1>>
                          /\ data.key = <<"unused", id - 1>>
  /\ MainHas /\ mainAt # "keygen" => IsBlock(data, id - 1)

----------------------------------------------------------------------------
\* The heap.
Interval(a, b) == a .. (b - 1)

\* How many blocks the worker has begun and is past these places with.
Before(places) == IF workerAt \in places THEN Jobs - 1 ELSE Jobs

FirstMsg  == Before(HasMsg)
FirstKey  == Before(HasKey)
LastMsg   == IF mainAt = "read" THEN id + 1 ELSE id
LastKey   == IF mainAt = "keygen" THEN id - 1 ELSE id
Converted == IF onGPU THEN Before({"xor"}) ELSE 0
Xored     == IF onGPU THEN Before({"xor", "kernel"}) ELSE 0

Written   == Before(NotWritten)
Result    == IF workerAt \in Decrypting THEN {<<"decrypted", job.id>>} ELSE {}

\* The buffers of messages fm .. lm - 1, of keys fk .. lk - 1, the leaked ones, and results.
Buffers(fm, lm, fk, lk, c, x, results) ==
  ({"msg"} \X Interval(fm, lm)) \cup ({"key"} \X Interval(fk, lk))
    \cup ({"unused"} \X Interval(0, lm))
    \cup ({"integer_msg", "integer_key"} \X Interval(0, c)) \cup ({"tmp"} \X Interval(0, x))
    \cup results

Allocated == Buffers(FirstMsg, LastMsg, FirstKey, LastKey, Converted, Xored, Result)

\* The characters of block k, those of its key, and the two together.
Size(st, k)       == st[k + 1] - st[k]
MsgChars(st, k)   == [c \in 1..Size(st, k) |-> st[k] + c]
KeyChars(st, k)   == [c \in 1..Size(st, k) |-> <<k, c>>]
XoredChars(st, k) == [c \in 1..Size(st, k) |-> <<st[k] + c, <<k, c>>>>]

\* Where a block of the input is, and what its key is.
Cut(st, k) == /\ st[k] <= st[k + 1] /\ st[k + 1] <= Len(expected)
              /\ \A c \in 1..Size(st, k) : expected[st[k] + c] = <<st[k] + c, <<k, c>>>>

\* The messages and the keys, of all blocks from fread to free.
Messages(st) == /\ st[id] = Len(expected)
                /\ \A k \in Interval(FirstMsg, id) : /\ Cut(st, k)
                                                     /\ heap[<<"msg", k>>] = MsgChars(st, k)

Keys(st) == \A k \in Interval(FirstKey, LastKey) : heap[<<"key", k>>] = KeyChars(st, k)

\* len of every struct Data.
Lengths(st) == /\ Taken => item[Worker].len = Size(st, Jobs)
               /\ \A k \in 1..Len(queue_) : queue_[k].len = Size(st, Queued + k - 1)
               /\ MainHas => data.len = Size(st, id - 1)
               /\ workerAt \in HasMsg => job.len = Size(st, job.id)

\* What the kernel and its conversions have made of the block in hand.
Message(st, k, len) == convert_to_integer(MsgChars(st, k), len, 0)
Key(st, k, len)     == convert_to_integer(KeyChars(st, k), len, <<0, 0>>)
Words(st, k, len)   == [w \in 1..LEN(len) |-> Xor(Message(st, k, len)[w], Key(st, k, len)[w])]

Progress(st) ==
  /\ workerAt = "kernel" =>
       /\ heap[<<"integer_msg", job.id>>] = Message(st, job.id, job.len)
       /\ heap[<<"integer_key", job.id>>] = Key(st, job.id, job.len)
  /\ workerAt = "convert" => heap[<<"tmp", job.id>>] = Words(st, job.id, job.len)
  /\ workerAt = "write" => heap[<<"decrypted", job.id>>] = XoredChars(st, job.id)

Output(st) == mainAt # "terminated" => Len(out \o stdio) = st[Written]

Contents(st) == Messages(st) /\ Keys(st) /\ Lengths(st) /\ Progress(st) /\ Output(st)

Right(o, e) == Len(o) <= Len(e) /\ \A c \in 1..Len(o) : o[c] = e[c]

IInv == /\ Types /\ Control /\ Numbers
        /\ Live = Allocated
        /\ Streams
        /\ \E st \in [Nat -> Nat] : Contents(st)
        /\ Right(out \o stdio, expected)

----------------------------------------------------------------------------
\* The steps inside the queue.
InQueue == UNCHANGED <<mainVars, workerVars, heap>>

AtPushLock == mainAt = "in push" /\ Q!PushLock(Main) /\ InQueue
AtPushAppend == mainAt = "in push" /\ Q!PushAppend(Main) /\ InQueue
AtPushUnlock == mainAt = "in push" /\ Q!PushUnlock(Main) /\ InQueue
AtNotifyNobody == mainAt = "in push" /\ Q!NotifyNobody(Main) /\ InQueue
AtNotifyOne == mainAt = "in push" /\ Q!NotifyOne(Main) /\ InQueue
AtPopLock == workerAt = "in pop" /\ Q!PopLock(Worker) /\ InQueue
AtPopRelock == workerAt = "in pop" /\ Q!PopRelock(Worker) /\ InQueue
AtPopWait == workerAt = "in pop" /\ Q!PopWait(Worker) /\ InQueue
AtPopFound == workerAt = "in pop" /\ Q!PopFound(Worker) /\ InQueue
AtPopFront == workerAt = "in pop" /\ Q!PopFront(Worker) /\ InQueue
AtPopRemove == workerAt = "in pop" /\ Q!PopRemove(Worker) /\ InQueue
AtPopReturn == workerAt = "in pop" /\ Q!PopReturn(Worker) /\ InQueue
AtWakeup == Q!SpuriousWakeup(Worker) /\ InQueue

\* fread gives some of the characters that are left.
Reads == \E bytes \in Nat : /\ bytes <= unread
                            /\ Read(bytes)
                            /\ errors' \in 0..MaxErrors /\ eof' \in BOOLEAN

MainStep == \/ Start \/ MallocBlock \/ Reads \/ GenerateKey \/ CallPush
            \/ AtPushLock \/ AtPushAppend \/ AtPushUnlock \/ AtNotifyNobody \/ AtNotifyOne
            \/ Loop \/ Break \/ Return

PopStep == \/ CallPop \/ AtPopLock \/ AtPopRelock \/ AtPopWait \/ AtPopFound
           \/ AtPopFront \/ AtPopRemove \/ AtPopReturn \/ AtWakeup \/ Popped

JobStep == \/ XorOnCPU \/ ConvertToInteger \/ Kernel \/ ConvertToChar
           \/ Write \/ Flush \/ FreeMsg \/ FreeKey \/ FreeDecrypted

LEMMA Steps ==
  ASSUME Types, [Next]_vars
  PROVE  \/ UNCHANGED vars
         \/ onGPU' = onGPU /\ (MainStep \/ PopStep \/ JobStep)
<1>1. ReadFull => Reads
  BY PipelineAssumption DEF ReadFull, Reads, Types
<1>2. ReadToEof => Reads
  BY PipelineAssumption DEF ReadToEof, Reads, Types
<1>3. ASSUME ReadError PROVE Reads
  <2>1. PICK bytes \in 0..(BlockSize - 1) : bytes <= unread /\ Read(bytes)
    BY <1>3 DEF ReadError
  <2>2. bytes \in Nat /\ errors' \in 0..MaxErrors /\ eof' \in BOOLEAN
    BY <1>3, PipelineAssumption DEF ReadError, Types
  <2> QED
    BY <2>1, <2>2 DEF Reads
<1>4. InPush => MainStep
  BY DEF InPush, Q!PushStep, MainStep, AtPushLock, AtPushAppend, AtPushUnlock, AtNotifyNobody,
         AtNotifyOne, InQueue
<1>5. InPop => PopStep
  BY DEF InPop, Q!PopStep, PopStep, AtPopLock, AtPopRelock, AtPopWait, AtPopFound, AtPopFront,
         AtPopRemove, AtPopReturn, InQueue
<1>6. WakeupInPop => PopStep
  BY DEF WakeupInPop, PopStep, AtWakeup, InQueue
<1> QED
  BY <1>1, <1>2, <1>3, <1>4, <1>5, <1>6
  DEF Next, MainNext, Run, Terminated, MainStep, PopStep, JobStep

LEMMA HeadOfAppend ==
  ASSUME NEW q \in Seq(Data), NEW e \in Data
  PROVE  Append(q, e) # <<>> /\ (q # <<>> => Head(Append(q, e)) = Head(q))
  BY AppendProperties, HeadTailAppend

LEMMA JobsNat == Types => Jobs \in Nat
<1>1. ASSUME Types, job # None PROVE job.id \in Nat
  <2>1. job \in Data
    BY <1>1 DEF Types
  <2> QED
    BY <2>1 DEF Data
<1> QED
  BY <1>1 DEF Jobs

LEMMA NumbersKept ==
  ASSUME Types, Control, Numbers, [Next]_vars
  PROVE  Types' /\ Control' /\ Numbers'
<1>0. onGPU' = onGPU
  BY Steps DEF vars
<1> USE <1>0
<1>1. CASE Start
  <2>1. Types'
    BY <1>1 DEF Types, Start, MainGoto, queueVars, readVars, MainPlaces, WorkerPlaces
  <2>2. Control'
    BY <1>1 DEF Control, MainControl, WorkerControl, GPUControl, Start, MainGoto, queueVars,
        outVars
  <2>3. Numbers'
    BY <1>1 DEF Control, MainControl, Numbers, Start, MainGoto, queueVars, readVars, HasBlock,
        HasKey, HasMsg, NotWritten, Jobs, Taken, Queued, MainHas, Given
  <2> QED
    BY <2>1, <2>2, <2>3
<1>2. CASE MallocBlock
  <2>1. Types'
    BY <1>2 DEF Types, MallocBlock, MainGoto, Data, queueVars, readVars, workerVars, MainPlaces
  <2>2. Control'
    BY <1>2 DEF Types, Control, MainControl, WorkerControl, GPUControl, MallocBlock, MainGoto,
        Data, queueVars, workerVars, outVars
  <2>3. Numbers'
    BY <1>2 DEF Control, Numbers, MallocBlock, MainGoto, queueVars, readVars, workerVars, Jobs,
        Taken, Queued, MainHas, Given
  <2> QED
    BY <2>1, <2>2, <2>3
<1>3. CASE GenerateKey
  <2>1. data \in Data /\ mainAt = "keygen" /\ mainAt' = "push"
    BY <1>3 DEF GenerateKey, MainGoto, Control, MainControl
  <2>2. /\ data' \in Data /\ data'.msg = data.msg /\ data'.key = <<"key", data.id>>
        /\ data'.id = data.id
    BY <1>3, <2>1 DEF GenerateKey, Data
  <2>3. /\ pc' = pc /\ item' = item /\ queue_' = queue_ /\ waiters' = waiters /\ id' = id
        /\ unread' = unread /\ errors' = errors /\ eof' = eof
        /\ workerAt' = workerAt /\ job' = job /\ stdio' = stdio
    BY <1>3 DEF GenerateKey, queueVars, readVars, workerVars, outVars
  <2>4. Types'
    BY <2>1, <2>2, <2>3 DEF Types, MainPlaces
  <2>5. MainControl'
    BY <2>1, <2>2, <2>3 DEF Control, MainControl
  <2>6. WorkerControl' /\ GPUControl'
    BY <2>3 DEF Control, WorkerControl, GPUControl
  <2>7. Numbers'
    <3>1. Jobs' = Jobs /\ (Taken' <=> Taken)
      BY <2>3 DEF Jobs, Taken
    <3>2. Queued' = Queued /\ Given' = Given
      BY <2>1, <2>3, <3>1 DEF Queued, Given, MainHas
    <3>3. IsBlock(data', id - 1)
      BY <2>1, <2>2 DEF Numbers, IsBlock
    <3> QED
      BY <2>1, <2>3, <3>1, <3>2, <3>3 DEF Numbers
  <2> QED
    BY <2>4, <2>5, <2>6, <2>7 DEF Control
<1>4. CASE CallPush
  <2>1. Types'
    BY <1>4, PipelineAssumption DEF Types, CallPush, Q!PushCall, Q!Goto, MainGoto, readVars,
        workerVars, MainPlaces, PushPC
  <2>2. Control'
    BY <1>4, PipelineAssumption DEF Types, Control, MainControl, WorkerControl, GPUControl,
        CallPush, Q!PushCall, Q!Goto, MainGoto, workerVars, outVars
  <2>3. Numbers'
    BY <1>4, PipelineAssumption DEF Types, Numbers, CallPush, Q!PushCall, Q!Goto, MainGoto,
        readVars, workerVars, Jobs, Taken, Queued, MainHas, Given
  <2> QED
    BY <2>1, <2>2, <2>3
<1>5. CASE AtPushLock
  <2>1. /\ pc' \in [{Main, Worker} -> PushPC \cup PopPC]
        /\ pc[Main] = "lock" /\ pc'[Main] = "push"
        /\ pc'[Worker] = pc[Worker]
        /\ item' \in [{Main, Worker} -> Data \cup {None}]
        /\ queue_' \in Seq(Data)
    BY <1>5, PipelineAssumption DEF Types, AtPushLock, Q!PushLock, Q!Goto, PushPC
  <2>2. /\ item' = item /\ queue_' = queue_ /\ waiters' = waiters
        /\ onGPU' = onGPU /\ mainAt' = mainAt /\ data' = data /\ id' = id
        /\ unread' = unread /\ expected' = expected /\ errors' = errors /\ eof' = eof
        /\ workerAt' = workerAt /\ job' = job /\ stdio' = stdio /\ out' = out
    BY <1>5 DEF AtPushLock, Q!PushLock, mainVars, readVars, workerVars, outVars, InQueue
  <2>3. mainAt = "in push"
    BY <1>5, <2>1 DEF AtPushLock
  <2>4. Types'
    BY <2>1, <2>2, <2>3 DEF Types, PopPC
  <2>5. MainControl'
    BY <2>1, <2>2, <2>3 DEF Control, MainControl
  <2>6. WorkerControl'
    BY <2>1, <2>2, <2>3 DEF Control, WorkerControl
  <2>7. GPUControl'
    BY <2>2 DEF Control, GPUControl
  <2>8. Control'
    BY <2>5, <2>6, <2>7 DEF Control
  <2>9. Numbers'
    BY <2>1, <2>2, <2>3 DEF Numbers, Jobs, Taken, Queued, MainHas, Given
  <2> QED
    BY <2>4, <2>8, <2>9
<1>6. CASE AtPushAppend
  <2>1. /\ pc' \in [{Main, Worker} -> PushPC \cup PopPC]
        /\ pc[Main] = "push" /\ pc'[Main] = "pushed"
        /\ pc'[Worker] = pc[Worker]
        /\ item' \in [{Main, Worker} -> Data \cup {None}]
        /\ queue_' \in Seq(Data)
    BY <1>6, PipelineAssumption, AppendProperties DEF Types, Control, MainControl, AtPushAppend,
        Q!PushAppend, Q!Goto, PushPC
  <2>2. /\ item' = item /\ queue_' = Append(queue_, data) /\ waiters' = waiters
        /\ onGPU' = onGPU /\ mainAt' = mainAt /\ data' = data /\ id' = id
        /\ unread' = unread /\ expected' = expected /\ errors' = errors /\ eof' = eof
        /\ workerAt' = workerAt /\ job' = job /\ stdio' = stdio /\ out' = out
    BY <1>6 DEF Control, MainControl, AtPushAppend, Q!PushAppend, Q!Goto, mainVars, readVars,
        workerVars, outVars, InQueue
  <2>3. mainAt = "in push"
    BY <1>6, <2>1 DEF AtPushAppend
  <2>4. Types'
    BY <2>1, <2>2, <2>3 DEF Types, PopPC
  <2>5. MainControl'
    BY <2>1, <2>2, <2>3 DEF Control, MainControl
  <2>6. WorkerControl'
    BY <2>1, <2>2, <2>3, HeadOfAppend DEF Types, Control, MainControl, WorkerControl
  <2>7. GPUControl'
    BY <2>2 DEF Control, GPUControl
  <2>8. Control'
    BY <2>5, <2>6, <2>7 DEF Control
  <2>9. Numbers'
    <3>1. /\ MainHas /\ ~MainHas' /\ Given' = Given + 1 /\ data \in Data
          /\ Queued' = Queued /\ Jobs' = Jobs /\ (Taken' <=> Taken) /\ IsBlock(data, id - 1)
      <4>1. MainHas /\ ~MainHas' /\ data \in Data
        BY <2>1, <2>2, <2>3 DEF Control, MainControl, MainHas
      <4>2. Jobs' = Jobs /\ (Taken' <=> Taken)
        BY <2>1, <2>2 DEF Jobs, Taken
      <4>3. Queued' = Queued
        BY <4>2 DEF Queued
      <4>4. id \in Nat /\ Given' = Given + 1
        BY <4>1, <2>2 DEF Given, Types
      <4>5. IsBlock(data, id - 1)
        BY <4>1, <2>3 DEF Numbers
      <4> QED
        BY <4>1, <4>2, <4>3, <4>4, <4>5
    <3>2. /\ Len(queue_') = Len(queue_) + 1 /\ queue_'[Len(queue_) + 1] = data
          /\ \A k \in 1..Len(queue_) : queue_'[k] = queue_[k]
          /\ Len(queue_) \in Nat
      BY <2>2, <3>1
    <3>9. Queued + Len(queue_) = Given /\ (job # None => IsBlock(job, Jobs - 1))
          /\ (Taken => IsBlock(item[Worker], Jobs)) /\ (workerAt \in HasBlock => job # None)
      BY DEF Numbers
    <3>3. Given = id - 1 /\ Queued \in Nat
      BY <3>1, JobsNat DEF Given, Queued
    <3>4. ASSUME NEW k \in 1..Len(queue_') PROVE IsBlock(queue_'[k], Queued' + k - 1)
      <4>1. CASE k = Len(queue_) + 1
        <5>1. Queued' + k - 1 = id - 1
          BY <3>1, <3>2, <3>3, <3>9, <4>1
        <5> QED
          BY <3>1, <3>2, <4>1, <5>1
      <4>2. CASE k # Len(queue_) + 1
        <5>1. k \in 1..Len(queue_)
          BY <3>2, <4>2
        <5> QED
          BY <3>1, <3>2, <5>1 DEF Numbers
      <4> QED
        BY <4>1, <4>2
    <3> QED
      <4>1. Queued' + Len(queue_') = Given'
        BY <3>1, <3>2, <3>3, <3>9
      <4>2. Taken' => IsBlock(item'[Worker], Jobs')
        BY <2>2, <3>1, <3>9
      <4>3. mainAt' = "in push" /\ job' = job /\ workerAt' = workerAt
        BY <2>2, <2>3
      <4> HIDE DEF IsBlock
      <4> QED
        BY <3>1, <3>4, <3>9, <4>1, <4>2, <4>3 DEF Numbers
  <2> QED
    BY <2>4, <2>8, <2>9
<1>7. CASE AtPushUnlock
  <2>1. /\ pc' \in [{Main, Worker} -> PushPC \cup PopPC]
        /\ pc[Main] = "pushed" /\ pc'[Main] = "notify"
        /\ pc'[Worker] = pc[Worker]
        /\ item' \in [{Main, Worker} -> Data \cup {None}]
        /\ queue_' \in Seq(Data)
    BY <1>7, PipelineAssumption DEF Types, AtPushUnlock, Q!PushUnlock, Q!Goto, PushPC
  <2>2. /\ item' = item /\ queue_' = queue_ /\ waiters' = waiters
        /\ onGPU' = onGPU /\ mainAt' = mainAt /\ data' = data /\ id' = id
        /\ unread' = unread /\ expected' = expected /\ errors' = errors /\ eof' = eof
        /\ workerAt' = workerAt /\ job' = job /\ stdio' = stdio /\ out' = out
    BY <1>7 DEF AtPushUnlock, Q!PushUnlock, mainVars, readVars, workerVars, outVars, InQueue
  <2>3. mainAt = "in push"
    BY <1>7, <2>1 DEF AtPushUnlock
  <2>4. Types'
    BY <2>1, <2>2, <2>3 DEF Types, PopPC
  <2>5. MainControl'
    BY <2>1, <2>2, <2>3 DEF Control, MainControl
  <2>6. WorkerControl'
    BY <2>1, <2>2, <2>3 DEF Control, WorkerControl
  <2>7. GPUControl'
    BY <2>2 DEF Control, GPUControl
  <2>8. Control'
    BY <2>5, <2>6, <2>7 DEF Control
  <2>9. Numbers'
    BY <2>1, <2>2, <2>3 DEF Numbers, Jobs, Taken, Queued, MainHas, Given
  <2> QED
    BY <2>4, <2>8, <2>9
<1>8. CASE AtNotifyNobody
  <2>1. /\ pc' \in [{Main, Worker} -> PushPC \cup PopPC]
        /\ pc[Main] = "notify" /\ pc'[Main] = "idle"
        /\ pc'[Worker] = pc[Worker]
        /\ item' \in [{Main, Worker} -> Data \cup {None}]
        /\ queue_' \in Seq(Data)
    BY <1>8 DEF Types, AtNotifyNobody, Q!NotifyNobody, Q!Goto, PopPC
  <2>2. /\ item'[Worker] = item[Worker] /\ queue_' = queue_ /\ waiters' = waiters
        /\ onGPU' = onGPU /\ mainAt' = mainAt /\ data' = data /\ id' = id
        /\ unread' = unread /\ expected' = expected /\ errors' = errors /\ eof' = eof
        /\ workerAt' = workerAt /\ job' = job /\ stdio' = stdio /\ out' = out
    BY <1>8, PipelineAssumption DEF Types, AtNotifyNobody, Q!NotifyNobody, mainVars, readVars,
        workerVars, outVars, InQueue
  <2>3. mainAt = "in push"
    BY <1>8, <2>1 DEF AtNotifyNobody
  <2>4. Types'
    BY <2>1, <2>2, <2>3 DEF Types, PushPC
  <2>5. MainControl'
    BY <2>1, <2>2, <2>3 DEF Control, MainControl
  <2>6. WorkerControl'
    BY <2>1, <2>2, <2>3 DEF Control, WorkerControl
  <2>7. GPUControl'
    BY <2>2 DEF Control, GPUControl
  <2>8. Control'
    BY <2>5, <2>6, <2>7 DEF Control
  <2>9. Numbers'
    BY <2>1, <2>2, <2>3 DEF Numbers, Jobs, Taken, Queued, MainHas, Given
  <2> QED
    BY <2>4, <2>8, <2>9
<1>9. CASE AtNotifyOne
  <2>1. /\ pc' \in [{Main, Worker} -> PushPC \cup PopPC]
        /\ pc[Main] = "notify" /\ pc'[Main] = "idle"
        /\ pc[Worker] = "wait" /\ pc'[Worker] = "woken"
        /\ item' \in [{Main, Worker} -> Data \cup {None}]
        /\ queue_' \in Seq(Data)
    <3>0. PICK c \in waiters : Q!NotifyOne(Main)!(c)
      BY <1>9 DEF AtNotifyOne, Q!NotifyOne
    <3>1. /\ waiters = {Worker} /\ pc[Main] = "notify"
          /\ pc' = [pc EXCEPT ![Main] = "idle", ![Worker] = "woken"]
          /\ item' = [item EXCEPT ![Main] = None] /\ queue_' = queue_
      BY <3>0 DEF Types
    <3>2. pc[Worker] = "wait"
      BY <3>1 DEF Control, WorkerControl
    <3> QED
      BY <3>1, <3>2 DEF Types, PopPC
  <2>2. /\ item'[Worker] = item[Worker] /\ queue_' = queue_ /\ waiters' = {}
        /\ onGPU' = onGPU /\ mainAt' = mainAt /\ data' = data /\ id' = id
        /\ unread' = unread /\ expected' = expected /\ errors' = errors /\ eof' = eof
        /\ workerAt' = workerAt /\ job' = job /\ stdio' = stdio /\ out' = out
    BY <1>9, PipelineAssumption DEF Types, AtNotifyOne, Q!NotifyOne, mainVars, readVars,
        workerVars, outVars, InQueue
  <2>3. workerAt = "in pop"
    BY <1>9, <2>1 DEF Control, WorkerControl
  <2>4. Types'
    BY <2>1, <2>2, <2>3 DEF Types, PushPC
  <2>5. MainControl'
    BY <2>1, <2>2, <2>3 DEF Control, MainControl
  <2>6. WorkerControl'
    BY <2>1, <2>2, <2>3 DEF Control, WorkerControl
  <2>7. GPUControl'
    BY <2>2 DEF Control, GPUControl
  <2>8. Control'
    BY <2>5, <2>6, <2>7 DEF Control
  <2>9. Numbers'
    BY <2>1, <2>2, <2>3 DEF Numbers, Jobs, Taken, Queued, MainHas, Given
  <2> QED
    BY <2>4, <2>8, <2>9
<1>10. CASE Loop
  <2>1. Types'
    BY <1>10 DEF Types, Loop, MainGoto, queueVars, readVars, workerVars, MainPlaces
  <2>2. Control'
    BY <1>10 DEF Control, MainControl, WorkerControl, GPUControl, Loop, Pushed, MainGoto,
        queueVars, workerVars, outVars
  <2>3. Numbers'
    BY <1>10 DEF Numbers, Loop, Pushed, MainGoto, queueVars, readVars, workerVars, Jobs, Taken,
        Queued, MainHas, Given
  <2> QED
    BY <2>1, <2>2, <2>3
<1>11. CASE Break
  <2>1. Types'
    BY <1>11 DEF Types, Break, MainGoto, queueVars, readVars, workerVars, MainPlaces
  <2>2. Control'
    BY <1>11 DEF Control, MainControl, WorkerControl, GPUControl, Break, Pushed, MainGoto,
        queueVars, workerVars, outVars
  <2>3. Numbers'
    BY <1>11 DEF Numbers, Break, Pushed, MainGoto, queueVars, readVars, workerVars, Jobs, Taken,
        Queued, MainHas, Given
  <2> QED
    BY <2>1, <2>2, <2>3
<1>12. CASE Return
  <2>1. Types'
    BY <1>12 DEF Types, Control, WorkerControl, Return, MainGoto, queueVars, readVars,
        MainPlaces
  <2>2. Control'
    BY <1>12 DEF Control, MainControl, WorkerControl, GPUControl, Return, MainGoto, queueVars
  <2>3. Numbers'
    BY <1>12 DEF Numbers, Return, MainGoto, queueVars, readVars, Jobs, Taken, Queued, MainHas,
        Given
  <2> QED
    BY <2>1, <2>2, <2>3
<1>13. CASE CallPop
  <2>1. Types'
    BY <1>13, PipelineAssumption DEF Types, CallPop, WorkerGoto, Q!PopCall, Q!Goto, mainVars,
        readVars, WorkerPlaces, PopPC
  <2>2. Control'
    BY <1>13, PipelineAssumption DEF Types, Control, MainControl, WorkerControl, GPUControl,
        CallPop, WorkerGoto, Q!PopCall, Q!Goto, mainVars, outVars
  <2>3. Numbers'
    BY <1>13, PipelineAssumption DEF Types, Numbers, CallPop, WorkerGoto, Q!PopCall, Q!Goto,
        mainVars, readVars, HasBlock, HasKey, HasMsg, NotWritten, Jobs, Taken, Queued, MainHas,
        Given
  <2> QED
    BY <2>1, <2>2, <2>3
<1>14. CASE AtPopLock
  <2>1. /\ pc' \in [{Main, Worker} -> PushPC \cup PopPC]
        /\ pc[Worker] = "lock" /\ pc'[Worker] = "test"
        /\ pc'[Main] = pc[Main]
        /\ item' \in [{Main, Worker} -> Data \cup {None}]
        /\ queue_' \in Seq(Data)
    BY <1>14, PipelineAssumption DEF Types, AtPopLock, Q!PopLock, Q!Goto, PopPC
  <2>2. /\ item' = item /\ queue_' = queue_ /\ waiters' = waiters
        /\ onGPU' = onGPU /\ mainAt' = mainAt /\ data' = data /\ id' = id
        /\ unread' = unread /\ expected' = expected /\ errors' = errors /\ eof' = eof
        /\ workerAt' = workerAt /\ job' = job /\ stdio' = stdio /\ out' = out
    BY <1>14 DEF AtPopLock, Q!PopLock, mainVars, readVars, workerVars, outVars, InQueue
  <2>3. workerAt = "in pop"
    BY <1>14, <2>1 DEF AtPopLock
  <2>4. Types'
    BY <2>1, <2>2, <2>3 DEF Types, PopPC
  <2>5. MainControl'
    BY <2>1, <2>2, <2>3 DEF Control, MainControl
  <2>6. WorkerControl'
    BY <2>1, <2>2, <2>3 DEF Control, WorkerControl
  <2>7. GPUControl'
    BY <2>2 DEF Control, GPUControl
  <2>8. Control'
    BY <2>5, <2>6, <2>7 DEF Control
  <2>9. Numbers'
    BY <2>1, <2>2, <2>3 DEF Numbers, Jobs, Taken, Queued, MainHas, Given
  <2> QED
    BY <2>4, <2>8, <2>9
<1>15. CASE AtPopRelock
  <2>1. /\ pc' \in [{Main, Worker} -> PushPC \cup PopPC]
        /\ pc[Worker] = "woken" /\ pc'[Worker] = "test"
        /\ pc'[Main] = pc[Main]
        /\ item' \in [{Main, Worker} -> Data \cup {None}]
        /\ queue_' \in Seq(Data)
    BY <1>15, PipelineAssumption DEF Types, AtPopRelock, Q!PopRelock, Q!Goto, PopPC
  <2>2. /\ item' = item /\ queue_' = queue_ /\ waiters' = waiters
        /\ onGPU' = onGPU /\ mainAt' = mainAt /\ data' = data /\ id' = id
        /\ unread' = unread /\ expected' = expected /\ errors' = errors /\ eof' = eof
        /\ workerAt' = workerAt /\ job' = job /\ stdio' = stdio /\ out' = out
    BY <1>15 DEF AtPopRelock, Q!PopRelock, mainVars, readVars, workerVars, outVars, InQueue
  <2>3. workerAt = "in pop"
    BY <1>15, <2>1 DEF AtPopRelock
  <2>4. Types'
    BY <2>1, <2>2, <2>3 DEF Types, PopPC
  <2>5. MainControl'
    BY <2>1, <2>2, <2>3 DEF Control, MainControl
  <2>6. WorkerControl'
    BY <2>1, <2>2, <2>3 DEF Control, WorkerControl
  <2>7. GPUControl'
    BY <2>2 DEF Control, GPUControl
  <2>8. Control'
    BY <2>5, <2>6, <2>7 DEF Control
  <2>9. Numbers'
    BY <2>1, <2>2, <2>3 DEF Numbers, Jobs, Taken, Queued, MainHas, Given
  <2> QED
    BY <2>4, <2>8, <2>9
<1>16. CASE AtPopWait
  <2>1. /\ pc' \in [{Main, Worker} -> PushPC \cup PopPC]
        /\ pc[Worker] = "test" /\ pc'[Worker] = "wait"
        /\ pc'[Main] = pc[Main]
        /\ item' \in [{Main, Worker} -> Data \cup {None}]
        /\ queue_' \in Seq(Data)
    BY <1>16, PipelineAssumption DEF Types, AtPopWait, Q!PopWait, Q!Goto, PopPC
  <2>2. /\ item' = item /\ queue_' = queue_ /\ waiters' \subseteq {Worker}
        /\ onGPU' = onGPU /\ mainAt' = mainAt /\ data' = data /\ id' = id
        /\ unread' = unread /\ expected' = expected /\ errors' = errors /\ eof' = eof
        /\ workerAt' = workerAt /\ job' = job /\ stdio' = stdio /\ out' = out
    BY <1>16 DEF Types, AtPopWait, Q!PopWait, mainVars, readVars, workerVars, outVars, InQueue
  <2>3. workerAt = "in pop"
    BY <1>16, <2>1 DEF AtPopWait
  <2>4. Types'
    BY <2>1, <2>2, <2>3 DEF Types, PopPC
  <2>5. MainControl'
    BY <2>1, <2>2, <2>3 DEF Control, MainControl
  <2>6. WorkerControl'
    BY <2>1, <2>2, <2>3 DEF Control, WorkerControl
  <2>7. GPUControl'
    BY <2>2 DEF Control, GPUControl
  <2>8. Control'
    BY <2>5, <2>6, <2>7 DEF Control
  <2>9. Numbers'
    BY <2>1, <2>2, <2>3 DEF Numbers, Jobs, Taken, Queued, MainHas, Given
  <2> QED
    BY <2>4, <2>8, <2>9
<1>17. CASE AtPopFound
  <2>1. /\ pc' \in [{Main, Worker} -> PushPC \cup PopPC]
        /\ pc[Worker] = "test" /\ pc'[Worker] = "front" /\ queue_ # <<>>
        /\ pc'[Main] = pc[Main]
        /\ item' \in [{Main, Worker} -> Data \cup {None}]
        /\ queue_' \in Seq(Data)
    BY <1>17, PipelineAssumption DEF Types, AtPopFound, Q!PopFound, Q!Goto, PopPC
  <2>2. /\ item' = item /\ queue_' = queue_ /\ waiters' = waiters
        /\ onGPU' = onGPU /\ mainAt' = mainAt /\ data' = data /\ id' = id
        /\ unread' = unread /\ expected' = expected /\ errors' = errors /\ eof' = eof
        /\ workerAt' = workerAt /\ job' = job /\ stdio' = stdio /\ out' = out
    BY <1>17 DEF AtPopFound, Q!PopFound, mainVars, readVars, workerVars, outVars, InQueue
  <2>3. workerAt = "in pop"
    BY <1>17, <2>1 DEF AtPopFound
  <2>4. Types'
    BY <2>1, <2>2, <2>3 DEF Types, PopPC
  <2>5. MainControl'
    BY <2>1, <2>2, <2>3 DEF Control, MainControl
  <2>6. WorkerControl'
    BY <2>1, <2>2, <2>3 DEF Control, WorkerControl
  <2>7. GPUControl'
    BY <2>2 DEF Control, GPUControl
  <2>8. Control'
    BY <2>5, <2>6, <2>7 DEF Control
  <2>9. Numbers'
    BY <2>1, <2>2, <2>3 DEF Numbers, Jobs, Taken, Queued, MainHas, Given
  <2> QED
    BY <2>4, <2>8, <2>9
<1>18. CASE AtPopFront
  <2>1. /\ pc' \in [{Main, Worker} -> PushPC \cup PopPC]
        /\ pc[Worker] = "front" /\ pc'[Worker] = "remove"
        /\ pc'[Main] = pc[Main]
        /\ item' \in [{Main, Worker} -> Data \cup {None}]
        /\ queue_' \in Seq(Data)
    BY <1>18, PipelineAssumption, HeadTailProperties DEF Types, Control, WorkerControl,
        AtPopFront, Q!PopFront, Q!Goto, PopPC
  <2>2. /\ item'[Main] = item[Main]
        /\ item'[Worker] = Head(queue_) /\ queue_' = queue_
        /\ waiters' = waiters
        /\ onGPU' = onGPU /\ mainAt' = mainAt /\ data' = data /\ id' = id
        /\ unread' = unread /\ expected' = expected /\ errors' = errors /\ eof' = eof
        /\ workerAt' = workerAt /\ job' = job /\ stdio' = stdio /\ out' = out
    BY <1>18, PipelineAssumption DEF Types, AtPopFront, Q!PopFront, mainVars, readVars,
        workerVars, outVars, InQueue
  <2>3. workerAt = "in pop"
    BY <1>18, <2>1 DEF AtPopFront
  <2>4. Types'
    BY <2>1, <2>2, <2>3 DEF Types, PopPC
  <2>5. MainControl'
    BY <2>1, <2>2, <2>3 DEF Control, MainControl
  <2>6. WorkerControl'
    BY <2>1, <2>2, <2>3 DEF Control, WorkerControl
  <2>7. GPUControl'
    BY <2>2 DEF Control, GPUControl
  <2>8. Control'
    BY <2>5, <2>6, <2>7 DEF Control
  <2>9. Numbers'
    BY <2>1, <2>2, <2>3 DEF Numbers, Jobs, Taken, Queued, MainHas, Given
  <2> QED
    BY <2>4, <2>8, <2>9
<1>19. CASE AtPopRemove
  <2>1. /\ pc' \in [{Main, Worker} -> PushPC \cup PopPC]
        /\ pc[Worker] = "remove" /\ pc'[Worker] = "return"
        /\ pc'[Main] = pc[Main]
        /\ item' \in [{Main, Worker} -> Data \cup {None}]
        /\ queue_' \in Seq(Data)
    BY <1>19, PipelineAssumption, HeadTailProperties DEF Types, Control, WorkerControl,
        AtPopRemove, Q!PopRemove, Q!Goto, PopPC
  <2>2. /\ item' = item /\ queue_' = Tail(queue_) /\ waiters' = waiters
        /\ onGPU' = onGPU /\ mainAt' = mainAt /\ data' = data /\ id' = id
        /\ unread' = unread /\ expected' = expected /\ errors' = errors /\ eof' = eof
        /\ workerAt' = workerAt /\ job' = job /\ stdio' = stdio /\ out' = out
    BY <1>19 DEF AtPopRemove, Q!PopRemove, mainVars, readVars, workerVars, outVars, InQueue
  <2>3. workerAt = "in pop"
    BY <1>19, <2>1 DEF AtPopRemove
  <2>4. Types'
    BY <2>1, <2>2, <2>3 DEF Types, PopPC
  <2>5. MainControl'
    BY <2>1, <2>2, <2>3 DEF Control, MainControl
  <2>6. WorkerControl'
    BY <2>1, <2>2, <2>3 DEF Control, WorkerControl
  <2>7. GPUControl'
    BY <2>2 DEF Control, GPUControl
  <2>8. Control'
    BY <2>5, <2>6, <2>7 DEF Control
  <2>9. Numbers'
    <3>1. /\ ~Taken /\ Taken' /\ Given' = Given /\ (MainHas' <=> MainHas) 
          /\ Jobs' = Jobs /\ Queued = Jobs /\ Queued' = Jobs + 1 /\ Jobs \in Nat
      BY <2>1, <2>2, <2>3, JobsNat DEF Jobs, Taken, Queued, MainHas, Given
    <3>2. queue_ # <<>> /\ item[Worker] = Head(queue_)
      BY <2>1 DEF Control, WorkerControl
    <3>3. /\ Len(queue_) \in Nat /\ Len(queue_) > 0 /\ item[Worker] = queue_[1]
          /\ Len(queue_') = Len(queue_) - 1
          /\ \A k \in 1..Len(queue_') : queue_'[k] = queue_[k + 1]
      BY <2>2, <3>2, EmptySeq, LenProperties
    <3>4. ASSUME NEW k \in 1..Len(queue_') PROVE IsBlock(queue_'[k], Queued' + k - 1)
      <4>1. k + 1 \in 1..Len(queue_) /\ Queued + (k + 1) - 1 = Queued' + k - 1
        BY <3>1, <3>3
      <4>2. IsBlock(queue_[k + 1], Queued + (k + 1) - 1)
        BY <4>1 DEF Numbers
      <4> QED
        BY <3>3, <4>1, <4>2
    <3>5. IsBlock(item'[Worker], Jobs')
      <4>1. 1 \in 1..Len(queue_) /\ Queued + 1 - 1 = Jobs
        BY <3>1, <3>3
      <4>2. IsBlock(queue_[1], Queued + 1 - 1)
        BY <4>1 DEF Numbers
      <4> QED
        BY <2>2, <3>1, <3>3, <4>1, <4>2
    <3> QED
      <4>1. Queued + Len(queue_) = Given /\ (job # None => IsBlock(job, Jobs - 1))
            /\ (workerAt \in HasBlock => job # None)
        BY DEF Numbers
      <4>2. Queued' + Len(queue_') = Given'
        BY <3>1, <3>3, <4>1
      <4>3. job' = job /\ workerAt' = workerAt /\ mainAt' = mainAt /\ data' = data /\ id' = id
        BY <2>2
      <4> QED
        BY <3>1, <3>4, <3>5, <4>1, <4>2, <4>3 DEF Numbers
  <2> QED
    BY <2>4, <2>8, <2>9
<1>20. CASE AtPopReturn
  <2>1. /\ pc' \in [{Main, Worker} -> PushPC \cup PopPC]
        /\ pc[Worker] = "return" /\ pc'[Worker] = "idle"
        /\ pc'[Main] = pc[Main]
        /\ item' \in [{Main, Worker} -> Data \cup {None}]
        /\ queue_' \in Seq(Data)
    BY <1>20, PipelineAssumption DEF Types, AtPopReturn, Q!PopReturn, Q!Goto, PopPC
  <2>2. /\ item' = item /\ queue_' = queue_ /\ waiters' = waiters
        /\ onGPU' = onGPU /\ mainAt' = mainAt /\ data' = data /\ id' = id
        /\ unread' = unread /\ expected' = expected /\ errors' = errors /\ eof' = eof
        /\ workerAt' = workerAt /\ job' = job /\ stdio' = stdio /\ out' = out
    BY <1>20 DEF AtPopReturn, Q!PopReturn, mainVars, readVars, workerVars, outVars, InQueue
  <2>3. workerAt = "in pop"
    BY <1>20, <2>1 DEF AtPopReturn
  <2>4. Types'
    BY <2>1, <2>2, <2>3 DEF Types, PopPC
  <2>5. MainControl'
    BY <2>1, <2>2, <2>3 DEF Control, MainControl
  <2>6. WorkerControl'
    BY <2>1, <2>2, <2>3 DEF Control, WorkerControl
  <2>7. GPUControl'
    BY <2>2 DEF Control, GPUControl
  <2>8. Control'
    BY <2>5, <2>6, <2>7 DEF Control
  <2>9. Numbers'
    BY <2>1, <2>2, <2>3 DEF Numbers, Jobs, Taken, Queued, MainHas, Given
  <2> QED
    BY <2>4, <2>8, <2>9
<1>21. CASE AtWakeup
  <2>1. /\ pc' \in [{Main, Worker} -> PushPC \cup PopPC]
        /\ workerAt = "in pop" /\ pc[Worker] = "wait"
        /\ pc'[Worker] = "woken"
        /\ pc'[Main] = pc[Main]
        /\ item' \in [{Main, Worker} -> Data \cup {None}]
        /\ queue_' \in Seq(Data)
    BY <1>21, PipelineAssumption DEF Types, Control, WorkerControl, AtWakeup, Q!SpuriousWakeup,
        Q!Goto, PopPC
  <2>2. /\ item' = item /\ queue_' = queue_ /\ waiters' = {}
        /\ onGPU' = onGPU /\ mainAt' = mainAt /\ data' = data /\ id' = id
        /\ unread' = unread /\ expected' = expected /\ errors' = errors /\ eof' = eof
        /\ workerAt' = workerAt /\ job' = job /\ stdio' = stdio /\ out' = out
    BY <1>21 DEF Types, AtWakeup, Q!SpuriousWakeup, mainVars, readVars, workerVars, outVars,
        InQueue
  <2>3. workerAt = "in pop"
    BY <1>21, <2>1
  <2>4. Types'
    BY <2>1, <2>2, <2>3 DEF Types, PopPC
  <2>5. MainControl'
    BY <2>1, <2>2, <2>3 DEF Control, MainControl
  <2>6. WorkerControl'
    BY <2>1, <2>2, <2>3 DEF Control, WorkerControl
  <2>7. GPUControl'
    BY <2>2 DEF Control, GPUControl
  <2>8. Control'
    BY <2>5, <2>6, <2>7 DEF Control
  <2>9. Numbers'
    BY <2>1, <2>2, <2>3 DEF Numbers, Jobs, Taken, Queued, MainHas, Given
  <2> QED
    BY <2>4, <2>8, <2>9
<1>22. CASE Popped
  <2>1. Types'
    BY <1>22 DEF Types, Popped, WorkerGoto, queueVars, mainVars, readVars, WorkerPlaces,
        HasBlock, HasKey, HasMsg, NotWritten
  <2>2. Control'
    BY <1>22 DEF Control, MainControl, WorkerControl, GPUControl, Popped, WorkerGoto, queueVars,
        mainVars, outVars
  <2>3. Numbers'
    <3>1. /\ Taken /\ ~Taken' /\ Given' = Given /\ (MainHas' <=> MainHas) /\ job' = item[Worker]
          /\ queue_' = queue_ /\ workerAt' = "xor"
          /\ mainAt' = mainAt /\ data' = data /\ id' = id
      BY <1>22 DEF Popped, WorkerGoto, Taken, Given, MainHas, queueVars, mainVars, readVars
    <3>2. IsBlock(item[Worker], Jobs) /\ Jobs \in Nat
      BY <3>1, JobsNat DEF Numbers
    <3>3. job' # None /\ job'.id = Jobs
      BY <3>1, <3>2, PipelineAssumption DEF IsBlock
    <3>4. Jobs' = Jobs + 1 /\ Queued' = Jobs + 1 /\ Queued = Jobs + 1
      BY <3>1, <3>3 DEF Queued, Jobs
    <3>5. IsBlock(job', Jobs' - 1)
      BY <3>1, <3>2, <3>4
    <3> QED
      BY <3>1, <3>3, <3>4, <3>5 DEF Numbers
  <2> QED
    BY <2>1, <2>2, <2>3
<1>23. CASE XorOnCPU
  <2>1. Types'
    BY <1>23 DEF Types, XorOnCPU, WorkerGoto, queueVars, mainVars, readVars, WorkerPlaces,
        HasBlock, HasKey, HasMsg, NotWritten
  <2>2. Control'
    BY <1>23 DEF Control, MainControl, WorkerControl, GPUControl, XorOnCPU, WorkerGoto,
        queueVars, mainVars, outVars
  <2>3. Numbers'
    BY <1>23 DEF Numbers, XorOnCPU, WorkerGoto, queueVars, mainVars, readVars, HasBlock, HasKey,
        HasMsg, NotWritten, Jobs, Taken, Queued, MainHas, Given
  <2> QED
    BY <2>1, <2>2, <2>3
<1>24. CASE ConvertToInteger
  <2>1. Types'
    BY <1>24 DEF Types, ConvertToInteger, WorkerGoto, queueVars, mainVars, readVars,
        WorkerPlaces, HasBlock, HasKey, HasMsg, NotWritten
  <2>2. Control'
    BY <1>24 DEF Control, MainControl, WorkerControl, GPUControl, ConvertToInteger, WorkerGoto,
        queueVars, mainVars, outVars
  <2>3. Numbers'
    BY <1>24 DEF Numbers, ConvertToInteger, WorkerGoto, queueVars, mainVars, readVars, HasBlock,
        HasKey, HasMsg, NotWritten, Jobs, Taken, Queued, MainHas, Given
  <2> QED
    BY <2>1, <2>2, <2>3
<1>25. CASE Kernel
  <2>1. Types'
    BY <1>25 DEF Types, Kernel, WorkerGoto, queueVars, mainVars, readVars, WorkerPlaces,
        HasBlock, HasKey, HasMsg, NotWritten
  <2>2. Control'
    BY <1>25 DEF Control, MainControl, WorkerControl, GPUControl, Kernel, WorkerGoto, queueVars,
        mainVars, outVars
  <2>3. Numbers'
    BY <1>25 DEF Numbers, Kernel, WorkerGoto, queueVars, mainVars, readVars, HasBlock, HasKey,
        HasMsg, NotWritten, Jobs, Taken, Queued, MainHas, Given
  <2> QED
    BY <2>1, <2>2, <2>3
<1>26. CASE ConvertToChar
  <2>1. Types'
    BY <1>26 DEF Types, ConvertToChar, WorkerGoto, queueVars, mainVars, readVars, WorkerPlaces,
        HasBlock, HasKey, HasMsg, NotWritten
  <2>2. Control'
    BY <1>26 DEF Control, MainControl, WorkerControl, GPUControl, ConvertToChar, WorkerGoto,
        queueVars, mainVars, outVars
  <2>3. Numbers'
    BY <1>26 DEF Numbers, ConvertToChar, WorkerGoto, queueVars, mainVars, readVars, HasBlock,
        HasKey, HasMsg, NotWritten, Jobs, Taken, Queued, MainHas, Given
  <2> QED
    BY <2>1, <2>2, <2>3
<1>27. CASE Flush
  <2>1. Types'
    BY <1>27 DEF Types, Flush, WorkerGoto, queueVars, mainVars, readVars, WorkerPlaces,
        HasBlock, HasKey, HasMsg
  <2>2. Control'
    BY <1>27 DEF Control, MainControl, WorkerControl, GPUControl, Flush, WorkerGoto, queueVars,
        mainVars
  <2>3. Numbers'
    BY <1>27 DEF Numbers, Flush, WorkerGoto, queueVars, mainVars, readVars, HasBlock, HasKey,
        HasMsg, Jobs, Taken, Queued, MainHas, Given
  <2> QED
    BY <2>1, <2>2, <2>3
<1>28. CASE FreeMsg
  <2>1. Types'
    BY <1>28 DEF Types, FreeMsg, WorkerGoto, queueVars, mainVars, readVars, WorkerPlaces,
        HasBlock, HasKey
  <2>2. Control'
    BY <1>28 DEF Control, MainControl, WorkerControl, GPUControl, FreeMsg, WorkerGoto,
        queueVars, mainVars, outVars
  <2>3. Numbers'
    BY <1>28 DEF Numbers, FreeMsg, WorkerGoto, queueVars, mainVars, readVars, HasBlock, HasKey,
        HasMsg, Jobs, Taken, Queued, MainHas, Given
  <2> QED
    BY <2>1, <2>2, <2>3
<1>29. CASE FreeKey
  <2>1. Types'
    BY <1>29 DEF Types, FreeKey, WorkerGoto, queueVars, mainVars, readVars, WorkerPlaces,
        HasBlock
  <2>2. Control'
    BY <1>29 DEF Control, MainControl, WorkerControl, GPUControl, FreeKey, WorkerGoto,
        queueVars, mainVars, outVars
  <2>3. Numbers'
    BY <1>29 DEF Numbers, FreeKey, WorkerGoto, queueVars, mainVars, readVars, HasBlock, HasKey,
        Jobs, Taken, Queued, MainHas, Given
  <2> QED
    BY <2>1, <2>2, <2>3
<1>30. CASE FreeDecrypted
  <2>1. Types'
    BY <1>30 DEF Types, FreeDecrypted, WorkerGoto, queueVars, mainVars, readVars, WorkerPlaces
  <2>2. Control'
    BY <1>30 DEF Control, MainControl, WorkerControl, GPUControl, FreeDecrypted, WorkerGoto,
        queueVars, mainVars, outVars
  <2>3. Numbers'
    BY <1>30 DEF Numbers, FreeDecrypted, WorkerGoto, queueVars, mainVars, readVars, HasBlock,
        Jobs, Taken, Queued, MainHas, Given
  <2> QED
    BY <2>1, <2>2, <2>3
<1>31. CASE Reads
  <2>1. PICK bytes \in Nat : /\ bytes <= unread
                             /\ Read(bytes)
                             /\ errors' \in 0..MaxErrors /\ eof' \in BOOLEAN
    BY <1>31 DEF Reads
  <2>2. data \in Data /\ mainAt = "read" /\ mainAt' = "keygen"
    BY <2>1 DEF Read, MainGoto, Control, MainControl
  <2>3. /\ data' \in Data /\ data'.msg = data.msg /\ data'.key = data.key /\ data'.id = id
        /\ data'.len = bytes
    BY <2>1, <2>2 DEF Read, Data, Types
  <2>4. id' = id + 1 /\ unread' = unread - bytes /\ queueVars' = queueVars
        /\ workerVars' = workerVars
    BY <2>1 DEF Read
  <2>5. /\ pc' = pc /\ item' = item /\ queue_' = queue_ /\ waiters' = waiters
        /\ workerAt' = workerAt /\ job' = job /\ stdio' = stdio /\ out' = out
    BY <2>4 DEF queueVars, workerVars, outVars
  <2>6. Types'
    BY <2>1, <2>2, <2>3, <2>4, <2>5 DEF Types, MainPlaces
  <2>7. MainControl'
    BY <2>2, <2>3, <2>5 DEF Control, MainControl
  <2>8. WorkerControl' /\ GPUControl'
    BY <2>5 DEF Control, WorkerControl, GPUControl
  <2>9. Numbers'
    <3>1. Jobs' = Jobs /\ (Taken' <=> Taken)
      BY <2>5 DEF Jobs, Taken
    <3>2. Queued' = Queued /\ Given' = Given
      BY <2>2, <2>4, <3>1 DEF Queued, Given, Types, MainHas
    <3>3. data.msg = <<"msg", id>> /\ data.key = <<"unused", id>> /\ id \in Nat
      BY <2>2 DEF Numbers, Types
    <3>4. id' - 1 = id
      <4>1. id' = id + 1
        BY <2>4
      <4>2. id \in Nat
        BY DEF Types
      <4> QED
        BY <4>1, <4>2
    <3>5. /\ data'.id = id' - 1 /\ data'.msg = <<"msg", id' - 1>>
          /\ data'.key = <<"unused", id' - 1>>
      BY <2>3, <3>3, <3>4
    <3> QED
      BY <2>2, <2>5, <3>1, <3>2, <3>5 DEF Numbers
  <2> QED
    BY <2>6, <2>7, <2>8, <2>9 DEF Control
<1>32. CASE Write
  <2>1. Types'
    BY <1>0, <1>32 DEF Types, Write, WorkerGoto, queueVars, mainVars, readVars, WorkerPlaces,
        HasBlock, HasKey, HasMsg
  <2>2. Control'
    BY <1>0, <1>32 DEF Control, MainControl, WorkerControl, GPUControl, Write, WorkerGoto,
        queueVars, mainVars
  <2>3. Numbers'
    BY <1>0, <1>32 DEF Numbers, Write, WorkerGoto, queueVars, mainVars, readVars, HasBlock,
        HasKey, HasMsg, NotWritten, Jobs, Taken, Queued, MainHas, Given
  <2> QED
    BY <2>1, <2>2, <2>3
<1>33. CASE UNCHANGED vars
  <2>1. /\ pc' = pc /\ item' = item /\ queue_' = queue_ /\ waiters' = waiters
        /\ onGPU' = onGPU /\ mainAt' = mainAt /\ data' = data /\ id' = id
        /\ unread' = unread /\ errors' = errors /\ eof' = eof
        /\ workerAt' = workerAt /\ job' = job /\ stdio' = stdio
    BY <1>33 DEF vars, queueVars, mainVars, readVars, workerVars, outVars
  <2>2. Types'
    BY <2>1 DEF Types
  <2>3. Control'
    <3>1. MainControl'
      BY <2>1 DEF Control, MainControl
    <3>2. WorkerControl'
      BY <2>1 DEF Control, WorkerControl
    <3>3. GPUControl'
      BY <2>1 DEF Control, GPUControl
    <3> QED
      BY <3>1, <3>2, <3>3 DEF Control
  <2>4. Numbers'
    BY <2>1 DEF Numbers, Jobs, Taken, Queued, MainHas, Given
  <2> QED
    BY <2>2, <2>3, <2>4
<1> QED
  BY Steps, <1>1, <1>2, <1>3, <1>4, <1>5, <1>6, <1>7, <1>8, <1>9, <1>10, <1>11, <1>12, <1>13,
      <1>14, <1>15, <1>16, <1>17, <1>18, <1>19, <1>20, <1>21, <1>22, <1>23, <1>24, <1>25, <1>26,
      <1>27, <1>28, <1>29, <1>30, <1>31, <1>32, <1>33 DEF MainStep, PopStep, JobStep

----------------------------------------------------------------------------
\* Which buffers there are.
LEMMA Intervals ==
  ASSUME NEW a \in Nat, NEW b \in Nat
  PROVE  /\ a <= b => Interval(a, b + 1) = Interval(a, b) \cup {b} /\ b \notin Interval(a, b)
         /\ a < b => Interval(a + 1, b) = Interval(a, b) \ {a} /\ a \in Interval(a, b)
BY DEF Interval

\* A set with one element more or less, for the provers to keep in one piece.
Plus(S, b)  == S \cup {b}
Minus(S, b) == S \ {b}

LEMMA OneMore ==
  ASSUME NEW t, NEW S, NEW k
  PROVE  {t} \X (S \cup {k}) = ({t} \X S) \cup {<<t, k>>}
OBVIOUS

LEMMA OneLess ==
  ASSUME NEW t, NEW S, NEW k
  PROVE  {t} \X (S \ {k}) = ({t} \X S) \ {<<t, k>>}
OBVIOUS

LEMMA MsgMore ==
  ASSUME NEW fm, NEW lm, NEW fk, NEW lk, NEW c, NEW x, NEW R, NEW next,
         Interval(fm, next) = Plus(Interval(fm, lm), lm),
         Interval(0, next) = Plus(Interval(0, lm), lm)
  PROVE  Buffers(fm, next, fk, lk, c, x, R) =
           Plus(Plus(Buffers(fm, lm, fk, lk, c, x, R), <<"msg", lm>>), <<"unused", lm>>)
<1>1. /\ Interval(fm, next) = Interval(fm, lm) \cup {lm}
      /\ Interval(0, next) = Interval(0, lm) \cup {lm}
  BY DEF Plus
<1>2. {"msg"} \X Interval(fm, next) = ({"msg"} \X Interval(fm, lm)) \cup {<<"msg", lm>>}
  BY <1>1, OneMore
<1>3. {"unused"} \X Interval(0, next) =
        ({"unused"} \X Interval(0, lm)) \cup {<<"unused", lm>>}
  <2> DEFINE kind == "unused"
  <2>1. {kind} \X Interval(0, next) = ({kind} \X Interval(0, lm)) \cup {<<kind, lm>>}
    <3> HIDE DEF kind
    <3> QED
      BY <1>1, OneMore
  <2> QED
    BY <2>1
<1> QED
  BY <1>2, <1>3, Zenon DEF Buffers, Plus

LEMMA KeyMore ==
  ASSUME NEW fm, NEW lm, NEW fk \in Nat, NEW lk \in Nat, NEW c, NEW x, NEW R,
         fk <= lk
  PROVE  Buffers(fm, lm, fk, lk + 1, c, x, R) =
           Buffers(fm, lm, fk, lk, c, x, R) \cup {<<"key", lk>>}
<1>1. Interval(fk, lk + 1) = Interval(fk, lk) \cup {lk}
  BY Intervals
<1>2. {"key"} \X Interval(fk, lk + 1) = ({"key"} \X Interval(fk, lk)) \cup {<<"key", lk>>}
  BY <1>1, OneMore
<1> QED
  BY <1>2, Zenon DEF Buffers

LEMMA ConvertedMore ==
  ASSUME NEW fm, NEW lm, NEW fk, NEW lk, NEW c, NEW x, NEW R, NEW next,
         Interval(0, next) = Plus(Interval(0, c), c)
  PROVE  Buffers(fm, lm, fk, lk, next, x, R) =
           Plus(Plus(Buffers(fm, lm, fk, lk, c, x, R), <<"integer_msg", c>>),
                <<"integer_key", c>>)
<1>1. Interval(0, next) = Interval(0, c) \cup {c}
  BY DEF Plus
<1>2. {"integer_msg", "integer_key"} \X Interval(0, next) =
        ({"integer_msg", "integer_key"} \X Interval(0, c))
          \cup {<<"integer_msg", c>>, <<"integer_key", c>>}
  BY <1>1
<1> QED
  BY <1>2, Zenon DEF Buffers, Plus

LEMMA XoredMore ==
  ASSUME NEW fm, NEW lm, NEW fk, NEW lk, NEW c, NEW x, NEW R, NEW next,
         Interval(0, next) = Plus(Interval(0, x), x)
  PROVE  Buffers(fm, lm, fk, lk, c, next, R) =
           Plus(Buffers(fm, lm, fk, lk, c, x, R), <<"tmp", x>>)
<1>1. Interval(0, next) = Interval(0, x) \cup {x}
  BY DEF Plus
<1>2. {"tmp"} \X Interval(0, next) = ({"tmp"} \X Interval(0, x)) \cup {<<"tmp", x>>}
  BY <1>1, OneMore
<1> QED
  BY <1>2, Zenon DEF Buffers, Plus

\* Buffers of different kinds are different.
LEMMA Kinds ==
  ASSUME NEW fm, NEW lm, NEW fk, NEW lk, NEW c, NEW x, NEW R,
         R \subseteq {"decrypted"} \X Nat, NEW k
  PROVE  /\ <<"msg", k>> \in Buffers(fm, lm, fk, lk, c, x, R) <=> k \in Interval(fm, lm)
         /\ <<"key", k>> \in Buffers(fm, lm, fk, lk, c, x, R) <=> k \in Interval(fk, lk)
         /\ <<"decrypted", k>> \in Buffers(fm, lm, fk, lk, c, x, R) <=> <<"decrypted", k>> \in R
         /\ <<"tmp", k>> \in Buffers(fm, lm, fk, lk, c, x, R) <=> k \in Interval(0, x)
         /\ <<"integer_msg", k>> \in Buffers(fm, lm, fk, lk, c, x, R) <=> k \in Interval(0, c)
         /\ <<"integer_key", k>> \in Buffers(fm, lm, fk, lk, c, x, R) <=> k \in Interval(0, c)
<1>1. /\ <<"msg", k>> \notin R /\ <<"key", k>> \notin R /\ <<"tmp", k>> \notin R
      /\ <<"integer_msg", k>> \notin R /\ <<"integer_key", k>> \notin R
  OBVIOUS
<1> HIDE DEF Interval
<1> QED
  BY <1>1 DEF Buffers

LEMMA MsgLess ==
  ASSUME NEW fm, NEW lm, NEW fk, NEW lk, NEW c, NEW x, NEW R, NEW next,
         R \subseteq {"decrypted"} \X Nat,
         Interval(next, lm) = Minus(Interval(fm, lm), fm)
  PROVE  Buffers(next, lm, fk, lk, c, x, R) =
           Minus(Buffers(fm, lm, fk, lk, c, x, R), <<"msg", fm>>)
<1>1. Interval(next, lm) = Interval(fm, lm) \ {fm}
  BY DEF Minus
<1>2. {"msg"} \X Interval(next, lm) = ({"msg"} \X Interval(fm, lm)) \ {<<"msg", fm>>}
  BY <1>1, OneLess
<1>3. /\ <<"msg", fm>> \notin {"key"} \X Interval(fk, lk)
      /\ <<"msg", fm>> \notin {"unused"} \X Interval(0, lm)
      /\ <<"msg", fm>> \notin {"integer_msg", "integer_key"} \X Interval(0, c)
      /\ <<"msg", fm>> \notin {"tmp"} \X Interval(0, x)
      /\ <<"msg", fm>> \notin R
  OBVIOUS
<1> QED
  BY <1>2, <1>3, Zenon DEF Buffers, Minus

LEMMA KeyLess ==
  ASSUME NEW fm, NEW lm, NEW fk, NEW lk, NEW c, NEW x, NEW R, NEW next,
         R \subseteq {"decrypted"} \X Nat,
         Interval(next, lk) = Minus(Interval(fk, lk), fk)
  PROVE  Buffers(fm, lm, next, lk, c, x, R) =
           Minus(Buffers(fm, lm, fk, lk, c, x, R), <<"key", fk>>)
<1>1. Interval(next, lk) = Interval(fk, lk) \ {fk}
  BY DEF Minus
<1>2. {"key"} \X Interval(next, lk) = ({"key"} \X Interval(fk, lk)) \ {<<"key", fk>>}
  BY <1>1, OneLess
<1>3. /\ <<"key", fk>> \notin {"msg"} \X Interval(fm, lm)
      /\ <<"key", fk>> \notin {"unused"} \X Interval(0, lm)
      /\ <<"key", fk>> \notin {"integer_msg", "integer_key"} \X Interval(0, c)
      /\ <<"key", fk>> \notin {"tmp"} \X Interval(0, x)
      /\ <<"key", fk>> \notin R
  OBVIOUS
<1> QED
  BY <1>2, <1>3, Zenon DEF Buffers, Minus

LEMMA ResultMore ==
  ASSUME NEW fm, NEW lm, NEW fk, NEW lk, NEW c, NEW x, NEW k
  PROVE  Buffers(fm, lm, fk, lk, c, x, {<<"decrypted", k>>}) =
           Plus(Buffers(fm, lm, fk, lk, c, x, {}), <<"decrypted", k>>)
BY Zenon DEF Buffers, Plus

LEMMA ResultLess ==
  ASSUME NEW fm, NEW lm, NEW fk, NEW lk, NEW c, NEW x, NEW k
  PROVE  Buffers(fm, lm, fk, lk, c, x, {}) =
           Minus(Buffers(fm, lm, fk, lk, c, x, {<<"decrypted", k>>}), <<"decrypted", k>>)
<1>1. /\ <<"decrypted", k>> \notin {"msg"} \X Interval(fm, lm)
      /\ <<"decrypted", k>> \notin {"key"} \X Interval(fk, lk)
      /\ <<"decrypted", k>> \notin {"unused"} \X Interval(0, lm)
      /\ <<"decrypted", k>> \notin {"integer_msg", "integer_key"} \X Interval(0, c)
      /\ <<"decrypted", k>> \notin {"tmp"} \X Interval(0, x)
  OBVIOUS
<1> QED
  BY <1>1, Zenon DEF Buffers, Minus

\* malloc and free.
LEMMA HeapMore ==
  ASSUME NEW h, NEW b, NEW contents
  PROVE  /\ DOMAIN With(h, b, contents) = (DOMAIN h) \cup {b}
         /\ With(h, b, contents)[b] = contents
         /\ \A l \in DOMAIN h : l # b => With(h, b, contents)[l] = h[l]
BY DEF With

LEMMA HeapLess ==
  ASSUME NEW b, Free(b)
  PROVE  Live' = Live \ {b} /\ \A l \in Live : l # b => heap'[l] = heap[l]
BY DEF Free, Live

\* What the numbers are to each other.
LEMMA Bounds ==
  ASSUME Types, Numbers
  PROVE  /\ Jobs \in Nat /\ Jobs <= id /\ id \in Nat
         /\ LastMsg \in Nat /\ LastKey \in Nat /\ LastMsg >= id /\ LastKey >= Jobs
         /\ workerAt \in HasBlock => Jobs > 0 /\ IsBlock(job, Jobs - 1)
<1>1. Jobs \in Nat /\ id \in Nat
  BY JobsNat DEF Types
<1>2. Queued + Len(queue_) = Given /\ (Taken => Queued = Jobs + 1) /\ (~Taken => Queued = Jobs)
      /\ Len(queue_) \in Nat
  <2>1. Len(queue_) \in Nat
    BY LenProperties DEF Types
  <2> QED
    BY <2>1 DEF Numbers, Queued
<1>3. Jobs <= Given
  BY <1>1, <1>2
<1>4. Given \in {id, id - 1} /\ (mainAt = "keygen" => Given = id - 1)
  BY DEF Given, MainHas
<1>5. Jobs <= id
  BY <1>1, <1>3, <1>4
<1>6. LastMsg \in Nat /\ LastMsg >= id
  BY <1>1 DEF LastMsg
<1>7. LastKey \in Nat /\ LastKey >= Jobs
  BY <1>1, <1>3, <1>4, <1>5 DEF LastKey
<1>8. ASSUME workerAt \in HasBlock PROVE Jobs > 0 /\ IsBlock(job, Jobs - 1)
  <2>1. job # None /\ IsBlock(job, Jobs - 1)
    BY <1>8 DEF Numbers
  <2>2. job.id = Jobs - 1 /\ job.id \in Nat
    BY <2>1 DEF IsBlock, Data
  <2> QED
    BY <1>1, <2>1, <2>2
<1> QED
  BY <1>1, <1>5, <1>6, <1>7, <1>8

\* The steps that neither allocate nor free.
SameMarks == /\ LastMsg' = LastMsg /\ LastKey' = LastKey /\ FirstMsg' = FirstMsg
             /\ FirstKey' = FirstKey /\ Converted' = Converted /\ Xored' = Xored
             /\ Result' = Result

InQueueStep == \/ AtPushLock \/ AtPushAppend \/ AtPushUnlock \/ AtNotifyNobody \/ AtNotifyOne
               \/ AtPopLock \/ AtPopRelock \/ AtPopWait \/ AtPopFound
               \/ AtPopFront \/ AtPopRemove \/ AtPopReturn \/ AtWakeup

LEMMA InQueueSame ==
  ASSUME InQueueStep, onGPU' = onGPU
  PROVE  /\ heap' = heap /\ SameMarks /\ Jobs' = Jobs /\ Written' = Written /\ id' = id
         /\ mainAt' = mainAt /\ workerAt' = workerAt /\ data' = data /\ job' = job
         /\ expected' = expected /\ stdio' = stdio /\ out' = out
<1>1. InQueue
  BY DEF InQueueStep, AtPushLock, AtPushAppend, AtPushUnlock, AtNotifyNobody, AtNotifyOne,
         AtPopLock, AtPopRelock, AtPopWait, AtPopFound, AtPopFront, AtPopRemove, AtPopReturn,
         AtWakeup
<1>2. /\ heap' = heap /\ id' = id /\ mainAt' = mainAt /\ workerAt' = workerAt /\ job' = job
      /\ data' = data /\ expected' = expected /\ stdio' = stdio /\ out' = out
  BY <1>1 DEF InQueue, mainVars, readVars, workerVars, outVars
<1>3. Jobs' = Jobs
  BY <1>2 DEF Jobs
<1> QED
  BY <1>2, <1>3 DEF SameMarks, LastMsg, LastKey, FirstMsg, FirstKey, Converted, Xored, Result,
                    Written, Before

MainMoves == Start \/ CallPush \/ Loop \/ Break \/ Return

LEMMA MainMovesSame ==
  ASSUME Types, Control, MainMoves, onGPU' = onGPU
  PROVE  /\ heap' = heap /\ SameMarks /\ Jobs' = Jobs /\ Written' = Written /\ id' = id
         /\ data' = data /\ job' = job /\ expected' = expected
<1>1. /\ heap' = heap /\ id' = id /\ job' = job /\ data' = data /\ expected' = expected
  BY DEF MainMoves, Start, CallPush, Loop, Break, Return, readVars, workerVars
<1>2. LastMsg' = LastMsg /\ LastKey' = LastKey
  BY <1>1 DEF MainMoves, Start, CallPush, Loop, Break, Return, MainGoto, LastMsg, LastKey
<1>3. Jobs' = Jobs
  BY <1>1 DEF Jobs
<1>4. CASE Start
  <2>1. workerAt = "not started" /\ workerAt' = "pop"
    BY <1>4 DEF Start, MainGoto, Control, MainControl
  <2> QED
    BY <1>1, <1>2, <1>3, <2>1
    DEF SameMarks, FirstMsg, FirstKey, Converted, Xored, Result, Written, Before,
        HasMsg, HasKey, NotWritten, Decrypting
<1>5. CASE ~Start
  <2>1. workerAt' = workerAt
    BY <1>5 DEF MainMoves, CallPush, Loop, Break, Return, workerVars
  <2> QED
    BY <1>1, <1>2, <1>3, <2>1
    DEF SameMarks, FirstMsg, FirstKey, Converted, Xored, Result, Written, Before
<1> QED
  BY <1>4, <1>5

\* What is needed of the numbers when a step of the worker only changes its place.
LEMMA JobNumbers ==
  ASSUME Types, Numbers, workerAt \in HasBlock
  PROVE  /\ job.id = Jobs - 1 /\ job.id \in Nat /\ Jobs = job.id + 1 /\ job \in Data
         /\ job.msg = <<"msg", job.id>> /\ job.key = <<"key", job.id>>
<1>1. IsBlock(job, Jobs - 1) /\ Jobs \in Nat
  BY Bounds
<1>2. /\ job \in Data /\ job.id = Jobs - 1
      /\ job.msg = <<"msg", Jobs - 1>> /\ job.key = <<"key", Jobs - 1>>
  BY <1>1 DEF IsBlock
<1>3. job.id \in Nat
  BY <1>2 DEF Data
<1>4. Jobs = job.id + 1
  BY <1>1, <1>2
<1> QED
  BY <1>2, <1>3, <1>4

LEMMA AllocatedKept ==
  ASSUME Types, Control, Numbers, Live = Allocated, [Next]_vars
  PROVE  Live' = Allocated'
<1>0. onGPU' = onGPU
  BY Steps DEF vars
<1>a. \/ UNCHANGED vars
      \/ MainStep \/ PopStep \/ JobStep
  BY Steps
<1>1. ASSUME heap' = heap, SameMarks PROVE Live' = Allocated'
  BY <1>0, <1>1 DEF SameMarks, Live, Allocated
<1>2. CASE UNCHANGED vars
  <2>1. /\ heap' = heap /\ id' = id /\ mainAt' = mainAt /\ workerAt' = workerAt /\ job' = job
    BY <1>2 DEF vars, mainVars, readVars, workerVars
  <2>2. Jobs' = Jobs
    BY <2>1 DEF Jobs
  <2>3. SameMarks
    BY <1>0, <2>1, <2>2 DEF SameMarks, LastMsg, LastKey, FirstMsg, FirstKey, Converted, Xored,
        Result,
                      Before
  <2> QED
    BY <1>1, <2>1, <2>3
<1>3. CASE InQueueStep
  BY <1>0, <1>1, <1>3, InQueueSame
<1>4. CASE MainMoves
  BY <1>0, <1>1, <1>4, MainMovesSame
<1>5. CASE MallocBlock
  <2>1. mainAt = "malloc" /\ mainAt' = "read" /\ id' = id /\ workerAt' = workerAt /\ job' = job
    BY <1>5 DEF MallocBlock, MainGoto, readVars, workerVars
  <2>2. LastMsg = id /\ LastMsg' = id + 1 /\ LastKey = id /\ LastKey' = id
    BY <2>1 DEF LastMsg, LastKey
  <2>3. /\ FirstMsg' = FirstMsg /\ FirstKey' = FirstKey /\ Converted' = Converted
        /\ Xored' = Xored /\ Result' = Result
    BY <1>0, <2>1 DEF FirstMsg, FirstKey, Converted, Xored, Result, Before, Jobs
  <2>4. FirstMsg \in Nat /\ id \in Nat /\ FirstMsg <= id
    <3>1. workerAt \in HasMsg => workerAt \in HasBlock
      BY DEF HasBlock, HasKey
    <3> QED
      BY <3>1, Bounds DEF FirstMsg, Before
  <2>5. Allocated' = Allocated \cup {<<"msg", id>>, <<"unused", id>>}
    <3>1. Buffers(FirstMsg, LastMsg', FirstKey, id, Converted, Xored, Result) =
            Plus(Plus(Buffers(FirstMsg, id, FirstKey, id, Converted, Xored, Result),
                      <<"msg", id>>), <<"unused", id>>)
      <4>1. /\ Interval(FirstMsg, LastMsg') = Plus(Interval(FirstMsg, id), id)
            /\ Interval(0, LastMsg') = Plus(Interval(0, id), id)
        BY <2>2, <2>4 DEF Interval, Plus
      <4> QED
        BY <4>1, MsgMore
    <3>2. Allocated' = Plus(Plus(Allocated, <<"msg", id>>), <<"unused", id>>)
      BY <1>0, <2>2, <2>3, <3>1 DEF Allocated
    <3> QED
      BY <3>2, Zenon DEF Plus
  <2>6. Live' = Live \cup {<<"msg", id>>, <<"unused", id>>}
    <3>1. heap' = With(With(heap, <<"msg", id>>, <<>>), <<"unused", id>>, <<>>)
      BY <1>5 DEF MallocBlock
    <3>2. /\ DOMAIN With(heap, <<"msg", id>>, <<>>) = (DOMAIN heap) \cup {<<"msg", id>>}
          /\ DOMAIN heap' = (DOMAIN With(heap, <<"msg", id>>, <<>>)) \cup {<<"unused", id>>}
      BY <3>1, HeapMore
    <3> QED
      BY <3>2, Zenon DEF Live
  <2> QED
    BY <2>5, <2>6
<1>6. CASE Reads
  <2>1. PICK bytes \in Nat : Read(bytes)
    BY <1>6 DEF Reads
  <2>2. mainAt = "read" /\ mainAt' = "keygen" /\ id' = id + 1 /\ workerAt' = workerAt
        /\ job' = job /\ id \in Nat
    BY <2>1 DEF Read, MainGoto, workerVars, Types
  <2>3. SameMarks
    BY <1>0, <2>2 DEF SameMarks, LastMsg, LastKey, FirstMsg, FirstKey, Converted, Xored, Result,
                Before, Jobs
  <2>4. Live' = Live
    BY <2>1 DEF Read, Live
  <2> QED
    BY <1>0, <2>3, <2>4 DEF SameMarks, Allocated
<1>7. CASE GenerateKey
  <2>1. mainAt = "keygen" /\ mainAt' = "push" /\ id' = id /\ workerAt' = workerAt /\ job' = job
    BY <1>7 DEF GenerateKey, MainGoto, readVars, workerVars
  <2>2. LastMsg = id /\ LastMsg' = id /\ LastKey = id - 1 /\ LastKey' = id /\ data.id = id - 1
    BY <2>1 DEF LastMsg, LastKey, Numbers
  <2>3. /\ FirstMsg' = FirstMsg /\ FirstKey' = FirstKey /\ Converted' = Converted
        /\ Xored' = Xored /\ Result' = Result
    BY <1>0, <2>1 DEF FirstMsg, FirstKey, Converted, Xored, Result, Before, Jobs
  <2>4. FirstKey \in Nat /\ id \in Nat /\ LastKey \in Nat /\ FirstKey <= LastKey
    <3>1. workerAt \in HasKey => workerAt \in HasBlock
      BY DEF HasBlock
    <3> QED
      BY <3>1, Bounds DEF FirstKey, Before
  <2>5. LastKey' = LastKey + 1
    BY <2>2, <2>4
  <2>6. Allocated' = Allocated \cup {<<"key", LastKey>>}
    BY <1>0, <2>2, <2>3, <2>4, <2>5, KeyMore DEF Allocated
  <2>7. Live' = Live \cup {<<"key", data.id>>}
    BY <1>7, HeapMore DEF GenerateKey, Malloc, Live
  <2> QED
    BY <2>2, <2>6, <2>7
<1>8. CASE CallPop
  <2>1. workerAt = "pop" /\ workerAt' = "in pop" /\ heap' = heap
        /\ id' = id /\ mainAt' = mainAt /\ job' = job
    BY <1>8 DEF CallPop, WorkerGoto, mainVars, readVars
  <2>2. SameMarks
    BY <1>0, <2>1 DEF SameMarks, LastMsg, LastKey, FirstMsg, FirstKey, Converted, Xored, Result,
                Before, Jobs, HasMsg, HasKey, NotWritten, Decrypting
  <2> QED
    BY <1>1, <2>1, <2>2
<1>9. CASE Popped
  <2>1. workerAt = "in pop" /\ workerAt' = "xor" /\ heap' = heap
        /\ id' = id /\ mainAt' = mainAt /\ job' = item[Worker] /\ Taken
    BY <1>9 DEF Popped, WorkerGoto, mainVars, readVars, Taken
  <2>2. Jobs' = Jobs + 1 /\ Jobs \in Nat
    <3>1. IsBlock(item[Worker], Jobs)
      BY <2>1 DEF Numbers
    <3> QED
      BY <2>1, <3>1, JobsNat, PipelineAssumption DEF IsBlock, Jobs
  <2>3. SameMarks
    <3>1. LastMsg' = LastMsg /\ LastKey' = LastKey /\ Result' = Result
      BY <2>1 DEF LastMsg, LastKey, Result, Decrypting
    <3>2. /\ FirstMsg' = FirstMsg /\ FirstKey' = FirstKey
          /\ Converted' = Converted /\ Xored' = Xored
      <4>1. Jobs' - 1 = Jobs
        BY <2>2
      <4> QED
        BY <1>0, <2>1, <4>1 DEF FirstMsg, FirstKey, Converted, Xored, Before, HasMsg, HasKey,
            NotWritten
    <3> QED
      BY <3>1, <3>2 DEF SameMarks
  <2> QED
    BY <1>1, <2>1, <2>3
<1>10. CASE JobStep
  <2>1. /\ id' = id /\ mainAt' = mainAt /\ job' = job
    BY <1>10 DEF JobStep, XorOnCPU, ConvertToInteger, Kernel, ConvertToChar, Write, Flush,
                 FreeMsg, FreeKey, FreeDecrypted, mainVars, readVars
  <2>2. LastMsg' = LastMsg /\ LastKey' = LastKey /\ Jobs' = Jobs
    BY <2>1 DEF LastMsg, LastKey, Jobs
  <2>3. workerAt \in HasBlock
    BY <1>10 DEF JobStep, XorOnCPU, ConvertToInteger, Kernel, ConvertToChar, Write, Flush,
                 FreeMsg, FreeKey, FreeDecrypted, WorkerGoto, HasBlock, HasKey, HasMsg, NotWritten
  <2>4. /\ job.id = Jobs - 1 /\ job.id \in Nat /\ Jobs = job.id + 1
        /\ job.msg = <<"msg", job.id>> /\ job.key = <<"key", job.id>>
    BY <2>3, JobNumbers
  <2>5. /\ id \in Nat
        /\ LastMsg \in Nat /\ LastKey \in Nat /\ LastMsg > job.id
        /\ LastKey > job.id
    BY <2>3, <2>4, Bounds
  <2>6. CASE XorOnCPU
    <3>1. ~onGPU /\ workerAt = "xor" /\ workerAt' = "write"
      BY <2>6 DEF XorOnCPU, WorkerGoto
    <3>2. /\ FirstMsg' = FirstMsg /\ FirstKey' = FirstKey
          /\ Converted' = Converted /\ Xored' = Xored
      BY <1>0, <2>2, <3>1 DEF FirstMsg, FirstKey, Converted, Xored, Before, HasMsg, HasKey,
          NotWritten
    <3>3. Result = {} /\ Result' = {<<"decrypted", job.id>>}
      BY <2>1, <3>1 DEF Result, Decrypting
    <3>4. Live' = Live \cup {<<"decrypted", job.id>>}
      BY <2>6, HeapMore DEF XorOnCPU, Malloc, Live
    <3>5. Buffers(FirstMsg, LastMsg, FirstKey, LastKey, Converted, Xored,
                  {<<"decrypted", job.id>>}) =
            Plus(Buffers(FirstMsg, LastMsg, FirstKey, LastKey, Converted, Xored, {}),
                 <<"decrypted", job.id>>)
      BY ResultMore
    <3> QED
      BY <2>2, <3>2, <3>3, <3>4, <3>5, Zenon DEF Allocated, Plus
  <2>7. CASE ConvertToInteger
    <3>1. onGPU = TRUE /\ workerAt = "xor" /\ workerAt' = "kernel"
      BY <2>7 DEF ConvertToInteger, WorkerGoto, Types
    <3>2. /\ FirstMsg' = FirstMsg /\ FirstKey' = FirstKey /\ Xored' = Xored
          /\ Result' = Result /\ Converted = job.id /\ Converted' = job.id + 1
      BY <1>0, <2>1, <2>2, <2>4, <3>1
      DEF FirstMsg, FirstKey, Converted, Xored, Result, Before, HasMsg, HasKey, NotWritten,
          Decrypting
    <3>3. Live' = Live \cup {<<"integer_msg", job.id>>, <<"integer_key", job.id>>}
      <4> DEFINE message == convert_to_integer(heap[job.msg], job.len, 0)
                 key     == convert_to_integer(heap[job.key], job.len, <<0, 0>>)
      <4>1. heap' = With(With(heap, <<"integer_msg", job.id>>, message),
                         <<"integer_key", job.id>>, key)
        BY <2>7 DEF ConvertToInteger
      <4> HIDE DEF message, key
      <4>2. /\ DOMAIN With(heap, <<"integer_msg", job.id>>, message) =
                  (DOMAIN heap) \cup {<<"integer_msg", job.id>>}
            /\ DOMAIN heap' = (DOMAIN With(heap, <<"integer_msg", job.id>>, message))
                                 \cup {<<"integer_key", job.id>>}
        BY <4>1, HeapMore
      <4> QED
        BY <4>2, Zenon DEF Live
    <3>4. Allocated' = Allocated \cup {<<"integer_msg", job.id>>, <<"integer_key", job.id>>}
      <4>1. Buffers(FirstMsg, LastMsg, FirstKey, LastKey, Converted', Xored, Result) =
              Plus(Plus(Buffers(FirstMsg, LastMsg, FirstKey, LastKey, job.id, Xored, Result),
                        <<"integer_msg", job.id>>), <<"integer_key", job.id>>)
        <5>1. Interval(0, Converted') = Plus(Interval(0, job.id), job.id)
          BY <2>4, <3>2 DEF Interval, Plus
        <5> QED
          BY <5>1, ConvertedMore
      <4>2. onGPU' = TRUE
        BY <1>0, <3>1
      <4> QED
        BY <2>2, <3>1, <3>2, <4>1, <4>2, Zenon DEF Allocated, Plus
    <3> QED
      BY <3>3, <3>4
  <2>8. CASE Kernel
    <3>1. onGPU = TRUE /\ workerAt = "kernel" /\ workerAt' = "convert"
      BY <2>8 DEF Kernel, WorkerGoto, Types, Control, GPUControl
    <3>2. /\ FirstMsg' = FirstMsg /\ FirstKey' = FirstKey /\ Converted' = Converted
          /\ Result' = Result /\ Xored = job.id /\ Xored' = job.id + 1
      BY <1>0, <2>1, <2>2, <2>4, <3>1
      DEF FirstMsg, FirstKey, Converted, Xored, Result, Before, HasMsg, HasKey, NotWritten,
          Decrypting
    <3>3. Live' = Live \cup {<<"tmp", job.id>>}
      BY <2>8, HeapMore DEF Kernel, Malloc, Live
    <3>4. Allocated' = Allocated \cup {<<"tmp", job.id>>}
      <4>1. Buffers(FirstMsg, LastMsg, FirstKey, LastKey, Converted, Xored', Result) =
              Plus(Buffers(FirstMsg, LastMsg, FirstKey, LastKey, Converted, job.id, Result),
                   <<"tmp", job.id>>)
        <5>1. Interval(0, Xored') = Plus(Interval(0, job.id), job.id)
          BY <2>4, <3>2 DEF Interval, Plus
        <5> QED
          BY <5>1, XoredMore
      <4>2. onGPU' = TRUE
        BY <1>0, <3>1
      <4> QED
        BY <2>2, <3>1, <3>2, <4>1, <4>2, Zenon DEF Allocated, Plus
    <3> QED
      BY <3>3, <3>4
  <2>9. CASE ConvertToChar
    <3>1. workerAt = "convert" /\ workerAt' = "write"
      BY <2>9 DEF ConvertToChar, WorkerGoto
    <3>2. /\ FirstMsg' = FirstMsg /\ FirstKey' = FirstKey /\ Converted' = Converted
          /\ Xored' = Xored
      BY <1>0, <2>2, <3>1 DEF FirstMsg, FirstKey, Converted, Xored, Before, HasMsg, HasKey,
          NotWritten
    <3>3. Result = {} /\ Result' = {<<"decrypted", job.id>>}
      BY <2>1, <3>1 DEF Result, Decrypting
    <3>4. Live' = Live \cup {<<"decrypted", job.id>>}
      BY <2>9, HeapMore DEF ConvertToChar, Malloc, Live
    <3> QED
      <4>1. Buffers(FirstMsg, LastMsg, FirstKey, LastKey, Converted, Xored,
                    {<<"decrypted", job.id>>}) =
              Plus(Buffers(FirstMsg, LastMsg, FirstKey, LastKey, Converted, Xored, {}),
                   <<"decrypted", job.id>>)
        BY ResultMore
      <4> QED
        BY <1>0, <2>2, <3>2, <3>3, <3>4, <4>1, Zenon DEF Allocated, Plus
  <2>10. CASE Write \/ Flush
    <3>1. heap' = heap /\ \/ workerAt = "write" /\ workerAt' = "flush"
                          \/ workerAt = "flush" /\ workerAt' = "free msg"
      BY <2>10 DEF Write, Flush, WorkerGoto
    <3>2. SameMarks
      BY <1>0, <2>1, <2>2, <3>1
      DEF SameMarks, FirstMsg, FirstKey, Converted, Xored, Result, Before, HasMsg, HasKey,
          NotWritten, Decrypting
    <3> QED
      BY <1>1, <3>1, <3>2
  <2>11. CASE FreeMsg
    <3>1. workerAt = "free msg" /\ workerAt' = "free key"
      BY <2>11 DEF FreeMsg, WorkerGoto
    <3>2. /\ FirstKey' = FirstKey
          /\ Converted' = Converted /\ Xored' = Xored /\ Result' = Result
          /\ Result \subseteq {"decrypted"} \X Nat
          /\ FirstMsg = job.id /\ FirstMsg' = job.id + 1
      <4>1. FirstKey' = FirstKey /\ Converted' = Converted /\ Xored' = Xored
        BY <1>0, <2>2, <3>1 DEF FirstMsg, FirstKey, Converted, Xored, Before, HasMsg, HasKey,
            NotWritten
      <4>2. Result' = Result /\ Result = {<<"decrypted", job.id>>}
        BY <2>1, <3>1 DEF Result, Decrypting
      <4>3. FirstMsg = Jobs - 1 /\ FirstMsg' = Jobs
        BY <2>2, <3>1 DEF FirstMsg, FirstKey, Before, HasMsg, HasKey, NotWritten
      <4>4. FirstMsg = job.id /\ FirstMsg' = job.id + 1
        BY <2>4, <4>3
      <4>5. Result \subseteq {"decrypted"} \X Nat
        BY <2>4, <4>2
      <4> QED
        BY <4>1, <4>2, <4>4, <4>5, Zenon
    <3>3. Live' = Live \ {<<"msg", job.id>>}
      BY <2>4, <2>11, HeapLess DEF FreeMsg
    <3>4. Allocated' = Allocated \ {<<"msg", job.id>>}
      <4>1. Interval(FirstMsg', LastMsg) = Minus(Interval(FirstMsg, LastMsg), FirstMsg)
        BY <2>4, <2>5, <3>2 DEF Interval, Minus
      <4>2. Buffers(FirstMsg', LastMsg, FirstKey, LastKey, Converted, Xored, Result) =
              Minus(Buffers(FirstMsg, LastMsg, FirstKey, LastKey, Converted, Xored, Result),
                    <<"msg", FirstMsg>>)
        BY <3>2, <4>1, MsgLess
      <4> QED
        BY <2>2, <3>2, <4>2, Zenon DEF Allocated, Minus
    <3> QED
      BY <3>3, <3>4
  <2>12. CASE FreeKey
    <3>1. workerAt = "free key" /\ workerAt' = "free decrypted"
      BY <2>12 DEF FreeKey, WorkerGoto
    <3>2. /\ FirstMsg' = FirstMsg
          /\ Converted' = Converted /\ Xored' = Xored /\ Result' = Result
          /\ Result \subseteq {"decrypted"} \X Nat
          /\ FirstKey = job.id /\ FirstKey' = job.id + 1
      <4>1. FirstMsg' = FirstMsg /\ Converted' = Converted /\ Xored' = Xored
        BY <1>0, <2>2, <3>1 DEF FirstMsg, FirstKey, Converted, Xored, Before, HasMsg, HasKey,
            NotWritten
      <4>2. Result' = Result /\ Result = {<<"decrypted", job.id>>}
        BY <2>1, <3>1 DEF Result, Decrypting
      <4>3. FirstKey = Jobs - 1 /\ FirstKey' = Jobs
        BY <2>2, <3>1 DEF FirstMsg, FirstKey, Before, HasMsg, HasKey, NotWritten
      <4>4. FirstKey = job.id /\ FirstKey' = job.id + 1
        BY <2>4, <4>3
      <4>5. Result \subseteq {"decrypted"} \X Nat
        BY <2>4, <4>2
      <4> QED
        BY <4>1, <4>2, <4>4, <4>5, Zenon
    <3>3. Live' = Live \ {<<"key", job.id>>}
      BY <2>4, <2>12, HeapLess DEF FreeKey
    <3>4. Allocated' = Allocated \ {<<"key", job.id>>}
      <4>1. Interval(FirstKey', LastKey) = Minus(Interval(FirstKey, LastKey), FirstKey)
        BY <2>4, <2>5, <3>2 DEF Interval, Minus
      <4>2. Buffers(FirstMsg, LastMsg, FirstKey', LastKey, Converted, Xored, Result) =
              Minus(Buffers(FirstMsg, LastMsg, FirstKey, LastKey, Converted, Xored, Result),
                    <<"key", FirstKey>>)
        BY <3>2, <4>1, KeyLess
      <4> QED
        BY <2>2, <3>2, <4>2, Zenon DEF Allocated, Minus
    <3> QED
      BY <3>3, <3>4
  <2>13. CASE FreeDecrypted
    <3>1. workerAt = "free decrypted" /\ workerAt' = "pop"
      BY <2>13 DEF FreeDecrypted, WorkerGoto
    <3>2. /\ FirstMsg' = FirstMsg /\ FirstKey' = FirstKey /\ Converted' = Converted
          /\ Xored' = Xored
      BY <1>0, <2>2, <3>1 DEF FirstMsg, FirstKey, Converted, Xored, Before, HasMsg, HasKey,
          NotWritten
    <3>3. Result = {<<"decrypted", job.id>>} /\ Result' = {}
      BY <2>1, <3>1 DEF Result, Decrypting
    <3>4. Live' = Live \ {<<"decrypted", job.id>>}
      BY <2>13, HeapLess DEF FreeDecrypted
    <3> QED
      <4>1. Buffers(FirstMsg, LastMsg, FirstKey, LastKey, Converted, Xored, {}) =
              Minus(Buffers(FirstMsg, LastMsg, FirstKey, LastKey, Converted, Xored,
                            {<<"decrypted", job.id>>}), <<"decrypted", job.id>>)
        BY ResultLess
      <4> QED
        BY <1>0, <2>2, <3>2, <3>3, <3>4, <4>1, Zenon DEF Allocated, Minus
  <2> QED
    BY <1>10, <2>6, <2>7, <2>8, <2>9, <2>10, <2>11, <2>12, <2>13 DEF JobStep
<1> QED
  BY <1>a, <1>2, <1>3, <1>4, <1>5, <1>6, <1>7, <1>8, <1>9, <1>10
  DEF MainStep, PopStep, InQueueStep, MainMoves

----------------------------------------------------------------------------
\* What is in the buffers.
LEMMA LiveBlocks ==
  ASSUME Types, Numbers, Live = Allocated
  PROVE  /\ \A k \in Interval(FirstMsg, LastMsg) : <<"msg", k>> \in Live
         /\ \A k \in Interval(FirstKey, LastKey) : <<"key", k>> \in Live
<1>1. Result \subseteq {"decrypted"} \X Nat
  <2>1. ASSUME workerAt \in Decrypting PROVE job.id \in Nat
    <3>1. workerAt \in HasBlock
      BY <2>1 DEF Decrypting, HasBlock, HasKey, HasMsg, NotWritten
    <3> QED
      BY <3>1, JobNumbers
  <2> QED
    BY <2>1 DEF Result
<1> QED
  BY <1>1, Kinds DEF Allocated

\* No step but fread and generateKey changes a message or a key that is not freed.
Keeps == /\ expected' = expected /\ id' = id /\ LastKey' = LastKey
         /\ \A k \in Interval(FirstMsg', id) : k \in Interval(FirstMsg, id)
                                                /\ heap'[<<"msg", k>>] = heap[<<"msg", k>>]
         /\ \A k \in Interval(FirstKey', LastKey) : k \in Interval(FirstKey, LastKey)
                                                /\ heap'[<<"key", k>>] = heap[<<"key", k>>]

LEMMA BlocksSame ==
  ASSUME NEW st, Messages(st), Keys(st), Keeps
  PROVE  Messages(st)' /\ Keys(st)'
<1>1. Messages(st)'
  BY DEF Messages, Keeps, Cut
<1>2. Keys(st)'
  BY DEF Keys, Keeps
<1> QED
  BY <1>1, <1>2

LEMMA QuietKeeps ==
  ASSUME heap' = heap, SameMarks, expected' = expected, id' = id
  PROVE  Keeps
BY DEF Keeps, SameMarks

\* malloc of another buffer, free of another buffer or of the oldest block's.
LEMMA MallocKeeps ==
  ASSUME Types, Numbers, Live = Allocated,
         \A k : /\ <<"msg", k>> \in DOMAIN heap => heap'[<<"msg", k>>] = heap[<<"msg", k>>]
                /\ <<"key", k>> \in DOMAIN heap => heap'[<<"key", k>>] = heap[<<"key", k>>],
         expected' = expected, id' = id,
         LastKey' = LastKey, FirstMsg' = FirstMsg, FirstKey' = FirstKey
  PROVE  Keeps
<1>1. \A k \in Interval(FirstMsg, id) : <<"msg", k>> \in DOMAIN heap
  <2>1. \A k \in Interval(FirstMsg, id) : k \in Interval(FirstMsg, LastMsg)
    BY Bounds DEF Interval
  <2> QED
    BY <2>1, LiveBlocks DEF Live
<1>2. \A k \in Interval(FirstKey, LastKey) : <<"key", k>> \in DOMAIN heap
  BY LiveBlocks DEF Live
<1> QED
  BY <1>1, <1>2 DEF Keeps

LEMMA FreeKeeps ==
  ASSUME Types, Numbers, Live = Allocated, NEW b, Free(b),
         expected' = expected, id' = id, LastKey' = LastKey,
         \A k \in Interval(FirstMsg', id) : k \in Interval(FirstMsg, id) /\ b # <<"msg", k>>,
         \A k \in Interval(FirstKey', LastKey) :
           k \in Interval(FirstKey, LastKey) /\ b # <<"key", k>>
  PROVE  Keeps
<1>1. \A k \in Interval(FirstMsg, id) : <<"msg", k>> \in Live
  <2>1. \A k \in Interval(FirstMsg, id) : k \in Interval(FirstMsg, LastMsg)
    BY Bounds DEF Interval
  <2> QED
    BY <2>1, LiveBlocks
<1>2. \A k \in Interval(FirstKey, LastKey) : <<"key", k>> \in Live
  BY LiveBlocks
<1>3. \A l \in Live : l # b => heap'[l] = heap[l]
  BY HeapLess
<1> QED
  BY <1>1, <1>2, <1>3 DEF Keeps

----------------------------------------------------------------------------
\* The encryption of one block, as data.
LEMMA XoredOnCPU ==
  ASSUME NEW st, NEW k
  PROVE  Xor(MsgChars(st, k), KeyChars(st, k)) = XoredChars(st, k)
BY DEF Xor, MsgChars, KeyChars, XoredChars

LEMMA Division ==
  ASSUME NEW b \in Nat, b > 0, NEW n \in Nat
  PROVE  /\ n = b * Quotient(n, b) + Remainder(n, b)
         /\ Quotient(n, b) \in Nat /\ Remainder(n, b) \in 0..(b - 1)
BY DEF Quotient, Remainder

\* Character c is in a word there is, and found again at its place.
LEMMA CharacterOfWord ==
  ASSUME NEW n \in Nat, NEW c \in 1..n
  PROVE  /\ Quotient(c - 1, WordSize) + 1 \in 1..LEN(n)
         /\ Remainder(c - 1, WordSize) + 1 \in 1..WordSize
         /\ WordSize * ((Quotient(c - 1, WordSize) + 1) - 1) + (Remainder(c - 1, WordSize) + 1) = c
<1> DEFINE q == Quotient(c - 1, WordSize)
           r == Remainder(c - 1, WordSize)
           l == Quotient(n + WordSize - 1, WordSize)
           m == Remainder(n + WordSize - 1, WordSize)
<1>1. WordSize \in Nat /\ WordSize > 0
  BY PipelineAssumption
<1>2. c - 1 = WordSize * q + r /\ q \in Nat /\ r \in 0..(WordSize - 1)
  BY <1>1, Division
<1>3. n + WordSize - 1 = WordSize * l + m /\ l \in Nat /\ m \in 0..(WordSize - 1)
  BY <1>1, Division
<1>4. LEN(n) = l
  BY DEF LEN, Quotient
<1> HIDE DEF q, r, l, m
<1>5. q + 1 <= l
  <2>1. SUFFICES ASSUME l <= q PROVE FALSE
    BY <1>2, <1>3
  <2>2. \A a, b, w \in Nat : a <= b => w * a <= w * b
    OBVIOUS
  <2>3. WordSize * l <= WordSize * q
    BY <1>1, <1>2, <1>3, <2>1, <2>2
  <2>4. WordSize * l \in Nat /\ WordSize * q \in Nat
    BY <1>1, <1>2, <1>3
  <2> QED
    BY <1>1, <1>2, <1>3, <2>3, <2>4
<1>6. (q + 1) - 1 = q /\ WordSize * q \in Nat
  BY <1>1, <1>2
<1>7. q + 1 \in 1..LEN(n) /\ r + 1 \in 1..WordSize
  BY <1>1, <1>2, <1>3, <1>4, <1>5
<1>8. WordSize * ((q + 1) - 1) + (r + 1) = c
  BY <1>2, <1>6
<1> QED
  BY <1>7, <1>8 DEF q, r

LEMMA WordCharacter ==
  ASSUME NEW n \in Nat, NEW c \in 1..n, NEW buff, NEW zero
  PROVE  convert_to_integer(buff, n, zero)[Quotient(c - 1, WordSize) + 1]
                                          [Remainder(c - 1, WordSize) + 1] = buff[c]
<1> DEFINE w == Quotient(c - 1, WordSize) + 1
           b == Remainder(c - 1, WordSize) + 1
<1>1. w \in 1..LEN(n) /\ b \in 1..WordSize /\ WordSize * (w - 1) + b = c
  BY CharacterOfWord
<1> HIDE DEF w, b
<1>2. convert_to_integer(buff, n, zero)[w][b] =
        IF WordSize * (w - 1) + b <= n THEN buff[WordSize * (w - 1) + b] ELSE zero
  BY <1>1 DEF convert_to_integer
<1>3. convert_to_integer(buff, n, zero)[w][b] = buff[c]
  BY <1>1, <1>2
<1> QED
  BY <1>3 DEF w, b

\* The way through the kernel and back gives what the processor would have given.
LEMMA XoredOnGPU ==
  ASSUME NEW st, NEW k, Size(st, k) \in Nat
  PROVE  convert_to_char(Words(st, k, Size(st, k)), Size(st, k)) = XoredChars(st, k)
<1> DEFINE n == Size(st, k)
           words == Words(st, k, n)
<1>1. ASSUME NEW c \in 1..n
      PROVE  words[((c - 1) \div WordSize) + 1][((c - 1) % WordSize) + 1] =
               <<st[k] + c, <<k, c>>>>
  <2> DEFINE w == Quotient(c - 1, WordSize) + 1
             b == Remainder(c - 1, WordSize) + 1
  <2>1. w \in 1..LEN(n) /\ b \in 1..WordSize
    BY CharacterOfWord
  <2>2. /\ Message(st, k, n)[w][b] = MsgChars(st, k)[c]
        /\ Key(st, k, n)[w][b] = KeyChars(st, k)[c]
    BY WordCharacter DEF Message, Key
  <2>3. DOMAIN (Message(st, k, n)[w]) = 1..WordSize
    <3> HIDE DEF w
    <3> QED
      BY <2>1 DEF Message, convert_to_integer
  <2>4. words[w] = Xor(Message(st, k, n)[w], Key(st, k, n)[w])
    <3> HIDE DEF w
    <3> QED
      BY <2>1 DEF Words
  <2> HIDE DEF w, b, words
  <2>5. words[w][b] = <<MsgChars(st, k)[c], KeyChars(st, k)[c]>>
    BY <2>1, <2>2, <2>3, <2>4 DEF Xor
  <2>6. MsgChars(st, k)[c] = st[k] + c /\ KeyChars(st, k)[c] = <<k, c>>
    BY DEF MsgChars, KeyChars
  <2> QED
    BY <2>5, <2>6 DEF w, b, Quotient, Remainder
<1> HIDE DEF words
<1>2. convert_to_char(words, n) = [c \in 1..n |-> <<st[k] + c, <<k, c>>>>]
  BY <1>1 DEF convert_to_char
<1> QED
  BY <1>2 DEF XoredChars, words

----------------------------------------------------------------------------
\* The steps of the queue that leave the blocks where they are.
BlocksStay == \/ AtPushLock \/ AtPushUnlock \/ AtNotifyNobody \/ AtNotifyOne
              \/ AtPopLock \/ AtPopRelock \/ AtPopWait \/ AtPopFound
              \/ AtPopFront \/ AtPopReturn \/ AtWakeup

LEMMA BlocksStayWhere ==
  ASSUME Types, Control, BlocksStay
  PROVE  /\ queue_' = queue_ /\ (Taken' <=> Taken) /\ (MainHas' <=> MainHas)
         /\ Taken => item'[Worker] = item[Worker]
<1>1. CASE AtPushLock \/ AtPushUnlock
  <2>1. /\ pc'[Worker] = pc[Worker] /\ item' = item /\ queue_' = queue_
        /\ \/ pc[Main] = "lock" /\ pc'[Main] = "push"
           \/ pc[Main] = "pushed" /\ pc'[Main] = "notify"
    BY <1>1, PipelineAssumption DEF Types, AtPushLock, AtPushUnlock, Q!PushLock, Q!PushUnlock,
        Q!Goto
  <2>2. mainAt' = mainAt /\ workerAt' = workerAt /\ mainAt = "in push"
    BY <1>1 DEF AtPushLock, AtPushUnlock, InQueue, mainVars, workerVars
  <2> QED
    BY <2>1, <2>2 DEF Taken, MainHas
<1>2. CASE AtNotifyNobody \/ AtNotifyOne
  <2>1. /\ mainAt' = mainAt /\ workerAt' = workerAt /\ mainAt = "in push"
        /\ queue_' = queue_ /\ item' = [item EXCEPT ![Main] = None] /\ pc[Main] = "notify"
    BY <1>2 DEF AtNotifyNobody, AtNotifyOne, InQueue, mainVars, workerVars, Q!NotifyNobody,
                Q!NotifyOne, Q!Goto
  <2>2. pc'[Main] = "idle" /\ \/ pc'[Worker] = pc[Worker]
                              \/ pc[Worker] = "wait" /\ pc'[Worker] = "woken"
    <3>1. CASE AtNotifyNobody
      BY <3>1, PipelineAssumption DEF AtNotifyNobody, Q!NotifyNobody, Q!Goto, Types
    <3>2. CASE AtNotifyOne
      <4>1. waiters # {} /\ pc' = [pc EXCEPT ![Main] = "idle", ![Worker] = "woken"]
        <5>1. PICK c \in waiters : pc' = [pc EXCEPT ![Main] = "idle", ![c] = "woken"]
          BY <3>2 DEF AtNotifyOne, Q!NotifyOne
        <5> QED
          BY <5>1 DEF Types
      <4>2. pc[Worker] = "wait"
        BY <4>1 DEF Control, WorkerControl
      <4> QED
        BY <4>1, <4>2, PipelineAssumption DEF Types
    <3> QED
      BY <1>2, <3>1, <3>2
  <2>3. item'[Worker] = item[Worker]
    BY <2>1, PipelineAssumption DEF Types
  <2> QED
    BY <2>1, <2>2, <2>3 DEF Taken, MainHas
<1>3. CASE AtPopLock \/ AtPopRelock \/ AtPopWait \/ AtPopFound
  <2>1. /\ pc'[Main] = pc[Main] /\ item' = item /\ queue_' = queue_
        /\ \/ pc[Worker] = "lock" /\ pc'[Worker] = "test"
           \/ pc[Worker] = "woken" /\ pc'[Worker] = "test"
           \/ pc[Worker] = "test" /\ pc'[Worker] = "wait"
           \/ pc[Worker] = "test" /\ pc'[Worker] = "front"
    BY <1>3, PipelineAssumption
    DEF Types, AtPopLock, AtPopRelock, AtPopWait, AtPopFound, Q!PopLock, Q!PopRelock, Q!PopWait,
        Q!PopFound, Q!Goto
  <2>2. mainAt' = mainAt /\ workerAt' = workerAt
    BY <1>3 DEF AtPopLock, AtPopRelock, AtPopWait, AtPopFound, InQueue, mainVars, workerVars
  <2> QED
    BY <2>1, <2>2 DEF Taken, MainHas
<1>4. CASE AtPopFront
  <2>1. /\ pc'[Main] = pc[Main] /\ queue_' = queue_
        /\ pc[Worker] = "front" /\ pc'[Worker] = "remove"
    BY <1>4, PipelineAssumption DEF Types, AtPopFront, Q!PopFront, Q!Goto
  <2>2. mainAt' = mainAt /\ workerAt' = workerAt
    BY <1>4 DEF AtPopFront, InQueue, mainVars, workerVars
  <2> QED
    BY <2>1, <2>2 DEF Taken, MainHas
<1>5. CASE AtPopReturn \/ AtWakeup
  <2>1. /\ pc'[Main] = pc[Main] /\ item' = item /\ queue_' = queue_
        /\ \/ pc[Worker] = "return" /\ pc'[Worker] = "idle"
           \/ pc[Worker] = "wait" /\ pc'[Worker] = "woken"
    BY <1>5, PipelineAssumption
    DEF Types, AtPopReturn, AtWakeup, Q!PopReturn, Q!SpuriousWakeup, Q!Goto
  <2>2. mainAt' = mainAt /\ workerAt' = workerAt
    BY <1>5 DEF AtPopReturn, AtWakeup, InQueue, mainVars, workerVars
  <2> QED
    BY <2>1, <2>2 DEF Taken, MainHas
<1> QED
  BY <1>1, <1>2, <1>3, <1>4, <1>5 DEF BlocksStay

LEMMA AppendMoves ==
  ASSUME Types, Control, AtPushAppend
  PROVE  /\ queue_' = Append(queue_, data) /\ data \in Data /\ MainHas /\ ~MainHas'
         /\ (Taken' <=> Taken) /\ item' = item
<1>1. /\ pc'[Worker] = pc[Worker] /\ item' = item /\ queue_' = Append(queue_, item[Main])
      /\ pc[Main] = "push" /\ pc'[Main] = "pushed"
  BY PipelineAssumption DEF Types, AtPushAppend, Q!PushAppend, Q!Goto
<1>2. mainAt' = mainAt /\ workerAt' = workerAt /\ mainAt = "in push"
  BY DEF AtPushAppend, InQueue, mainVars, workerVars
<1>3. item[Main] = data /\ data \in Data
  BY <1>1, <1>2 DEF Control, MainControl
<1> QED
  BY <1>1, <1>2, <1>3 DEF Taken, MainHas

LEMMA RemoveMoves ==
  ASSUME Types, Control, AtPopRemove
  PROVE  /\ queue_ # <<>> /\ queue_' = Tail(queue_) /\ item'[Worker] = Head(queue_)
         /\ ~Taken /\ Taken' /\ (MainHas' <=> MainHas)
<1>1. /\ pc'[Main] = pc[Main] /\ item' = item /\ queue_' = Tail(queue_)
      /\ pc[Worker] = "remove" /\ pc'[Worker] = "return"
  BY PipelineAssumption DEF Types, AtPopRemove, Q!PopRemove, Q!Goto
<1>2. mainAt' = mainAt /\ workerAt' = workerAt /\ workerAt = "in pop"
  BY DEF AtPopRemove, InQueue, mainVars, workerVars
<1>3. queue_ # <<>> /\ item[Worker] = Head(queue_)
  BY <1>1 DEF Control, WorkerControl
<1> QED
  BY <1>1, <1>2, <1>3 DEF Taken, MainHas

----------------------------------------------------------------------------
\* The lengths.
LEMMA LengthsStay ==
  ASSUME NEW st, Lengths(st), queue_' = queue_, (Taken' <=> Taken), (MainHas' => MainHas),
         Taken => item'[Worker] = item[Worker], Jobs' = Jobs, id' = id, data' = data, job' = job,
         workerAt' \in HasMsg => workerAt \in HasMsg
  PROVE  Lengths(st)'
<1>1. Queued' = Queued
  BY DEF Queued
<1> QED
  BY <1>1 DEF Lengths

LEMMA LengthsAppend ==
  ASSUME Types, Control, Numbers, NEW st, Lengths(st), AtPushAppend
  PROVE  Lengths(st)'
<1>1. /\ queue_' = Append(queue_, data) /\ data \in Data /\ MainHas /\ ~MainHas'
      /\ (Taken' <=> Taken) /\ item' = item
  BY AppendMoves
<1>2. Jobs' = Jobs /\ id' = id /\ workerAt' = workerAt /\ job' = job /\ Queued' = Queued
  <2>1. AtPushAppend => InQueueStep
    BY DEF InQueueStep
  <2>2. id' = id /\ workerAt' = workerAt /\ job' = job
    BY DEF AtPushAppend, InQueue, mainVars, readVars, workerVars
  <2> QED
    BY <1>1, <2>2 DEF Queued, Jobs
<1>3. /\ Len(queue_) \in Nat /\ Len(queue_') = Len(queue_) + 1
      /\ queue_'[Len(queue_) + 1] = data
      /\ \A k \in 1..Len(queue_) : queue_'[k] = queue_[k]
  BY <1>1, AppendProperties, LenProperties DEF Types
<1>4. Queued + Len(queue_) = id - 1
  BY <1>1 DEF Numbers, Given
<1>5. ASSUME NEW k \in 1..Len(queue_') PROVE queue_'[k].len = Size(st, Queued + k - 1)
  <2>1. CASE k = Len(queue_) + 1
    <3>1. Queued \in Nat
      BY JobsNat DEF Queued
    <3>2. Queued + k - 1 = id - 1
      BY <1>3, <1>4, <2>1, <3>1
    <3> QED
      BY <1>1, <1>3, <2>1, <3>2 DEF Lengths
  <2>2. CASE k # Len(queue_) + 1
    <3>1. k \in 1..Len(queue_)
      BY <1>3, <2>2
    <3> QED
      BY <1>3, <3>1 DEF Lengths
  <2> QED
    BY <2>1, <2>2
<1> QED
  BY <1>1, <1>2, <1>5 DEF Lengths

LEMMA LengthsRemove ==
  ASSUME Types, Control, Numbers, NEW st, Lengths(st), AtPopRemove
  PROVE  Lengths(st)'
<1>1. /\ queue_ # <<>> /\ queue_' = Tail(queue_) /\ item'[Worker] = Head(queue_)
      /\ ~Taken /\ Taken' /\ (MainHas' <=> MainHas)
  BY RemoveMoves
<1>2. Jobs' = Jobs /\ id' = id /\ workerAt' = workerAt /\ job' = job /\ data' = data
      /\ Queued = Jobs /\ Queued' = Jobs + 1 /\ Jobs \in Nat
  <2>1. id' = id /\ workerAt' = workerAt /\ job' = job /\ data' = data
    BY DEF AtPopRemove, InQueue, mainVars, readVars, workerVars
  <2> QED
    BY <1>1, <2>1, JobsNat DEF Queued, Jobs
<1>3. /\ Len(queue_) \in Nat /\ Len(queue_) > 0 /\ item'[Worker] = queue_[1]
      /\ Len(queue_') = Len(queue_) - 1
      /\ \A k \in 1..Len(queue_') : queue_'[k] = queue_[k + 1]
  BY <1>1, HeadTailProperties, EmptySeq, LenProperties DEF Types
<1>4. ASSUME NEW k \in 1..Len(queue_') PROVE queue_'[k].len = Size(st, Queued' + k - 1)
  <2>1. k + 1 \in 1..Len(queue_) /\ Queued + (k + 1) - 1 = Queued' + k - 1
    BY <1>2, <1>3
  <2>2. queue_[k + 1].len = Size(st, Queued + (k + 1) - 1)
    BY <2>1 DEF Lengths
  <2> QED
    BY <1>3, <2>1, <2>2
<1>5. item'[Worker].len = Size(st, Jobs')
  <2>1. 1 \in 1..Len(queue_) /\ Queued + 1 - 1 = Jobs
    BY <1>2, <1>3
  <2>2. queue_[1].len = Size(st, Queued + 1 - 1)
    BY <2>1 DEF Lengths
  <2> QED
    BY <1>2, <1>3, <2>1, <2>2
<1> QED
  BY <1>1, <1>2, <1>4, <1>5 DEF Lengths

----------------------------------------------------------------------------
\* What the worker has made so far stays while main works.
LEMMA LiveProgress ==
  ASSUME Types, Control, Numbers, Live = Allocated
  PROVE  /\ workerAt = "kernel" => /\ <<"integer_msg", job.id>> \in Live
                                   /\ <<"integer_key", job.id>> \in Live
         /\ workerAt = "convert" => <<"tmp", job.id>> \in Live
         /\ workerAt = "write" => <<"decrypted", job.id>> \in Live
<1>1. ASSUME workerAt = "kernel" \/ workerAt = "convert" \/ workerAt = "write"
      PROVE  job.id \in Nat /\ Jobs = job.id + 1
  <2>1. workerAt \in HasBlock
    BY <1>1 DEF HasBlock, HasKey, HasMsg, NotWritten
  <2> QED
    BY <2>1, JobNumbers
<1>2. ASSUME workerAt = "kernel"
      PROVE  <<"integer_msg", job.id>> \in Live /\ <<"integer_key", job.id>> \in Live
  <2>1. onGPU
    BY <1>2 DEF Control, GPUControl
  <2>2. job.id \in Interval(0, Converted) /\ Result = {}
    BY <1>1, <1>2, <2>1 DEF Converted, Before, Interval, Result, Decrypting
  <2>3. Result \subseteq {"decrypted"} \X Nat
    BY <2>2
  <2> QED
    BY <2>2, <2>3, Kinds DEF Allocated
<1>3. ASSUME workerAt = "convert" PROVE <<"tmp", job.id>> \in Live
  <2>1. onGPU
    BY <1>3 DEF Control, GPUControl
  <2>2. job.id \in Interval(0, Xored) /\ Result = {}
    BY <1>1, <1>3, <2>1 DEF Xored, Before, Interval, Result, Decrypting
  <2>3. Result \subseteq {"decrypted"} \X Nat
    BY <2>2
  <2> QED
    BY <2>2, <2>3, Kinds DEF Allocated
<1>4. ASSUME workerAt = "write" PROVE <<"decrypted", job.id>> \in Live
  <2>1. Result = {<<"decrypted", job.id>>} /\ Result \subseteq {"decrypted"} \X Nat
    BY <1>1, <1>4 DEF Result, Decrypting
  <2> QED
    BY <2>1, Kinds DEF Allocated
<1> QED
  BY <1>2, <1>3, <1>4

LEMMA ProgressStays ==
  ASSUME Types, Control, Numbers, Live = Allocated, NEW st, Progress(st),
         workerAt' = workerAt, job' = job,
         \A k : \A t \in {"integer_msg", "integer_key", "tmp", "decrypted"} :
            <<t, k>> \in Live => heap'[<<t, k>>] = heap[<<t, k>>]
  PROVE  Progress(st)'
<1>1. ASSUME workerAt = "kernel"
      PROVE  /\ heap'[<<"integer_msg", job.id>>] = heap[<<"integer_msg", job.id>>]
             /\ heap'[<<"integer_key", job.id>>] = heap[<<"integer_key", job.id>>]
  BY <1>1, LiveProgress
<1>2. ASSUME workerAt = "convert" PROVE heap'[<<"tmp", job.id>>] = heap[<<"tmp", job.id>>]
  BY <1>2, LiveProgress
<1>3. ASSUME workerAt = "write"
      PROVE  heap'[<<"decrypted", job.id>>] = heap[<<"decrypted", job.id>>]
  BY <1>3, LiveProgress
<1> HIDE DEF Message, Key, Words
<1> QED
  BY <1>1, <1>2, <1>3 DEF Progress

Correct == Streams /\ Right(out \o stdio, expected)

LEMMA CorrectSame ==
  ASSUME Correct, expected' = expected, stdio' = stdio, out' = out
  PROVE  Correct'
BY DEF Correct, Streams

LEMMA OutputSame ==
  ASSUME NEW st, Output(st), out' = out, stdio' = stdio, Written' = Written,
         mainAt' # "terminated" => mainAt # "terminated"
  PROVE  Output(st)'
BY DEF Output

----------------------------------------------------------------------------
\* The steps.
LEMMA StutterContents ==
  ASSUME NEW st, Contents(st), Correct, UNCHANGED vars
  PROVE  Contents(st)' /\ Correct'
<1>1. /\ heap' = heap /\ pc' = pc /\ item' = item /\ queue_' = queue_ /\ mainAt' = mainAt
      /\ data' = data /\ id' = id /\ expected' = expected /\ workerAt' = workerAt /\ job' = job
      /\ stdio' = stdio /\ out' = out /\ onGPU' = onGPU
  BY DEF vars, queueVars, mainVars, readVars, workerVars, outVars
<1>2. Correct'
  BY <1>1, CorrectSame
<1>3. Jobs' = Jobs /\ (Taken' <=> Taken) /\ (MainHas' <=> MainHas)
  BY <1>1 DEF Jobs, Taken, MainHas
<1>4. FirstMsg' = FirstMsg /\ FirstKey' = FirstKey /\ LastKey' = LastKey /\ Written' = Written
  BY <1>1, <1>3 DEF FirstMsg, FirstKey, LastKey, Written, Before
<1>5. Messages(st)' /\ Keys(st)'
  BY <1>1, <1>4 DEF Contents, Messages, Keys, Cut
<1>6. Lengths(st)'
  BY <1>1, <1>3, LengthsStay DEF Contents
<1>7. Progress(st)'
  BY <1>1 DEF Contents, Progress
<1>8. Output(st)'
  BY <1>1, <1>4, OutputSame DEF Contents
<1> QED
  BY <1>2, <1>5, <1>6, <1>7, <1>8 DEF Contents

LEMMA InQueueContents ==
  ASSUME Types, Control, Numbers, Live = Allocated, NEW st, Contents(st), Correct,
         onGPU' = onGPU, InQueueStep
  PROVE  Contents(st)' /\ Correct'
<1>1. /\ heap' = heap /\ SameMarks /\ Jobs' = Jobs /\ Written' = Written /\ id' = id
      /\ mainAt' = mainAt /\ workerAt' = workerAt /\ data' = data /\ job' = job
      /\ expected' = expected /\ stdio' = stdio /\ out' = out
  BY InQueueSame
<1>2. Messages(st)' /\ Keys(st)'
  BY <1>1, QuietKeeps, BlocksSame DEF Contents
<1>3. Lengths(st)'
  <2>1. CASE BlocksStay
    <3>1. /\ queue_' = queue_ /\ (Taken' <=> Taken) /\ (MainHas' <=> MainHas)
          /\ Taken => item'[Worker] = item[Worker]
      BY <2>1, BlocksStayWhere
    <3> QED
      BY <1>1, <3>1, LengthsStay DEF Contents
  <2>2. CASE AtPushAppend
    BY <2>2, LengthsAppend DEF Contents
  <2>3. CASE AtPopRemove
    BY <2>3, LengthsRemove DEF Contents
  <2> QED
    BY <2>1, <2>2, <2>3 DEF InQueueStep, BlocksStay
<1>4. Progress(st)'
  BY <1>1 DEF Contents, Progress
<1>5. Output(st)'
  BY <1>1, OutputSame DEF Contents
<1> QED
  BY <1>1, <1>2, <1>3, <1>4, <1>5, CorrectSame DEF Contents

LEMMA MainMovesContents ==
  ASSUME Types, Control, Numbers, Live = Allocated, NEW st, Contents(st), Correct,
         onGPU' = onGPU, MainMoves
  PROVE  Contents(st)' /\ Correct'
<1>1. /\ heap' = heap /\ SameMarks /\ Jobs' = Jobs /\ Written' = Written /\ id' = id
      /\ data' = data /\ job' = job /\ expected' = expected
  BY MainMovesSame
<1>2. Messages(st)' /\ Keys(st)'
  BY <1>1, QuietKeeps, BlocksSame DEF Contents
<1>3. /\ queue_' = queue_ /\ item'[Worker] = item[Worker] /\ pc'[Worker] = pc[Worker]
  BY PipelineAssumption
  DEF MainMoves, Start, CallPush, Loop, Break, Return, queueVars, Q!PushCall, Q!Goto, Types
<1>4. \/ workerAt' = workerAt
      \/ workerAt = "not started" /\ workerAt' = "pop"
  BY DEF MainMoves, Start, CallPush, Loop, Break, Return, workerVars, MainGoto, Control,
      MainControl
<1>5. MainHas' => MainHas
  <2>1. CASE CallPush
    <3>1. mainAt = "push"
      BY <2>1 DEF CallPush, MainGoto
    <3> QED
      BY <3>1 DEF MainHas
  <2>2. CASE ~CallPush
    <3>1. mainAt' = "malloc" \/ mainAt' = "sleep" \/ mainAt' = "terminated"
      BY <2>2 DEF MainMoves, Start, Loop, Break, Return, MainGoto
    <3> QED
      BY <3>1 DEF MainHas
  <2> QED
    BY <2>1, <2>2
<1>6. Lengths(st)'
  <2>1. Taken' <=> Taken
    BY <1>3, <1>4 DEF Taken
  <2>2. workerAt' \in HasMsg => workerAt \in HasMsg
    BY <1>4 DEF HasMsg, NotWritten
  <2> QED
    BY <1>1, <1>3, <1>5, <2>1, <2>2, LengthsStay DEF Contents
<1>7. Progress(st)'
  BY <1>1, <1>4 DEF Contents, Progress
<1>8. CASE Return
  <2>1. stdio' = <<>> /\ out' = out /\ mainAt' = "terminated"
    BY <1>8 DEF Return, MainGoto
  <2>2. Output(st)'
    BY <2>1 DEF Output
  <2>3. Streams'
    BY <1>1, <2>1, EmptySeq DEF Correct, Streams
  <2>4. out' \o stdio' = out
    BY <2>1, ConcatEmptySeq DEF Correct, Streams
  <2>5. /\ Len(out) \in Nat /\ Len(stdio) \in Nat /\ Len(out \o stdio) = Len(out) + Len(stdio)
        /\ \A c \in 1..Len(out) : (out \o stdio)[c] = out[c]
    BY ConcatProperties, LenProperties DEF Correct, Streams
  <2>6. Right(out, expected)
    BY <2>5, LenProperties DEF Correct, Streams, Right
  <2> QED
    BY <1>1, <1>2, <1>6, <1>7, <2>2, <2>3, <2>4, <2>6 DEF Contents, Correct
<1>9. CASE ~Return
  <2>1. stdio' = stdio /\ out' = out /\ mainAt' # "terminated" /\ mainAt # "terminated"
    BY <1>9 DEF MainMoves, Start, CallPush, Loop, Break, MainGoto, outVars, workerVars
  <2> QED
    BY <1>1, <1>2, <1>6, <1>7, <2>1, CorrectSame, OutputSame DEF Contents
<1> QED
  BY <1>8, <1>9

LEMMA MallocContents ==
  ASSUME Types, Control, Numbers, Live = Allocated, NEW st, Contents(st), Correct,
         onGPU' = onGPU, MallocBlock
  PROVE  Contents(st)' /\ Correct'
<1>1. /\ mainAt = "malloc" /\ mainAt' = "read" /\ id' = id /\ expected' = expected
      /\ workerAt' = workerAt /\ job' = job /\ stdio' = stdio /\ out' = out
      /\ pc' = pc /\ item' = item /\ queue_' = queue_
  BY DEF MallocBlock, MainGoto, queueVars, readVars, workerVars, outVars
<1>2. Jobs' = Jobs /\ (Taken' <=> Taken) /\ ~MainHas' /\ Queued' = Queued
  <2>1. Jobs' = Jobs /\ (Taken' <=> Taken) /\ ~MainHas'
    BY <1>1 DEF Jobs, Taken, MainHas
  <2> QED
    BY <2>1 DEF Queued
<1>3. /\ LastKey = id /\ LastKey' = id /\ FirstMsg' = FirstMsg /\ FirstKey' = FirstKey
      /\ Written' = Written /\ id \in Nat
  BY <1>1, <1>2, Bounds DEF LastKey, FirstMsg, FirstKey, Written, Before
<1>4. /\ heap' = With(With(heap, <<"msg", id>>, <<>>), <<"unused", id>>, <<>>)
      /\ \A l \in Live : l # <<"msg", id>> /\ l # <<"unused", id>> => heap'[l] = heap[l]
  <2>1. heap' = With(With(heap, <<"msg", id>>, <<>>), <<"unused", id>>, <<>>)
    BY DEF MallocBlock
  <2> QED
    BY <2>1 DEF With, Live
<1>5. Keeps
  <2>1. ASSUME NEW k \in Interval(FirstMsg, id)
        PROVE  heap'[<<"msg", k>>] = heap[<<"msg", k>>]
    <3>1. k \in Interval(FirstMsg, LastMsg) /\ k # id
      BY Bounds DEF Interval
    <3> QED
      BY <1>4, <3>1, LiveBlocks
  <2>2. ASSUME NEW k \in Interval(FirstKey, LastKey)
        PROVE  heap'[<<"key", k>>] = heap[<<"key", k>>]
    BY <1>4, LiveBlocks
  <2> QED
    BY <1>1, <1>3, <2>1, <2>2 DEF Keeps
<1>6. Messages(st)' /\ Keys(st)'
  BY <1>5, BlocksSame DEF Contents
<1>7. Lengths(st)'
  BY <1>1, <1>2 DEF Contents, Lengths
<1>8. Progress(st)'
  <2>1. \A k : \A t \in {"integer_msg", "integer_key", "tmp", "decrypted"} :
           <<t, k>> \in Live => heap'[<<t, k>>] = heap[<<t, k>>]
    BY <1>4
  <2> QED
    BY <1>1, <2>1, ProgressStays DEF Contents
<1>9. Output(st)'
  BY <1>1, <1>3, OutputSame DEF Contents
<1> QED
  BY <1>1, <1>6, <1>7, <1>8, <1>9, CorrectSame DEF Contents

LEMMA KeyContents ==
  ASSUME Types, Control, Numbers, Live = Allocated, NEW st, Contents(st), Correct,
         onGPU' = onGPU, GenerateKey
  PROVE  Contents(st)' /\ Correct'
<1>1. /\ mainAt = "keygen" /\ mainAt' = "push" /\ id' = id /\ expected' = expected
      /\ workerAt' = workerAt /\ job' = job /\ stdio' = stdio /\ out' = out
      /\ pc' = pc /\ item' = item /\ queue_' = queue_
  BY DEF GenerateKey, MainGoto, queueVars, readVars, workerVars, outVars
<1>2. Jobs' = Jobs /\ (Taken' <=> Taken) /\ MainHas /\ Queued' = Queued
  <2>1. Jobs' = Jobs /\ (Taken' <=> Taken) /\ MainHas
    BY <1>1 DEF Jobs, Taken, MainHas
  <2> QED
    BY <2>1 DEF Queued
<1>3. /\ LastKey = id - 1 /\ LastKey' = id /\ FirstMsg' = FirstMsg /\ FirstKey' = FirstKey
      /\ Written' = Written
  BY <1>1, <1>2 DEF LastKey, FirstMsg, FirstKey, Written, Before
<1>4. /\ data.id = id - 1 /\ data.len = Size(st, id - 1) /\ data'.len = data.len
      /\ id \in Nat /\ id - 1 \in Nat
  <2>1. data.id = id - 1 /\ data \in Data
    BY <1>1 DEF Numbers, Control, MainControl
  <2>2. data.len = Size(st, id - 1)
    BY <1>2 DEF Contents, Lengths
  <2>3. data'.len = data.len
    BY <2>1 DEF GenerateKey, Data
  <2>4. id \in Nat /\ id - 1 \in Nat
    BY <1>3, Bounds
  <2> QED
    BY <2>1, <2>2, <2>3, <2>4
<1>5. /\ heap'[<<"key", id - 1>>] = KeyChars(st, id - 1)
      /\ \A l \in Live : l # <<"key", id - 1>> => heap'[l] = heap[l]
  <2>1. heap' = With(heap, <<"key", id - 1>>, [n \in 1..Size(st, id - 1) |-> <<id - 1, n>>])
    BY <1>4 DEF GenerateKey, Malloc
  <2> QED
    BY <2>1 DEF With, Live, KeyChars
<1>6. Messages(st)'
  <2>1. ASSUME NEW k \in Interval(FirstMsg, id)
        PROVE  heap'[<<"msg", k>>] = heap[<<"msg", k>>]
    <3>1. k \in Interval(FirstMsg, LastMsg)
      BY Bounds DEF Interval
    <3> QED
      BY <1>5, <3>1, LiveBlocks
  <2> QED
    BY <1>1, <1>3, <2>1 DEF Contents, Messages, Cut
<1>7. Keys(st)'
  <2>1. ASSUME NEW k \in Interval(FirstKey, id)
        PROVE  heap'[<<"key", k>>] = KeyChars(st, k)
    <3>1. CASE k = id - 1
      BY <1>5, <3>1
    <3>2. CASE k # id - 1
      <4>1. k \in Interval(FirstKey, LastKey)
        BY <1>3, <1>4, <3>2 DEF Interval
      <4>2. heap'[<<"key", k>>] = heap[<<"key", k>>]
        BY <1>5, <3>2, <4>1, LiveBlocks
      <4> QED
        BY <4>1, <4>2 DEF Contents, Keys
    <3> QED
      BY <3>1, <3>2
  <2> QED
    BY <1>3, <2>1 DEF Keys
<1>8. Lengths(st)'
  BY <1>1, <1>2, <1>4 DEF Contents, Lengths
<1>9. Progress(st)'
  <2>1. \A k : \A t \in {"integer_msg", "integer_key", "tmp", "decrypted"} :
           <<t, k>> \in Live => heap'[<<t, k>>] = heap[<<t, k>>]
    BY <1>5
  <2> QED
    BY <1>1, <2>1, ProgressStays DEF Contents
<1>10. Output(st)'
  BY <1>1, <1>3, OutputSame DEF Contents
<1> QED
  BY <1>1, <1>6, <1>7, <1>8, <1>9, <1>10, CorrectSame DEF Contents

LEMMA CallPopContents ==
  ASSUME Types, Control, Numbers, Live = Allocated, NEW st, Contents(st), Correct,
         onGPU' = onGPU, CallPop
  PROVE  Contents(st)' /\ Correct'
<1>1. /\ workerAt = "pop" /\ workerAt' = "in pop" /\ heap' = heap
      /\ id' = id /\ mainAt' = mainAt /\ data' = data /\ expected' = expected /\ job' = job
      /\ stdio' = stdio /\ out' = out /\ queue_' = queue_ /\ item' = item
  BY DEF CallPop, WorkerGoto, mainVars, readVars, outVars, Q!PopCall
<1>2. pc'[Worker] = "lock" /\ pc'[Main] = pc[Main]
  BY PipelineAssumption DEF CallPop, Q!PopCall, Q!Goto, Types
<1>3. Jobs' = Jobs /\ ~Taken /\ ~Taken' /\ (MainHas' <=> MainHas)
  BY <1>1, <1>2 DEF Jobs, Taken, MainHas
<1>4. SameMarks /\ Written' = Written
  BY <1>1, <1>3
  DEF SameMarks, LastMsg, LastKey, FirstMsg, FirstKey, Converted, Xored, Result, Written, Before,
      HasMsg, HasKey, NotWritten, Decrypting
<1>5. Messages(st)' /\ Keys(st)'
  BY <1>1, <1>4, QuietKeeps, BlocksSame DEF Contents
<1>6. Lengths(st)'
  <2>1. workerAt' \notin HasMsg
    BY <1>1 DEF HasMsg, NotWritten
  <2> QED
    BY <1>1, <1>3, <2>1, LengthsStay DEF Contents
<1>7. Progress(st)'
  BY <1>1 DEF Progress
<1>8. Output(st)'
  BY <1>1, <1>4, OutputSame DEF Contents
<1> QED
  BY <1>1, <1>5, <1>6, <1>7, <1>8, CorrectSame DEF Contents

LEMMA PoppedContents ==
  ASSUME Types, Control, Numbers, Live = Allocated, NEW st, Contents(st), Correct,
         onGPU' = onGPU, Popped
  PROVE  Contents(st)' /\ Correct'
<1>1. /\ workerAt = "in pop" /\ workerAt' = "xor" /\ heap' = heap
      /\ id' = id /\ mainAt' = mainAt /\ data' = data /\ expected' = expected
      /\ job' = item[Worker] /\ Taken
      /\ stdio' = stdio /\ out' = out /\ queue_' = queue_ /\ pc' = pc
  BY DEF Popped, WorkerGoto, queueVars, mainVars, readVars, outVars, Taken
<1>2. IsBlock(item[Worker], Jobs) /\ Jobs \in Nat /\ item[Worker] # None
  BY <1>1, JobsNat, PipelineAssumption DEF Numbers, IsBlock
<1>3. Jobs' = Jobs + 1 /\ Jobs' - 1 = Jobs /\ job'.id = Jobs
  <2>1. job'.id = Jobs /\ job' # None
    BY <1>1, <1>2 DEF IsBlock
  <2>2. Jobs' = job'.id + 1
    BY <2>1 DEF Jobs
  <2> QED
    BY <1>2, <2>1, <2>2
<1>4. ~Taken' /\ (MainHas' <=> MainHas) /\ Queued' = Queued
  <2>1. ~Taken' /\ (MainHas' <=> MainHas)
    BY <1>1 DEF Taken, MainHas
  <2> QED
    BY <1>1, <1>3, <2>1 DEF Queued
<1>5. /\ LastKey' = LastKey
      /\ FirstMsg' = FirstMsg /\ FirstKey' = FirstKey
      /\ Written' = Written
  BY <1>1, <1>3 DEF LastKey, FirstMsg, FirstKey, Written, Before, HasMsg, HasKey, NotWritten
<1>6. Messages(st)' /\ Keys(st)'
  <2>1. Keeps
    BY <1>1, <1>5 DEF Keeps
  <2> QED
    BY <2>1, BlocksSame DEF Contents
<1>7. Lengths(st)'
  <2>1. job'.len = Size(st, job'.id)
    BY <1>1, <1>3 DEF Contents, Lengths
  <2> QED
    BY <1>1, <1>4, <2>1 DEF Contents, Lengths
<1>8. Progress(st)'
  BY <1>1 DEF Progress
<1>9. Output(st)'
  BY <1>1, <1>5, OutputSame DEF Contents
<1> QED
  BY <1>1, <1>6, <1>7, <1>8, <1>9, CorrectSame DEF Contents

\* What is in front of the block that is read does not change.
LEMMA SameBelow ==
  ASSUME NEW st, NEW st2, NEW k, st2[k] = st[k], st2[k + 1] = st[k + 1]
  PROVE  /\ Size(st2, k) = Size(st, k) /\ MsgChars(st2, k) = MsgChars(st, k)
         /\ KeyChars(st2, k) = KeyChars(st, k) /\ XoredChars(st2, k) = XoredChars(st, k)
<1>1. Size(st2, k) = Size(st, k)
  BY DEF Size
<1> QED
  BY <1>1 DEF MsgChars, KeyChars, XoredChars

LEMMA InsideCut ==
  ASSUME NEW a \in Nat, NEW b \in Nat, NEW length \in Nat, a <= b, b <= length,
         NEW c \in 1..(b - a)
  PROVE  a + c \in 1..length
OBVIOUS

LEMMA ReadsContents ==
  ASSUME Types, Control, Numbers, Live = Allocated, NEW st \in [Nat -> Nat], Contents(st), Correct,
         onGPU' = onGPU, Reads
  PROVE  (\E st2 \in [Nat -> Nat] : Contents(st2)') /\ Correct'
<1>1. PICK bytes \in Nat : Read(bytes)
  BY DEF Reads
<1> DEFINE more == [n \in 1..bytes |-> <<Len(expected) + n, <<id, n>>>>]
           end  == Len(expected) + bytes
<1>2. /\ mainAt = "read" /\ mainAt' = "keygen" /\ id' = id + 1 /\ expected' = expected \o more
      /\ workerAt' = workerAt /\ job' = job /\ stdio' = stdio /\ out' = out
      /\ pc' = pc /\ item' = item /\ queue_' = queue_
  BY <1>1 DEF Read, MainGoto, queueVars, workerVars, outVars
<1>3. id \in Nat /\ Len(expected) \in Nat /\ end \in Nat
  BY LenProperties DEF Types, Correct, Streams
<1>a. data \in Data /\ data.msg = <<"msg", id>>
  BY <1>2 DEF Numbers, Control, MainControl
<1>4. data'.len = bytes
  BY <1>1, <1>a DEF Read, Data
<1>5. /\ more \in Seq(Char) /\ Len(more) = bytes
      /\ \A n \in 1..bytes : more[n] = <<Len(expected) + n, <<id, n>>>>
  <2> HIDE DEF more
  <2>1. more = [n \in 1..bytes |-> <<Len(expected) + n, <<id, n>>>>]
    BY DEF more
  <2>2. more \in Seq(Char) /\ Len(more) = bytes
    <3>1. ASSUME NEW n \in 1..bytes PROVE <<Len(expected) + n, <<id, n>>>> \in Char
      <4>1. Len(expected) + n \in Nat /\ n \in Nat
        BY <1>3
      <4> QED
        BY <1>3, <4>1 DEF Char
    <3>2. more \in [1..bytes -> Char]
      BY <2>1, <3>1
    <3> QED
      BY <3>2, LenProperties
  <2> QED
    BY <2>1, <2>2
<1> HIDE DEF more
<1>6. /\ expected' \in Seq(Char) /\ Len(expected') = end
      /\ \A c \in 1..Len(expected) : expected'[c] = expected[c]
      /\ \A n \in 1..bytes : expected'[Len(expected) + n] = <<Len(expected) + n, <<id, n>>>>
  <2>1. /\ expected' \in Seq(Char) /\ Len(expected') = end
        /\ \A c \in 1..end : expected'[c] = IF c <= Len(expected) THEN expected[c]
                                            ELSE more[c - Len(expected)]
    BY <1>2, <1>5, ConcatProperties DEF Correct, Streams
  <2>2. \A n \in 1..bytes : /\ Len(expected) + n \in 1..end /\ ~(Len(expected) + n <= Len(expected))
                            /\ (Len(expected) + n) - Len(expected) = n
    BY <1>3
  <2>3. \A c \in 1..Len(expected) : c \in 1..end /\ c <= Len(expected)
    BY <1>3
  <2> QED
    BY <1>5, <2>1, <2>2, <2>3
<1>7. PICK st2 \in [Nat -> Nat] : st2[id + 1] = end /\ \A k \in 0..id : st2[k] = st[k]
  <2>1. [st EXCEPT ![id + 1] = end] \in [Nat -> Nat]
    BY <1>3
  <2>2. /\ [st EXCEPT ![id + 1] = end][id + 1] = end
        /\ \A k \in 0..id : [st EXCEPT ![id + 1] = end][k] = st[k]
    BY <1>3
  <2> QED
    BY <2>1, <2>2
<1>8. /\ st[id] = Len(expected) /\ st2[id] = Len(expected) /\ Size(st2, id) = bytes
      /\ Len(expected) <= end
  <2>1. st[id] = Len(expected)
    BY DEF Contents, Messages
  <2>2. st2[id] = st[id]
    BY <1>3, <1>7
  <2> QED
    BY <1>3, <1>7, <2>1, <2>2 DEF Size
<1> HIDE DEF end
<1>d. \A k \in Nat : k < id => st2[k] = st[k] /\ st2[k + 1] = st[k + 1]
  <2>1. ASSUME NEW k \in Nat, k < id PROVE k \in 0..id /\ k + 1 \in 0..id
    BY <1>3, <2>1
  <2> QED
    BY <1>7, <2>1
<1>9. \A k \in Nat : k < id =>
        /\ Size(st2, k) = Size(st, k) /\ MsgChars(st2, k) = MsgChars(st, k)
        /\ KeyChars(st2, k) = KeyChars(st, k) /\ XoredChars(st2, k) = XoredChars(st, k)
        /\ st2[k] = st[k] /\ st2[k + 1] = st[k + 1]
  <2>1. ASSUME NEW k \in Nat, k < id
        PROVE  /\ Size(st2, k) = Size(st, k) /\ MsgChars(st2, k) = MsgChars(st, k)
               /\ KeyChars(st2, k) = KeyChars(st, k) /\ XoredChars(st2, k) = XoredChars(st, k)
    <3>1. st2[k] = st[k] /\ st2[k + 1] = st[k + 1]
      BY <1>3, <2>1, <1>d
    <3> QED
      BY <3>1, SameBelow
  <2> QED
    BY <1>3, <1>d, <2>1
<1>10. Jobs' = Jobs /\ (Taken' <=> Taken) /\ Queued' = Queued /\ ~MainHas /\ Jobs \in Nat
  <2>1. Jobs' = Jobs /\ (Taken' <=> Taken) /\ ~MainHas
    BY <1>2 DEF Jobs, Taken, MainHas
  <2> QED
    BY <2>1, JobsNat DEF Queued
<1>11. /\ FirstMsg' = FirstMsg /\ FirstKey' = FirstKey /\ LastKey' = id /\ LastKey = id
       /\ Written' = Written
  BY <1>2, <1>3, <1>10 DEF FirstMsg, FirstKey, LastKey, Written, Before
<1>12. FirstMsg \in Nat /\ FirstKey \in Nat /\ Written \in Nat /\ Written <= id
  <2>1. \A S : S \subseteq HasBlock => Before(S) \in Nat /\ Before(S) <= id
    BY Bounds DEF Before
  <2>2. HasMsg \subseteq HasBlock /\ HasKey \subseteq HasBlock /\ NotWritten \subseteq HasBlock
    BY DEF HasBlock, HasKey, HasMsg
  <2> QED
    BY <2>1, <2>2 DEF FirstMsg, FirstKey, Written
<1>13. /\ heap'[<<"msg", id>>] = [n \in 1..bytes |-> Len(expected) + n]
       /\ \A l \in Live : l # <<"msg", id>> => heap'[l] = heap[l]
  <2>1. heap' = [heap EXCEPT ![<<"msg", id>>] = [n \in 1..bytes |-> Len(expected) + n]]
    BY <1>1, <1>a DEF Read
  <2>2. <<"msg", id>> \in DOMAIN heap
    <3>1. id \in Interval(FirstMsg, LastMsg)
      <4>1. FirstMsg <= id /\ LastMsg = id + 1
        <5>1. workerAt \in HasMsg => workerAt \in HasBlock
          BY DEF HasBlock, HasKey
        <5>2. LastMsg = id + 1
          BY <1>2 DEF LastMsg
        <5> QED
          BY <5>1, <5>2, Bounds DEF FirstMsg, Before
      <4> QED
        BY <1>3, <1>12, <4>1 DEF Interval
    <3> QED
      BY <3>1, LiveBlocks DEF Live
  <2> QED
    BY <2>1, <2>2 DEF Live
<1>14. Messages(st2)'
  <2>1. st2[id'] = Len(expected')
    BY <1>2, <1>6, <1>7
  <2>2. ASSUME NEW k \in Interval(FirstMsg', id')
        PROVE  Cut(st2, k)' /\ heap'[<<"msg", k>>] = MsgChars(st2, k)
    <3>1. CASE k = id
      <4>1. heap'[<<"msg", k>>] = MsgChars(st2, k)
        BY <1>8, <1>13, <3>1 DEF MsgChars
      <4>2. Cut(st2, k)'
        <5>1. st2[id + 1] <= Len(expected') /\ st2[id] <= st2[id + 1]
          BY <1>3, <1>6, <1>7, <1>8
        <5>2. ASSUME NEW c \in 1..Size(st2, id)
              PROVE  expected'[st2[id] + c] = <<st2[id] + c, <<id, c>>>>
          BY <1>6, <1>8
        <5> QED
          BY <3>1, <5>1, <5>2 DEF Cut
      <4> QED
        BY <4>1, <4>2
    <3>2. CASE k # id
      <4>1. k \in Interval(FirstMsg, id) /\ k \in Nat /\ k < id /\ k \in Interval(FirstMsg, LastMsg)
        <5>1. k \in Interval(FirstMsg, id + 1)
          BY <1>2, <1>11, <2>2
        <5>2. LastMsg = id + 1
          BY <1>2 DEF LastMsg
        <5> QED
          BY <1>3, <1>12, <3>2, <5>1, <5>2 DEF Interval
      <4>2. Cut(st, k) /\ heap[<<"msg", k>>] = MsgChars(st, k)
        BY <4>1 DEF Contents, Messages
      <4>3. heap'[<<"msg", k>>] = MsgChars(st2, k)
        BY <1>9, <1>13, <3>2, <4>1, <4>2, LiveBlocks
      <4>4. st2[k] = st[k] /\ st2[k + 1] = st[k + 1] /\ Size(st2, k) = Size(st, k)
        BY <1>9, <4>1
      <4>5. /\ st[k] \in Nat /\ st[k + 1] \in Nat
            /\ st[k] <= st[k + 1] /\ st[k + 1] <= Len(expected)
            /\ \A c \in 1..Size(st, k) : expected[st[k] + c] = <<st[k] + c, <<k, c>>>>
        <5>1. k + 1 \in Nat
          BY <4>1
        <5> QED
          BY <4>1, <4>2, <5>1 DEF Cut
      <4>6. \A c \in 1..Size(st, k) : st[k] + c \in 1..Len(expected)
        BY <1>3, <4>5, InsideCut DEF Size
      <4>7. st2[k + 1] <= Len(expected')
        <5>1. Len(expected') \in Nat /\ Len(expected) <= Len(expected')
          BY <1>3, <1>6, <1>8
        <5> QED
          <6>1. \A a, b, c \in Nat : a <= b /\ b <= c => a <= c
            OBVIOUS
          <6>2. st[k + 1] <= Len(expected')
            BY <1>3, <4>5, <5>1, <6>1
          <6> QED
            BY <4>4, <6>2
      <4>8. Cut(st2, k)'
        <5>1. ASSUME NEW c \in 1..Size(st2, k)
              PROVE  expected'[st2[k] + c] = <<st2[k] + c, <<k, c>>>>
          <6>1. c \in 1..Size(st, k)
            BY <4>4
          <6>2. expected'[st[k] + c] = expected[st[k] + c]
            BY <1>6, <4>6, <6>1
          <6> QED
            BY <4>4, <4>5, <6>1, <6>2
        <5> QED
          BY <4>4, <4>5, <4>7, <5>1 DEF Cut
      <4> QED
        BY <4>3, <4>8
    <3> QED
      BY <3>1, <3>2
  <2> QED
    BY <2>1, <2>2 DEF Messages
<1>15. Keys(st2)'
  <2>1. ASSUME NEW k \in Interval(FirstKey, id)
        PROVE  heap'[<<"key", k>>] = KeyChars(st2, k)
    <3>1. k \in Nat /\ k < id
      BY <1>3, <1>12 DEF Interval
    <3>2. heap'[<<"key", k>>] = heap[<<"key", k>>]
      BY <1>11, <1>13, <2>1, LiveBlocks
    <3>3. heap[<<"key", k>>] = KeyChars(st, k)
      BY <1>11, <2>1 DEF Contents, Keys
    <3> QED
      BY <1>9, <3>1, <3>2, <3>3
  <2> QED
    BY <1>11, <2>1 DEF Keys
<1>16. Lengths(st2)'
  <2>1. Queued + Len(queue_) = id /\ Queued \in Nat /\ Len(queue_) \in Nat
    <3>1. Queued + Len(queue_) = id
      BY <1>10 DEF Numbers, Given
    <3>2. Queued \in Nat
      BY <1>10 DEF Queued
    <3>3. Len(queue_) \in Nat
      BY LenProperties DEF Types
    <3> QED
      BY <3>1, <3>2, <3>3
  <2>2. ASSUME Taken PROVE item[Worker].len = Size(st2, Jobs)
    <3>1. Jobs < id
      BY <1>3, <1>10, <2>1, <2>2 DEF Queued
    <3> QED
      BY <1>9, <1>10, <2>2, <3>1 DEF Contents, Lengths
  <2>3. ASSUME NEW k \in 1..Len(queue_) PROVE queue_[k].len = Size(st2, Queued + k - 1)
    <3>1. Queued + k - 1 \in Nat /\ Queued + k - 1 < id
      BY <1>3, <2>1
    <3> QED
      BY <1>9, <3>1 DEF Contents, Lengths
  <2>4. data'.len = Size(st2, id' - 1)
    <3>1. id' - 1 = id
      BY <1>2, <1>3
    <3> QED
      BY <1>4, <1>8, <3>1
  <2>5. ASSUME workerAt \in HasMsg PROVE job.len = Size(st2, job.id)
    <3>1. workerAt \in HasBlock
      BY <2>5 DEF HasBlock, HasKey
    <3>2. job.id \in Nat /\ job.id < id
      BY <3>1, JobNumbers, Bounds
    <3> QED
      BY <1>9, <2>5, <3>2 DEF Contents, Lengths
  <2> QED
    BY <1>2, <1>10, <2>2, <2>3, <2>4, <2>5 DEF Lengths
<1>17. Progress(st2)'
  <2>1. \A k : \A t \in {"integer_msg", "integer_key", "tmp", "decrypted"} :
           <<t, k>> \in Live => heap'[<<t, k>>] = heap[<<t, k>>]
    BY <1>13
  <2>2. Progress(st)'
    BY <1>2, <2>1, ProgressStays DEF Contents
  <2>3. ASSUME workerAt \in NotWritten
        PROVE  /\ MsgChars(st2, job.id) = MsgChars(st, job.id)
               /\ KeyChars(st2, job.id) = KeyChars(st, job.id)
               /\ XoredChars(st2, job.id) = XoredChars(st, job.id)
    <3>1. workerAt \in HasBlock
      BY <2>3 DEF HasBlock, HasKey, HasMsg
    <3>2. job.id \in Nat /\ job.id < id
      BY <3>1, JobNumbers, Bounds
    <3> QED
      BY <1>9, <3>2
  <2>4. ASSUME workerAt \in NotWritten
        PROVE  /\ Message(st2, job.id, job.len) = Message(st, job.id, job.len)
               /\ Key(st2, job.id, job.len) = Key(st, job.id, job.len)
               /\ Words(st2, job.id, job.len) = Words(st, job.id, job.len)
    <3>1. /\ Message(st2, job.id, job.len) = Message(st, job.id, job.len)
          /\ Key(st2, job.id, job.len) = Key(st, job.id, job.len)
      BY <2>3, <2>4 DEF Message, Key
    <3> QED
      BY <3>1 DEF Words
  <2>5. workerAt = "kernel" \/ workerAt = "convert" \/ workerAt = "write" => workerAt \in NotWritten
    BY DEF NotWritten
  <2> QED
    BY <1>2, <2>2, <2>3, <2>4, <2>5 DEF Progress
<1>18. Output(st2)'
  <2>1. st2[Written] = st[Written]
    BY <1>7, <1>12
  <2> QED
    BY <1>2, <1>11, <2>1 DEF Contents, Output
<1>19. Correct'
  <2>1. Streams'
    BY <1>2, <1>6 DEF Correct, Streams
  <2>2. Right(out \o stdio, expected')
    <3>1. Len(out \o stdio) \in Nat /\ Len(out \o stdio) <= Len(expected)
          /\ \A c \in 1..Len(out \o stdio) : (out \o stdio)[c] = expected[c]
      BY ConcatProperties, LenProperties DEF Correct, Streams, Right
    <3>2. Len(out \o stdio) <= Len(expected')
      BY <1>3, <1>6, <1>8, <3>1
    <3>3. ASSUME NEW c \in 1..Len(out \o stdio) PROVE (out \o stdio)[c] = expected'[c]
      <4>1. c \in 1..Len(expected)
        BY <1>3, <3>1
      <4> QED
        BY <1>6, <3>1, <4>1
    <3> QED
      BY <3>2, <3>3 DEF Right
  <2> QED
    BY <1>2, <2>1, <2>2 DEF Correct
<1> QED
  BY <1>7, <1>14, <1>15, <1>16, <1>17, <1>18, <1>19 DEF Contents

----------------------------------------------------------------------------
\* The steps of the worker with a block in hand.
LEMMA JobStepSame ==
  ASSUME JobStep
  PROVE  /\ pc' = pc /\ item' = item /\ queue_' = queue_
         /\ mainAt' = mainAt /\ id' = id /\ data' = data /\ expected' = expected /\ job' = job
         /\ LastKey' = LastKey /\ Jobs' = Jobs /\ workerAt \in HasBlock
<1>1. /\ pc' = pc /\ item' = item /\ queue_' = queue_
      /\ mainAt' = mainAt /\ id' = id /\ data' = data /\ expected' = expected /\ job' = job
  BY DEF JobStep, XorOnCPU, ConvertToInteger, Kernel, ConvertToChar, Write, Flush, FreeMsg,
      FreeKey,
         FreeDecrypted, queueVars, mainVars, readVars
<1>2. workerAt \in HasBlock
  BY DEF JobStep, XorOnCPU, ConvertToInteger, Kernel, ConvertToChar, Write, Flush, FreeMsg,
      FreeKey,
         FreeDecrypted, WorkerGoto, HasBlock, HasKey, HasMsg, NotWritten
<1> QED
  BY <1>1, <1>2 DEF LastKey, Jobs

LEMMA JobStepLengths ==
  ASSUME NEW st, Lengths(st), JobStep
  PROVE  Lengths(st)'
<1>1. /\ workerAt # "in pop" /\ workerAt' # "in pop"
      /\ workerAt' \in HasMsg => workerAt \in HasMsg
  BY DEF JobStep, XorOnCPU, ConvertToInteger, Kernel, ConvertToChar, Write, Flush, FreeMsg,
      FreeKey,
         FreeDecrypted, WorkerGoto, HasMsg, NotWritten
<1>2. (Taken' <=> Taken) /\ (MainHas' <=> MainHas)
  BY <1>1, JobStepSame DEF Taken, MainHas
<1> QED
  BY <1>1, <1>2, JobStepSame, LengthsStay

\* The block in hand is in its buffers until they are freed.
LEMMA BlockInHand ==
  ASSUME Types, Numbers, NEW st, Contents(st), workerAt \in HasMsg
  PROVE  /\ heap[job.msg] = MsgChars(st, job.id) /\ heap[job.key] = KeyChars(st, job.id)
         /\ job.len = Size(st, job.id) /\ job.len \in Nat /\ Cut(st, job.id)
<1>1. workerAt \in HasBlock /\ workerAt \in HasKey
  BY DEF HasBlock, HasKey
<1>2. /\ job.id = Jobs - 1 /\ job.id \in Nat /\ job \in Data /\ Jobs \in Nat
      /\ job.msg = <<"msg", job.id>> /\ job.key = <<"key", job.id>>
  BY <1>1, JobNumbers, JobsNat
<1>3. FirstMsg = job.id /\ FirstKey = job.id
  BY <1>1, <1>2 DEF FirstMsg, FirstKey, Before
<1>4. /\ job.id < id /\ id \in Nat /\ job.id < LastKey /\ LastKey \in Nat
  BY <1>1, <1>2, Bounds
<1>5. job.id \in Interval(FirstMsg, id) /\ job.id \in Interval(FirstKey, LastKey)
  BY <1>2, <1>3, <1>4 DEF Interval
<1>6. heap[<<"msg", job.id>>] = MsgChars(st, job.id) /\ Cut(st, job.id)
  BY <1>5 DEF Contents, Messages
<1>7. heap[<<"key", job.id>>] = KeyChars(st, job.id)
  BY <1>5 DEF Contents, Keys
<1>8. job.len = Size(st, job.id) /\ job.len \in Nat
  BY <1>2 DEF Contents, Lengths, Data
<1> QED
  BY <1>2, <1>6, <1>7, <1>8

JobMallocs == XorOnCPU \/ ConvertToInteger \/ Kernel \/ ConvertToChar

LEMMA JobMallocsContents ==
  ASSUME Types, Control, Numbers, Live = Allocated, NEW st, Contents(st), Correct, JobMallocs
  PROVE  Contents(st)' /\ Correct'
<1>1. JobStep
  BY DEF JobMallocs, JobStep
<1>2. /\ mainAt' = mainAt /\ id' = id /\ expected' = expected /\ job' = job
      /\ LastKey' = LastKey /\ Jobs' = Jobs
  BY <1>1, JobStepSame
<1>3. /\ workerAt \in NotWritten /\ workerAt' \in NotWritten /\ workerAt \in HasMsg
      /\ stdio' = stdio /\ out' = out
  BY DEF JobMallocs, XorOnCPU, ConvertToInteger, Kernel, ConvertToChar, WorkerGoto, HasMsg,
         NotWritten, outVars
<1>4. FirstMsg' = FirstMsg /\ FirstKey' = FirstKey /\ Written' = Written
  BY <1>2, <1>3 DEF FirstMsg, FirstKey, Written, Before, HasMsg, HasKey
<1>5. \A k : /\ <<"msg", k>> \in DOMAIN heap => heap'[<<"msg", k>>] = heap[<<"msg", k>>]
             /\ <<"key", k>> \in DOMAIN heap => heap'[<<"key", k>>] = heap[<<"key", k>>]
  <2>1. CASE XorOnCPU
    BY <2>1 DEF XorOnCPU, Malloc, With, Live
  <2>2. CASE ConvertToInteger
    BY <2>2 DEF ConvertToInteger, With
  <2>3. CASE Kernel
    BY <2>3 DEF Kernel, Malloc, With
  <2>4. CASE ConvertToChar
    BY <2>4 DEF ConvertToChar, Malloc, With
  <2> QED
    BY <2>1, <2>2, <2>3, <2>4 DEF JobMallocs
<1>6. Messages(st)' /\ Keys(st)'
  BY <1>2, <1>4, <1>5, MallocKeeps, BlocksSame DEF Contents
<1>7. /\ heap[job.msg] = MsgChars(st, job.id) /\ heap[job.key] = KeyChars(st, job.id)
      /\ job.len = Size(st, job.id) /\ job.len \in Nat
  BY <1>3, BlockInHand
<1>8. Progress(st)'
  <2>1. CASE XorOnCPU
    <3>1. workerAt' = "write"
      BY <2>1 DEF XorOnCPU, WorkerGoto
    <3>2. heap'[<<"decrypted", job.id>>] = XoredChars(st, job.id)
      <4>1. Xor(heap[job.msg], heap[job.key]) = XoredChars(st, job.id)
        BY <1>7, XoredOnCPU
      <4> QED
        BY <2>1, <4>1 DEF XorOnCPU, Malloc, With
    <3> QED
      BY <1>2, <3>1, <3>2 DEF Progress
  <2>2. CASE ConvertToInteger
    <3>1. workerAt' = "kernel"
      BY <2>2 DEF ConvertToInteger, WorkerGoto
    <3>2. heap' = With(With(heap, <<"integer_msg", job.id>>, Message(st, job.id, job.len)),
                       <<"integer_key", job.id>>, Key(st, job.id, job.len))
      BY <1>7, <2>2 DEF ConvertToInteger, Message, Key
    <3>3. /\ heap'[<<"integer_msg", job.id>>] = Message(st, job.id, job.len)
          /\ heap'[<<"integer_key", job.id>>] = Key(st, job.id, job.len)
      BY <3>2 DEF With
    <3> QED
      BY <1>2, <3>1, <3>3 DEF Progress
  <2>3. CASE Kernel
    <3>1. workerAt = "kernel" /\ workerAt' = "convert"
      BY <2>3 DEF Kernel, WorkerGoto
    <3>2. /\ heap[<<"integer_msg", job.id>>] = Message(st, job.id, job.len)
          /\ heap[<<"integer_key", job.id>>] = Key(st, job.id, job.len)
      BY <3>1 DEF Contents, Progress
    <3>3. heap'[<<"tmp", job.id>>] = Words(st, job.id, job.len)
      BY <2>3, <3>2 DEF Kernel, Malloc, With, Words
    <3> QED
      BY <1>2, <3>1, <3>3 DEF Progress
  <2>4. CASE ConvertToChar
    <3>1. workerAt = "convert" /\ workerAt' = "write"
      BY <2>4 DEF ConvertToChar, WorkerGoto
    <3>2. heap[<<"tmp", job.id>>] = Words(st, job.id, job.len)
      BY <3>1 DEF Contents, Progress
    <3>3. heap'[<<"decrypted", job.id>>] = convert_to_char(Words(st, job.id, job.len), job.len)
      BY <2>4, <3>2 DEF ConvertToChar, Malloc, With
    <3>4. heap'[<<"decrypted", job.id>>] = XoredChars(st, job.id)
      BY <1>7, <3>3, XoredOnGPU
    <3> QED
      BY <1>2, <3>1, <3>4 DEF Progress
  <2> QED
    BY <2>1, <2>2, <2>3, <2>4 DEF JobMallocs
<1>9. Output(st)'
  BY <1>2, <1>3, <1>4, OutputSame DEF Contents
<1> QED
  BY <1>1, <1>2, <1>3, <1>6, <1>8, <1>9, JobStepLengths, CorrectSame DEF Contents

\* fwrite writes the block in two parts, and fflush puts them together.
LEMMA TwoParts ==
  ASSUME NEW chars \in Seq(Char), NEW length, Len(chars) = length, NEW n \in 0..length
  PROVE  /\ SubSeq(chars, 1, n) \in Seq(Char) /\ SubSeq(chars, n + 1, length) \in Seq(Char)
         /\ SubSeq(chars, 1, n) \o SubSeq(chars, n + 1, length) = chars
<1>1. length \in Nat
  BY LenProperties
<1>2. n \in Nat /\ n <= length
  BY <1>1
<1>3. \A c \in 1..length : chars[c] \in Char
  BY ElementOfSeq
<1>4. SubSeq(chars, 1, n) \in Seq(Char)
  <2>1. \A c \in 1..n : chars[c] \in Char
    BY <1>1, <1>2, <1>3
  <2> QED
    BY <1>2, <2>1, SubSeqProperties
<1>5. SubSeq(chars, n + 1, length) \in Seq(Char)
  <2>1. \A c \in (n + 1)..length : chars[c] \in Char
    BY <1>1, <1>2, <1>3
  <2>2. n + 1 \in Int /\ length \in Int
    BY <1>1, <1>2
  <2> QED
    BY <2>1, <2>2, SubSeqProperties
<1>6. SubSeq(chars, 1, n) \o SubSeq(chars, n + 1, length) = SubSeq(chars, 1, length)
  <2>1. 1 \in 1..(Len(chars) + 1) /\ n \in 0..Len(chars) /\ length \in n..Len(chars) /\ 1 - 1 = 0
    BY <1>1, <1>2
  <2> QED
    BY <2>1, ConcatAdjacentSubSeq
<1> QED
  BY <1>4, <1>5, <1>6, SubSeqFull

LEMMA BlockChars ==
  ASSUME NEW st \in [Nat -> Nat], NEW k \in Nat, Cut(st, k), Streams
  PROVE  /\ XoredChars(st, k) \in Seq(Char) /\ Len(XoredChars(st, k)) = Size(st, k)
         /\ st[k] \in Nat /\ st[k + 1] = st[k] + Size(st, k) /\ Size(st, k) \in Nat
         /\ \A c \in 1..Size(st, k) : XoredChars(st, k)[c] = expected[st[k] + c]
<1>1. k + 1 \in Nat
  OBVIOUS
<1>2. /\ st[k] \in Nat /\ st[k + 1] \in Nat /\ st[k] <= st[k + 1]
      /\ \A c \in 1..Size(st, k) : expected[st[k] + c] = <<st[k] + c, <<k, c>>>>
  BY <1>1 DEF Cut
<1>3. Size(st, k) \in Nat /\ st[k + 1] = st[k] + Size(st, k)
  BY <1>2 DEF Size
<1>4. ASSUME NEW c \in 1..Size(st, k) PROVE <<st[k] + c, <<k, c>>>> \in Char
  <2>1. st[k] + c \in Nat /\ c \in Nat
    BY <1>2, <1>3
  <2> QED
    BY <2>1 DEF Char
<1>5. XoredChars(st, k) \in [1..Size(st, k) -> Char]
  BY <1>4 DEF XoredChars
<1>6. XoredChars(st, k) \in Seq(Char) /\ Len(XoredChars(st, k)) = Size(st, k)
  <2> DEFINE chars == XoredChars(st, k)
             size  == Size(st, k)
  <2>1. chars \in [1..size -> Char] /\ size \in Nat
    BY <1>3, <1>5
  <2> HIDE DEF chars, size
  <2>2. chars \in Seq(Char) /\ Len(chars) = size
    BY <2>1, LenProperties
  <2> QED
    BY <2>2 DEF chars, size
<1> QED
  BY <1>2, <1>3, <1>6 DEF XoredChars

LEMMA ThreeParts ==
  ASSUME NEW a \in Seq(Char), NEW b \in Seq(Char), NEW c \in Seq(Char)
  PROVE  (a \o b) \o c = a \o (b \o c)
BY ConcatAssociative

LEMMA SecondPart ==
  ASSUME NEW a \in Nat, NEW b \in Nat, NEW c \in 1..(a + b), ~(c <= a)
  PROVE  c - a \in 1..b /\ a + (c - a) = c
OBVIOUS

LEMMA WriteContents ==
  ASSUME Types, Control, Numbers, Live = Allocated, NEW st \in [Nat -> Nat], Contents(st), Correct,
         onGPU' = onGPU, Write
  PROVE  Contents(st)' /\ Correct'
<1>1. JobStep
  BY DEF JobStep
<1>2. /\ mainAt' = mainAt /\ id' = id /\ expected' = expected /\ job' = job
      /\ LastKey' = LastKey /\ Jobs' = Jobs /\ workerAt \in HasBlock
  BY <1>1, JobStepSame
<1>3. workerAt = "write" /\ workerAt' = "flush" /\ heap' = heap /\ mainAt # "terminated"
  BY DEF Write, WorkerGoto
<1>4. /\ FirstMsg' = FirstMsg /\ FirstKey' = FirstKey
      /\ Written = Jobs - 1 /\ Written' = Jobs /\ Jobs = job.id + 1 /\ job.id \in Nat
      /\ Written = job.id
  <2>1. /\ FirstMsg' = FirstMsg /\ FirstKey' = FirstKey /\ Written = Jobs - 1 /\ Written' = Jobs
    BY <1>2, <1>3 DEF FirstMsg, FirstKey, Written, Before, HasMsg, HasKey, NotWritten
  <2>2. Jobs = job.id + 1 /\ job.id \in Nat /\ job.id = Jobs - 1
    BY <1>2, JobNumbers
  <2> QED
    BY <2>1, <2>2
<1>5. Messages(st)' /\ Keys(st)'
  <2>1. Keeps
    BY <1>2, <1>3, <1>4 DEF Keeps
  <2> QED
    BY <2>1, BlocksSame DEF Contents
<1>6. Progress(st)'
  BY <1>3 DEF Progress
<1> DEFINE chars == XoredChars(st, job.id)
<1>7. /\ job.len = Size(st, job.id) /\ Cut(st, job.id)
      /\ heap[<<"decrypted", job.id>>] = chars
  <2>1. workerAt \in HasMsg
    BY <1>3 DEF HasMsg, NotWritten
  <2> QED
    BY <1>3, <2>1, BlockInHand DEF Contents, Progress
<1>8. /\ chars \in Seq(Char) /\ Len(chars) = job.len
      /\ st[job.id] \in Nat /\ st[job.id + 1] = st[job.id] + job.len /\ job.len \in Nat
      /\ \A c \in 1..job.len : chars[c] = expected[st[job.id] + c]
  <2>1. Streams /\ job.id \in Nat /\ Cut(st, job.id)
    BY <1>4, <1>7 DEF Correct
  <2>2. /\ XoredChars(st, job.id) \in Seq(Char)
        /\ Len(XoredChars(st, job.id)) = Size(st, job.id)
        /\ st[job.id] \in Nat /\ st[job.id + 1] = st[job.id] + Size(st, job.id)
        /\ Size(st, job.id) \in Nat
        /\ \A c \in 1..Size(st, job.id) : XoredChars(st, job.id)[c] = expected[st[job.id] + c]
    BY <2>1, BlockChars
  <2> QED
    BY <1>7, <2>2
<1> HIDE DEF chars
<1>9. PICK n \in 0..job.len : /\ out' = out \o SubSeq(chars, 1, n)
                              /\ stdio' = SubSeq(chars, n + 1, job.len)
  BY <1>7 DEF Write
<1>10. /\ SubSeq(chars, 1, n) \in Seq(Char) /\ SubSeq(chars, n + 1, job.len) \in Seq(Char)
       /\ SubSeq(chars, 1, n) \o SubSeq(chars, n + 1, job.len) = chars
  BY <1>8, TwoParts
<1>11. out' \o stdio' = out \o chars /\ out' \in Seq(Char) /\ stdio' \in Seq(Char)
  <2> DEFINE first == SubSeq(chars, 1, n)
             rest  == SubSeq(chars, n + 1, job.len)
  <2>1. out \in Seq(Char) /\ first \in Seq(Char) /\ rest \in Seq(Char) /\ first \o rest = chars
        /\ out' = out \o first /\ stdio' = rest
    BY <1>9, <1>10 DEF Correct, Streams
  <2> HIDE DEF first, rest
  <2>2. out \o first \in Seq(Char)
    BY <2>1, ConcatProperties
  <2>3. (out \o first) \o rest = out \o (first \o rest)
    <3>1. out \in Seq(Char) /\ first \in Seq(Char) /\ rest \in Seq(Char)
      BY <2>1
    <3> QED
      BY <3>1, ThreeParts
  <2> QED
    BY <2>1, <2>2, <2>3
<1>12. stdio = <<>> /\ out \o stdio = out /\ out \in Seq(Char)
  <2>1. stdio = <<>>
    BY <1>3 DEF Control, WorkerControl
  <2> QED
    BY <2>1, ConcatEmptySeq DEF Correct, Streams
<1>13. Len(out) = st[job.id] /\ Len(out) \in Nat
  BY <1>3, <1>4, <1>8, <1>12 DEF Contents, Output
<1>14. /\ Len(out \o chars) = Len(out) + job.len
       /\ \A c \in 1..(Len(out) + job.len) : (out \o chars)[c] = IF c <= Len(out) THEN out[c]
                                                                 ELSE chars[c - Len(out)]
  <2>1. /\ Len(out \o chars) = Len(out) + Len(chars)
        /\ \A c \in 1..(Len(out) + Len(chars)) : (out \o chars)[c] = IF c <= Len(out) THEN out[c]
                                                                    ELSE chars[c - Len(out)]
    BY <1>8, <1>12, ConcatProperties
  <2> QED
    BY <1>8, <2>1
<1>15. Output(st)'
  BY <1>4, <1>8, <1>11, <1>13, <1>14 DEF Output
<1>16. Correct'
  <2>1. Streams'
    BY <1>2, <1>11 DEF Correct, Streams
  <2>2. Len(out) + job.len <= Len(expected)
    BY <1>7, <1>8, <1>13 DEF Cut
  <2>3. ASSUME NEW c \in 1..(Len(out) + job.len) PROVE (out \o chars)[c] = expected[c]
    <3>1. CASE c <= Len(out)
      <4>1. c \in 1..Len(out)
        BY <1>13, <3>1
      <4> QED
        BY <1>12, <1>14, <3>1, <4>1 DEF Correct, Right
    <3>2. CASE ~(c <= Len(out))
      <4>1. c - Len(out) \in 1..job.len /\ Len(out) + (c - Len(out)) = c
        <5>1. job.len \in Nat
          BY <1>8
        <5>2. Len(out) \in Nat
          BY <1>13
        <5>3. ~(c <= Len(out)) /\ c \in 1..(Len(out) + job.len)
          BY <3>2
        <5> QED
          BY <5>1, <5>2, <5>3, SecondPart
      <4>2. chars[c - Len(out)] = expected[Len(out) + (c - Len(out))]
        BY <1>8, <1>13, <4>1
      <4> QED
        BY <1>14, <3>2, <4>1, <4>2
    <3> QED
      BY <3>1, <3>2
  <2>4. Right(out \o chars, expected)
    BY <1>14, <2>2, <2>3 DEF Right
  <2> QED
    BY <1>2, <1>11, <2>1, <2>4 DEF Correct
<1> QED
  BY <1>1, <1>5, <1>6, <1>15, <1>16, JobStepLengths DEF Contents

LEMMA FlushContents ==
  ASSUME Types, Control, Numbers, Live = Allocated, NEW st, Contents(st), Correct,
         onGPU' = onGPU, Flush
  PROVE  Contents(st)' /\ Correct'
<1>1. JobStep
  BY DEF JobStep
<1>2. /\ mainAt' = mainAt /\ id' = id /\ expected' = expected /\ job' = job
      /\ LastKey' = LastKey /\ Jobs' = Jobs
  BY <1>1, JobStepSame
<1>3. workerAt = "flush" /\ workerAt' = "free msg" /\ heap' = heap
  BY DEF Flush, WorkerGoto
<1>4. FirstMsg' = FirstMsg /\ FirstKey' = FirstKey /\ Written' = Written
  BY <1>2, <1>3 DEF FirstMsg, FirstKey, Written, Before, HasMsg, HasKey, NotWritten
<1>5. Messages(st)' /\ Keys(st)'
  <2>1. Keeps
    BY <1>2, <1>3, <1>4 DEF Keeps
  <2> QED
    BY <2>1, BlocksSame DEF Contents
<1>6. Progress(st)'
  BY <1>3 DEF Progress
<1>7. /\ out' = out \o stdio /\ stdio' = <<>> /\ out' \in Seq(Char) /\ stdio' \in Seq(Char)
      /\ out' \o stdio' = out \o stdio
  BY ConcatProperties, ConcatEmptySeq, EmptySeq DEF Flush, Correct, Streams
<1>8. Output(st)'
  BY <1>2, <1>4, <1>7 DEF Contents, Output
<1>9. Correct'
  BY <1>2, <1>7 DEF Correct, Streams
<1> QED
  BY <1>1, <1>5, <1>6, <1>8, <1>9, JobStepLengths DEF Contents

LEMMA FreesContents ==
  ASSUME Types, Control, Numbers, Live = Allocated, NEW st, Contents(st), Correct,
         onGPU' = onGPU, FreeMsg \/ FreeKey \/ FreeDecrypted
  PROVE  Contents(st)' /\ Correct'
<1>1. JobStep
  BY DEF JobStep
<1>2. /\ mainAt' = mainAt /\ id' = id /\ expected' = expected /\ job' = job
      /\ LastKey' = LastKey /\ Jobs' = Jobs /\ workerAt \in HasBlock
  BY <1>1, JobStepSame
<1>3. /\ stdio' = stdio /\ out' = out
      /\ \/ workerAt = "free msg" /\ workerAt' = "free key"
         \/ workerAt = "free key" /\ workerAt' = "free decrypted"
         \/ workerAt = "free decrypted" /\ workerAt' = "pop"
  BY DEF FreeMsg, FreeKey, FreeDecrypted, WorkerGoto, outVars
<1>4. Written' = Written
  BY <1>2, <1>3 DEF Written, Before, NotWritten
<1>5. /\ job.id = Jobs - 1
      /\ job.id \in Nat /\ Jobs = job.id + 1 /\ id \in Nat
      /\ LastKey \in Nat
      /\ job.msg = <<"msg", job.id>> /\ job.key = <<"key", job.id>>
  BY <1>2, JobNumbers, Bounds
<1>6. Keeps
  <2>1. CASE FreeMsg
    <3>1. FirstMsg = job.id /\ FirstMsg' = job.id + 1 /\ FirstKey' = FirstKey
      <4>1. FirstMsg = Jobs - 1 /\ FirstMsg' = Jobs /\ FirstKey' = FirstKey
        <5>1. workerAt = "free msg" /\ workerAt' = "free key"
          BY <2>1 DEF FreeMsg, WorkerGoto
        <5> QED
          BY <1>2, <5>1 DEF FirstMsg, FirstKey, Before, HasKey, HasMsg, NotWritten
      <4> QED
        BY <1>5, <4>1
    <3>2. \A k \in Interval(FirstMsg', id) : k \in Interval(FirstMsg, id) /\ k # job.id
      BY <1>5, <3>1 DEF Interval
    <3>3. Free(<<"msg", job.id>>)
      BY <1>5, <2>1 DEF FreeMsg
    <3> QED
      BY <1>2, <3>1, <3>2, <3>3, FreeKeeps
  <2>2. CASE FreeKey
    <3>1. FirstKey = job.id /\ FirstKey' = job.id + 1 /\ FirstMsg' = FirstMsg
      <4>1. FirstKey = Jobs - 1 /\ FirstKey' = Jobs /\ FirstMsg' = FirstMsg
        <5>1. workerAt = "free key" /\ workerAt' = "free decrypted"
          BY <2>2 DEF FreeKey, WorkerGoto
        <5> QED
          BY <1>2, <5>1 DEF FirstMsg, FirstKey, Before, HasKey, HasMsg, NotWritten
      <4> QED
        BY <1>5, <4>1
    <3>2. \A k \in Interval(FirstKey', LastKey) : k \in Interval(FirstKey, LastKey) /\ k # job.id
      BY <1>5, <3>1 DEF Interval
    <3>3. Free(<<"key", job.id>>)
      BY <1>5, <2>2 DEF FreeKey
    <3> QED
      BY <1>2, <3>1, <3>2, <3>3, FreeKeeps
  <2>3. CASE FreeDecrypted
    <3>1. FirstKey' = FirstKey /\ FirstMsg' = FirstMsg
      <4>1. workerAt = "free decrypted" /\ workerAt' = "pop"
        BY <2>3 DEF FreeDecrypted, WorkerGoto
      <4> QED
        BY <1>2, <4>1 DEF FirstMsg, FirstKey, Before, HasKey, HasMsg, NotWritten
    <3>2. Free(<<"decrypted", job.id>>)
      BY <2>3 DEF FreeDecrypted
    <3> QED
      BY <1>2, <3>1, <3>2, FreeKeeps
  <2> QED
    BY <2>1, <2>2, <2>3
<1>7. Messages(st)' /\ Keys(st)'
  BY <1>6, BlocksSame DEF Contents
<1>8. Progress(st)'
  BY <1>3 DEF Progress
<1>9. Output(st)'
  BY <1>2, <1>3, <1>4, OutputSame DEF Contents
<1> QED
  BY <1>1, <1>2, <1>3, <1>7, <1>8, <1>9, JobStepLengths, CorrectSame DEF Contents

LEMMA ContentsKept ==
  ASSUME Types, Control, Numbers, Live = Allocated, Correct, [Next]_vars,
         \E st \in [Nat -> Nat] : Contents(st)
  PROVE  (\E st \in [Nat -> Nat] : Contents(st)') /\ Correct'
<1>1. \/ UNCHANGED vars
      \/ onGPU' = onGPU /\ (MainStep \/ PopStep \/ JobStep)
  BY Steps
<1>2. PICK st \in [Nat -> Nat] : Contents(st)
  OBVIOUS
<1>3. CASE UNCHANGED vars
  BY <1>2, <1>3, StutterContents
<1>4. CASE onGPU' = onGPU /\ MainStep
  <2>1. CASE MainMoves
    BY <1>2, <1>4, <2>1, MainMovesContents
  <2>2. CASE InQueueStep
    BY <1>2, <1>4, <2>2, InQueueContents
  <2>3. CASE MallocBlock
    BY <1>2, <1>4, <2>3, MallocContents
  <2>4. CASE Reads
    BY <1>2, <1>4, <2>4, ReadsContents
  <2>5. CASE GenerateKey
    BY <1>2, <1>4, <2>5, KeyContents
  <2> QED
    BY <1>4, <2>1, <2>2, <2>3, <2>4, <2>5 DEF MainStep, MainMoves, InQueueStep
<1>5. CASE onGPU' = onGPU /\ PopStep
  <2>1. CASE CallPop
    BY <1>2, <1>5, <2>1, CallPopContents
  <2>2. CASE InQueueStep
    BY <1>2, <1>5, <2>2, InQueueContents
  <2>3. CASE Popped
    BY <1>2, <1>5, <2>3, PoppedContents
  <2> QED
    BY <1>5, <2>1, <2>2, <2>3 DEF PopStep, InQueueStep
<1>6. CASE onGPU' = onGPU /\ JobStep
  <2>1. CASE JobMallocs
    BY <1>2, <2>1, JobMallocsContents
  <2>2. CASE Write
    BY <1>2, <1>6, <2>2, WriteContents
  <2>3. CASE Flush
    BY <1>2, <1>6, <2>3, FlushContents
  <2>4. CASE FreeMsg \/ FreeKey \/ FreeDecrypted
    BY <1>2, <1>6, <2>4, FreesContents
  <2> QED
    BY <1>6, <2>1, <2>2, <2>3, <2>4 DEF JobStep, JobMallocs
<1> QED
  BY <1>1, <1>3, <1>4, <1>5, <1>6

----------------------------------------------------------------------------
\* The invariant and what follows from it.
LEMMA InitIInv == Init => IInv
<1> SUFFICES ASSUME Init PROVE IInv
  OBVIOUS
<1> USE PipelineAssumption
<1>1. /\ queue_ = <<>> /\ waiters = {} /\ pc[Main] = "idle" /\ pc[Worker] = "idle"
      /\ pc \in [{Main, Worker} -> {"idle"}] /\ item \in [{Main, Worker} -> {None}]
  BY DEF Init, Q!Init, Q!Threads
<1>2. Types
  <2>1. onGPU \in BOOLEAN
    BY DEF Init
  <2>2. /\ pc \in [{Main, Worker} -> PushPC \cup PopPC]
        /\ pc[Main] \in PushPC /\ pc[Worker] \in PopPC
    BY <1>1 DEF PushPC, PopPC
  <2>3. item \in [{Main, Worker} -> Data \cup {None}] /\ queue_ \in Seq(Data)
        /\ waiters \subseteq {Worker}
    BY <1>1, EmptySeq
  <2>4. mainAt \in MainPlaces /\ workerAt \in WorkerPlaces
    BY DEF Init, MainPlaces, WorkerPlaces
  <2>5. data \in Data \cup {None} /\ job \in Data \cup {None} /\ eof \in BOOLEAN
    BY DEF Init
  <2>6. id \in Nat /\ unread \in Nat
    BY DEF Init
  <2>7. errors \in 0..MaxErrors
    <3>1. errors = 0
      BY DEF Init
    <3> QED
      BY <3>1
  <2> QED
    BY <2>1, <2>2, <2>3, <2>4, <2>5, <2>6, <2>7 DEF Types
<1>3. Control
  BY <1>1 DEF Init, Control, MainControl, WorkerControl, GPUControl
<1>4. Jobs = 0 /\ ~Taken /\ Queued = 0 /\ ~MainHas /\ Given = 0
  BY DEF Init, Jobs, Taken, Queued, MainHas, Given
<1>5. Numbers
  <2>1. Len(queue_) = 0
    BY <1>1, EmptySeq
  <2> QED
    <3>1. workerAt \notin HasBlock /\ job = None /\ mainAt # "read" /\ mainAt # "keygen"
      BY DEF Init, HasBlock, HasKey, HasMsg, NotWritten
    <3>2. Queued + Len(queue_) = Given /\ 1..Len(queue_) = {}
      BY <1>4, <2>1
    <3> QED
      BY <1>4, <3>1, <3>2 DEF Numbers
<1>6. /\ FirstMsg = 0 /\ LastMsg = 0 /\ FirstKey = 0 /\ LastKey = 0 /\ Converted = 0
      /\ Xored = 0 /\ Written = 0 /\ Result = {}
  BY <1>4 DEF Init, FirstMsg, LastMsg, FirstKey, LastKey, Converted, Xored, Written, Result,
              Before, HasMsg, HasKey, NotWritten, Decrypting
<1>7. Interval(0, 0) = {}
  BY DEF Interval
<1>8. Live = Allocated
  <2>1. Live = {}
    <3>1. heap \in Seq(Char) /\ Len(heap) = 0
      BY EmptySeq DEF Init
    <3>2. DOMAIN heap = 1..0
      BY <3>1, LenProperties
    <3> QED
      BY <3>2 DEF Live
  <2>2. Allocated = {}
    BY <1>6, <1>7 DEF Allocated, Buffers
  <2> QED
    BY <2>1, <2>2
<1>9. Streams
  BY EmptySeq DEF Init, Streams
<1>10. \E st \in [Nat -> Nat] : Contents(st)
  <2>1. PICK st \in [Nat -> Nat] : st[0] = 0
    <3>1. [k \in Nat |-> 0] \in [Nat -> Nat] /\ [k \in Nat |-> 0][0] = 0
      OBVIOUS
    <3> QED
      BY <3>1
  <2>2. Messages(st) /\ Keys(st)
    BY <1>6, <1>7, <2>1, EmptySeq DEF Init, Messages, Keys
  <2>3. Lengths(st)
    <3>1. workerAt \notin HasMsg
      BY DEF Init, HasMsg, NotWritten
    <3>2. Len(queue_) = 0
      BY <1>1, EmptySeq
    <3>3. 1..Len(queue_) = {}
      BY <3>2
    <3> QED
      BY <1>4, <3>1, <3>3 DEF Lengths
  <2>4. Progress(st)
    BY DEF Init, Progress
  <2>5. Output(st)
    <3>1. out \o stdio = <<>>
      BY EmptySeq, ConcatEmptySeq DEF Init
    <3> QED
      BY <1>6, <2>1, <3>1, EmptySeq DEF Output
  <2> QED
    BY <2>2, <2>3, <2>4, <2>5 DEF Contents
<1>11. Right(out \o stdio, expected)
  <2>1. out \o stdio = <<>> /\ expected = <<>>
    BY EmptySeq, ConcatEmptySeq DEF Init
  <2> QED
    BY <2>1, EmptySeq DEF Right
<1> QED
  BY <1>2, <1>3, <1>5, <1>8, <1>9, <1>10, <1>11 DEF IInv

LEMMA NextIInv == IInv /\ [Next]_vars => IInv'
<1> SUFFICES ASSUME IInv, [Next]_vars PROVE IInv'
  OBVIOUS
<1>1. Types' /\ Control' /\ Numbers'
  BY NumbersKept DEF IInv
<1>2. Live' = Allocated'
  BY AllocatedKept DEF IInv
<1>3. (\E st \in [Nat -> Nat] : Contents(st)') /\ Correct'
  BY ContentsKept DEF IInv, Correct
<1> QED
  BY <1>1, <1>2, <1>3 DEF IInv, Correct

LEMMA IInvAlways == Spec => []IInv
  BY InitIInv, NextIInv, PTL DEF Spec

\* The blocks in flight are those from Oldest on, in the order of their numbers.
Oldest == Before(HasBlock)

Held(e, k) == /\ e.id = k /\ e.msg = <<"msg", k>>
              /\ k < LastKey => e.key = <<"key", k>>
              /\ ~(k < LastKey) => e.key = <<"unused", k>>

LEMMA KeysInQueue ==
  ASSUME Types, Numbers
  PROVE  /\ Queued \in Nat /\ LastKey \in Nat /\ Given \in Nat /\ Given <= LastKey
         /\ Queued + Len(queue_) = Given /\ Len(queue_) \in Nat
<1>1. id \in Nat /\ LastKey \in Nat /\ Jobs \in Nat
  BY Bounds
<1>2. Queued \in Nat
  BY <1>1 DEF Queued
<1>3. Queued + Len(queue_) = Given /\ Len(queue_) \in Nat
  BY LenProperties DEF Numbers, Types
<1>4. Given \in Nat
  BY <1>2, <1>3
<1>5. Given <= LastKey
  <2>1. CASE mainAt = "keygen"
    <3>1. MainHas
      BY <2>1 DEF MainHas
    <3>2. Given = LastKey
      BY <2>1, <3>1 DEF Given, LastKey
    <3> QED
      BY <1>1, <3>2
  <2>2. CASE mainAt # "keygen"
    <3>1. LastKey = id /\ (Given = id \/ Given = id - 1)
      BY <2>2 DEF Given, LastKey
    <3> QED
      BY <1>1, <3>1
  <2> QED
    BY <2>1, <2>2
<1> QED
  BY <1>1, <1>2, <1>3, <1>4, <1>5

LEMMA HeldByWorker ==
  ASSUME Types, Control, Numbers
  PROVE  /\ WorkerHolds \in Seq(Data) /\ Oldest \in Nat /\ Queued = Oldest + Len(WorkerHolds)
         /\ \A n \in 1..Len(WorkerHolds) : Held(WorkerHolds[n], Oldest + n - 1)
<1>1. /\ Jobs \in Nat /\ Queued \in Nat /\ LastKey \in Nat /\ Queued <= LastKey
  <2>1. Jobs \in Nat
    BY Bounds
  <2>2. Queued \in Nat /\ LastKey \in Nat /\ Given \in Nat /\ Given <= LastKey
        /\ Queued + Len(queue_) = Given /\ Len(queue_) \in Nat
    BY KeysInQueue
  <2> QED
    BY <2>1, <2>2
<1>2. CASE Taken
  <2>1. WorkerHolds = <<item[Worker]>> /\ workerAt \notin HasBlock
    BY <1>2 DEF Taken, WorkerHolds, HasBlock, HasKey, HasMsg, NotWritten
  <2>2. Oldest = Jobs /\ Queued = Jobs + 1
    BY <1>2, <2>1 DEF Oldest, Before, Queued
  <2>3. /\ item[Worker] \in Data /\ item[Worker].id = Jobs
        /\ item[Worker].msg = <<"msg", Jobs>> /\ item[Worker].key = <<"key", Jobs>>
    BY <1>2 DEF Numbers, IsBlock
  <2>4. Jobs < LastKey
    BY <1>1, <2>2
  <2>5. Held(item[Worker], Jobs)
    BY <2>3, <2>4 DEF Held
  <2>6. /\ WorkerHolds \in Seq(Data) /\ Len(WorkerHolds) = 1 /\ WorkerHolds[1] = item[Worker]
    BY <2>1, <2>3
  <2> QED
    BY <1>1, <2>2, <2>5, <2>6
<1>3. CASE workerAt \in HasBlock
  <2>1. WorkerHolds = <<job>> /\ ~Taken
    BY <1>3 DEF Taken, WorkerHolds, HasBlock, HasKey, HasMsg, NotWritten
  <2>2. Oldest = Jobs - 1 /\ Queued = Jobs
    BY <1>3, <2>1 DEF Oldest, Before, Queued
  <2>3. /\ job \in Data /\ job.id = Jobs - 1 /\ Jobs - 1 \in Nat
        /\ job.msg = <<"msg", Jobs - 1>> /\ job.key = <<"key", Jobs - 1>>
    BY <1>3, JobNumbers
  <2>4. Jobs - 1 < LastKey
    BY <1>1, <2>2
  <2>5. Held(job, Jobs - 1)
    BY <2>3, <2>4 DEF Held
  <2>6. /\ WorkerHolds \in Seq(Data) /\ Len(WorkerHolds) = 1 /\ WorkerHolds[1] = job
    BY <2>1, <2>3
  <2>7. Jobs = (Jobs - 1) + 1 /\ \A n \in 1..1 : n = 1 /\ (Jobs - 1) + n - 1 = Jobs - 1
    BY <1>1
  <2> QED
    BY <2>2, <2>3, <2>5, <2>6, <2>7
<1>4. CASE ~Taken /\ workerAt \notin HasBlock
  <2>1. WorkerHolds = <<>>
    BY <1>4 DEF Taken, WorkerHolds, HasBlock, HasKey, HasMsg, NotWritten, Types, WorkerPlaces
  <2>2. Oldest = Jobs /\ Queued = Jobs
    BY <1>4 DEF Oldest, Before, Queued
  <2>3. WorkerHolds \in Seq(Data) /\ Len(WorkerHolds) = 0
    BY <2>1, EmptySeq
  <2> QED
    BY <1>1, <2>2, <2>3
<1> QED
  BY <1>2, <1>3, <1>4

LEMMA HeldByMain ==
  ASSUME Types, Control, Numbers
  PROVE  /\ MainHolds \in Seq(Data) /\ Given \in Nat /\ LastMsg = Given + Len(MainHolds)
         /\ \A n \in 1..Len(MainHolds) : Held(MainHolds[n], Given + n - 1)
<1>1. id \in Nat /\ LastKey \in Nat /\ (MainHas => id - 1 \in Nat)
  <2>1. Queued + Len(queue_) = Given /\ Len(queue_) \in Nat /\ Queued \in Nat
    BY JobsNat, LenProperties DEF Numbers, Types, Queued
  <2>2. id \in Nat /\ LastKey \in Nat
    BY Bounds
  <2>3. ASSUME MainHas PROVE id - 1 \in Nat
    <3>1. Given = id - 1
      BY <2>3 DEF Given
    <3> QED
      BY <2>1, <2>2, <3>1
  <2> QED
    BY <2>2, <2>3
<1>2. CASE mainAt = "read"
  <2>1. MainHolds = <<data>> /\ data \in Data /\ ~MainHas
    BY <1>2 DEF MainHolds, MainHas, Control, MainControl
  <2>2. Given = id /\ LastMsg = id + 1 /\ LastKey = id
    BY <1>2, <2>1 DEF Given, LastMsg, LastKey
  <2>3. Held(data, id)
    BY <1>1, <1>2, <2>2 DEF Numbers, Held
  <2>4. MainHolds \in Seq(Data) /\ Len(MainHolds) = 1 /\ MainHolds[1] = data
    BY <2>1
  <2> QED
    BY <1>1, <2>2, <2>3, <2>4
<1>3. CASE MainHas
  <2>1. MainHolds = <<data>> /\ data \in Data /\ mainAt # "read"
    BY <1>3 DEF MainHolds, MainHas, Control, MainControl
  <2>2. Given = id - 1 /\ LastMsg = id
    BY <1>3, <2>1 DEF Given, LastMsg
  <2>3. Held(data, id - 1)
    <3>1. CASE mainAt = "keygen"
      <4>1. LastKey = id - 1
        BY <3>1 DEF LastKey
      <4>2. ~(id - 1 < LastKey)
        BY <1>1, <4>1
      <4> QED
        BY <3>1, <4>2 DEF Numbers, Held
    <3>2. CASE mainAt # "keygen"
      <4>1. LastKey = id
        BY <3>2 DEF LastKey
      <4>2. id - 1 < LastKey
        BY <1>1, <4>1
      <4>3. IsBlock(data, id - 1)
        BY <1>3, <3>2 DEF Numbers
      <4> QED
        BY <4>2, <4>3 DEF IsBlock, Held
    <3> QED
      BY <3>1, <3>2
  <2>4. MainHolds \in Seq(Data) /\ Len(MainHolds) = 1 /\ MainHolds[1] = data
    BY <2>1
  <2>5. id = (id - 1) + 1 /\ \A n \in 1..1 : n = 1 /\ (id - 1) + n - 1 = id - 1
    BY <1>1
  <2> QED
    BY <1>1, <1>3, <2>2, <2>3, <2>4, <2>5
<1>4. CASE mainAt # "read" /\ ~MainHas
  <2>1. MainHolds = <<>>
    BY <1>4 DEF MainHolds, MainHas
  <2>2. Given = id /\ LastMsg = id
    BY <1>4 DEF Given, LastMsg
  <2>3. MainHolds \in Seq(Data) /\ Len(MainHolds) = 0
    BY <2>1, EmptySeq
  <2> QED
    BY <1>1, <2>2, <2>3
<1> QED
  BY <1>2, <1>3, <1>4

LEMMA HeldInOrder ==
  ASSUME Types, Control, Numbers
  PROVE  /\ InFlight \in Seq(Data) /\ Len(InFlight) \in Nat
         /\ Oldest \in Nat /\ LastMsg = Oldest + Len(InFlight)
         /\ \A n \in 1..Len(InFlight) : Held(InFlight[n], Oldest + n - 1)
<1> DEFINE front == WorkerHolds \o queue_
           w == Len(WorkerHolds)
           q == Len(queue_)
           m == Len(MainHolds)
<1>1. /\ WorkerHolds \in Seq(Data) /\ Oldest \in Nat /\ Queued = Oldest + w
      /\ \A n \in 1..w : Held(WorkerHolds[n], Oldest + n - 1)
  BY HeldByWorker
<1>2. /\ MainHolds \in Seq(Data) /\ Given \in Nat /\ LastMsg = Given + m
      /\ \A n \in 1..m : Held(MainHolds[n], Given + n - 1)
  BY HeldByMain
<1>3. /\ w \in Nat /\ q \in Nat /\ m \in Nat /\ Queued + q = Given /\ queue_ \in Seq(Data)
  BY <1>1, <1>2, LenProperties DEF Numbers, Types
<1>4. ASSUME NEW n \in 1..q PROVE Held(queue_[n], Queued + n - 1)
  <2>1. Queued + n - 1 < LastKey
    <3>1. Given <= LastKey /\ LastKey \in Nat /\ Queued \in Nat
      BY KeysInQueue
    <3> QED
      BY <1>2, <1>3, <3>1
  <2>2. IsBlock(queue_[n], Queued + n - 1)
    BY DEF Numbers
  <2> QED
    BY <2>1, <2>2 DEF IsBlock, Held
<1>5. /\ front \in Seq(Data) /\ Len(front) = w + q
      /\ \A n \in 1..(w + q) : front[n] = IF n <= w THEN WorkerHolds[n] ELSE queue_[n - w]
  BY <1>1, <1>3, ConcatProperties
<1>6. /\ InFlight \in Seq(Data) /\ Len(InFlight) = (w + q) + m
      /\ \A n \in 1..((w + q) + m) : InFlight[n] = IF n <= w + q THEN front[n]
                                                  ELSE MainHolds[n - (w + q)]
  <2>1. /\ front \o MainHolds \in Seq(Data) /\ Len(front \o MainHolds) = Len(front) + m
        /\ \A n \in 1..(Len(front) + m) :
             (front \o MainHolds)[n] = IF n <= Len(front) THEN front[n]
                                       ELSE MainHolds[n - Len(front)]
    <3> HIDE DEF front, w, q
    <3>1. front \in Seq(Data) /\ MainHolds \in Seq(Data)
      BY <1>2, <1>5
    <3> QED
      BY <3>1, ConcatProperties
  <2>2. InFlight = front \o MainHolds
    BY DEF InFlight
  <2> HIDE DEF front
  <2> QED
    BY <1>5, <2>1, <2>2
<1> HIDE DEF front, w, q, m
<1>7. ASSUME NEW n \in 1..((w + q) + m) PROVE Held(InFlight[n], Oldest + n - 1)
  <2>1. CASE n <= w
    <3>1. n \in 1..w /\ n \in 1..(w + q) /\ n <= w + q
      BY <1>3, <2>1
    <3> QED
      BY <1>1, <1>5, <1>6, <2>1, <3>1
  <2>2. CASE ~(n <= w) /\ n <= w + q
    <3>1. n - w \in 1..q /\ n \in 1..(w + q) /\ Queued + (n - w) - 1 = Oldest + n - 1
      BY <1>1, <1>3, <2>2
    <3>2. Held(queue_[n - w], Queued + (n - w) - 1)
      BY <1>4, <3>1
    <3> QED
      BY <1>5, <1>6, <2>2, <3>1, <3>2
  <2>3. CASE ~(n <= w + q)
    <3>1. n - (w + q) \in 1..m /\ Given + (n - (w + q)) - 1 = Oldest + n - 1
      BY <1>1, <1>3, <2>3
    <3>2. Held(MainHolds[n - (w + q)], Given + (n - (w + q)) - 1)
      BY <1>2, <3>1
    <3> QED
      BY <1>6, <2>3, <3>1, <3>2
  <2> QED
    BY <2>1, <2>2, <2>3
<1>8. LastMsg = Oldest + ((w + q) + m)
  BY <1>1, <1>2, <1>3
<1> QED
  BY <1>1, <1>3, <1>6, <1>7, <1>8

LEMMA Consecutive ==
  ASSUME Types, Control, Numbers
  PROVE  \A n \in 1..(Len(InFlight) - 1) : InFlight[n + 1].id = InFlight[n].id + 1
<1>1. /\ Len(InFlight) \in Nat /\ Oldest \in Nat
      /\ \A n \in 1..Len(InFlight) : Held(InFlight[n], Oldest + n - 1)
  BY HeldInOrder
<1>2. ASSUME NEW n \in 1..(Len(InFlight) - 1)
      PROVE  InFlight[n + 1].id = InFlight[n].id + 1
  <2>1. n \in 1..Len(InFlight) /\ n + 1 \in 1..Len(InFlight)
        /\ Oldest + (n + 1) - 1 = (Oldest + n - 1) + 1
    BY <1>1
  <2>2. InFlight[n].id = Oldest + n - 1 /\ InFlight[n + 1].id = Oldest + (n + 1) - 1
    BY <1>1, <2>1 DEF Held
  <2> QED
    BY <2>1, <2>2
<1> QED
  BY <1>2

\* A place on the heap of a block in flight.
LEMMA Places ==
  ASSUME Types, Control, Numbers, NEW l
  PROVE  l \in UNION {{e.msg, e.key} : e \in Range(InFlight)} <=>
           \E k \in Interval(Oldest, LastMsg) :
              \/ l = <<"msg", k>>
              \/ k < LastKey /\ l = <<"key", k>>
              \/ ~(k < LastKey) /\ l = <<"unused", k>>
<1>1. /\ InFlight \in Seq(Data) /\ Len(InFlight) \in Nat
      /\ Oldest \in Nat /\ LastMsg = Oldest + Len(InFlight)
      /\ \A n \in 1..Len(InFlight) : Held(InFlight[n], Oldest + n - 1)
  BY HeldInOrder
<1>2. Range(InFlight) = {InFlight[n] : n \in 1..Len(InFlight)}
  BY <1>1, LenProperties DEF Range
<1>3. l \in UNION {{e.msg, e.key} : e \in Range(InFlight)} <=>
        \E n \in 1..Len(InFlight) : l = InFlight[n].msg \/ l = InFlight[n].key
  BY <1>2
<1>4. ASSUME NEW n \in 1..Len(InFlight), l = InFlight[n].msg \/ l = InFlight[n].key
      PROVE  \E k \in Interval(Oldest, LastMsg) :
                \/ l = <<"msg", k>>
                \/ k < LastKey /\ l = <<"key", k>>
                \/ ~(k < LastKey) /\ l = <<"unused", k>>
  <2>1. Oldest + n - 1 \in Interval(Oldest, LastMsg)
    BY <1>1 DEF Interval
  <2>2. Held(InFlight[n], Oldest + n - 1)
    BY <1>1
  <2> QED
    BY <1>4, <2>1, <2>2 DEF Held
<1>5. ASSUME NEW k \in Interval(Oldest, LastMsg),
             \/ l = <<"msg", k>>
             \/ k < LastKey /\ l = <<"key", k>>
             \/ ~(k < LastKey) /\ l = <<"unused", k>>
      PROVE  \E n \in 1..Len(InFlight) : l = InFlight[n].msg \/ l = InFlight[n].key
  <2>1. k - Oldest + 1 \in 1..Len(InFlight) /\ Oldest + (k - Oldest + 1) - 1 = k
    BY <1>1 DEF Interval
  <2>2. Held(InFlight[k - Oldest + 1], k)
    BY <1>1, <2>1
  <2>3. l = InFlight[k - Oldest + 1].msg \/ l = InFlight[k - Oldest + 1].key
    BY <1>5, <2>2 DEF Held
  <2> QED
    BY <2>1, <2>3
<1> QED
  BY <1>3, <1>4, <1>5

LEMMA LeakedIs ==
  ASSUME Types, Control, Numbers
  PROVE  Leaked = ({"unused"} \X Interval(0, LastMsg))
                  \cup ({"integer_msg", "integer_key"} \X Interval(0, Converted))
                  \cup ({"tmp"} \X Interval(0, Xored))
<1>1. id \in Nat /\ Jobs \in Nat
  BY Bounds
<1>2. 0..(IF mainAt = "read" THEN id ELSE id - 1) = Interval(0, LastMsg)
  BY <1>1 DEF Interval, LastMsg
<1>3. job # None => job.id = Jobs - 1
  BY DEF Numbers, IsBlock
<1>4. job = None => workerAt \notin HasBlock
  BY DEF Numbers
<1>5. Begun({"xor"}) = Interval(0, Before({"xor"}))
  <2>1. CASE job = None
    <3>1. workerAt \notin {"xor"} /\ Jobs = 0
      BY <1>4, <2>1 DEF HasBlock, HasKey, HasMsg, NotWritten, Jobs
    <3> QED
      BY <2>1, <3>1 DEF Begun, Before, Interval
  <2>2. CASE job # None
    BY <1>1, <1>3, <2>2 DEF Begun, Before, Interval
  <2> QED
    BY <2>1, <2>2
<1>6. Begun({"xor", "kernel"}) = Interval(0, Before({"xor", "kernel"}))
  <2>1. CASE job = None
    <3>1. workerAt \notin {"xor", "kernel"} /\ Jobs = 0
      BY <1>4, <2>1 DEF HasBlock, HasKey, HasMsg, NotWritten, Jobs
    <3> QED
      BY <2>1, <3>1 DEF Begun, Before, Interval
  <2>2. CASE job # None
    BY <1>1, <1>3, <2>2 DEF Begun, Before, Interval
  <2> QED
    BY <2>1, <2>2
<1>7. CASE onGPU
  BY <1>2, <1>5, <1>6, <1>7 DEF Leaked, Converted, Xored
<1>8. CASE ~onGPU
  <2>1. Converted = 0 /\ Xored = 0 /\ Interval(0, 0) = {}
    BY <1>8 DEF Converted, Xored, Interval
  <2> QED
    BY <1>2, <1>8, <2>1 DEF Leaked
<1> QED
  BY <1>7, <1>8

\* The key buffers of main's malloc that are still in a struct Data of main.
Spare == {"unused"} \X {k \in Interval(Oldest, LastMsg) : ~(k < LastKey)}

LEMMA OwnedIs ==
  ASSUME Types, Control, Numbers
  PROVE  Owned = ({"msg"} \X Interval(FirstMsg, LastMsg))
                 \cup ({"key"} \X Interval(FirstKey, LastKey))
                 \cup Spare \cup Result
<1> DEFINE places == UNION {{e.msg, e.key} : e \in Range(InFlight)}
<1>1. LastMsg \in Nat /\ LastKey \in Nat /\ LastKey <= LastMsg /\ Oldest \in Nat
  <2>1. LastMsg \in Nat /\ LastKey \in Nat /\ id \in Nat
    BY Bounds
  <2>2. LastKey <= LastMsg
    BY <2>1 DEF LastMsg, LastKey
  <2> QED
    BY <2>1, <2>2, HeldInOrder
<1>2. Interval(Oldest, LastKey) = {k \in Interval(Oldest, LastMsg) : k < LastKey}
  BY <1>1 DEF Interval
<1>3. ASSUME NEW l
      PROVE  l \in places <=> \/ l \in {"msg"} \X Interval(Oldest, LastMsg)
                              \/ l \in {"key"} \X Interval(Oldest, LastKey)
                              \/ l \in Spare
  <2>1. l \in places <=> \E k \in Interval(Oldest, LastMsg) :
                            \/ l = <<"msg", k>>
                            \/ k < LastKey /\ l = <<"key", k>>
                            \/ ~(k < LastKey) /\ l = <<"unused", k>>
    BY Places
  <2> HIDE DEF places
  <2> QED
    BY <1>2, <2>1 DEF Spare
<1>4. places = ({"msg"} \X Interval(Oldest, LastMsg)) \cup ({"key"} \X Interval(Oldest, LastKey))
               \cup Spare
  <2> HIDE DEF places
  <2> QED
    BY <1>3
<1>5. Decrypted = Result
  BY DEF Decrypted, Result, Decrypting
<1>6. Owned = (places \ Freed) \cup Result
  BY <1>5 DEF Owned
<1> HIDE DEF places
<1>7. CASE workerAt = "free key" \/ workerAt = "free decrypted"
  <2>1. workerAt \in HasBlock /\ workerAt \notin HasMsg
    BY <1>7 DEF HasBlock, HasKey, HasMsg, NotWritten
  <2>2. Oldest = job.id /\ FirstMsg = job.id + 1 /\ job.id \in Nat
    BY <2>1, JobNumbers DEF Oldest, FirstMsg, Before
  <2>3. job.msg = <<"msg", job.id>> /\ job.key = <<"key", job.id>>
    BY <2>1, JobNumbers
  <2>4. Interval(FirstMsg, LastMsg) = Interval(Oldest, LastMsg) \ {job.id}
    BY <1>1, <2>2 DEF Interval
  <2>5. CASE workerAt = "free key"
    <3>1. FirstKey = Oldest /\ Freed = {<<"msg", job.id>>}
      BY <2>1, <2>3, <2>5 DEF Oldest, FirstKey, Before, HasKey, Freed
    <3> QED
      BY <1>4, <1>6, <2>4, <3>1 DEF Spare
  <2>6. CASE workerAt = "free decrypted"
    <3>1. Freed = {<<"msg", job.id>>, <<"key", job.id>>}
      BY <2>3, <2>6 DEF Freed
    <3>2. FirstKey = job.id + 1
      <4>1. workerAt \notin HasKey
        BY <2>6 DEF HasKey, HasMsg, NotWritten
      <4> QED
        BY <2>1, <4>1, JobNumbers DEF FirstKey, Before
    <3>3. Interval(FirstKey, LastKey) = Interval(Oldest, LastKey) \ {job.id}
      BY <1>1, <2>2, <3>2 DEF Interval
    <3> QED
      BY <1>4, <1>6, <2>4, <3>1, <3>3 DEF Spare
  <2> QED
    BY <1>7, <2>5, <2>6
<1>8. CASE ~(workerAt = "free key" \/ workerAt = "free decrypted")
  <2>1. Freed = {}
    BY <1>8 DEF Freed
  <2>2. FirstMsg = Oldest /\ FirstKey = Oldest
    BY <1>8 DEF FirstMsg, FirstKey, Oldest, Before, HasBlock, HasKey
  <2> QED
    BY <1>4, <1>6, <2>1, <2>2
<1> QED
  BY <1>7, <1>8

LEMMA AllAccounted ==
  ASSUME Types, Control, Numbers
  PROVE  Allocated = Owned \cup Leaked
<1>1. Spare \subseteq {"unused"} \X Interval(0, LastMsg)
  <2>1. Oldest \in Nat /\ LastMsg \in Nat
    BY HeldInOrder, Bounds
  <2>2. Interval(Oldest, LastMsg) \subseteq Interval(0, LastMsg)
    BY <2>1 DEF Interval
  <2> QED
    BY <2>2 DEF Spare
<1> QED
  BY <1>1, OwnedIs, LeakedIs, Zenon DEF Allocated, Buffers

----------------------------------------------------------------------------
\* Every variable has its type.
THEOREM Typed == Spec => []TypeOK
<1>1. IInv => TypeOK
  <2> SUFFICES ASSUME Types PROVE TypeOK
    BY DEF IInv
  <2>1. \A n \in DOMAIN queue_ : queue_[n] \in Data
    BY LenProperties, ElementOfSeq DEF Types
  <2>2. mainAt \in {"start", "malloc", "read", "keygen", "push", "in push", "sleep", "terminated"}
    BY DEF Types, MainPlaces
  <2>3. workerAt \in {"not started", "pop", "in pop", "xor", "kernel", "convert",
                      "write", "flush", "free msg", "free key", "free decrypted"}
    BY DEF Types, WorkerPlaces, HasBlock, HasKey, HasMsg, NotWritten
  <2> QED
    BY <2>1, <2>2, <2>3 DEF Types, TypeOK
<1> QED
  BY <1>1, IInvAlways, PTL

\* With blocks and words of any size and however fread cuts the input, what has
\* reached stdout is a prefix of the input, each character encrypted with its own
\* character of its own block's key: BlockingQueue, the two conversions around the
\* kernel, fwrite and its buffer lose, repeat and reorder nothing
\* (GPUEncryption.cpp 25-42, CPUEncryption.cpp 15-22, TriviumKeygen.cpp 27-52).
THEOREM InOrder == Spec => []OutputInOrder
<1>1. IInv => OutputInOrder
  <2> SUFFICES ASSUME IInv PROVE OutputInOrder
    OBVIOUS
  <2> DEFINE o == out \o stdio
  <2>1. o \in Seq(Char) /\ expected \in Seq(Char)
    BY ConcatProperties DEF IInv, Streams
  <2>2. Len(o) <= Len(expected) /\ \A c \in 1..Len(o) : o[c] = expected[c]
    BY DEF IInv, Right
  <2> HIDE DEF o
  <2>3. Len(o) \in Nat /\ Len(expected) \in Nat
    BY <2>1, LenProperties
  <2>4. \A c \in 1..Len(o) : expected[c] \in Char
    BY <2>1, <2>2, <2>3, ElementOfSeq
  <2> DEFINE first == SubSeq(expected, 1, Len(o))
  <2>5. /\ first \in Seq(Char) /\ Len(first) = Len(o)
        /\ \A c \in 1..Len(o) : first[c] = expected[c]
    <3>1. /\ SubSeq(expected, 1, Len(o)) \in Seq(Char)
          /\ Len(SubSeq(expected, 1, Len(o))) = IF 1 <= Len(o) THEN Len(o) - 1 + 1 ELSE 0
          /\ \A c \in 1..(Len(o) - 1 + 1) : SubSeq(expected, 1, Len(o))[c] = expected[1 + c - 1]
      BY <2>3, <2>4, SubSeqProperties
    <3>2. Len(o) - 1 + 1 = Len(o) /\ \A c \in 1..Len(o) : 1 + c - 1 = c
      BY <2>3
    <3>3. ~(1 <= Len(o)) => Len(o) = 0
      BY <2>3
    <3> QED
      BY <3>1, <3>2, <3>3
  <2> HIDE DEF first
  <2>6. first = o
    BY <2>1, <2>2, <2>5, SeqEqual
  <2>7. SubSeq(o, 1, Len(o)) = o
    BY <2>1, SubSeqFull
  <2>8. Len(o) <= Len(expected) /\ SubSeq(o, 1, Len(o)) = SubSeq(expected, 1, Len(o))
    BY <2>2, <2>6, <2>7 DEF first
  <2> QED
    BY <2>8 DEF OutputInOrder, IsPrefix, o
<1> QED
  BY <1>1, IInvAlways, PTL

\* At every moment the heap holds the buffers of the blocks in flight that are not
\* yet freed, those no statement frees, and nothing else, so that no thread uses a
\* buffer the other has freed and none is freed twice (TriviumKeygen.cpp 29-50,
\* GPUEncryption.cpp 25-46).
THEOREM Accounted == Spec => []HeapAccounting
<1>1. IInv => HeapAccounting
  <2> SUFFICES ASSUME Types, Control, Numbers, Live = Allocated PROVE HeapAccounting
    BY DEF IInv
  <2>1. Live = Owned \cup Leaked
    BY AllAccounted
  <2>2. \A n \in 1..(Len(InFlight) - 1) : InFlight[n + 1].id = InFlight[n].id + 1
    BY Consecutive
  <2> QED
    BY <2>1, <2>2 DEF HeapAccounting
<1> QED
  BY <1>1, IInvAlways, PTL

=============================================================================
