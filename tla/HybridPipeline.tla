--------------------------- MODULE HybridPipeline ---------------------------
(***************************************************************************)
(* hybrid/TriviumKeygen.cpp and hybrid/TriviumKeygenCPU.cpp: the main      *)
(* thread cuts stdin into blocks, generates a key for each and pushes both *)
(* to a BlockingQueue; the worker thread of GPUEncryption or CPUEncryption *)
(* pops them, XORs them and writes the result to stdout.  When the input   *)
(* has ended main sleeps for a second and returns.                         *)
(*                                                                         *)
(* A character of the input is its position, 1, 2, ...; a character of the *)
(* key of block id is <<id, offset>>; an encrypted character is the pair   *)
(* of the two.  The heap maps each allocated buffer to what it holds.      *)
(***************************************************************************)
EXTENDS Naturals, Sequences, SequencesExt

CONSTANTS Main, Worker, \* the two threads
          None,
          BlockSize,    \* BLOCK_SIZE
          WordSize,     \* characters in an int
          Workers,      \* which of GPUEncryption and CPUEncryption are considered
          InputSizes,   \* the lengths of stdin considered
          MaxErrors     \* bound: short reads that are not the end of the file

\* struct Data, with the number of the block for the name of its buffers.
Data == [msg : {"msg"} \X Nat, key : {"key", "unused"} \X Nat, len : Nat, id : Nat]

ASSUME PipelineAssumption == /\ Main # Worker
                             /\ None \notin Data
                             /\ BlockSize \in Nat \ {0}
                             /\ WordSize \in Nat \ {0}
                             /\ Workers \subseteq {"GPU", "CPU"}
                             /\ InputSizes \subseteq Nat
                             /\ MaxErrors \in Nat

VARIABLES onGPU,    \* the program is TriviumKeygen, not TriviumKeygenCPU
          pc, mutex_, waiters, queue_, item,  \* the BlockingQueue
          mainAt,   \* where main is
          id,       \* the local i of copy_stdin2stdout
          data,     \* its local data
          unread,   \* characters of stdin not read yet
          expected, \* history: the characters read so far with the key of their block
          errors,   \* short reads so far that were not the end of the file
          eof,      \* feof(stdin)
          workerAt, \* where the worker is
          job,      \* the local data of run
          heap,     \* allocated buffers and their contents
          stdio,    \* characters in the buffer of stdout
          out       \* characters written to the file descriptor of stdout

queueVars  == <<pc, mutex_, waiters, queue_, item>>
readVars   == <<id, unread, expected, errors, eof>>
mainVars   == <<mainAt, data, readVars>>
outVars    == <<stdio, out>>
workerVars == <<workerAt, job, outVars>>
vars       == <<onGPU, queueVars, mainVars, workerVars, heap>>

Q == INSTANCE BlockingQueue WITH Producers <- {Main}, Consumers <- {Worker},
                                 Elements <- Data

Init == /\ onGPU \in {w = "GPU" : w \in Workers}
        /\ Q!Init
        /\ mainAt = "start"
        /\ id = 0
        /\ data = None
        /\ unread \in InputSizes
        /\ expected = <<>>
        /\ errors = 0
        /\ eof = FALSE
        /\ workerAt = "not started"
        /\ job = None
        /\ heap = <<>>
        /\ stdio = <<>>
        /\ out = <<>>

Live == DOMAIN heap

With(h, b, contents) == [l \in DOMAIN h \cup {b} |-> IF l = b THEN contents ELSE h[l]]

Malloc(b, contents) == heap' = With(heap, b, contents)

Free(b) == heap' = [l \in Live \ {b} |-> heap[l]]

MainGoto(from, to) == /\ mainAt = from
                      /\ mainAt' = to

\* The process is there until main has returned: then the worker is gone as well.
WorkerGoto(from, to) == /\ mainAt # "terminated"
                        /\ workerAt = from
                        /\ workerAt' = to

----------------------------------------------------------------------------
\* main and copy_stdin2stdout

\* gpu.start(), trivium.initiation().
Start == /\ MainGoto("start", "malloc")
         /\ workerAt' = "pop"
         /\ UNCHANGED <<queueVars, data, readVars, job, heap, outVars>>

\* The key buffer allocated here is never used: generateKey returns its own.
MallocBlock == /\ MainGoto("malloc", "read")
               /\ data' = [msg |-> <<"msg", id>>, key |-> <<"unused", id>>,
                           len |-> 0, id |-> id]
               /\ heap' = With(With(heap, <<"msg", id>>, <<>>), <<"unused", id>>, <<>>)
               /\ UNCHANGED <<queueVars, readVars, workerVars>>

\* fread gives bytes characters and the loop body counts the block.
Read(bytes) == /\ MainGoto("read", "keygen")
               /\ heap' = [heap EXCEPT ![data.msg] = [n \in 1..bytes |-> Len(expected) + n]]
               /\ data' = [data EXCEPT !.len = bytes, !.id = id]
               /\ id' = id + 1
               /\ unread' = unread - bytes
               /\ expected' = expected \o [n \in 1..bytes |-> <<Len(expected) + n, <<id, n>>>>]
               /\ UNCHANGED <<queueVars, workerVars>>

\* Mutant of ReadFull: the number of characters fread returned is not looked at.
ReadAlwaysFull == Read(BlockSize) /\ UNCHANGED <<errors, eof>>

ReadFull == /\ unread >= BlockSize
            /\ Read(BlockSize)
            /\ UNCHANGED <<errors, eof>>

ReadToEof == /\ unread < BlockSize
             /\ Read(unread)
             /\ eof' = TRUE
             /\ UNCHANGED errors

\* fread stops early without having reached the end of the file.
ReadError == /\ errors < MaxErrors
             /\ \E bytes \in 0..(BlockSize - 1) : bytes <= unread /\ Read(bytes)
             /\ errors' = errors + 1
             /\ UNCHANGED eof

GenerateKey == /\ MainGoto("keygen", "push")
               /\ data' = [data EXCEPT !.key = <<"key", data.id>>]
               /\ Malloc(<<"key", data.id>>, [n \in 1..data.len |-> <<data.id, n>>])
               /\ UNCHANGED <<queueVars, readVars, workerVars>>

CallPush == /\ MainGoto("push", "in push")
            /\ Q!PushCall(Main, data)
            /\ UNCHANGED <<data, readVars, workerVars, heap>>

\* Mutant of InPush: main frees the message it has pushed
\* (the free commented out at TriviumKeygenCPU.cpp 43).
InPushThenFree == /\ mainAt = "in push"
                  /\ Q!PushLock(Main) \/ Q!PushStep(Main)
                  /\ IF pc'[Main] = "idle" THEN Free(data.msg) ELSE UNCHANGED heap
                  /\ UNCHANGED <<mainVars, workerVars>>

InPush == /\ mainAt = "in push"
          /\ Q!PushLock(Main) \/ Q!PushStep(Main)
          /\ UNCHANGED <<mainVars, workerVars, heap>>

\* push has returned: if (bytes < BLOCK_SIZE) if (feof(stdin)) break
Pushed == mainAt = "in push" /\ pc[Main] = "idle"

\* Mutant of AtEnd: any short read ends the loop.
AtEndIfShort == data.len < BlockSize

AtEnd == data.len < BlockSize /\ eof

Loop == /\ Pushed
        /\ ~AtEnd
        /\ MainGoto("in push", "malloc")
        /\ UNCHANGED <<queueVars, data, readVars, workerVars, heap>>

Break == /\ Pushed
         /\ AtEnd
         /\ MainGoto("in push", "sleep")
         /\ UNCHANGED <<queueVars, data, readVars, workerVars, heap>>

\* sleep(1); return 0.  The destructor of the worker's std::thread, which nobody
\* joined, terminates the process; what is left in the stdout buffer is lost.
Return == /\ MainGoto("sleep", "terminated")
          /\ stdio' = <<>>
          /\ UNCHANGED <<queueVars, data, readVars, workerAt, job, heap, out>>

----------------------------------------------------------------------------
\* GPUEncryption::run and CPUEncryption::run

CallPop == /\ WorkerGoto("pop", "in pop")
           /\ Q!PopCall(Worker)
           /\ UNCHANGED <<mainVars, job, heap, outVars>>

InPop == /\ mainAt # "terminated"
         /\ workerAt = "in pop"
         /\ \/ Q!PopLock(Worker)
            \/ Q!PopRelock(Worker)
            \/ Q!PopStep(Worker)
         /\ UNCHANGED <<mainVars, workerVars, heap>>

WakeupInPop == /\ mainAt # "terminated"
               /\ Q!SpuriousWakeup(Worker)
               /\ UNCHANGED <<mainVars, workerVars, heap>>

\* data = queue->pop()
Popped == /\ pc[Worker] = "idle"
          /\ WorkerGoto("in pop", "xor")
          /\ job' = item[Worker]
          /\ UNCHANGED <<queueVars, mainVars, heap, outVars>>

Xor(msg, key) == [n \in DOMAIN msg |-> <<msg[n], key[n]>>]

XorOnCPU == /\ ~onGPU
            /\ WorkerGoto("xor", "write")
            /\ Malloc(<<"decrypted", job.id>>, Xor(heap[job.msg], heap[job.key]))
            /\ UNCHANGED <<queueVars, mainVars, job, outVars>>

\* The words of n characters: the last one is filled with zeros.
LEN(n) == (n + WordSize - 1) \div WordSize

convert_to_integer(buff, n, zero) ==
  [w \in 1..LEN(n) |-> [b \in 1..WordSize |->
     LET c == WordSize * (w - 1) + b IN IF c <= n THEN buff[c] ELSE zero]]

convert_to_char(words, n) ==
  [c \in 1..n |-> words[((c - 1) \div WordSize) + 1][((c - 1) % WordSize) + 1]]

ConvertToInteger ==
  /\ onGPU
  /\ WorkerGoto("xor", "kernel")
  /\ heap' = With(With(heap,
       <<"integer_msg", job.id>>, convert_to_integer(heap[job.msg], job.len, 0)),
       <<"integer_key", job.id>>, convert_to_integer(heap[job.key], job.len, <<0, 0>>))
  /\ UNCHANGED <<queueVars, mainVars, job, outVars>>

\* k(&message, &key, &encrypted, size), and encrypted copied to tmp.
Kernel ==
  /\ WorkerGoto("kernel", "convert")
  /\ LET message == heap[<<"integer_msg", job.id>>]
         key     == heap[<<"integer_key", job.id>>]
     IN Malloc(<<"tmp", job.id>>, [w \in 1..LEN(job.len) |-> Xor(message[w], key[w])])
  /\ UNCHANGED <<queueVars, mainVars, job, outVars>>

ConvertToChar ==
  /\ WorkerGoto("convert", "write")
  /\ Malloc(<<"decrypted", job.id>>, convert_to_char(heap[<<"tmp", job.id>>], job.len))
  /\ UNCHANGED <<queueVars, mainVars, job, outVars>>

\* fwrite hands some of the characters on and keeps the others in its buffer.
Write == /\ WorkerGoto("write", "flush")
         /\ \E n \in 0..job.len : LET chars == heap[<<"decrypted", job.id>>] IN
              /\ out' = out \o SubSeq(chars, 1, n)
              /\ stdio' = SubSeq(chars, n + 1, job.len)
         /\ UNCHANGED <<queueVars, mainVars, job, heap>>

\* Mutant of Flush: the characters fwrite kept are dropped.
FlushDrops == /\ WorkerGoto("flush", "free msg")
              /\ stdio' = <<>>
              /\ UNCHANGED <<queueVars, mainVars, job, heap, out>>

Flush == /\ WorkerGoto("flush", "free msg")
         /\ out' = out \o stdio
         /\ stdio' = <<>>
         /\ UNCHANGED <<queueVars, mainVars, job, heap>>

FreeMsg == /\ WorkerGoto("free msg", "free key")
           /\ Free(job.msg)
           /\ UNCHANGED <<queueVars, mainVars, job, outVars>>

FreeKey == /\ WorkerGoto("free key", "free decrypted")
           /\ Free(job.key)
           /\ UNCHANGED <<queueVars, mainVars, job, outVars>>

\* free(decryptedBuffer) on the GPU path; the array goes out of scope on the other.
FreeDecrypted == /\ WorkerGoto("free decrypted", "pop")
                 /\ Free(<<"decrypted", job.id>>)
                 /\ UNCHANGED <<queueVars, mainVars, job, outVars>>

----------------------------------------------------------------------------
MainNext == \/ Start \/ MallocBlock
            \/ ReadFull \/ ReadToEof \/ ReadError
            \/ GenerateKey \/ CallPush \/ InPush \/ Loop \/ Break

Run == \/ CallPop \/ InPop \/ Popped
       \/ XorOnCPU
       \/ ConvertToInteger \/ Kernel \/ ConvertToChar
       \/ Write \/ Flush \/ FreeMsg \/ FreeKey \/ FreeDecrypted

Terminated == mainAt = "terminated" /\ UNCHANGED vars

Next == /\ MainNext \/ Return \/ Run \/ WakeupInPop \/ Terminated
        /\ UNCHANGED onGPU

Spec == Init /\ [][Next]_vars

\* Both threads keep running, and a mutex that keeps becoming free is some time
\* given to the thread that asks for it (spurious wake-ups of the worker could
\* take it again and again).  Nothing says how long sleep(1) takes.
FairSpec == /\ Spec
            /\ SF_vars(MainNext /\ UNCHANGED onGPU)
            /\ SF_vars(Run /\ UNCHANGED onGPU)

----------------------------------------------------------------------------
TypeOK == /\ mainAt \in {"start", "malloc", "read", "keygen", "push", "in push",
                         "sleep", "terminated"}
          /\ workerAt \in {"not started", "pop", "in pop", "xor", "kernel", "convert",
                           "write", "flush", "free msg", "free key", "free decrypted"}
          /\ {data, job} \subseteq Data \cup {None}
          /\ \A n \in DOMAIN queue_ : queue_[n] \in Data
          /\ {id, unread} \subseteq Nat
          /\ errors \in 0..MaxErrors
          /\ eof \in BOOLEAN

\* What reaches stdout is at any time a prefix of the input, each character
\* encrypted with its own character of the key of its own block: no block is
\* lost, repeated, reordered or given another block's key on the way through the
\* queue, fwrite and its buffer (GPUEncryption.cpp 40-42, CPUEncryption.cpp 21-22).
OutputInOrder == IsPrefix(out \o stdio, expected)

\* The blocks between fread and free, oldest first: the worker's, the queue's, main's.
MainHolds == IF \/ mainAt \in {"read", "keygen", "push"}
                \/ mainAt = "in push" /\ pc[Main] \in {"lock", "push"}
             THEN <<data>> ELSE <<>>

WorkerHolds == IF workerAt = "in pop"
               THEN IF pc[Worker] \in {"idle", "return"} THEN <<item[Worker]>> ELSE <<>>
               ELSE IF workerAt \in {"not started", "pop"} THEN <<>> ELSE <<job>>

InFlight == WorkerHolds \o queue_ \o MainHolds

\* The buffers that belong to the blocks in flight ...
Freed == CASE workerAt = "free key"       -> {job.msg}
           [] workerAt = "free decrypted" -> {job.msg, job.key}
           [] OTHER                       -> {}

Decrypted == IF workerAt \in {"write", "flush", "free msg", "free key", "free decrypted"}
             THEN {<<"decrypted", job.id>>} ELSE {}

Owned == ((UNION {{e.msg, e.key} : e \in Range(InFlight)}) \ Freed) \cup Decrypted

\* ... and those no statement frees: per block the key buffer of main's malloc,
\* on the GPU path also integer_msg, integer_key and tmp.
Begun(stages) == IF job = None THEN {}
                 ELSE 0..(IF workerAt \in stages THEN job.id - 1 ELSE job.id)

Leaked == LET mallocs == IF mainAt = "read" THEN id ELSE id - 1
          IN ({"unused"} \X (0..mallocs))
             \cup (IF onGPU
                   THEN ({"integer_msg", "integer_key"} \X Begun({"xor"}))
                        \cup ({"tmp"} \X Begun({"xor", "kernel"}))
                   ELSE {})

\* Both threads use a block's buffers, at most one of them at a time owns them,
\* and the last owner frees them once: nothing in flight is freed, nothing but
\* the leaked buffers outlives its block (TriviumKeygen.cpp 29-50,
\* GPUEncryption.cpp 25-46).
HeapAccounting == /\ Live = Owned \cup Leaked
                  /\ \A n \in 1..(Len(InFlight) - 1) :
                        InFlight[n + 1].id = InFlight[n].id + 1

\* However the threads interleave, main gets all of a finite input into the queue
\* and reaches its sleep: it cannot be blocked for good by the worker's lock.
MainFinishes == <>(mainAt \in {"sleep", "terminated"})

\* main reads all of its input, whether it ends with a full block or a short read that
\* is not the end comes before, and if it sleeps long enough all of it is on stdout.
WorkerCatchesUp == <>(mainAt = "terminated" \/ (unread = 0 /\ out = expected))

\* README.md 27 and 31: the whole file ends up encrypted on stdout.
WholeFileEncrypted == mainAt = "terminated" => out = expected
=============================================================================
