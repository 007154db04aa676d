----------------------------- MODULE XorKernel -----------------------------
(***************************************************************************)
(* The GPU kernels that XOR a message with a key, one vector of words at a *)
(* time, on several QPUs at once:                                          *)
(*   "V1"     xorFunction  of gpu_programming/Tests/Encrypt.cpp,           *)
(*   "V2"     xorFunction2 of the same file,                               *)
(*   "hybrid" xorFunction2 of hybrid/GPUEncryption.cpp, which is that of   *)
(*            Encrypt_optimized.cpp and Trivium_pad_encryption.cpp,        *)
(*   "trivium" xorFunction of gpu_encryption/Trivium_encryption.cpp, where *)
(*            every QPU makes its own key stream instead of reading a key. *)
(* All but V1 request the vectors of the next row before they use those of *)
(* this one: gather puts a request into the QPU's FIFO, receive takes the  *)
(* oldest answer out of it.                                                *)
(*                                                                         *)
(* A word of an array is its index.  p, q and r are shared and have n      *)
(* words; what lies behind them is not modelled, only that it is touched.  *)
(* Integer k of the key stream of a QPU is <<"z", me, k>>.                 *)
(***************************************************************************)
EXTENDS Integers, Sequences, FiniteSets

CONSTANTS NumQPUs, \* numQPUs()
          Lanes,   \* words in a vector, 16
          Kernels, \* the kernels considered
          Sizes    \* the values of n considered

ASSUME KernelAssumption == /\ {NumQPUs, Lanes} \subseteq Nat \ {0}
                           /\ Kernels \subseteq {"V1", "V2", "hybrid", "trivium"}
                           /\ Sizes \subseteq Nat

VARIABLES kernel, \* the kernel that runs
          n,      \* its last argument
          pc,     \* where each QPU is
          i,      \* its loop variable
          at,     \* the word its pointers a, b and c point to in lane 0
          fifo,   \* its requests that have not been received, oldest first
          regs,   \* what it received last: <<array, first word>> per register
          r       \* the words of the result, as far as they have been stored

vars == <<kernel, n, pc, i, at, fifo, regs, r>>

QPUs == 0..(NumQPUs - 1)

inc == NumQPUs * Lanes

LENVECTOR(words) == (words + Lanes - 1) \div Lanes

\* Mutant: me() counts from 1 on the way to the first word.
InitBehindMe == /\ kernel \in Kernels
                /\ n \in Sizes
                /\ pc = [me \in QPUs |-> IF kernel = "V1" THEN "for" ELSE "prologue"]
                /\ i = [me \in QPUs |-> 0]
                /\ at = [me \in QPUs |-> (me - 1) * Lanes]
                /\ fifo = [me \in QPUs |-> <<>>]
                /\ regs = [me \in QPUs |-> <<>>]
                /\ r = <<>>

\* The main function of the Trivium kernel fills the message up to whole vectors.
Init == /\ kernel \in Kernels
        /\ n \in IF kernel = "trivium" THEN {Lanes * LENVECTOR(s) : s \in Sizes} ELSE Sizes
        /\ pc = [me \in QPUs |-> IF kernel = "V1" THEN "for" ELSE "prologue"]
        /\ i = [me \in QPUs |-> 0]
        /\ at = [me \in QPUs |-> me * Lanes]
        /\ fifo = [me \in QPUs |-> <<>>]
        /\ regs = [me \in QPUs |-> <<>>]
        /\ r = <<>>

Goto(me, from, to) == /\ pc[me] = from
                      /\ pc' = [pc EXCEPT ![me] = to]

\* The arrays whose vectors a kernel asks for, in this order (V2 also reads r).
Arrays == CASE kernel = "V2" -> <<"p", "q", "r">>
            [] kernel = "trivium" -> <<"p">>
            [] OTHER -> <<"p", "q">>

Requests(word) == [k \in 1..Len(Arrays) |-> <<Arrays[k], word>>]

Prologue(me) == /\ Goto(me, "prologue", "for")
                /\ fifo' = [fifo EXCEPT ![me] = @ \o Requests(at[me])]
                /\ UNCHANGED <<kernel, n, i, at, regs, r>>

\* Mutant: the test of the loop that Encrypt.cpp has, in all kernels.
LimitN(me) == n

\* For(Int i = 0, i<n, i=i+inc), with i<n-1 in the hybrid kernel, and in that of
\* Trivium a count of vectors, of which the first QPUs get one more.
Limit(me) == CASE kernel = "hybrid" -> n - 1
               [] kernel = "trivium" ->
                    LET nb_vector == n \div Lanes
                        remaining == nb_vector % NumQPUs
                    IN  nb_vector \div NumQPUs + (IF remaining > me THEN 1 ELSE 0)
               [] OTHER -> n

Enter(me) == /\ i[me] < Limit(me)
             /\ Goto(me, "for", IF kernel = "V1" THEN "load" ELSE "gather")
             /\ UNCHANGED <<kernel, n, i, at, fifo, regs, r>>

\* Mutant: what was requested for the row behind the last is left in the FIFO.
LeaveAtOnce(me) == /\ i[me] >= Limit(me)
                   /\ Goto(me, "for", "done")
                   /\ UNCHANGED <<kernel, n, i, at, fifo, regs, r>>

Leave(me) == /\ i[me] >= Limit(me)
             /\ Goto(me, "for", IF kernel = "V1" THEN "done" ELSE "last receive")
             /\ UNCHANGED <<kernel, n, i, at, fifo, regs, r>>

\* V1: Int a = p[index]; Int b = q[index].
Load(me) == /\ Goto(me, "load", "store")
            /\ regs' = [regs EXCEPT ![me] = Requests(at[me])]
            /\ UNCHANGED <<kernel, n, i, at, fifo, r>>

\* Mutant: a and b are advanced before the vectors of the next row are requested.
GatherTwoOn(me) == /\ Goto(me, "gather", "receive")
                   /\ fifo' = [fifo EXCEPT ![me] = @ \o Requests(at[me] + inc + inc)]
                   /\ UNCHANGED <<kernel, n, i, at, regs, r>>

\* Mutant: the vectors of the next row are not requested.
GatherNothing(me) == /\ Goto(me, "gather", "receive")
                     /\ UNCHANGED <<kernel, n, i, at, fifo, regs, r>>

Gather(me) == /\ Goto(me, "gather", "receive")
              /\ fifo' = [fifo EXCEPT ![me] = @ \o Requests(at[me] + inc)]
              /\ UNCHANGED <<kernel, n, i, at, regs, r>>

\* One receive per register, each blocked while the FIFO is empty.
ReceiveAll(me) == LET m == Len(Arrays) IN
                  /\ Len(fifo[me]) >= m
                  /\ regs' = [regs EXCEPT ![me] = SubSeq(fifo[me], 1, m)]
                  /\ fifo' = [fifo EXCEPT ![me] = SubSeq(@, m + 1, Len(@))]
                  /\ UNCHANGED <<kernel, n, i, at, r>>

Receive(me) == /\ Goto(me, "receive", "store")
               /\ ReceiveAll(me)

\* Mutant: the hybrid kernel, too, only empties the FIFO.
LastReceiveOnly(me) == /\ Goto(me, "last receive", "done")
                       /\ ReceiveAll(me)

LastReceive(me) == /\ Goto(me, "last receive", IF kernel = "hybrid" THEN "last store" ELSE "done")
                   /\ ReceiveAll(me)

\* The word of the key for a lane: that of q, or the integer of the QPU's key stream
\* that 16 rotations of result by one lane have brought there.
KeyWord(me, lane) == IF kernel = "trivium"
                     THEN <<"z", me, i[me] * Lanes + Lanes - 1 - lane>>
                     ELSE <<regs[me][2][1], regs[me][2][2] + lane>>

\* store(pOld^qOld, c), store(result^pOld, c): what is stored where.
Stored(me) == [w \in {at[me] + lane : lane \in 0..(Lanes - 1)} |->
                 LET lane == w - at[me]
                 IN  <<<<regs[me][1][1], regs[me][1][2] + lane>>, KeyWord(me, lane)>>]

Update(f, g) == [w \in DOMAIN f \cup DOMAIN g |-> IF w \in DOMAIN g THEN g[w] ELSE f[w]]

\* Mutant: the pointers advance by one vector, not by one row.
StoreNextVector(me) == /\ Goto(me, "store", "for")
                       /\ r' = Update(r, Stored(me))
                       /\ at' = [at EXCEPT ![me] = @ + Lanes]
                       /\ i' = [i EXCEPT ![me] = @ + (IF kernel = "trivium" THEN 1 ELSE inc)]
                       /\ UNCHANGED <<kernel, n, fifo, regs>>

Store(me) == /\ Goto(me, "store", "for")
             /\ r' = Update(r, Stored(me))
             /\ at' = [at EXCEPT ![me] = @ + inc]
             /\ i' = [i EXCEPT ![me] = @ + (IF kernel = "trivium" THEN 1 ELSE inc)]
             /\ UNCHANGED <<kernel, n, fifo, regs>>

LastStore(me) == /\ Goto(me, "last store", "done")
                 /\ r' = Update(r, Stored(me))
                 /\ UNCHANGED <<kernel, n, i, at, fifo, regs>>

QPU(me) == \/ Prologue(me) \/ Enter(me) \/ Leave(me) \/ Load(me) \/ Gather(me)
           \/ Receive(me) \/ Store(me) \/ LastReceive(me) \/ LastStore(me)

Done == \A me \in QPUs : pc[me] = "done"

\* The ARM waits for all QPUs.
Finished == Done /\ UNCHANGED vars

Next == (\E me \in QPUs : QPU(me)) \/ Finished

Spec == Init /\ [][Next]_vars

FairSpec == Spec /\ \A me \in QPUs : WF_vars(QPU(me))

----------------------------------------------------------------------------
TypeOK == /\ kernel \in {"V1", "V2", "hybrid", "trivium"}
          /\ n \in Nat
          /\ pc \in [QPUs -> {"prologue", "for", "load", "gather", "receive", "store",
                              "last receive", "last store", "done"}]
          /\ i \in [QPUs -> Nat]
          /\ at \in [QPUs -> Nat]
          /\ DOMAIN r \subseteq Nat

\* Integers of the key stream of core c that multi_core_trivium_cpu has used when it
\* comes to vector v: those of the earlier vectors of that core.
Used(c, v) == Lanes * Cardinality({earlier \in 0..(v - 1) : earlier % NumQPUs = c})

\* The integer of a key stream that multi_core_trivium_cpu XORs word w with:
\* c = i % nb_core, vector[15-k] = get_integer(...).  main gives every core the same
\* registers (415-428), so that the key streams are equal in fact; naming an integer by
\* its core demands more than equal results do.
CpuKeyWord(w) == LET v == w \div Lanes
                     c == v % NumQPUs
                 IN  <<"z", c, Used(c, v) + Lanes - 1 - (w % Lanes)>>

\* Whatever word is stored is the XOR of that word of the message with that word
\* of the key, for the Trivium kernel the one multi_core_trivium_cpu uses when it
\* encrypts: the prefetched vectors, the pointers and the key streams never get out
\* of step.
XorsItsOwn == \A w \in DOMAIN r :
                r[w] = <<<<"p", w>>, IF kernel = "trivium" THEN CpuKeyWord(w) ELSE <<"q", w>>>>

\* No word is stored twice, by one QPU or by two.
StoredOnce == [][\A me \in QPUs : Store(me) \/ LastStore(me) =>
                    DOMAIN r \cap DOMAIN Stored(me) = {}]_vars

\* When the kernel has finished every word of the message has been encrypted.
Complete == Done => 0..(n - 1) \subseteq DOMAIN r

\* V1, V2 and hybrid store whole rows, hybrid one more than its loop counts: this is
\* how far behind the array they write, which nothing in the kernels checks.  The
\* Trivium kernel stores the vectors of the message and no other.
Overrun == LET last == CASE kernel = "trivium" -> n - 1
                         [] kernel = "hybrid" -> n + 2 * inc - 3
                         [] OTHER -> n + inc - 2
           IN  DOMAIN r \subseteq 0..last

\* No more than two rows are requested and not received, and in the end none: a
\* receive too many would block the QPU for ever (Lib/Target/Emulator.cpp asserts
\* that there is something to receive), one too few would be left over.
FifoBalanced == \A me \in QPUs :
                  /\ Len(fifo[me]) <= 2 * Len(Arrays)
                  /\ pc[me] \in {"receive", "last receive"} => Len(fifo[me]) >= Len(Arrays)
                  /\ pc[me] = "done" => fifo[me] = <<>>

\* All QPUs finish.
Terminates == <>Done
=============================================================================
