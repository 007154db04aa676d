------------------------ MODULE BlockingQueueProofs ------------------------
(***************************************************************************)
(* Theorems about BlockingQueue for any sets of threads and elements: type *)
(* correctness, mutual exclusion and that pop removes the element it read. *)
(* None of the three is inductive without the others: what PopFront reads  *)
(* is an element because the queue is not empty, it is not empty because   *)
(* nobody else is in the critical section, and what PushAppend appends is  *)
(* an element because the argument of a pending push is one.               *)
(***************************************************************************)
EXTENDS BlockingQueue, SequenceTheorems, FiniteSetTheorems, TLAPS

\* The argument of a push that has not taken effect is an element.
ArgumentOK == \A p \in Producers : pc[p] \in {"lock", "push"} => item[p] \in Elements

\* Only threads that are blocked in wait are in the wait set.
WaitersWait == \A c \in waiters : pc[c] = "wait"

IndInv == /\ TypeOK
          /\ WaitersWait
          /\ ArgumentOK
          /\ MutualExclusion
          /\ TakesWhatItRead

LEMMA InitIndInv == Init => IndInv
BY ThreadsAssumption DEF Init, IndInv, TypeOK, WaitersWait, ArgumentOK, MutualExclusion,
   TakesWhatItRead, PushPC, PopPC, Threads, Critical

\* A non-empty sequence splits into its head and its tail.
LEMMA NonEmptySeq ==
  ASSUME NEW S, NEW s \in Seq(S), s # <<>>
  PROVE  Head(s) \in S /\ Tail(s) \in Seq(S)
OBVIOUS

LEMMA StepIndInv == IndInv /\ [Next]_vars => IndInv'
<1> SUFFICES ASSUME IndInv, [Next]_vars
             PROVE  IndInv'
  OBVIOUS
<1> USE ThreadsAssumption
    DEF IndInv, TypeOK, WaitersWait, ArgumentOK, MutualExclusion, TakesWhatItRead,
        PushPC, PopPC, Threads, Critical, Goto, Lock, Unlock
<1>1. ASSUME NEW p \in Producers, ProducerNext(p)
      PROVE  IndInv'
  <2>1. ASSUME NEW e \in Elements, PushCall(p, e) PROVE IndInv'
    BY <2>1 DEF PushCall
  <2>2. CASE PushLock(p)
    BY <2>2 DEF PushLock
  <2>3. CASE PushAppend(p)
    <3>1. queue_' \in Seq(Elements) /\ queue_' # <<>>
      BY <2>3, AppendProperties DEF PushAppend
    <3>2. \A c \in Consumers : pc[c] \notin {"front", "remove"}
      BY <2>3 DEF PushAppend
    <3> QED
      BY <2>3, <3>1, <3>2 DEF PushAppend
  <2>4. CASE PushUnlock(p)
    BY <2>4 DEF PushUnlock
  <2>5. CASE NotifyNobody(p)
    BY <2>5 DEF NotifyNobody
  <2>6. CASE NotifyOne(p)
    BY <2>6 DEF NotifyOne
  <2> QED
    BY <1>1, <2>1, <2>2, <2>3, <2>4, <2>5, <2>6 DEF ProducerNext, PushStep
<1>2. ASSUME NEW c \in Consumers, ConsumerNext(c)
      PROVE  IndInv'
  <2>1. CASE PopCall(c)
    BY <2>1 DEF PopCall
  <2>2. CASE PopLock(c)
    BY <2>2 DEF PopLock
  <2>3. CASE PopRelock(c)
    BY <2>3 DEF PopRelock
  <2>4. CASE SpuriousWakeup(c)
    BY <2>4 DEF SpuriousWakeup
  <2>5. CASE PopWait(c)
    BY <2>5 DEF PopWait
  <2>6. CASE PopFound(c)
    BY <2>6 DEF PopFound
  <2>7. CASE PopFront(c)
    <3>1. Head(queue_) \in Elements
      BY <2>7, NonEmptySeq DEF PopFront
    <3> QED
      BY <2>7, <3>1 DEF PopFront
  <2>8. CASE PopRemove(c)
    <3>1. Tail(queue_) \in Seq(Elements)
      BY <2>8, NonEmptySeq DEF PopRemove
    <3>2. \A d \in Consumers \ {c} : pc[d] \notin {"front", "remove"}
      BY <2>8 DEF PopRemove
    <3> QED
      BY <2>8, <3>1, <3>2 DEF PopRemove
  <2>9. CASE PopReturn(c)
    BY <2>9 DEF PopReturn
  <2> QED
    BY <1>2, <2>1, <2>2, <2>3, <2>4, <2>5, <2>6, <2>7, <2>8, <2>9
    DEF ConsumerNext, PopStep
<1>3. CASE UNCHANGED vars
  BY <1>3 DEF vars
<1> QED
  BY <1>1, <1>2, <1>3 DEF Next

\* push and pop keep every variable in its type: only consumers sleep on cond_,
\* only elements are queued.
THEOREM TypeCorrect == Spec => []TypeOK
<1>1. IndInv => TypeOK
  BY DEF IndInv
<1> QED
  BY <1>1, InitIndInv, StepIndInv, PTL DEF Spec

\* At most one thread at a time is between the lock and the unlock of mutex_,
\* for any number of producers and consumers and with spurious wake-ups.
THEOREM MutualExclusionHolds == Spec => []MutualExclusion
<1>1. IndInv => MutualExclusion
  BY DEF IndInv
<1> QED
  BY <1>1, InitIndInv, StepIndInv, PTL DEF Spec

\* pop never reads the front of an empty queue, and what it removes is what it
\* read.
THEOREM TakesWhatItReadHolds == Spec => []TakesWhatItRead
<1>1. IndInv => TakesWhatItRead
  BY DEF IndInv
<1> QED
  BY <1>1, InitIndInv, StepIndInv, PTL DEF Spec

----------------------------------------------------------------------------
(***************************************************************************)
(* No wake-up is lost.  The invariant counts: an element is added together *)
(* with a producer that has yet to notify, a notification that finds a     *)
(* sleeper turns it into a consumer that will look, and a consumer stops   *)
(* looking either with an element or because there is none.                *)
(***************************************************************************)

WakeupInv == IndInv /\ NoLostWakeup

Counts == /\ IsFiniteSet(Awake) /\ Cardinality(Awake) \in Nat
          /\ IsFiniteSet(Notifying) /\ Cardinality(Notifying) \in Nat
          /\ Len(queue_) \in Nat

LEMMA CountsAreNat == TypeOK => Counts
<1> SUFFICES ASSUME TypeOK PROVE Counts
  OBVIOUS
<1>1. Awake \subseteq Consumers /\ Notifying \subseteq Producers
  BY DEF Awake, Notifying
<1>2. IsFiniteSet(Awake) /\ IsFiniteSet(Notifying)
  BY <1>1, FS_Subset, ThreadsAssumption
<1> QED
  BY <1>2, FS_CardinalityType, LenProperties DEF TypeOK, Counts

\* A step of a consumer leaves the producers where they are.
LEMMA ConsumerKeepsNotifying ==
  ASSUME TypeOK, NEW c \in Consumers, pc' = [pc EXCEPT ![c] = pc'[c]]
  PROVE  Notifying' = Notifying
BY ThreadsAssumption DEF TypeOK, Threads, Notifying

LEMMA ProducerKeepsAwake ==
  ASSUME TypeOK, NEW p \in Producers, pc' = [pc EXCEPT ![p] = pc'[p]]
  PROVE  Awake' = Awake
BY ThreadsAssumption DEF TypeOK, Threads, Awake

LEMMA StepNoLostWakeup == WakeupInv /\ [Next]_vars => NoLostWakeup'
<1> SUFFICES ASSUME WakeupInv, [Next]_vars
             PROVE  NoLostWakeup'
  OBVIOUS
<1> USE ThreadsAssumption DEF WakeupInv, IndInv
<1>0. TypeOK' /\ TypeOK
  BY StepIndInv
<1>c. Counts
  BY CountsAreNat
<1>d. Counts'
  BY <1>0, CountsAreNat, PTL
<1>1. ASSUME NEW p \in Producers, ProducerNext(p) PROVE NoLostWakeup'
  <2>1. CASE PushLock(p) \/ \E e \in Elements : PushCall(p, e)
    <3>1. Awake' = Awake /\ Notifying' = Notifying
      BY <2>1, <1>0 DEF PushLock, PushCall, Goto, Awake, Notifying, TypeOK, Threads
    <3> QED
      BY <2>1, <3>1 DEF PushLock, PushCall, NoLostWakeup
  <2>2. CASE PushAppend(p)
    <3>1. Awake' = Awake
      BY <2>2, <1>0, ProducerKeepsAwake DEF PushAppend, Goto, TypeOK, Threads
    <3>2. Notifying' = Notifying \cup {p} /\ p \notin Notifying
      BY <2>2, <1>0 DEF PushAppend, Goto, Notifying, TypeOK, Threads
    <3>3. Cardinality(Notifying') = Cardinality(Notifying) + 1
      BY <3>2, <1>c, FS_AddElement DEF Counts
    <3>4. Len(queue_') = Len(queue_) + 1
      <4>1. item[p] \in Elements
        BY <2>2 DEF PushAppend, Goto, ArgumentOK
      <4> QED
        BY <2>2, <4>1, <1>0, AppendProperties DEF PushAppend, TypeOK
    <3> QED
      BY <2>2, <3>1, <3>3, <3>4, <1>c DEF Counts, PushAppend, NoLostWakeup
  <2>3. CASE PushUnlock(p)
    <3>1. Awake' = Awake /\ Notifying' = Notifying
      BY <2>3, <1>0 DEF PushUnlock, Goto, Awake, Notifying, TypeOK, Threads
    <3> QED
      BY <2>3, <3>1 DEF PushUnlock, NoLostWakeup
  <2>4. CASE NotifyNobody(p)
    BY <2>4 DEF NotifyNobody, NoLostWakeup
  <2>5. CASE NotifyOne(p)
    <3>1. PICK c \in waiters : /\ pc[p] = "notify"
                               /\ pc' = [pc EXCEPT ![p] = "idle", ![c] = "woken"]
                               /\ waiters' = waiters \ {c}
                               /\ UNCHANGED queue_
      BY <2>5 DEF NotifyOne
    <3>2. c \in Consumers /\ pc[c] = "wait" /\ c # p
      BY <3>1, <1>0 DEF TypeOK, WaitersWait
    <3>3. Awake' = Awake \cup {c} /\ c \notin Awake
      BY <3>1, <3>2, <1>0 DEF Awake, TypeOK, Threads
    <3>4. Notifying' = Notifying \ {p} /\ p \in Notifying
      BY <3>1, <3>2, <1>0 DEF Notifying, TypeOK, Threads
    <3>5. Cardinality(Awake') = Cardinality(Awake) + 1
      BY <3>3, <1>c, FS_AddElement DEF Counts
    <3>6. Cardinality(Notifying') = Cardinality(Notifying) - 1
      BY <3>4, <1>c, FS_RemoveElement DEF Counts
    <3> QED
      BY <3>1, <3>5, <3>6, <1>c DEF Counts, NoLostWakeup
  <2> QED
    BY <1>1, <2>1, <2>2, <2>3, <2>4, <2>5 DEF ProducerNext, PushStep
<1>2. ASSUME NEW c \in Consumers, ConsumerNext(c) PROVE NoLostWakeup'
  <2>1. Notifying' = Notifying
    BY <1>2, <1>0, ConsumerKeepsNotifying
    DEF ConsumerNext, PopStep, PopCall, PopLock, PopRelock, SpuriousWakeup, PopWait,
        PopFound, PopFront, PopRemove, PopReturn, Goto, TypeOK, Threads
  <2>2. CASE PopCall(c) \/ SpuriousWakeup(c)
    <3>1. Awake' = Awake \cup {c} /\ c \notin Awake
      BY <2>2, <1>0 DEF PopCall, SpuriousWakeup, Goto, Awake, TypeOK, Threads
    <3>2. Cardinality(Awake') = Cardinality(Awake) + 1
      BY <3>1, <1>c, FS_AddElement DEF Counts
    <3>3. waiters' \subseteq waiters /\ queue_' = queue_
      BY <2>2 DEF PopCall, SpuriousWakeup
    <3> QED
      BY <2>1, <3>2, <3>3, <1>c DEF Counts, NoLostWakeup
  <2>3. CASE PopLock(c) \/ PopRelock(c) \/ PopFound(c) \/ PopFront(c) \/ PopReturn(c)
    <3>1. Awake' = Awake
      BY <2>3, <1>0 DEF PopLock, PopRelock, PopFound, PopFront, PopReturn, Goto, Awake,
                        TypeOK, Threads
    <3>2. waiters' = waiters /\ queue_' = queue_
      BY <2>3 DEF PopLock, PopRelock, PopFound, PopFront, PopReturn
    <3> QED
      BY <2>1, <3>1, <3>2 DEF NoLostWakeup
  <2>4. CASE PopWait(c)
    <3>1. Len(queue_') = 0
      BY <2>4 DEF PopWait
    <3> QED
      BY <3>1, <1>d DEF Counts, NoLostWakeup
  <2>5. CASE PopRemove(c)
    <3>1. Awake' = Awake \ {c} /\ c \in Awake
      BY <2>5, <1>0 DEF PopRemove, Goto, Awake, TypeOK, Threads
    <3>2. Cardinality(Awake') = Cardinality(Awake) - 1
      BY <3>1, <1>c, FS_RemoveElement DEF Counts
    <3>3. Len(queue_') = Len(queue_) - 1
      <4>1. queue_ # <<>> /\ queue_ \in Seq(Elements)
        BY <2>5, <1>0 DEF PopRemove, Goto, TakesWhatItRead, TypeOK
      <4> QED
        BY <2>5, <4>1, HeadTailProperties DEF PopRemove
    <3> QED
      BY <2>1, <2>5, <3>2, <3>3, <1>c DEF Counts, PopRemove, NoLostWakeup
  <2> QED
    BY <1>2, <2>2, <2>3, <2>4, <2>5 DEF ConsumerNext, PopStep
<1>3. CASE UNCHANGED vars
  BY <1>3 DEF vars, NoLostWakeup, Awake, Notifying
<1> QED
  BY <1>1, <1>2, <1>3 DEF Next

\* While a consumer sleeps in cond_.wait, every queued element has a producer
\* that will still notify or a consumer that will still look: notifying after
\* the unlock loses no wake-up.
THEOREM NoLostWakeupHolds == Spec => []NoLostWakeup
<1>1. Init => WakeupInv
  BY InitIndInv DEF Init, WakeupInv, NoLostWakeup
<1>2. WakeupInv /\ [Next]_vars => WakeupInv'
  BY StepIndInv, StepNoLostWakeup DEF WakeupInv
<1>3. WakeupInv => NoLostWakeup
  BY DEF WakeupInv
<1> QED
  BY <1>1, <1>2, <1>3, PTL DEF Spec

----------------------------------------------------------------------------
(***************************************************************************)
(* push and pop are atomic operations of a FIFO queue.  Push takes effect  *)
(* in PushAppend and Pop in PopRemove; the other steps start a call, end   *)
(* one, or stutter.                                                        *)
(***************************************************************************)

LEMMA InitFifo == Init => Fifo!Init
BY DEF Init, Fifo!Init, Fifo!Callers, phaseBar, valueBar, Threads, Pending

LEMMA StepFifo == IndInv /\ [Next]_vars => [Fifo!Next]_(Fifo!vars)
<1> SUFFICES ASSUME IndInv, [Next]_vars
             PROVE  [Fifo!Next]_(Fifo!vars)
  OBVIOUS
<1> USE ThreadsAssumption
    DEF IndInv, TypeOK, WaitersWait, TakesWhatItRead, Threads, PushPC, PopPC, Goto, Pending,
        phaseBar, valueBar
<1>1. ASSUME NEW p \in Producers, ProducerNext(p) PROVE [Fifo!Next]_(Fifo!vars)
  <2>1. ASSUME NEW e \in Elements, PushCall(p, e) PROVE Fifo!CallPut(p, e)
    BY <2>1 DEF PushCall, Fifo!CallPut, Fifo!Move
  <2>2. CASE PushLock(p) \/ PushUnlock(p)
    <3>1. phaseBar' = phaseBar /\ valueBar' = valueBar /\ queue_' = queue_
      BY <2>2 DEF PushLock, PushUnlock
    <3> QED
      BY <3>1 DEF Fifo!vars
  <2>3. CASE PushAppend(p)
    <3>1. Fifo!Put(p)
      BY <2>3 DEF PushAppend, Fifo!Put, Fifo!Move
    <3> QED
      BY <3>1 DEF Fifo!Next
  <2>4. CASE NotifyNobody(p)
    <3>1. Fifo!Return(p)
      BY <2>4 DEF NotifyNobody, Fifo!Return, Fifo!Move
    <3> QED
      BY <3>1 DEF Fifo!Next, Fifo!Callers
  <2>5. CASE NotifyOne(p)
    <3>1. PICK c \in waiters : /\ pc[p] = "notify"
                               /\ pc' = [pc EXCEPT ![p] = "idle", ![c] = "woken"]
                               /\ item' = [item EXCEPT ![p] = None]
                               /\ queue_' = queue_
      BY <2>5 DEF NotifyOne
    <3>2. c \in Consumers /\ c \in Threads /\ pc[c] = "wait" /\ c # p
      OBVIOUS
    <3>3. \A t \in Threads \ {p, c} : pc'[t] = pc[t] /\ item'[t] = item[t]
      BY <3>1
    <3>4. pc'[p] = "idle" /\ pc'[c] = "woken" /\ item'[c] = item[c]
      BY <3>1, <3>2
    <3>5. phaseBar[p] = "done" /\ phaseBar' = [phaseBar EXCEPT ![p] = "idle"]
      BY <3>1, <3>2, <3>3, <3>4
    <3>6. valueBar' = [valueBar EXCEPT ![p] = None]
      BY <3>1, <3>2, <3>3, <3>4
    <3>7. Fifo!Return(p)
      BY <3>1, <3>5, <3>6 DEF Fifo!Return, Fifo!Move
    <3> QED
      BY <3>7 DEF Fifo!Next, Fifo!Callers
  <2> QED
    BY <1>1, <2>1, <2>2, <2>3, <2>4, <2>5 DEF ProducerNext, PushStep, Fifo!Next
<1>2. ASSUME NEW c \in Consumers, ConsumerNext(c) PROVE [Fifo!Next]_(Fifo!vars)
  <2>1. CASE PopCall(c)
    <3>1. Fifo!CallGet(c)
      BY <2>1 DEF PopCall, Fifo!CallGet, Fifo!Move
    <3> QED
      BY <3>1 DEF Fifo!Next
  <2>2. CASE \/ PopLock(c) \/ PopRelock(c) \/ SpuriousWakeup(c) \/ PopWait(c)
             \/ PopFound(c) \/ PopFront(c)
    <3>1. phaseBar' = phaseBar /\ valueBar' = valueBar /\ queue_' = queue_
      BY <2>2 DEF PopLock, PopRelock, SpuriousWakeup, PopWait, PopFound, PopFront
    <3> QED
      BY <3>1 DEF Fifo!vars
  <2>3. CASE PopRemove(c)
    <3>1. Fifo!Get(c)
      BY <2>3 DEF PopRemove, Fifo!Get, Fifo!Move
    <3> QED
      BY <3>1 DEF Fifo!Next
  <2>4. CASE PopReturn(c)
    <3>1. Fifo!Return(c)
      BY <2>4 DEF PopReturn, Fifo!Return, Fifo!Move
    <3> QED
      BY <3>1 DEF Fifo!Next, Fifo!Callers
  <2> QED
    BY <1>2, <2>1, <2>2, <2>3, <2>4 DEF ConsumerNext, PopStep
<1>3. CASE UNCHANGED vars
  BY <1>3 DEF vars, Fifo!vars
<1> QED
  BY <1>1, <1>2, <1>3 DEF Next

\* Any number of threads that push and pop see one FIFO queue: elements leave
\* in the order in which the pushes took effect, each exactly once.
THEOREM ImplementsFifoHolds == Spec => ImplementsFifo
<1> QED
  BY InitIndInv, StepIndInv, InitFifo, StepFifo, PTL DEF Spec, ImplementsFifo, Fifo!Spec
=============================================================================
