--------------------------- MODULE BlockingQueue ---------------------------
(***************************************************************************)
(* hybrid/BlockingQueue.h: an unbounded FIFO queue shared by threads.  One *)
(* std::mutex protects the std::queue; a consumer that finds the queue     *)
(* empty waits on one condition variable; a producer unlocks the mutex     *)
(* BEFORE it calls notify_one.                                             *)
(*                                                                         *)
(* Every statement of push and pop that another thread can observe is an   *)
(* action of its own.  std::condition_variable::wait releases the mutex    *)
(* and joins the wait set in one atomic step, may return without having    *)
(* been notified, and holds the mutex again when it returns.               *)
(*                                                                         *)
(* The two overloads of push differ only in copying or moving their        *)
(* argument, and the two of pop in where the element is returned: they     *)
(* take the same steps.                                                    *)
(***************************************************************************)
EXTENDS Naturals, Sequences, FiniteSets

CONSTANTS Producers,  \* threads that call push
          Consumers,  \* threads that call pop
          Elements,   \* values of the template parameter T
          None        \* "no thread" / "no element"

Threads == Producers \cup Consumers

ASSUME ThreadsAssumption == /\ IsFiniteSet(Producers)
                            /\ IsFiniteSet(Consumers)
                            /\ Producers \cap Consumers = {}
                            /\ None \notin Threads
                            /\ None \notin Elements

VARIABLES pc,         \* where each thread is in push or pop
          mutex_,     \* the thread that holds mutex_, or None
          waiters,    \* threads blocked in cond_.wait
          queue_,     \* the std::queue<T>
          item        \* the argument of push, the local item of pop

vars == <<pc, mutex_, waiters, queue_, item>>

PushPC == {"idle", "lock", "push", "pushed", "notify"}
PopPC  == {"idle", "lock", "test", "wait", "woken", "front", "remove", "return"}

\* The places at which the thread is inside its critical section.
Critical == {"push", "pushed", "test", "front", "remove", "return"}

TypeOK == /\ pc \in [Threads -> PushPC \cup PopPC]
          /\ \A p \in Producers : pc[p] \in PushPC
          /\ \A c \in Consumers : pc[c] \in PopPC
          /\ mutex_ \in Threads \cup {None}
          /\ waiters \subseteq Consumers
          /\ queue_ \in Seq(Elements)
          /\ item \in [Threads -> Elements \cup {None}]

Init == /\ pc = [t \in Threads |-> "idle"]
        /\ mutex_ = None
        /\ waiters = {}
        /\ queue_ = <<>>
        /\ item = [t \in Threads |-> None]

Goto(t, from, to) == /\ pc[t] = from
                     /\ pc' = [pc EXCEPT ![t] = to]

Lock(t) == /\ mutex_ = None
           /\ mutex_' = t

Unlock(t) == /\ mutex_ = t
             /\ mutex_' = None

----------------------------------------------------------------------------
\* push

PushCall(p, e) == /\ Goto(p, "idle", "lock")
                  /\ item' = [item EXCEPT ![p] = e]
                  /\ UNCHANGED <<mutex_, waiters, queue_>>

\* Mutant of PushLock: the argument is moved from before it is queued.
PushLockMovedFrom(p) == /\ Goto(p, "lock", "push")
                        /\ Lock(p)
                        /\ item' = [item EXCEPT ![p] = None]
                        /\ UNCHANGED <<waiters, queue_>>

PushLock(p) == /\ Goto(p, "lock", "push")
               /\ Lock(p)
               /\ UNCHANGED <<waiters, queue_, item>>

\* Mutant of PushAppend: the new element goes to the front.
PushAppendAtFront(p) == /\ Goto(p, "push", "pushed")
                        /\ queue_' = <<item[p]>> \o queue_
                        /\ UNCHANGED <<mutex_, waiters, item>>

PushAppend(p) == /\ Goto(p, "push", "pushed")
                 /\ queue_' = Append(queue_, item[p])
                 /\ UNCHANGED <<mutex_, waiters, item>>

\* Mutant of PushUnlock: notify only when the queue was empty.
PushUnlockNotifyIfFirst(p) == /\ Goto(p, "pushed", IF Len(queue_) = 1 THEN "notify" ELSE "idle")
                              /\ Unlock(p)
                              /\ UNCHANGED <<waiters, queue_, item>>

PushUnlock(p) == /\ Goto(p, "pushed", "notify")
                 /\ Unlock(p)
                 /\ UNCHANGED <<waiters, queue_, item>>

\* Mutant of NotifyNobody: the notification may get lost.
NotifyForgotten(p) == /\ Goto(p, "notify", "idle")
                      /\ item' = [item EXCEPT ![p] = None]
                      /\ UNCHANGED <<mutex_, waiters, queue_>>

\* notify_one with nobody waiting is forgotten: a condition variable has no memory.
NotifyNobody(p) == /\ waiters = {}
                   /\ Goto(p, "notify", "idle")
                   /\ item' = [item EXCEPT ![p] = None]
                   /\ UNCHANGED <<mutex_, waiters, queue_>>

NotifyOne(p) == \E c \in waiters :
                   /\ pc[p] = "notify"
                   /\ pc' = [pc EXCEPT ![p] = "idle", ![c] = "woken"]
                   /\ waiters' = waiters \ {c}
                   /\ item' = [item EXCEPT ![p] = None]
                   /\ UNCHANGED <<mutex_, queue_>>

----------------------------------------------------------------------------
\* pop

PopCall(c) == /\ Goto(c, "idle", "lock")
              /\ UNCHANGED <<mutex_, waiters, queue_, item>>

PopLock(c) == /\ Goto(c, "lock", "test")
              /\ Lock(c)
              /\ UNCHANGED <<waiters, queue_, item>>

\* Mutant of PopWait: the consumer goes to sleep with the mutex.
PopWaitHoldingMutex(c) == /\ queue_ = <<>>
                          /\ Goto(c, "test", "wait")
                          /\ waiters' = waiters \cup {c}
                          /\ UNCHANGED <<mutex_, queue_, item>>

\* while (queue_.empty()) cond_.wait(mlock): the test, and the wait it leads to.
PopWait(c) == /\ queue_ = <<>>
              /\ Goto(c, "test", "wait")
              /\ Unlock(c)
              /\ waiters' = waiters \cup {c}
              /\ UNCHANGED <<queue_, item>>

PopFound(c) == /\ queue_ # <<>>
               /\ Goto(c, "test", "front")
               /\ UNCHANGED <<mutex_, waiters, queue_, item>>

SpuriousWakeup(c) == /\ c \in waiters
                     /\ Goto(c, "wait", "woken")
                     /\ waiters' = waiters \ {c}
                     /\ UNCHANGED <<mutex_, queue_, item>>

\* Mutants of PopRelock: wait returns without the mutex; "if" instead of "while".
PopRelockWithoutMutex(c) == /\ Goto(c, "woken", "test")
                            /\ UNCHANGED <<mutex_, waiters, queue_, item>>

PopRelockNoRetest(c) == /\ Goto(c, "woken", "front")
                        /\ Lock(c)
                        /\ UNCHANGED <<waiters, queue_, item>>

\* wait returns: it holds the mutex again, and the loop tests again.
PopRelock(c) == /\ Goto(c, "woken", "test")
                /\ Lock(c)
                /\ UNCHANGED <<waiters, queue_, item>>

PopFront(c) == /\ Goto(c, "front", "remove")
               /\ item' = [item EXCEPT ![c] = Head(queue_)]
               /\ UNCHANGED <<mutex_, waiters, queue_>>

PopRemove(c) == /\ Goto(c, "remove", "return")
                /\ queue_' = Tail(queue_)
                /\ UNCHANGED <<mutex_, waiters, item>>

\* return: the destructor of the unique_lock releases the mutex.
PopReturn(c) == /\ Goto(c, "return", "idle")
                /\ Unlock(c)
                /\ UNCHANGED <<waiters, queue_, item>>

----------------------------------------------------------------------------
\* The steps a thread that is in push or pop takes on its own.
PushStep(p) == \/ PushAppend(p)
               \/ PushUnlock(p)
               \/ NotifyNobody(p)
               \/ NotifyOne(p)

PopStep(c) == \/ PopWait(c)
              \/ PopFound(c)
              \/ PopFront(c)
              \/ PopRemove(c)
              \/ PopReturn(c)

ProducerNext(p) == \/ \E e \in Elements : PushCall(p, e)
                   \/ PushLock(p)
                   \/ PushStep(p)

ConsumerNext(c) == \/ PopCall(c)
                   \/ PopLock(c)
                   \/ PopRelock(c)
                   \/ SpuriousWakeup(c)
                   \/ PopStep(c)

Next == \/ \E p \in Producers : ProducerNext(p)
        \/ \E c \in Consumers : ConsumerNext(c)

Spec == Init /\ [][Next]_vars

\* A thread inside a call keeps running and is not passed over for ever by a
\* mutex that keeps becoming free.  No thread has to call push or pop, and no
\* wait has to wake up by itself.
Fairness == /\ \A p \in Producers : /\ WF_vars(PushStep(p))
                                    /\ SF_vars(PushLock(p))
            /\ \A c \in Consumers : /\ WF_vars(PopStep(c))
                                    /\ SF_vars(PopLock(c))
                                    /\ SF_vars(PopRelock(c))

----------------------------------------------------------------------------
\* A thread that touches queue_ owns mutex_: one at a time (push 38-40, pop
\* 15-23), also after cond_.wait handed the mutex back.
MutualExclusion == \A t \in Threads : pc[t] \in Critical => mutex_ = t

\* front() and pop() of an empty std::queue are undefined: a consumer past the
\* while loop has something to take, whoever was woken or barged in meanwhile.
\* And what pop removes at line 21 is what it read at line 20.
TakesWhatItRead == \A c \in Consumers :
                      /\ pc[c] \in {"front", "remove"} => queue_ # <<>>
                      /\ pc[c] = "remove" => item[c] = Head(queue_)

\* Producers that appended an element and have not called notify_one yet.
Notifying == {p \in Producers : pc[p] \in {"pushed", "notify"}}

\* Consumers inside pop that will look at the queue again without a wake-up.
Awake == {c \in Consumers : pc[c] \in {"lock", "test", "woken", "front", "remove"}}

\* No wake-up is lost although notify_one is called after unlock: as long as
\* somebody sleeps in cond_.wait, every queued element has a producer still to
\* notify or a consumer still to look.
NoLostWakeup == waiters # {} =>
                   Len(queue_) <= Cardinality(Notifying) + Cardinality(Awake)

----------------------------------------------------------------------------
\* The abstract queue: push takes effect at queue_.push (line 39), pop at
\* queue_.pop (line 21); until then the call is pending, afterwards it only has
\* to return.
Pending == {"lock", "push", "test", "wait", "woken", "front", "remove"}

phaseBar == [t \in Threads |-> IF pc[t] = "idle" THEN "idle"
                               ELSE IF pc[t] \in Pending THEN "called" ELSE "done"]

valueBar == [t \in Threads |->
               IF \/ t \in Producers /\ pc[t] \in Pending
                  \/ t \in Consumers /\ pc[t] = "return"
               THEN item[t] ELSE None]

Fifo == INSTANCE FifoQueue WITH content <- queue_, phase <- phaseBar, value <- valueBar

\* push and pop are atomic operations on one FIFO queue.
ImplementsFifo == Fifo!Spec

\* ... and they finish as the abstract operations do: push always, pop as long
\* as the queue is not empty.
ImplementsFairFifo == Fifo!FairSpec
=============================================================================
