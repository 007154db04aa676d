--------------------------- MODULE MCBlockingQueue ---------------------------
(***************************************************************************)
(* BlockingQueue for TLC: a producer starts no push while QueueBound       *)
(* elements are queued.                                                    *)
(***************************************************************************)
EXTENDS BlockingQueue

CONSTANT QueueBound

BoundedProducerNext(p) == \/ /\ Len(queue_) < QueueBound
                             /\ \E e \in Elements : PushCall(p, e)
                          \/ PushLock(p)
                          \/ PushStep(p)

BoundedNext == \/ \E p \in Producers : BoundedProducerNext(p)
               \/ \E c \in Consumers : ConsumerNext(c)

BoundedSpec == Init /\ [][BoundedNext]_vars

FairBoundedSpec == BoundedSpec /\ Fairness
=============================================================================
