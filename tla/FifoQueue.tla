----------------------------- MODULE FifoQueue -----------------------------
(***************************************************************************)
(* What hybrid/BlockingQueue.h promises its callers: push and pop are      *)
(* atomic operations on one unbounded first-in first-out queue, and pop    *)
(* blocks while it is empty.  A call is pending ("called"), then it has    *)
(* taken effect ("done"), then it returns.                                 *)
(***************************************************************************)
EXTENDS Sequences

CONSTANTS Producers, Consumers, Elements, None

Callers == Producers \cup Consumers

VARIABLES content,  \* the queue
          phase,    \* "idle", "called" or "done"
          value     \* the argument of a pending Put, the result of a done Get

vars == <<content, phase, value>>

Init == /\ content = <<>>
        /\ phase = [t \in Callers |-> "idle"]
        /\ value = [t \in Callers |-> None]

Move(t, from, to) == /\ phase[t] = from
                     /\ phase' = [phase EXCEPT ![t] = to]

CallPut(p, e) == /\ Move(p, "idle", "called")
                 /\ value' = [value EXCEPT ![p] = e]
                 /\ UNCHANGED content

CallGet(c) == /\ Move(c, "idle", "called")
              /\ UNCHANGED <<content, value>>

Put(p) == /\ Move(p, "called", "done")
          /\ content' = Append(content, value[p])
          /\ value' = [value EXCEPT ![p] = None]

Get(c) == /\ content # <<>>
          /\ Move(c, "called", "done")
          /\ value' = [value EXCEPT ![c] = Head(content)]
          /\ content' = Tail(content)

Return(t) == /\ Move(t, "done", "idle")
             /\ value' = [value EXCEPT ![t] = None]
             /\ UNCHANGED content

Next == \/ \E p \in Producers : Put(p) \/ \E e \in Elements : CallPut(p, e)
        \/ \E c \in Consumers : Get(c) \/ CallGet(c)
        \/ \E t \in Callers : Return(t)

Spec == Init /\ [][Next]_vars

\* Every Put takes effect; some Get does as long as there is something to get.
FairSpec == /\ Spec
            /\ \A p \in Producers : WF_vars(Put(p))
            /\ WF_vars(\E c \in Consumers : Get(c))
            /\ \A t \in Callers : WF_vars(Return(t))
=============================================================================
