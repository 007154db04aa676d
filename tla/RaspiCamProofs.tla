--------------------------- MODULE RaspiCamProofs ---------------------------
(***************************************************************************)
(* The invariants of RaspiCam for any number of buffers.                   *)
(***************************************************************************)
EXTENDS RaspiCam, TLAPS

One(p) == IF p THEN 1 ELSE 0

\* Headers in the hand of a thread: of the callback, before it has released one and
\* when it has got another, and of startCapture.
InHand == One(callback \in {"start", "copy", "release", "send"}) + One(main = "sending")

Types == /\ main \in {"idle", "send", "sending", "grab", "release", "disable", "drain", "wait",
                      "post", "destroy"}
         /\ isOpened \in BOOLEAN /\ isCapturing \in BOOLEAN /\ wantToGrab \in BOOLEAN
         /\ ready \in BOOLEAN /\ grabbed \in BOOLEAN /\ enabled \in BOOLEAN
         /\ event \in BOOLEAN /\ frame \in BOOLEAN /\ hasGrabbed \in BOOLEAN
         /\ buff \in {"none", "old", "part", "new"}
         /\ headers \in 0..MaxBuffers /\ contexts \in 0..MaxBuffers /\ toSend \in 0..MaxBuffers
         /\ pool \in Nat /\ camera \in Nat /\ lost \in 0..MaxBuffers /\ transit \in Nat
         /\ returned \in Seq(BOOLEAN)
         /\ sema \in {0, 1}
         /\ action \in {"wait", "lock", "loop"}
         /\ callback \in {"none", "start", "copy", "release", "released", "get", "send",
                          "broadcast", "done"}

\* No header disappears, and the port counts those it has.
Counted == /\ isOpened => headers = pool + camera + Len(returned) + lost + InHand
           /\ transit = camera + Len(returned) + One(callback # "none")
           /\ sema = One(transit = 0 /\ main # "post")
           /\ camera <= contexts

\* Where the user's thread is tells whether the port is enabled.
Stages == /\ ~isOpened => main = "idle" /\ transit = 0 /\ pool = 0 /\ ~enabled /\ ~isCapturing
          /\ main \in {"send", "sending"} => enabled /\ ~isCapturing
          /\ main = "grab" => enabled /\ isCapturing
          /\ main = "idle" /\ isOpened => enabled
          /\ main \in {"release", "disable", "drain", "wait", "post", "destroy"} => ~enabled
          /\ main \in {"post", "destroy"} => transit = 0

\* What is in the pool is what startCapture still has to send, and for a moment the
\* callback's header.
PoolKept == /\ main = "send" => pool = toSend + InPool
            /\ main = "sending" => pool + 1 = toSend + InPool /\ toSend > 0
            /\ enabled /\ isCapturing => pool = InPool
            /\ callback = "get" => pool > 0
            /\ enabled /\ main = "idle" /\ ~isCapturing => transit = 0 /\ lost = 0
            /\ enabled /\ lost > 0 => lost + contexts <= headers

\* A frame is copied for a grab only, and announced to it alone.
ForGrab == /\ grabbed => buff = "new" /\ main # "grab"
           /\ wantToGrab => main = "grab"
           /\ callback = "copy" => wantToGrab
           /\ hasGrabbed => main = "grab" /\ ~ready /\ buff = "new" /\ ~wantToGrab
           /\ main = "grab" /\ ready => buff = "new" /\ ~wantToGrab

IInv == Types /\ Counted /\ Stages /\ PoolKept /\ ForGrab

----------------------------------------------------------------------------
LEMMA InitIInv == Init => IInv
<1> SUFFICES ASSUME Init PROVE IInv
  OBVIOUS
<1> USE MaxBuffersAssumption DEF Init, One, InHand, InPool
<1>1. Types
  <2>1. returned \in Seq(BOOLEAN)
    OBVIOUS
  <2>2. /\ headers \in 0..MaxBuffers /\ contexts \in 0..MaxBuffers /\ toSend \in 0..MaxBuffers
        /\ pool \in Nat /\ camera \in Nat /\ lost \in 0..MaxBuffers /\ transit \in Nat
    OBVIOUS
  <2> QED
    BY <2>1, <2>2 DEF Types
<1>2. Counted
  BY DEF Counted
<1>3. Stages
  BY DEF Stages
<1>4. PoolKept
  BY DEF PoolKept
<1>5. ForGrab
  BY DEF ForGrab
<1> QED
  BY <1>1, <1>2, <1>3, <1>4, <1>5 DEF IInv

LEMMA StepIInv == IInv /\ [Next]_vars => IInv'
<1> SUFFICES ASSUME IInv, [Next]_vars
             PROVE  IInv'
  OBVIOUS
<1> USE MaxBuffersAssumption
    DEF IInv, Types, Counted, Stages, PoolKept, ForGrab, One, InHand, InPool, MutexFree,
        userVars, grabVars, countVars, portVars, actionVars, cbVars
<1>len. Len(returned) \in Nat
  OBVIOUS
<1>1. ASSUME NEW start \in BOOLEAN, Open(start)
      PROVE  IInv'
  <2>1. Types'
    BY <1>1, <1>len DEF Open
  <2>2. Counted'
    <3>0. callback = "none" /\ main' \in {"idle", "send"}
      BY <1>1, <1>len DEF Open
    <3>1. (isOpened => headers = pool + camera + Len(returned) + lost + InHand)'
      <4>1. PICK num \in Nat : headers' = num
        BY <1>1 DEF Open
      <4>2. InHand' = 0
        BY <1>1, <3>0 DEF Open
      <4>3. camera' = 0 /\ lost' = 0 /\ returned' = <<>> /\ pool' = num
        BY <1>1, <4>1 DEF Open
      <4>4. Len(returned') = 0
        BY <4>3
      <4> QED
        BY ONLY <4>1, <4>2, <4>3, <4>4
    <3>2. (transit = camera + Len(returned) + One(callback # "none"))'
      BY <1>1, <1>len DEF Open
    <3>3. (sema = One(transit = 0 /\ main # "post"))'
      BY <1>1, <1>len DEF Open
    <3>4. (camera <= contexts)'
      BY <1>1, <1>len DEF Open
    <3> QED
      BY <3>1, <3>2, <3>3, <3>4
  <2>3. Stages'
    BY <1>1, <1>len DEF Open
  <2>4. PoolKept'
    BY <1>1, <1>len DEF Open
  <2>5. ForGrab'
    BY <1>1, <1>len DEF Open
  <2> QED
    BY <2>1, <2>2, <2>3, <2>4, <2>5
<1>2. CASE StartCapture
  BY <1>2, <1>len DEF StartCapture
<1>3. CASE Grab
  BY <1>3, <1>len DEF Grab
<1>4. CASE GrabReturns
  BY <1>4, <1>len DEF GrabReturns
<1>5. CASE Release
  <2>1. Types'
    BY <1>5, <1>len DEF Release, UserStep
  <2>2. Counted'
    BY <1>5, <1>len DEF Release, UserStep
  <2>3. Stages'
    BY <1>5, <1>len DEF Release, UserStep
  <2>4. PoolKept'
    BY <1>5, <1>len DEF Release, UserStep
  <2>5. ForGrab'
    BY <1>5, <1>len DEF Release, UserStep
  <2> QED
    BY <2>1, <2>2, <2>3, <2>4, <2>5
<1>6. CASE GetBuffer
  BY <1>6, <1>len DEF GetBuffer
<1>7. CASE SendNext
  <2>1. Types'
    BY <1>7, <1>len DEF SendNext, SendBuffer, Sends
  <2>2. Counted'
    <3>1. (isOpened => headers = pool + camera + Len(returned) + lost + InHand)'
      BY <1>7, <1>len DEF SendNext, SendBuffer, Sends
    <3>2. (transit = camera + Len(returned) + One(callback # "none"))'
      BY <1>7, <1>len DEF SendNext, SendBuffer, Sends
    <3>3. (sema = One(transit = 0 /\ main # "post"))'
      BY <1>7, <1>len DEF SendNext, SendBuffer, Sends
    <3>4. (camera <= contexts)'
      BY <1>7, <1>len DEF SendNext, SendBuffer, Sends
    <3> QED
      BY <3>1, <3>2, <3>3, <3>4
  <2>3. Stages'
    BY <1>7, <1>len DEF SendNext, SendBuffer, Sends
  <2>4. PoolKept'
    BY <1>7, <1>len DEF SendNext, SendBuffer, Sends
  <2>5. ForGrab'
    BY <1>7, <1>len DEF SendNext, SendBuffer, Sends
  <2> QED
    BY <2>1, <2>2, <2>3, <2>4, <2>5
<1>8. CASE AllSent
  BY <1>8, <1>len DEF AllSent
<1>9. CASE LockAction
  BY <1>9, <1>len DEF LockAction, UserStep
<1>10. CASE PortDisabled
  BY <1>10, <1>len DEF PortDisabled, UserStep
<1>11. CASE Drained
  BY <1>11, <1>len DEF Drained, UserStep
<1>12. CASE TransitWait
  BY <1>12, <1>len DEF TransitWait, UserStep
<1>13. CASE TransitPost
  BY <1>13, <1>len DEF TransitPost, UserStep
<1>14. CASE Destroy
  <2>1. Types'
    BY <1>14, <1>len DEF Destroy, UserStep
  <2>2. Counted'
    BY <1>14, <1>len DEF Destroy, UserStep
  <2>3. Stages'
    BY <1>14, <1>len DEF Destroy, UserStep
  <2>4. PoolKept'
    BY <1>14, <1>len DEF Destroy, UserStep
  <2>5. ForGrab'
    BY <1>14, <1>len DEF Destroy, UserStep
  <2> QED
    BY <2>1, <2>2, <2>3, <2>4, <2>5
<1>15. ASSUME NEW full \in BOOLEAN, CameraReturns(full)
      PROVE  IInv'
  BY <1>15, <1>len DEF CameraReturns
<1>16. CASE ActionWakes
  <2>1. Types'
    <3>1. event' \in BOOLEAN
      BY <1>16 DEF ActionWakes
    <3> QED
      BY <1>16, <3>1 DEF ActionWakes, ActionStep
  <2>2. Counted'
    BY <1>16, <1>len DEF ActionWakes, ActionStep
  <2>3. Stages'
    BY <1>16, <1>len DEF ActionWakes, ActionStep
  <2>4. PoolKept'
    BY <1>16, <1>len DEF ActionWakes, ActionStep
  <2>5. ForGrab'
    BY <1>16, <1>len DEF ActionWakes, ActionStep
  <2> QED
    BY <2>1, <2>2, <2>3, <2>4, <2>5
<1>17. CASE ActionLocks
  BY <1>17, <1>len DEF ActionLocks, ActionStep
<1>18. CASE ActionEnds
  BY <1>18, <1>len DEF ActionEnds, ActionStep
<1>19. CASE TakeReturned
  BY <1>19, <1>len DEF TakeReturned, CallbackVars
<1>20. CASE LockAndLook
  BY <1>20, <1>len DEF LockAndLook, CallbackVars
<1>21. CASE Copied
  BY <1>21, <1>len DEF Copied, CallbackVars
<1>22. CASE ReleaseToPool
  BY <1>22, <1>len DEF ReleaseToPool, CallbackVars
<1>23. CASE IfEnabled
  <2>1. Types'
    BY <1>23, <1>len DEF IfEnabled, CallbackVars
  <2>2. Counted'
    BY <1>23, <1>len DEF IfEnabled, CallbackVars
  <2>3. Stages'
    BY <1>23, <1>len DEF IfEnabled, CallbackVars
  <2>4. PoolKept'
    BY <1>23, <1>len DEF IfEnabled, CallbackVars
  <2>5. ForGrab'
    BY <1>23, <1>len DEF IfEnabled, CallbackVars
  <2> QED
    BY <2>1, <2>2, <2>3, <2>4, <2>5
<1>24. CASE GetNew
  BY <1>24, <1>len DEF GetNew, CallbackVars
<1>25. CASE SendBack
  <2>1. Types'
    BY <1>25, <1>len DEF SendBack, SendBuffer, Sends
  <2>2. Counted'
    <3>1. (isOpened => headers = pool + camera + Len(returned) + lost + InHand)'
      BY <1>25, <1>len DEF SendBack, SendBuffer, Sends
    <3>2. (transit = camera + Len(returned) + One(callback # "none"))'
      BY <1>25, <1>len DEF SendBack, SendBuffer, Sends
    <3>3. (sema = One(transit = 0 /\ main # "post"))'
      BY <1>25, <1>len DEF SendBack, SendBuffer, Sends
    <3>4. (camera <= contexts)'
      BY <1>25, <1>len DEF SendBack, SendBuffer, Sends
    <3> QED
      BY <3>1, <3>2, <3>3, <3>4
  <2>3. Stages'
    BY <1>25, <1>len DEF SendBack, SendBuffer, Sends
  <2>4. PoolKept'
    BY <1>25, <1>len DEF SendBack, SendBuffer, Sends
  <2>5. ForGrab'
    BY <1>25, <1>len DEF SendBack, SendBuffer, Sends
  <2> QED
    BY <2>1, <2>2, <2>3, <2>4, <2>5
<1>26. CASE Broadcast
  <2>1. Types'
    BY <1>26, <1>len DEF Broadcast, CallbackVars
  <2>2. Counted'
    BY <1>26, <1>len DEF Broadcast, CallbackVars
  <2>3. Stages'
    BY <1>26, <1>len DEF Broadcast, CallbackVars
  <2>4. PoolKept'
    BY <1>26, <1>len DEF Broadcast, CallbackVars
  <2>5. ForGrab'
    BY <1>26, <1>len DEF Broadcast, CallbackVars
  <2> QED
    BY <2>1, <2>2, <2>3, <2>4, <2>5
<1>27. CASE CallbackReturns
  BY <1>27, <1>len DEF CallbackReturns, CallbackVars, Decrement
<1>28. CASE UNCHANGED vars
  BY <1>28 DEF vars
<1> QED
  BY <1>1, <1>2, <1>3, <1>4, <1>5, <1>6, <1>7, <1>8, <1>9, <1>10, <1>11, <1>12, <1>13, <1>14, <1>15, <1>16, <1>17, <1>18, <1>19, <1>20, <1>21, <1>22, <1>23, <1>24, <1>25, <1>26, <1>27, <1>28 DEF Next, InCall, Callback

LEMMA Invariance == Spec => []IInv
BY InitIInv, StepIInv, PTL DEF Spec

----------------------------------------------------------------------------
\* Every variable stays in its range, whatever number of buffers the camera asks for:
\* in particular the counts of the port never leave 0 .. MaxBuffers and its semaphore
\* is never posted twice (mmal_port.c, IN_TRANSIT_INCREMENT and IN_TRANSIT_DECREMENT).
THEOREM TypesHold == Spec => []TypeOK
<1>1. IInv => TypeOK
  <2> SUFFICES ASSUME IInv PROVE TypeOK
    OBVIOUS
  <2> USE MaxBuffersAssumption DEF IInv, Types
  <2>1. Len(returned) \in Nat /\ InHand \in Nat
    BY DEF InHand, One
  <2>2. pool \in 0..MaxBuffers /\ camera \in 0..MaxBuffers
    <3>1. CASE isOpened
      BY <2>1, <3>1 DEF Counted
    <3>2. CASE ~isOpened
      BY <2>1, <3>2 DEF Counted, Stages, One
    <3> QED
      BY <3>1, <3>2
  <2>3. transit \in 0..(MaxBuffers + 1)
    <3>1. CASE isOpened
      BY <2>1, <3>1 DEF Counted, One
    <3>2. CASE ~isOpened
      BY <3>2 DEF Stages
    <3> QED
      BY <3>1, <3>2
  <2>4. {headers, contexts, toSend, pool, camera, lost} \subseteq 0..MaxBuffers
    BY <2>2
  <2>5. {isOpened, isCapturing, wantToGrab, ready, grabbed, enabled, event, frame, hasGrabbed}
          \subseteq BOOLEAN
    OBVIOUS
  <2> QED
    BY <2>3, <2>4, <2>5 DEF TypeOK
<1> QED
  BY <1>1, Invariance, PTL

\* startCapture and the callback take headers from the same queue and never find it
\* empty (private_impl.cpp, lines 136 and 491); while frames are captured no header stays
\* behind in the pool, and a header is lost only when there are more of them than contexts.
THEOREM BuffersAreKept == Spec => []BuffersKept
<1>1. IInv => BuffersKept
  BY DEF IInv, Types, Counted, Stages, PoolKept, BuffersKept, InPool
<1> QED
  BY <1>1, Invariance, PTL

\* What retrieve copies after a grab (private_impl.cpp, line 181, without the mutex) is
\* a whole frame that came after the grab began.
THEOREM WhatIsGrabbedIsFresh == Spec => []GrabbedIsFresh
<1>1. IInv => GrabbedIsFresh
  BY DEF IInv, ForGrab, GrabbedIsFresh
<1> QED
  BY <1>1, Invariance, PTL
=============================================================================
