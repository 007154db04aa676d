------------------------------ MODULE RaspiCam ------------------------------
(***************************************************************************)
(* The raspicam library: the thread that calls open, startCapture, grab,   *)
(* retrieve and release (Private_Impl), the action thread of MMAL that     *)
(* calls video_buffer_callback, and the camera, which fills the buffers it *)
(* has been sent and returns them.                                         *)
(*                                                                         *)
(* A buffer header is in the pool, at the camera, in the queue of          *)
(* callbacks or in the hand of a thread, and only their numbers matter;    *)
(* every header at the camera has one of the port's client contexts, of    *)
(* which there are as many as buffer_num was when the port was enabled.    *)
(* The pool is made afterwards, for the recommended number of buffers.     *)
(*                                                                         *)
(* retrieve only reads the buffer; what it may read after a grab is said   *)
(* by GrabbedIsFresh.  When startCapture fails it does what release does.  *)
(***************************************************************************)
EXTENDS Naturals, Sequences

CONSTANT MaxBuffers \* bound: buffers a camera asks for

ASSUME MaxBuffersAssumption == MaxBuffers \in Nat \ {0}

VARIABLES \* Private_Impl and its thread
          main,        \* where the user's thread is, "idle" between calls
          isOpened, isCapturing,
          toSend,      \* startCapture: num - q
          \* callback_data
          wantToGrab,
          ready,       \* of Thcond
          buff,        \* the frame in _buffData: none, an old one, a part, a new one
          grabbed,     \* history: grab has returned, and none has begun since
          \* the video port
          headers, contexts,
          pool,        \* headers in video_pool->queue
          camera,      \* headers at the camera
          returned,    \* callback_queue: whether each header has a frame
          lost,        \* history: headers that could not be sent
          enabled,     \* is_enabled
          transit,     \* transit_buffer_headers
          sema,        \* transit_sema
          \* the action thread, and the callback, which it or the user's thread runs
          event,       \* action_event is signalled
          action,      \* where the action thread is
          callback,    \* where the callback is, "none" when it does not run
          frame,       \* buffer->length is not 0
          hasGrabbed

userVars   == <<isOpened, isCapturing, toSend>>
grabVars   == <<wantToGrab, ready, buff, grabbed>>
countVars  == <<headers, contexts, pool, camera, returned, lost>>
portVars   == <<enabled, transit, sema>>
actionVars == <<event, action>>
cbVars     == <<callback, frame, hasGrabbed>>
vars       == <<main, userVars, grabVars, countVars, portVars, actionVars, cbVars>>

Init == /\ main = "idle"
        /\ isOpened = FALSE /\ isCapturing = FALSE
        /\ toSend = 0
        /\ wantToGrab = FALSE /\ ready = FALSE
        /\ buff = "none" /\ grabbed = FALSE
        /\ headers = 0 /\ contexts = 0
        /\ pool = 0 /\ camera = 0 /\ returned = <<>> /\ lost = 0
        /\ enabled = FALSE
        /\ transit = 0 /\ sema = 1
        /\ event = FALSE /\ action = "wait"
        /\ callback = "none" /\ frame = FALSE /\ hasGrabbed = FALSE

----------------------------------------------------------------------------
\* The locks.  send_lock is held in one step at a time.

\* _mutex is held by the callback, and by waitForFrame in one step.
MutexFree == callback \in {"none", "start", "done"}

\* action_mutex
ActionLockFree == action # "loop" /\ main \notin {"disable", "drain"}

\* IN_TRANSIT_DECREMENT
\* Mutant: the semaphore is posted for every header.
DecrementAlwaysPosts == transit' = transit - 1 /\ sema' = sema + 1

Decrement == /\ transit' = transit - 1
             /\ sema' = IF transit = 1 THEN sema + 1 ELSE sema

\* mmal_port_send_buffer, with IN_TRANSIT_INCREMENT: a header that is not sent,
\* because the port is disabled or has no context left, is lost to its sender.
Sends == enabled /\ camera < contexts

SendBuffer ==
  /\ IF Sends
     THEN /\ transit' = transit + 1
          /\ sema' = IF transit = 0 THEN sema - 1 ELSE sema
          /\ camera' = camera + 1
          /\ lost' = lost
     ELSE lost' = lost + 1 /\ UNCHANGED <<transit, sema, camera>>
  /\ UNCHANGED <<headers, contexts, pool, returned, enabled>>

----------------------------------------------------------------------------
\* The user's thread.

\* open, with startCapture or without.
Open(start) ==
  /\ main = "idle"
  /\ ~isOpened
  /\ isOpened' = TRUE
  /\ headers' \in 1..MaxBuffers
  /\ contexts' \in 1..MaxBuffers
  /\ pool' = headers'
  /\ camera' = 0 /\ returned' = <<>> /\ lost' = 0
  /\ enabled' = TRUE /\ transit' = 0 /\ sema' = 1
  /\ IF start THEN main' = "send" /\ toSend' = headers' ELSE UNCHANGED <<main, toSend>>
  /\ UNCHANGED <<isCapturing, grabVars, actionVars, cbVars>>

StartCapture == /\ main = "idle"
                /\ isOpened
                /\ ~isCapturing
                /\ main' = "send"
                /\ toSend' = pool
                /\ UNCHANGED <<isOpened, isCapturing, grabVars, countVars, portVars,
                               actionVars, cbVars>>

\* The loop of startCapture: mmal_queue_get, and mmal_port_send_buffer.  A NULL from
\* the one is no legal argument for the other.
GetBuffer == /\ main = "send"
             /\ toSend > 0
             /\ pool > 0
             /\ pool' = pool - 1
             /\ main' = "sending"
             /\ UNCHANGED <<userVars, grabVars, headers, contexts, camera, returned, lost,
                            portVars, actionVars, cbVars>>

SendNext == /\ main = "sending"
            /\ SendBuffer
            /\ toSend' = toSend - 1
            /\ main' = "send"
            /\ UNCHANGED <<isOpened, isCapturing, grabVars, actionVars, cbVars>>

AllSent == /\ main = "send"
           /\ toSend = 0
           /\ isCapturing' = TRUE
           /\ main' = "idle"
           /\ UNCHANGED <<isOpened, toSend, grabVars, countVars, portVars, actionVars, cbVars>>

\* grab: waitForFrame, until cv.wait gives the mutex back.
Grab == /\ main = "idle"
        /\ isCapturing
        /\ MutexFree
        /\ wantToGrab' = TRUE
        /\ ready' = FALSE
        /\ buff' = IF buff = "none" THEN "none" ELSE "old"
        /\ grabbed' = FALSE
        /\ main' = "grab"
        /\ UNCHANGED <<userVars, countVars, portVars, actionVars, cbVars>>

GrabReturns == /\ main = "grab"
               /\ ready
               /\ MutexFree
               /\ grabbed' = TRUE
               /\ main' = "idle"
               /\ UNCHANGED <<userVars, wantToGrab, ready, buff, countVars, portVars,
                              actionVars, cbVars>>

\* release: mmal_port_disable, step by step, and the destruction of the component.
UserStep(from, to) == main = from /\ main' = to /\ UNCHANGED <<grabVars, headers, contexts,
                                                   camera, returned, lost, action, cbVars>>

Release == /\ isOpened
           /\ UserStep("idle", "release")
           /\ enabled' = FALSE
           /\ UNCHANGED <<userVars, pool, transit, sema, event>>

LockAction == /\ action # "loop"
              /\ UserStep("release", "disable")
              /\ UNCHANGED <<userVars, pool, portVars, event>>

\* The reply to the message comes when the camera has returned all buffers.  That the
\* number of contexts is buffer_num (mmal_vc_api.c 312) is only asserted: on the ARM a
\* vcos_assert that fails stops nothing.
PortDisabled == /\ camera = 0
                /\ UserStep("disable", "drain")
                /\ UNCHANGED <<userVars, pool, portVars, event>>

Drained == /\ returned = <<>>
           /\ callback = "none"
           /\ UserStep("drain", "wait")
           /\ UNCHANGED <<userVars, pool, portVars, event>>

TransitWait == /\ sema > 0
               /\ UserStep("wait", "post")
               /\ sema' = sema - 1
               /\ UNCHANGED <<userVars, pool, enabled, transit, event>>

TransitPost == /\ UserStep("post", "destroy")
               /\ sema' = sema + 1
               /\ UNCHANGED <<userVars, pool, enabled, transit, event>>

\* The pool is destroyed, and the action thread ends.
Destroy == /\ action = "wait"
           /\ UserStep("destroy", "idle")
           /\ isOpened' = FALSE /\ isCapturing' = FALSE
           /\ pool' = 0
           /\ event' = FALSE
           /\ UNCHANGED <<toSend, portVars>>

----------------------------------------------------------------------------
\* The camera returns a header, with a frame or without; the header is queued for
\* the action thread.
CameraReturns(full) == /\ camera > 0
                       /\ camera' = camera - 1
                       /\ returned' = Append(returned, full)
                       /\ event' = TRUE
                       /\ UNCHANGED <<main, userVars, grabVars, headers, contexts, pool, lost,
                                      portVars, action, cbVars>>

\* The action thread.
ActionStep(from, to) == action = from /\ action' = to /\ UNCHANGED <<main, userVars, grabVars,
                                                        countVars, portVars, cbVars>>

ActionWakes == /\ event
               /\ ActionStep("wait", "lock")
               /\ event' = FALSE

ActionLocks == /\ ActionLockFree
               /\ ActionStep("lock", "loop")
               /\ UNCHANGED event

ActionEnds == /\ returned = <<>>
              /\ callback = "none"
              /\ ActionStep("loop", "wait")
              /\ UNCHANGED event

----------------------------------------------------------------------------
\* The callback, run by the action thread or, when the port is being disabled, by
\* the user's.
CallbackVars == <<main, userVars, grabbed, headers, contexts, actionVars>>

TakeReturned == /\ callback = "none"
                /\ action = "loop" \/ main = "drain"
                /\ returned # <<>>
                /\ frame' = Head(returned)
                /\ returned' = Tail(returned)
                /\ callback' = "start"
                /\ UNCHANGED <<CallbackVars, wantToGrab, ready, buff, pool, camera, lost,
                               portVars, hasGrabbed>>

LockAndLook == /\ callback = "start"
               /\ IF wantToGrab /\ frame
                  THEN callback' = "copy" /\ buff' = "part"
                  ELSE callback' = "release" /\ UNCHANGED buff
               /\ UNCHANGED <<CallbackVars, wantToGrab, ready, pool, camera, returned, lost,
                              portVars, frame, hasGrabbed>>

\* Mutant of Copied: wantToGrab is not reset.
CopiedEachTime == /\ callback = "copy"
                  /\ buff' = "new"
                  /\ hasGrabbed' = TRUE
                  /\ callback' = "release"
                  /\ UNCHANGED <<CallbackVars, wantToGrab, ready, pool, camera, returned, lost,
                                 portVars, frame>>

Copied == /\ callback = "copy"
          /\ buff' = "new"
          /\ wantToGrab' = FALSE
          /\ hasGrabbed' = TRUE
          /\ callback' = "release"
          /\ UNCHANGED <<CallbackVars, ready, pool, camera, returned, lost, portVars, frame>>

ReleaseToPool == /\ callback = "release"
                 /\ pool' = pool + 1
                 /\ callback' = "released"
                 /\ UNCHANGED <<CallbackVars, wantToGrab, ready, buff, camera, returned, lost,
                                portVars, frame, hasGrabbed>>

\* Mutant of IfEnabled: no buffer is sent when a frame was copied.
IfEnabledAndIdle == /\ callback = "released"
                    /\ callback' = IF enabled /\ ~hasGrabbed THEN "get" ELSE "broadcast"
                    /\ UNCHANGED <<CallbackVars, wantToGrab, ready, buff, pool, camera, returned,
                                   lost, portVars, frame, hasGrabbed>>

IfEnabled == /\ callback = "released"
             /\ callback' = IF enabled THEN "get" ELSE "broadcast"
             /\ UNCHANGED <<CallbackVars, wantToGrab, ready, buff, pool, camera, returned, lost,
                            portVars, frame, hasGrabbed>>

GetNew == /\ callback = "get"
          /\ IF pool > 0 THEN pool' = pool - 1 /\ callback' = "send"
                         ELSE pool' = pool /\ callback' = "broadcast"
          /\ UNCHANGED <<CallbackVars, wantToGrab, ready, buff, camera, returned, lost, portVars,
                         frame, hasGrabbed>>

SendBack == /\ callback = "send"
            /\ SendBuffer
            /\ callback' = "broadcast"
            /\ UNCHANGED <<main, userVars, grabVars, actionVars, frame, hasGrabbed>>

\* Mutant of Broadcast: a callback without a frame takes the news back.
BroadcastEachTime == /\ callback = "broadcast"
                     /\ ready' = hasGrabbed
                     /\ hasGrabbed' = FALSE
                     /\ callback' = "done"
                     /\ UNCHANGED <<CallbackVars, wantToGrab, buff, pool, camera, returned, lost,
                                    portVars, frame>>

Broadcast == /\ callback = "broadcast"
             /\ ready' = (ready \/ hasGrabbed)
             /\ hasGrabbed' = FALSE
             /\ callback' = "done"
             /\ UNCHANGED <<CallbackVars, wantToGrab, buff, pool, camera, returned, lost,
                            portVars, frame>>

CallbackReturns == /\ callback = "done"
                   /\ Decrement
                   /\ callback' = "none"
                   /\ UNCHANGED <<CallbackVars, wantToGrab, ready, buff, pool, camera, returned,
                                  lost, enabled, frame, hasGrabbed>>

----------------------------------------------------------------------------
\* What goes on in the user's thread once a call has begun.
InCall == \/ GetBuffer \/ SendNext \/ AllSent
          \/ LockAction \/ PortDisabled \/ Drained \/ TransitWait \/ TransitPost \/ Destroy

Callback == \/ TakeReturned \/ LockAndLook \/ Copied \/ ReleaseToPool \/ IfEnabled \/ GetNew
            \/ SendBack \/ Broadcast \/ CallbackReturns

Next == \/ \E start \in BOOLEAN : Open(start)
        \/ StartCapture \/ Grab \/ GrabReturns \/ Release
        \/ InCall
        \/ \E full \in BOOLEAN : CameraReturns(full)
        \/ ActionWakes \/ ActionLocks \/ ActionEnds
        \/ Callback

Spec == Init /\ [][Next]_vars

\* The threads go on, and get a mutex that is free again and again.  A camera that
\* has buffers again and again fills some.
FairSpec == /\ Spec
            /\ SF_vars(InCall)
            /\ SF_vars(GrabReturns)
            /\ SF_vars(CameraReturns(TRUE))
            /\ SF_vars(ActionWakes \/ ActionLocks \/ ActionEnds)
            /\ WF_vars(Callback)

----------------------------------------------------------------------------
TypeOK == /\ main \in {"idle", "send", "sending", "grab", "release", "disable", "drain", "wait",
                       "post", "destroy"}
          /\ {isOpened, isCapturing, wantToGrab, ready, grabbed, enabled, event, frame,
              hasGrabbed} \subseteq BOOLEAN
          /\ buff \in {"none", "old", "part", "new"}
          /\ {headers, contexts, toSend, pool, camera, lost} \subseteq 0..MaxBuffers
          /\ transit \in 0..(MaxBuffers + 1)
          /\ returned \in Seq(BOOLEAN)
          /\ sema \in {0, 1}
          /\ action \in {"wait", "lock", "loop"}
          /\ callback \in {"none", "start", "copy", "release", "released", "get", "send",
                           "broadcast", "done"}

\* Between mmal_buffer_header_release and mmal_queue_get the callback's header is
\* in the pool.
InPool == IF callback \in {"released", "get"} THEN 1 ELSE 0

\* startCapture and the callback take headers from the same queue and never find it
\* empty; once all are sent none stays in the pool, and no more are lost than the
\* port has contexts too few: frames are always captured into as many buffers as
\* the port can take.
BuffersKept ==
  /\ main = "send" /\ toSend > 0 => pool > 0
  /\ callback = "get" => pool > 0
  /\ enabled /\ isCapturing => pool = InPool
  /\ enabled /\ lost > 0 => lost + contexts <= headers

\* From the return of grab to the next grab the buffer holds a whole frame that was
\* delivered after the grab began, and nothing writes to it while retrieve reads.
GrabbedIsFresh == grabbed => buff = "new"

\* Every call returns: startCapture sends its buffers, grab gets a frame as long as
\* the camera has any, release gets all buffers back and both locks.
CallsReturn == main # "idle" ~> main = "idle"
=============================================================================
