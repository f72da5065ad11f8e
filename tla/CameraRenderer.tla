--------------------------- MODULE CameraRenderer ---------------------------
(***************************************************************************)
(* One camera and its renderer: CameraInternal, CameraRendererHolder,      *)
(* RendererHolder and ImageCapture (Java).                                 *)
(*                                                                         *)
(* The helper thread ("client") runs what the application asks: open,      *)
(* close, start and stop the preview, set its size, add and remove         *)
(* surfaces, take a picture.  The GL thread ("gl") runs the messages of    *)
(* the renderer one after the other; it makes the primary surface, into    *)
(* which the camera writes, and starts the preview again on a new one.     *)
(* The listener thread releases the camera once it was closed or unplugged.*)
(* The executor of VideoCapture asks to remove a recording's surface.      *)
(* They share CameraInternal.class, the renderer's mLock with its          *)
(* condition, and mSlaveSurfaces, on which the client waits for a while.   *)
(* What OpenGL draws is not modelled.                                      *)
(***************************************************************************)
EXTENDS Integers, Sequences, FiniteSets

CONSTANTS
    Sizes,          \* preview sizes
    DefaultSize,    \* DEFAULT_WIDTH x DEFAULT_HEIGHT
    Surfaces,       \* ids (hash codes) of the surfaces to be mirrored on
    RecordSurfaces, \* those of them that are the inputs of video encoders
    Pictures,       \* calls of takePicture
    NoArg,          \* the argument of a message that has none
    NoThread,       \* the owner of a free lock
    MaxOps,         \* bound: operations of the application
    MaxFailures     \* bound: frames whose drawing fails

ASSUME BoundsAssumption == MaxOps \in Nat /\ MaxFailures \in Nat
ASSUME DefaultSizeAssumption == DefaultSize \in Sizes
ASSUME NoThreadAssumption == NoThread \notin {"client", "gl", "listener"}
\* mSlaveSurfaces is sorted by the ids, which are of type int.
ASSUME SurfacesAssumption ==
    Surfaces \subseteq Int /\ IsFiniteSet(Surfaces) /\ RecordSurfaces \subseteq Surfaces

Threads == {"client", "gl", "listener"}
Starters == {"client", "gl"}                \* who runs startPreview
Locks == {"CameraInternal", "mLock"}

VARIABLES
    \* CameraInternal: mUVCCamera is not null, mIsPreviewing, mImageCapture
    \* (with mVideoCapture) is not null, mRendererHolder is not null
    mUVCCamera, mIsPreviewing, mImageCapture, mRendererHolder,
    \* the native camera: its size, whether it previews, and its surface
    mCurrentSize, running, display,
    \* RendererHolder: size, whether there is a primary surface and it got a
    \* frame, the slave surfaces
    mVideoSize, mPrimarySurface, mIsFirstFrameRendered, mSlaveSurfaces,
    \* the renderer's messages and whether its looper was told to quit
    glQueue, quit,
    \* surfaces of the application that are still valid, frames that failed
    valid, failures,
    \* takePicture calls: how far each one is
    picture,
    \* CameraConnection: the camera is in mCameras; it has to be removed
    listed, removal,
    \* the owner of every lock
    lock,
    \* per thread: where it is; the primary surface it read; and the client's
    \* operations begun and its argument
    pc, got, ops, arg,
    \* history: the surfaces last asked for; those whose last request was
    \* decided on mSlaveSurfaces while an earlier one was due; whether
    \* checkSurface met two invalid ones; whether the client's startPreview
    \* began while the preview was stopped, and whether another primary
    \* surface was due meanwhile
    added, overtaken, muddled, calm, overlap

camera == <<mUVCCamera, mIsPreviewing, mImageCapture, mRendererHolder>>
native == <<mCurrentSize, running, display>>
primary == <<mVideoSize, mPrimarySurface, mIsFirstFrameRendered>>
looper == <<glQueue, quit>>
outside == <<valid, failures>>
connection == <<listed, removal>>
request == <<ops, arg>>
history == <<added, overtaken, muddled, calm, overlap>>
vars == <<camera, native, primary, mSlaveSurfaces, looper, outside, picture, connection,
          lock, pc, got, request, history>>

Messages ==
    [what : {"recreate", "removeAll", "release"}, arg : {NoArg}]
        \cup [what : {"updateSize"}, arg : Sizes]
        \cup [what : {"add", "remove"}, arg : Surfaces]
        \cup [what : {"capture"}, arg : Pictures]

StartPlaces == {"resize", "awaitSize", "relockSize", "checkSurface", "checkValid",
                "lockSurface", "awaitSurface", "relockSurface", "readSurface", "display"}
ClientPlaces == {"idle", "reset", "resetWait", "open", "opened", "close", "dropCaptures",
                 "startPreview", "stopPreview", "addSurface", "removeSurface", "wait",
                 "useCapture", "postCapture"}
GlPlaces == {"idle", "recreate", "create", "callback", "startPreview", "created",
             "ended", "crashed"}
ListenerPlaces == {"idle", "close", "dropCaptures", "releaseResource"}

TypeOK ==
    /\ mUVCCamera \in BOOLEAN /\ mIsPreviewing \in BOOLEAN
    /\ mImageCapture \in BOOLEAN /\ mRendererHolder \in BOOLEAN
    /\ mCurrentSize \in Sizes /\ running \in BOOLEAN
    /\ display \in {"none", "current", "old"}
    /\ mVideoSize \in Sizes /\ mPrimarySurface \in BOOLEAN
    /\ mIsFirstFrameRendered \in BOOLEAN
    /\ mSlaveSurfaces \subseteq Surfaces
    /\ glQueue \in Seq(Messages) /\ quit \in BOOLEAN
    /\ valid \subseteq Surfaces /\ failures \in 0..MaxFailures
    /\ picture \in [Pictures -> {"none", "asked", "posted", "dropped", "saving", "answered"}]
    /\ listed \in BOOLEAN /\ removal \in BOOLEAN
    /\ lock \in [Locks -> Threads \cup {NoThread}]
    /\ pc \in [Threads -> StartPlaces \cup ClientPlaces \cup GlPlaces \cup ListenerPlaces]
    /\ got \in [Starters -> {"none", "current", "old"}]
    /\ ops \in 0..MaxOps /\ arg \in Surfaces \cup Pictures \cup {NoArg}
    /\ added \subseteq Surfaces /\ overtaken \subseteq Surfaces /\ muddled \in BOOLEAN
    /\ calm \in BOOLEAN /\ overlap \in BOOLEAN

Message(what, a) == [what |-> what, arg |-> a]

\* A camera that was just selected, its renderer still to be initialised.
Selected ==
    /\ mUVCCamera = FALSE /\ mIsPreviewing = FALSE /\ mImageCapture = FALSE
    /\ running = FALSE /\ display = "none"
    /\ mPrimarySurface = FALSE
    /\ glQueue = <<Message("recreate", NoArg)>>

\* The same camera some time later, opened and previewing.
Previewing ==
    /\ mUVCCamera = TRUE /\ mIsPreviewing = TRUE /\ mImageCapture = TRUE
    /\ running = TRUE /\ display = "current"
    /\ mPrimarySurface = TRUE
    /\ glQueue = <<>>

Init ==
    /\ Selected \/ Previewing
    /\ mRendererHolder = TRUE
    /\ mCurrentSize = DefaultSize /\ mVideoSize = DefaultSize /\ mIsFirstFrameRendered = FALSE
    /\ mSlaveSurfaces = {} /\ quit = FALSE
    /\ valid = Surfaces /\ failures = 0
    /\ picture = [p \in Pictures |-> "none"]
    /\ listed = TRUE /\ removal = FALSE
    /\ lock = [l \in Locks |-> NoThread]
    /\ pc = [t \in Threads |-> "idle"] /\ got = [t \in Starters |-> "none"]
    /\ ops = 0 /\ arg = NoArg
    /\ added = {} /\ overtaken = {} /\ muddled = FALSE /\ calm = FALSE /\ overlap = FALSE

-----------------------------------------------------------------------------
(***************************************************************************)
(* Helpers                                                                 *)
(***************************************************************************)
Goto(t, place) == pc' = [pc EXCEPT ![t] = place]
Free(l, t) == lock[l] \in {NoThread, t}         \* both locks are reentrant
Acquire(l, t) == Free(l, t) /\ lock' = [lock EXCEPT ![l] = t]
Released(l) == lock' = [lock EXCEPT ![l] = NoThread]

\* Handler.post and sendMessage: dropped once the looper was told to quit.
Post(ms) == glQueue' = IF quit THEN glQueue ELSE glQueue \o ms

\* What startPreview's caller does next.
AfterStart(t) == IF t = "client" THEN "idle" ELSE "created"

Alive == pc["gl"] # "crashed"

\* notifyAll of mSlaveSurfaces, whatever request was handled: a client that
\* waits goes on, in resetUVCCamera or at its end.
Notified(place) == CASE place = "wait" -> "idle"
                     [] place = "resetWait" -> "open"
                     [] OTHER -> place
\* resetUVCCamera waits inside CameraInternal.class and leaves it afterwards.
UnlockReset == lock' = IF pc["client"] = "resetWait"
                       THEN [lock EXCEPT !["CameraInternal"] = NoThread] ELSE lock
NotifyAll ==
    /\ pc' = [pc EXCEPT !["client"] = Notified(@)]
    /\ arg' = IF pc["client"] = "wait" THEN NoArg ELSE arg
    /\ UnlockReset

\* Messages that can change whether the renderer mirrors on s.
About(m, s) == m.what = "removeAll" \/ (m.what \in {"add", "remove"} /\ m.arg = s)
Due(s) == \E i \in 1..Len(glQueue) : About(glQueue[i], s)

\* A request that sends no message overtakes one that is still due.
Overtakes(s, sent) == overtaken' = IF sent \/ ~Due(s) THEN overtaken \ {s}
                                                     ELSE overtaken \cup {s}

\* signalAll of mCreatePrimarySurfaceCondition: who awaits must lock again.
Signalled(place) == CASE place = "awaitSize" -> "relockSize"
                      [] place = "awaitSurface" -> "relockSurface"
                      [] OTHER -> place

Recreating == pc["gl"] \in {"recreate", "create", "callback"} \cup StartPlaces
              \/ pc["gl"] \in {"startPreview", "created"}
RecreateDue == \E i \in 1..Len(glQueue) : glQueue[i].what = "recreate"
Aged(s) == IF s = "current" THEN "old" ELSE s
-----------------------------------------------------------------------------
(***************************************************************************)
(* The application: every operation takes the camera from mCameras, under  *)
(* mConnectionSync, which the listener holds while it releases the camera. *)
(***************************************************************************)
Begin(place) ==
    /\ pc["client"] = "idle"
    /\ listed /\ pc["listener"] = "idle"
    /\ ops < MaxOps
    /\ ops' = ops + 1
    /\ Goto("client", place)

BeginOpen ==
    /\ Begin("reset")
    /\ ~mUVCCamera
    /\ UNCHANGED <<camera, native, primary, mSlaveSurfaces, looper, outside, picture,
                   connection, lock, got, arg, history>>

BeginClose ==
    /\ Begin("close")
    /\ UNCHANGED <<camera, native, primary, mSlaveSurfaces, looper, outside, picture,
                   connection, lock, got, arg, history>>

BeginPreview ==
    /\ \E place \in {"startPreview", "stopPreview"} : Begin(place)
    /\ UNCHANGED <<camera, native, primary, mSlaveSurfaces, looper, outside, picture,
                   connection, lock, got, arg, history>>

\* addSurface and removeSurface test mRendererHolder before they use it, and
\* startRecording, which adds the encoder's surface, mUVCCamera and mVideoCapture.
BeginSurface(s) ==
    /\ \/ /\ s \notin RecordSurfaces /\ mRendererHolder
          /\ \E place \in {"addSurface", "removeSurface"} : Begin(place)
       \/ /\ s \in RecordSurfaces \ added /\ mUVCCamera /\ mImageCapture
          /\ Begin("addSurface")
    /\ arg' = s
    /\ UNCHANGED <<camera, native, primary, mSlaveSurfaces, looper, outside, picture,
                   connection, lock, got, history>>

\* A camera that is not open, or has no ImageCapture, answers at once.
BeginPicture(p) ==
    /\ picture[p] = "none"
    /\ \/ /\ mUVCCamera /\ mImageCapture
          /\ Begin("useCapture")
          /\ arg' = p
          /\ picture' = [picture EXCEPT ![p] = "asked"]
       \/ /\ ~(mUVCCamera /\ mImageCapture)
          /\ Begin("idle")
          /\ picture' = [picture EXCEPT ![p] = "answered"]
          /\ UNCHANGED arg
    /\ UNCHANGED <<camera, native, primary, mSlaveSurfaces, looper, outside, connection, lock,
                   got, history>>

\* Closing tells the listener, which will remove the camera.
Closed == /\ mUVCCamera' = FALSE /\ running' = FALSE /\ display' = "none"
          /\ removal' = TRUE

\* setPreviewSize takes no lock.  A size the camera refuses, or no
\* VideoCapture, makes it destroy the camera.
SetPreviewSize(size) ==
    /\ Begin("idle")
    /\ \/ /\ mUVCCamera /\ mImageCapture
          /\ mCurrentSize' = size
          /\ UNCHANGED <<mUVCCamera, running, display, removal>>
       \/ mUVCCamera /\ Closed /\ UNCHANGED mCurrentSize
    /\ UNCHANGED <<mIsPreviewing, mImageCapture, mRendererHolder, primary, mSlaveSurfaces,
                   looper, outside, picture, listed, lock, got, arg, history>>

-----------------------------------------------------------------------------
(***************************************************************************)
(* CameraInternal.openCamera                                               *)
(***************************************************************************)
ResetIfMirrored ==              \* mutant: asks only if there is a slave surface
    /\ pc["client"] = "reset"
    /\ Free("CameraInternal", "client")
    /\ mRendererHolder
    /\ Post(IF mSlaveSurfaces = {} THEN <<>> ELSE <<Message("removeAll", NoArg)>>)
    /\ Goto("client", "open")
    /\ added' = {} /\ overtaken' = {}
    /\ UNCHANGED <<camera, native, primary, mSlaveSurfaces, quit, outside, picture, connection,
                   lock, got, request, muddled, calm, overlap>>

\* resetUVCCamera: removeSlaveSurfaceAll waits for the GL thread while
\* CameraInternal.class is held.  A released renderer is a null pointer.
ResetUVCCamera ==
    /\ pc["client"] = "reset"
    /\ Free("CameraInternal", "client")
    /\ mUVCCamera' = FALSE /\ running' = FALSE /\ display' = "none"
    /\ added' = {} /\ overtaken' = {}
    /\ IF mRendererHolder
       THEN /\ Post(<<Message("removeAll", NoArg)>>)
            /\ Acquire("CameraInternal", "client")
            /\ Goto("client", "resetWait")
       ELSE Goto("client", "idle") /\ UNCHANGED <<glQueue, lock>>
    /\ UNCHANGED <<mIsPreviewing, mImageCapture, mRendererHolder, mCurrentSize, primary,
                   mSlaveSurfaces, quit, outside, picture, connection, got, request, muddled,
                   calm, overlap>>

WaitsForever == FALSE /\ UNCHANGED vars     \* mutant: wait without a time limit

\* wait(1000) or wait(2000) of mSlaveSurfaces runs out.
WaitTimeout ==
    /\ pc["client"] \in {"wait", "resetWait"}
    /\ NotifyAll
    /\ UNCHANGED <<camera, native, primary, mSlaveSurfaces, looper, outside, picture,
                   connection, got, ops, history>>

\* openUVCCamera: a new native camera, of one of its sizes.
OpenUVCCamera ==
    /\ pc["client"] = "open"
    /\ Free("CameraInternal", "client")
    /\ mUVCCamera' = TRUE
    /\ mCurrentSize' \in Sizes
    /\ Goto("client", "opened")
    /\ UNCHANGED <<mIsPreviewing, mImageCapture, mRendererHolder, running, display, primary,
                   mSlaveSurfaces, looper, outside, picture, connection, lock, got, request,
                   history>>

CreateCaptures ==
    /\ pc["client"] = "opened"
    /\ mImageCapture' = TRUE
    /\ Goto("client", "idle")
    /\ UNCHANGED <<mUVCCamera, mIsPreviewing, mRendererHolder, native, primary, mSlaveSurfaces,
                   looper, outside, picture, connection, lock, got, request, history>>

-----------------------------------------------------------------------------
(***************************************************************************)
(* CameraInternal.closeCamera and release; mIsPreviewing stays as it is    *)
(***************************************************************************)
CloseCamera(t) ==
    /\ pc[t] = "close"
    /\ Free("CameraInternal", t)
    /\ \/ mUVCCamera /\ Closed
       \/ ~mUVCCamera /\ UNCHANGED <<mUVCCamera, running, display, removal>>
    /\ Goto(t, "dropCaptures")
    /\ UNCHANGED <<mIsPreviewing, mImageCapture, mRendererHolder, mCurrentSize, primary,
                   mSlaveSurfaces, looper, outside, picture, listed, lock, got, request,
                   history>>

DropCaptures(t) ==
    /\ pc[t] = "dropCaptures"
    /\ mImageCapture' = FALSE
    /\ Goto(t, IF t = "client" THEN "idle" ELSE "releaseResource")
    /\ UNCHANGED <<mUVCCamera, mIsPreviewing, mRendererHolder, native, primary, mSlaveSurfaces,
                   looper, outside, picture, connection, lock, got, request, history>>

\* The camera is unplugged.
Detach ==
    /\ Alive
    /\ listed /\ ~removal
    /\ removal' = TRUE
    /\ UNCHANGED <<camera, native, primary, mSlaveSurfaces, looper, outside, picture, listed,
                   lock, pc, got, request, history>>

\* removeCamera calls release.
RemoveCamera ==
    /\ pc["listener"] = "idle"
    /\ listed /\ removal
    /\ Goto("listener", IF mUVCCamera THEN "close" ELSE "releaseResource")
    /\ UNCHANGED <<camera, native, primary, mSlaveSurfaces, looper, outside, picture,
                   connection, lock, got, request, history>>

ReleaseResource ==
    /\ pc["listener"] = "releaseResource"
    /\ Free("CameraInternal", "listener")
    /\ Post(IF mRendererHolder THEN <<Message("release", NoArg)>> ELSE <<>>)
    /\ mRendererHolder' = FALSE
    /\ listed' = FALSE
    /\ Goto("listener", "idle")
    /\ UNCHANGED <<mUVCCamera, mIsPreviewing, mImageCapture, native, primary, mSlaveSurfaces,
                   quit, outside, picture, removal, lock, got, request, history>>

-----------------------------------------------------------------------------
(***************************************************************************)
(* CameraInternal.startPreview, by the client or by the GL thread          *)
(***************************************************************************)
StartsPreviewing(t) ==                      \* mutant: mIsPreviewing is set first
    /\ pc[t] = "startPreview"
    /\ Free("CameraInternal", t)
    /\ mIsPreviewing' = (mIsPreviewing \/ mUVCCamera)
    /\ IF mUVCCamera
       THEN /\ Acquire("CameraInternal", t)
            /\ Goto(t, IF mRendererHolder /\ mCurrentSize # mVideoSize
                       THEN "resize" ELSE "checkSurface")
       ELSE Goto(t, AfterStart(t)) /\ UNCHANGED lock
    /\ calm' = IF t = "client" THEN ~mIsPreviewing /\ pc["gl"] # "startPreview" ELSE calm
    /\ UNCHANGED <<mUVCCamera, mImageCapture, mRendererHolder, native, primary, mSlaveSurfaces,
                   looper, outside, picture, connection, got, request, added, overtaken,
                   muddled, overlap>>

StartPreview(t) ==
    /\ pc[t] = "startPreview"
    /\ Free("CameraInternal", t)
    /\ IF mUVCCamera
       THEN /\ Acquire("CameraInternal", t)
            /\ Goto(t, IF mRendererHolder /\ mCurrentSize # mVideoSize
                       THEN "resize" ELSE "checkSurface")
       ELSE Goto(t, AfterStart(t)) /\ UNCHANGED lock
    /\ IF t = "client"
       THEN /\ calm' = (~mIsPreviewing /\ pc["gl"] # "startPreview")
            /\ overlap' = (Recreating \/ RecreateDue)
       ELSE UNCHANGED <<calm, overlap>>
    /\ UNCHANGED <<camera, native, primary, mSlaveSurfaces, looper, outside, picture,
                   connection, got, request, added, overtaken, muddled>>

\* updatePrimarySize: both messages, then await, which gives mLock back.
Resize(t) ==
    /\ pc[t] = "resize"
    /\ Free("mLock", t)
    /\ Post(<<Message("updateSize", mCurrentSize), Message("recreate", NoArg)>>)
    /\ Released("mLock")
    /\ Goto(t, "awaitSize")
    /\ UNCHANGED <<camera, native, primary, mSlaveSurfaces, quit, outside, picture, connection,
                   got, request, history>>

\* A null pointer in startPreview: its caller catches the exception.
StartAborted(t) == Goto(t, AfterStart(t)) /\ Released("CameraInternal")

\* getPrimarySurface of a renderer that is gone is a null pointer.
CheckPrimarySurface(t) ==
    /\ pc[t] = "checkSurface"
    /\ IF ~mRendererHolder
       THEN StartAborted(t)
       ELSE /\ Goto(t, IF mPrimarySurface THEN "checkValid" ELSE "lockSurface")
            /\ UNCHANGED lock
    /\ UNCHANGED <<camera, native, primary, mSlaveSurfaces, looper, outside, picture,
                   connection, got, request, history>>

\* checkPrimarySurface reads mPrimarySurface again to ask whether it is valid.
CheckValid(t) ==
    /\ pc[t] = "checkValid"
    /\ IF mPrimarySurface THEN Goto(t, "readSurface") /\ UNCHANGED lock
                          ELSE StartAborted(t)
    /\ UNCHANGED <<camera, native, primary, mSlaveSurfaces, looper, outside, picture,
                   connection, got, request, history>>

RequestSurface(t) ==
    /\ pc[t] = "lockSurface"
    /\ Free("mLock", t)
    /\ Post(<<Message("recreate", NoArg)>>)
    /\ Released("mLock")
    /\ Goto(t, "awaitSurface")
    /\ UNCHANGED <<camera, native, primary, mSlaveSurfaces, quit, outside, picture, connection,
                   got, request, history>>

\* The await returns when mLock is free again.
Relock(t) ==
    /\ Free("mLock", t)
    /\ \/ pc[t] = "relockSize" /\ Goto(t, "checkSurface")
       \/ pc[t] = "relockSurface" /\ Goto(t, "readSurface")
    /\ UNCHANGED <<camera, native, primary, mSlaveSurfaces, looper, outside, picture,
                   connection, lock, got, request, history>>

\* mPrimarySurface is read again, without mLock.
ReadSurface(t) ==
    /\ pc[t] = "readSurface"
    /\ got' = [got EXCEPT ![t] = IF mPrimarySurface THEN "current" ELSE "none"]
    /\ Goto(t, "display")
    /\ UNCHANGED <<camera, native, primary, mSlaveSurfaces, looper, outside, picture,
                   connection, lock, request, history>>

\* setPreviewDisplay and the native startPreview, which wants a surface.  A
\* failed setPreviewSize may have destroyed the camera.
SetPreviewDisplay(t) ==
    /\ pc[t] = "display"
    /\ IF mUVCCamera
       THEN /\ display' = got[t]
            /\ running' = (running \/ got[t] # "none")
            /\ mIsPreviewing' = TRUE
       ELSE UNCHANGED <<display, running, mIsPreviewing>>
    /\ got' = [got EXCEPT ![t] = "none"]
    /\ Released("CameraInternal")
    /\ Goto(t, AfterStart(t))
    /\ calm' = (calm /\ t # "client")
    /\ UNCHANGED <<mUVCCamera, mImageCapture, mRendererHolder, mCurrentSize, primary,
                   mSlaveSurfaces, looper, outside, picture, connection, request, added,
                   overtaken, muddled, overlap>>

StopPreview ==
    /\ pc["client"] = "stopPreview"
    /\ Free("CameraInternal", "client")
    /\ running' = FALSE
    /\ mIsPreviewing' = FALSE
    /\ Goto("client", "idle")
    /\ UNCHANGED <<mUVCCamera, mImageCapture, mRendererHolder, mCurrentSize, display, primary,
                   mSlaveSurfaces, looper, outside, picture, connection, lock, got, request,
                   history>>

-----------------------------------------------------------------------------
(***************************************************************************)
(* Slave surfaces and pictures, as the client asks for them                *)
(***************************************************************************)
AddSlaveSurface ==
    /\ pc["client"] = "addSurface"
    /\ added' = added \cup {arg}
    /\ Overtakes(arg, arg \notin mSlaveSurfaces)
    /\ IF arg \in mSlaveSurfaces
       THEN Goto("client", "idle") /\ arg' = NoArg /\ UNCHANGED glQueue
       ELSE Post(<<Message("add", arg)>>) /\ Goto("client", "wait") /\ UNCHANGED arg
    /\ UNCHANGED <<camera, native, primary, mSlaveSurfaces, quit, outside, picture, connection,
                   lock, got, ops, muddled, calm, overlap>>

RemoveSlaveSurface ==
    /\ pc["client"] = "removeSurface"
    /\ added' = added \ {arg}
    /\ Overtakes(arg, arg \in mSlaveSurfaces)
    /\ IF arg \in mSlaveSurfaces
       THEN Post(<<Message("remove", arg)>>) /\ Goto("client", "wait") /\ UNCHANGED arg
       ELSE Goto("client", "idle") /\ arg' = NoArg /\ UNCHANGED glQueue
    /\ UNCHANGED <<camera, native, primary, mSlaveSurfaces, quit, outside, picture, connection,
                   lock, got, ops, muddled, calm, overlap>>

\* The clean-up after a recording, on the executor of VideoCapture, asks for the
\* removal of the recording's surface; nothing here depends on its own wait.
CleanUp(s) ==
    /\ Alive
    /\ s \in RecordSurfaces \cap added
    /\ ~(pc["client"] = "wait" /\ arg = s)
    /\ added' = added \ {s}
    /\ Overtakes(s, s \in mSlaveSurfaces)
    /\ Post(IF s \in mSlaveSurfaces THEN <<Message("remove", s)>> ELSE <<>>)
    /\ UNCHANGED <<camera, native, primary, mSlaveSurfaces, quit, outside, picture, connection,
                   lock, pc, got, request, muddled, calm, overlap>>

\* A surface is destroyed: by the application at any time, by the clean-up
\* after its request.
Invalidate(s) ==
    /\ Alive
    /\ s \in (added \cup mSlaveSurfaces) \cap valid
    /\ s \notin RecordSurfaces \cap added
    /\ valid' = valid \ {s}
    /\ UNCHANGED <<camera, native, primary, mSlaveSurfaces, looper, failures, picture,
                   connection, lock, pc, got, request, history>>

\* mImageCapture may be gone since it was tested: CameraHelper's handler
\* answers for the null pointer.
UseCapture ==
    /\ pc["client"] = "useCapture"
    /\ IF mImageCapture
       THEN Goto("client", "postCapture") /\ UNCHANGED <<picture, arg>>
       ELSE /\ picture' = [picture EXCEPT ![arg] = "answered"]
            /\ arg' = NoArg
            /\ Goto("client", "idle")
    /\ UNCHANGED <<camera, native, primary, mSlaveSurfaces, looper, outside, connection, lock,
                   got, ops, history>>

\* The weak reference to a renderer whose thread has ended may be null, which
\* is answered; a post to it is dropped without an answer.
PostCapture ==
    /\ pc["client"] = "postCapture"
    /\ Post(<<Message("capture", arg)>>)
    /\ \/ picture' = [picture EXCEPT ![arg] = IF quit THEN "dropped" ELSE "posted"]
       \/ pc["gl"] = "ended" /\ picture' = [picture EXCEPT ![arg] = "answered"]
    /\ Goto("client", "idle")
    /\ arg' = NoArg
    /\ UNCHANGED <<camera, native, primary, mSlaveSurfaces, quit, outside, connection, lock,
                   got, ops, history>>

\* ImageSaver, then the main thread.
SaveImage(p) ==
    /\ Alive
    /\ picture[p] = "saving"
    /\ picture' = [picture EXCEPT ![p] = "answered"]
    /\ UNCHANGED <<camera, native, primary, mSlaveSurfaces, looper, outside, connection, lock,
                   pc, got, request, history>>

-----------------------------------------------------------------------------
(***************************************************************************)
(* The GL thread: RendererHandler.handleMessage                            *)
(***************************************************************************)
Handle(what) ==
    /\ pc["gl"] = "idle"
    /\ glQueue # <<>>
    /\ Head(glQueue).what = what

\* REQUEST_INIT and REQUEST_RECREATE_PRIMARY_SURFACE
HandleReCreatePrimarySurface ==
    /\ Handle("recreate")
    /\ glQueue' = Tail(glQueue)
    /\ Goto("gl", "recreate")
    /\ UNCHANGED <<camera, native, primary, mSlaveSurfaces, quit, outside, picture, connection,
                   lock, got, request, history>>

\* handleReleasePrimarySurface: whoever holds the surface holds an old one.
PrimaryReleased ==
    /\ mPrimarySurface' = FALSE
    /\ display' = Aged(display)
    /\ got' = [t \in Starters |-> Aged(got[t])]

ReleasePrimary ==
    /\ pc["gl"] = "recreate"
    /\ Acquire("mLock", "gl")
    /\ PrimaryReleased
    /\ Goto("gl", "create")
    /\ UNCHANGED <<camera, mCurrentSize, running, mVideoSize, mIsFirstFrameRendered,
                   mSlaveSurfaces, looper, outside, picture, connection, request, history>>

CreatePrimary ==
    /\ pc["gl"] = "create"
    /\ mPrimarySurface' = TRUE
    /\ mIsFirstFrameRendered' = FALSE
    /\ pc' = [pc EXCEPT !["gl"] = "callback", !["client"] = Signalled(@)]
    /\ UNCHANGED <<camera, native, mVideoSize, mSlaveSurfaces, looper, outside, picture,
                   connection, lock, got, request, history>>

NotStartedAgain ==                          \* mutant: the callback does nothing
    /\ pc["gl"] = "callback"
    /\ Goto("gl", "created")
    /\ UNCHANGED <<camera, native, primary, mSlaveSurfaces, looper, outside, picture,
                   connection, lock, got, request, history>>

\* onPrimarySurfaceCreate, with mLock held.
OnPrimarySurfaceCreate ==
    /\ pc["gl"] = "callback"
    /\ Goto("gl", IF mIsPreviewing THEN "startPreview" ELSE "created")
    /\ UNCHANGED <<camera, native, primary, mSlaveSurfaces, looper, outside, picture,
                   connection, lock, got, request, history>>

PrimaryCreated ==
    /\ pc["gl"] = "created"
    /\ Released("mLock")
    /\ Goto("gl", "idle")
    /\ UNCHANGED <<camera, native, primary, mSlaveSurfaces, looper, outside, picture,
                   connection, got, request, history>>

UpdateSizeOfNext ==                         \* mutant: reads the message that follows
    /\ Handle("updateSize")
    /\ glQueue' = Tail(glQueue)
    /\ mVideoSize' = Head(Tail(glQueue)).arg
    /\ UNCHANGED <<camera, native, mPrimarySurface, mIsFirstFrameRendered, mSlaveSurfaces,
                   quit, outside, picture, connection, lock, pc, got, request, history>>

HandleUpdateSize ==
    /\ Handle("updateSize")
    /\ mVideoSize' = Head(glQueue).arg
    /\ glQueue' = Tail(glQueue)
    /\ UNCHANGED <<camera, native, mPrimarySurface, mIsFirstFrameRendered, mSlaveSurfaces,
                   quit, outside, picture, connection, lock, pc, got, request, history>>

\* checkSurface notes the indexes of the invalid surfaces of S and then removes
\* at these indexes, lowest first: each removal moves the surfaces behind it, so
\* that the k-th one takes the surface k - 1 places further on.
Position(s, S) == Cardinality({t \in S : t < s})
Taken(s, S) == Position(s, S) + Position(s, S \ valid)
Checked(S) == {t \in S : \A s \in S \ valid : Position(t, S) # Taken(s, S)}
OutOfRange(S) == \E s \in S \ valid : Taken(s, S) >= Cardinality(S)
Muddles(S) == muddled' = (muddled \/ \E s, t \in S \ valid : s # t)

\* checkSurface comes first here; an invalid surface is not added.
HandleAddSlaveSurface ==
    /\ Handle("add")
    /\ ~OutOfRange(mSlaveSurfaces)
    /\ glQueue' = Tail(glQueue)
    /\ mSlaveSurfaces' = Checked(mSlaveSurfaces) \cup ({Head(glQueue).arg} \cap valid)
    /\ Muddles(mSlaveSurfaces)
    /\ NotifyAll
    /\ UNCHANGED <<camera, native, primary, quit, outside, picture, connection, got, ops,
                   added, overtaken, calm, overlap>>

\* And last here.
HandleRemoveSlaveSurface ==
    /\ Handle("remove")
    /\ LET kept == mSlaveSurfaces \ {Head(glQueue).arg}
       IN ~OutOfRange(kept) /\ mSlaveSurfaces' = Checked(kept) /\ Muddles(kept)
    /\ glQueue' = Tail(glQueue)
    /\ NotifyAll
    /\ UNCHANGED <<camera, native, primary, quit, outside, picture, connection, got, ops,
                   added, overtaken, calm, overlap>>

\* The index of a later removal is beyond the last surface; nobody catches the
\* exception, and the process ends.
CheckSurfaceThrows ==
    /\ \/ Handle("add") /\ OutOfRange(mSlaveSurfaces)
       \/ Handle("remove") /\ OutOfRange(mSlaveSurfaces \ {Head(glQueue).arg})
    /\ muddled' = TRUE
    /\ pc' = [t \in Threads |-> "crashed"]
    /\ UNCHANGED <<camera, native, primary, mSlaveSurfaces, looper, outside, picture,
                   connection, lock, got, request, added, overtaken, calm, overlap>>

HandleRemoveSlaveSurfaceAll ==
    /\ Handle("removeAll")
    /\ glQueue' = Tail(glQueue)
    /\ mSlaveSurfaces' = {}
    /\ NotifyAll
    /\ UNCHANGED <<camera, native, primary, quit, outside, picture, connection, got, ops,
                   history>>

QuitAtOnce ==                               \* mutant: quit instead of quitSafely
    /\ Handle("release")
    /\ PrimaryReleased
    /\ mSlaveSurfaces' = {}
    /\ glQueue' = <<>>
    /\ quit' = TRUE
    /\ NotifyAll
    /\ UNCHANGED <<camera, mCurrentSize, running, mVideoSize, mIsFirstFrameRendered, outside,
                   picture, connection, ops, history>>

HandleRelease ==
    /\ Handle("release")
    /\ PrimaryReleased
    /\ mSlaveSurfaces' = {}
    /\ glQueue' = Tail(glQueue)
    /\ quit' = TRUE
    /\ NotifyAll
    /\ UNCHANGED <<camera, mCurrentSize, running, mVideoSize, mIsFirstFrameRendered, outside,
                   picture, connection, ops, history>>

\* captureImage: any exception, the one of a missing capture holder (which is
\* not modelled) or of an executor that was shut down included, is answered.
HandleCapture ==
    /\ Handle("capture")
    /\ glQueue' = Tail(glQueue)
    /\ \/ picture' = [picture EXCEPT ![Head(glQueue).arg] = "saving"]
       \/ picture' = [picture EXCEPT ![Head(glQueue).arg] = "answered"]
    /\ UNCHANGED <<camera, native, primary, mSlaveSurfaces, quit, outside, connection, lock,
                   pc, got, request, history>>

\* onFrameAvailable: the camera writes into the current surface only.
OnFrameAvailable ==
    /\ pc["gl"] = "idle" /\ ~quit
    /\ running /\ display = "current"
    /\ ~mIsFirstFrameRendered
    /\ mIsFirstFrameRendered' = TRUE
    /\ UNCHANGED <<camera, native, mVideoSize, mPrimarySurface, mSlaveSurfaces, looper,
                   outside, picture, connection, lock, pc, got, request, history>>

\* handleDraw: updateTexImage fails, a new primary surface is asked for.
DrawFails ==
    /\ pc["gl"] = "idle" /\ ~quit
    /\ mPrimarySurface /\ mIsFirstFrameRendered
    /\ failures < MaxFailures
    /\ failures' = failures + 1
    /\ Post(<<Message("recreate", NoArg)>>)
    /\ overlap' = (overlap \/ pc["client"] \in StartPlaces)
    /\ UNCHANGED <<camera, native, primary, mSlaveSurfaces, quit, valid, picture, connection,
                   lock, pc, got, request, added, overtaken, muddled, calm>>

\* The looper ends when it was told to quit and has no message left.
LoopEnds ==
    /\ pc["gl"] = "idle"
    /\ quit /\ glQueue = <<>>
    /\ Goto("gl", "ended")
    /\ UNCHANGED <<camera, native, primary, mSlaveSurfaces, looper, outside, picture,
                   connection, lock, got, request, history>>

-----------------------------------------------------------------------------
Start(t) == StartPreview(t) \/ Resize(t) \/ CheckPrimarySurface(t) \/ CheckValid(t)
            \/ RequestSurface(t) \/ Relock(t) \/ ReadSurface(t) \/ SetPreviewDisplay(t)

Application ==
    \/ BeginOpen \/ BeginClose \/ BeginPreview
    \/ \E s \in Surfaces : BeginSurface(s) \/ CleanUp(s) \/ Invalidate(s)
    \/ \E p \in Pictures : BeginPicture(p)
    \/ \E size \in Sizes : SetPreviewSize(size)
    \/ Detach

Client ==
    \/ ResetUVCCamera \/ WaitTimeout \/ OpenUVCCamera \/ CreateCaptures
    \/ CloseCamera("client") \/ DropCaptures("client")
    \/ Start("client") \/ StopPreview
    \/ AddSlaveSurface \/ RemoveSlaveSurface \/ UseCapture \/ PostCapture

Listener == RemoveCamera \/ CloseCamera("listener") \/ DropCaptures("listener")
            \/ ReleaseResource

Messaging ==
    \/ HandleReCreatePrimarySurface \/ HandleUpdateSize \/ HandleAddSlaveSurface
    \/ HandleRemoveSlaveSurface \/ HandleRemoveSlaveSurfaceAll \/ CheckSurfaceThrows
    \/ HandleRelease
    \/ HandleCapture \/ LoopEnds

Gl == Messaging \/ ReleasePrimary \/ CreatePrimary \/ OnPrimarySurfaceCreate
      \/ Start("gl") \/ PrimaryCreated

Next ==
    \/ Application \/ Client \/ Listener \/ Gl
    \/ OnFrameAvailable \/ DrawFails
    \/ \E p \in Pictures : SaveImage(p)

Spec == Init /\ [][Next]_vars

Fairness ==
    /\ WF_vars(Client) /\ WF_vars(Listener) /\ WF_vars(Gl)
    /\ \A p \in Pictures : WF_vars(SaveImage(p))
FairSpec == Spec /\ Fairness
-----------------------------------------------------------------------------
\* Places inside CameraInternal.class where startPreview needs mLock.
LockPlaces == {"resize", "awaitSize", "relockSize", "lockSurface", "awaitSurface",
               "relockSurface"}

\* The GL thread waits for CameraInternal.class, with mLock held.
GlWantsCamera == pc["gl"] = "startPreview"
Embrace == GlWantsCamera /\ pc["client"] \in LockPlaces
\* The GL thread awaits a surface that only the GL thread makes.
SelfWait == pc["gl"] \in LockPlaces
Stuck == Embrace \/ SelfWait

\* A startPreview that begins while the preview is stopped, and not while the
\* GL thread is starting it again, never meets the GL thread: the primary
\* surface it asks for is made without waiting for CameraInternal.class
\* (CameraInternal.java:66, RendererHolder.java:673).
NoDeadlockFromStopped == (calm /\ pc["client"] \in StartPlaces) => ~Stuck

\* A camera that previews writes into the primary surface the renderer draws
\* from, once the GL thread has nothing to recreate: unless another surface
\* was due while the client's startPreview was under way
\* (CameraInternal.java:65: "invoking startPreview method again").
NoStaleSurface ==
    (/\ running /\ ~overlap /\ mRendererHolder /\ Alive
     /\ pc["client"] \notin StartPlaces
     /\ ~Recreating /\ ~RecreateDue) => display = "current"

\* While no request about it is due, the renderer mirrors on a surface just if
\* that is what was asked last, by the application or by the executor, and the
\* surface is still valid.  Excepted are the two ways in which the code loses a
\* request: one decided on mSlaveSurfaces while an earlier one was still due, and
\* one undone by a checkSurface that met two invalid surfaces
\* (RendererHolder.java:225, 246, 616).
SlavesAsAsked ==
    mRendererHolder /\ ~muddled =>
        \A s \in Surfaces \ overtaken :
            ~Due(s) => /\ s \in mSlaveSurfaces => s \in added
                       /\ s \in added \cap valid => s \in mSlaveSurfaces

\* Every operation of the application returns, also one that waits for a GL
\* thread that waits for CameraInternal.class: except for the two deadlocks
\* Stuck names (RendererHolder.java:265, CameraInternal.java:286), and unless
\* the process ends.
OperationsReturn == pc["client"] # "idle" ~> (pc["client"] = "idle" \/ Stuck \/ ~Alive)

\* A picture whose request reached the handler of a renderer that had not quit
\* is answered, also when the camera is closed and its renderer released before
\* the request is executed: quitSafely leaves what is due to be handled
\* (CameraRendererHolder.java:60).
PostedPictureAnswered ==
    \A p \in Pictures : picture[p] = "posted" ~> (picture[p] = "answered" \/ Stuck \/ ~Alive)

\* The callback of takePicture is called for every invocation
\* (ImageCapture.java:130): false, a renderer that has quit drops the request.
PictureAnswered ==
    \A p \in Pictures : picture[p] # "none" ~> (picture[p] = "answered" \/ Stuck \/ ~Alive)
=============================================================================
