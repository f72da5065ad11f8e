----------------------------- MODULE UVCPreview -----------------------------
(***************************************************************************)
(* The preview and capture pipeline of one camera                          *)
(* (libuvccamera/src/main/jni/UVCCamera/UVCPreview.cpp).                   *)
(*                                                                         *)
(* Threads and the variable that holds the point each one has reached:     *)
(*   ctl      the caller of setPreviewDisplay, startPreview, stopPreview   *)
(*            (one at a time: those Java methods are synchronized);        *)
(*   callbackSetter, displaySetter  the callers of setFrameCallback and    *)
(*            setCaptureDisplay (startCapture, stopCapture in Java), which *)
(*            are not synchronized, so they overlap everything else;       *)
(*   cb       libuvc's callback thread, in uvc_preview_frame_callback;     *)
(*   pv       preview_thread, created by startPreview;                     *)
(*   cap[c]   the capture thread that preview thread c created.            *)
(*                                                                         *)
(* A critical section of preview_mutex, capture_mutex or pool_mutex that   *)
(* does not wait is one step, so the mutexes need no variable.  A thread   *)
(* inside pthread_cond_wait is a member of preview_sync or capture_sync    *)
(* and goes on after a signal has taken it out.  mIsRunning, mIsCapturing, *)
(* mCaptureWindow and mFrameCallbackObj are read without a lock in many    *)
(* places: each such read is at a step of its own.                         *)
(*                                                                         *)
(* own[p] is the set of frames that place p holds: the pool, the two       *)
(* queues, and the local variables of the threads.  The contents, size and *)
(* order of frames are left out.                                           *)
(***************************************************************************)
EXTENDS Naturals, Integers, FiniteSets

CONSTANTS
    Frames,        \* the uvc_frame_t objects the heap can supply
    PreviewWindows,\* ANativeWindows for setPreviewDisplay
    CaptureWindows,\* ANativeWindows for setCaptureDisplay
    Callbacks,     \* IFrameCallback objects
    None,          \* the null pointer
    Mjpeg,         \* TRUE iff the negotiated frame type is MJPEG
    MAX_FRAME,     \* capacity of previewFrames (4 in the code)
    MaxSessions,   \* bound: preview threads created in a behaviour
    MaxSets        \* bound: calls of each of the two setters

ASSUME PreviewAssumption ==
    /\ IsFiniteSet(Frames)
    /\ Mjpeg \in BOOLEAN
    /\ MAX_FRAME \in Nat \ {0}
    /\ MaxSessions \in Nat \ {0}
    /\ MaxSets \in Nat
    /\ None \notin PreviewWindows \cup CaptureWindows \cup Callbacks

VARIABLES
    mIsRunning, mIsCapturing,
    mPreviewWindow, mCaptureWindow, mFrameCallbackObj,
    preview_sync, capture_sync,    \* threads asleep in pthread_cond_wait
    capture_thread,                \* handle of the capture thread, 0 if none
    own,                           \* [Places -> SUBSET Frames]
    streaming,                     \* between uvc_start_ and uvc_stop_streaming
    session,                       \* number of preview threads created so far
    ctl, joining,                  \* joining: the handle stopPreview has read
    pv, cb,
    cap, mode, using,              \* using[c]: the object thread c works on
    callbackSetter, newCallback,
    displaySetter, newWindow,
    windowRefs,                    \* references this object holds to each window
    windowRaced,                   \* mCaptureWindow was changed while Clearing
    sets                           \* calls made of each setter

ctlVars == <<ctl, joining>>
capVars == <<cap, mode, using>>
setterVars == <<callbackSetter, newCallback, displaySetter, newWindow, sets>>
windowVars == <<mCaptureWindow, windowRefs, windowRaced>>
streamVars == <<streaming, session, capture_thread>>

vars == <<mIsRunning, mIsCapturing, mPreviewWindow, mFrameCallbackObj,
          preview_sync, capture_sync, pv, cb,
          ctlVars, capVars, setterVars, windowVars, own, streamVars>>

-----------------------------------------------------------------------------
(***************************************************************************)
(* Frames and the places that hold them.                                   *)
(***************************************************************************)
Sessions == 1 .. MaxSessions

FRAME_POOL_SZ == MAX_FRAME + 2

Pool         == <<"mFramePool", 0>>
PreviewQueue == <<"previewFrames", 0>>
CaptureQueue == <<"captureQueu", 0>>
Copy         == <<"copy", 0>>          \* uvc_preview_frame_callback's copy
Frame        == <<"frame", 0>>         \* do_preview's frame or frame_mjpeg
Converted    == <<"converted", 0>>     \* the frame it decodes or converts into
CapFrame(c)  == <<"capFrame", c>>      \* the frame capture thread c delivers
CapConv(c)   == <<"capConverted", c>>  \* do_capture_surface's converted
CapCall(c)   == <<"callbackFrame", c>> \* do_capture_callback's converted frame

Heap         == <<"heap", 0>>          \* frames not allocated

Places == {Heap, Pool, PreviewQueue, CaptureQueue, Copy, Frame, Converted}
            \cup {CapFrame(c) : c \in Sessions}
            \cup {CapConv(c) : c \in Sessions} \cup {CapCall(c) : c \in Sessions}

\* Frames that are allocated but that nobody can reach any more.
Lost(o) == {f \in Frames : \A p \in Places : f \notin o[p]}

\* What get_frame can return: a pooled frame, or a new one if the pool is empty.
get_frame(o) == IF o[Pool] # {} THEN o[Pool] ELSE o[Heap]

\* Place p receives f, which get_frame returned.
Obtain(o, f, p) == [o EXCEPT ![Pool] = @ \ {f}, ![Heap] = @ \ {f}, ![p] = {f}]

Move(o, p, q) == [o EXCEPT ![p] = {}, ![q] = o[p]]

\* A full pool frees the frame.
PoolHasRoom(o) == Cardinality(o[Pool]) < FRAME_POOL_SZ

\* Mutant: the place keeps its pointer to a frame that went to the pool.
RecycleKeepsPointer(o, p) ==
    IF PoolHasRoom(o) THEN [o EXCEPT ![Pool] = @ \cup o[p]]
                      ELSE [o EXCEPT ![p] = {}, ![Heap] = @ \cup o[p]]

recycle_frame(o, p) ==
    IF PoolHasRoom(o) THEN [o EXCEPT ![p] = {}, ![Pool] = @ \cup o[p]]
                      ELSE [o EXCEPT ![p] = {}, ![Heap] = @ \cup o[p]]

\* Recycling every frame of place p: the pool keeps as many as it has room for.
RecycleAll(o, p) ==
    {[o EXCEPT ![p] = {}, ![Pool] = @ \cup kept, ![Heap] = @ \cup (o[p] \ kept)] :
        kept \in {k \in SUBSET o[p] :
                    LET room == FRAME_POOL_SZ - Cardinality(o[Pool])
                    IN  Cardinality(k) = IF Cardinality(o[p]) < room
                                         THEN Cardinality(o[p]) ELSE room}}

-----------------------------------------------------------------------------
(***************************************************************************)
(* Condition variables.                                                    *)
(***************************************************************************)
Preview  == <<"preview", 0>>
Capture(c) == <<"capture", c>>
CallbackSetter == <<"callbackSetter", 0>>
DisplaySetter  == <<"displaySetter", 0>>

CaptureWaiters == {Capture(c) : c \in Sessions} \cup {CallbackSetter, DisplaySetter}

\* The sets of sleepers a pthread_cond_signal can leave.
Signalled(sleepers) ==
    IF sleepers = {} THEN {{}} ELSE {sleepers \ {t} : t \in sleepers}

-----------------------------------------------------------------------------
InitWith(window) ==
    /\ mIsRunning = FALSE /\ mIsCapturing = FALSE
    /\ mPreviewWindow = window
    /\ mCaptureWindow = None /\ mFrameCallbackObj = None
    /\ preview_sync = {} /\ capture_sync = {}
    /\ capture_thread = 0 /\ session = 0 /\ streaming = FALSE
    /\ own = [p \in Places |-> IF p = Heap THEN Frames ELSE {}]
    /\ ctl = "idle" /\ joining = 0 /\ pv = "none" /\ cb = "idle"
    /\ cap = [c \in Sessions |-> "none"]
    /\ mode = [c \in Sessions |-> "idle"]
    /\ using = [c \in Sessions |-> None]
    /\ callbackSetter = "idle" /\ newCallback = None
    /\ displaySetter = "idle" /\ newWindow = None
    /\ windowRefs = [w \in CaptureWindows |-> 0] /\ windowRaced = FALSE
    /\ sets = [callback |-> 0, display |-> 0]

Init == InitWith(None)

-----------------------------------------------------------------------------
(***************************************************************************)
(* The controlling thread: setPreviewDisplay, startPreview, stopPreview.   *)
(***************************************************************************)
CtlUnchanged == UNCHANGED <<mIsCapturing, mFrameCallbackObj, cb, capVars, setterVars, streaming, capture_thread>>

setPreviewDisplay(w) ==
    /\ ctl = "idle"
    /\ mPreviewWindow' = w
    /\ UNCHANGED <<mIsRunning, preview_sync, capture_sync, pv, own, session,
                   ctlVars, windowVars>>
    /\ CtlUnchanged

\* startPreview sets mIsRunning before it takes preview_mutex.
startPreview ==
    /\ ctl = "idle" /\ ~mIsRunning
    /\ session < MaxSessions
    /\ mIsRunning' = TRUE
    /\ ctl' = "starting"
    /\ UNCHANGED <<mPreviewWindow, preview_sync, capture_sync, pv, own, session,
                   joining, windowVars>>
    /\ CtlUnchanged

CreatePreviewThread ==
    /\ ctl = "starting"
    /\ mPreviewWindow # None
    /\ pv' = "prepare"
    /\ session' = session + 1
    /\ ctl' = "idle"
    /\ UNCHANGED <<mIsRunning, mPreviewWindow, preview_sync, capture_sync, own,
                   joining, windowVars>>
    /\ CtlUnchanged

\* No preview window, or pthread_create failed.
StartFails ==
    /\ ctl = "starting"
    /\ mIsRunning' = FALSE
    /\ preview_sync' = {}
    /\ ctl' = "idle"
    /\ UNCHANGED <<mPreviewWindow, capture_sync, pv, own, session, joining, windowVars>>
    /\ CtlUnchanged

stopPreview ==
    /\ ctl = "idle"
    /\ mIsRunning' = FALSE
    /\ ctl' = IF mIsRunning THEN "signalPreview" ELSE "cleanup"
    /\ UNCHANGED <<mPreviewWindow, preview_sync, capture_sync, pv, own, session,
                   joining, windowVars>>
    /\ CtlUnchanged

\* Neither signal is sent under the mutex of its condition variable.
SignalPreview ==
    /\ ctl = "signalPreview"
    /\ preview_sync' = {}
    /\ ctl' = "signalCapture"
    /\ UNCHANGED <<mIsRunning, mPreviewWindow, capture_sync, pv, own, session,
                   joining, windowVars>>
    /\ CtlUnchanged

SignalCapture ==
    /\ ctl = "signalCapture"
    /\ capture_sync' \in Signalled(capture_sync)
    /\ ctl' = "readHandle"
    /\ UNCHANGED <<mIsRunning, mPreviewWindow, preview_sync, pv, own, session,
                   joining, windowVars>>
    /\ CtlUnchanged

\* The handle may be 0, or left over from an earlier preview.
ReadCaptureHandle ==
    /\ ctl = "readHandle"
    /\ joining' = capture_thread
    /\ ctl' = "joinCapture"
    /\ UNCHANGED <<mIsRunning, mPreviewWindow, preview_sync, capture_sync, pv, own,
                   session, windowVars>>
    /\ CtlUnchanged

JoinCapture ==
    /\ ctl = "joinCapture"
    /\ joining # 0 => cap[joining] = "done"
    /\ joining' = 0
    /\ ctl' = "joinPreview"
    /\ UNCHANGED <<mIsRunning, mPreviewWindow, preview_sync, capture_sync, pv, own,
                   session, windowVars>>
    /\ CtlUnchanged

\* Mutant: stopPreview does not wait for the preview thread.
PreviewThreadNotAwaited == TRUE

PreviewThreadEnded == pv = "done"

JoinPreview ==
    /\ ctl = "joinPreview"
    /\ PreviewThreadEnded
    /\ pv' = "none"
    /\ ctl' = "cleanup"
    /\ UNCHANGED <<mIsRunning, mPreviewWindow, preview_sync, capture_sync, own,
                   session, joining, windowVars>>
    /\ CtlUnchanged

ReleaseWindow(refs, w) == IF w = None THEN refs ELSE [refs EXCEPT ![w] = @ - 1]

\* A capture thread has released mCaptureWindow and not yet cleared it.
Clearing == \E c \in Sessions : cap[c] = "clearWindow"

\* The rest of stopPreview: clear both queues, release both windows.
StopCleanup ==
    /\ ctl = "cleanup"
    /\ \E o \in RecycleAll(own, PreviewQueue) : own' = recycle_frame(o, CaptureQueue)
    /\ mPreviewWindow' = None
    /\ windowRefs' = ReleaseWindow(windowRefs, mCaptureWindow)
    /\ windowRaced' = (windowRaced \/ Clearing)
    /\ mCaptureWindow' = None
    /\ ctl' = "idle"
    /\ UNCHANGED <<mIsRunning, preview_sync, capture_sync, pv, session, joining>>
    /\ CtlUnchanged

-----------------------------------------------------------------------------
(***************************************************************************)
(* libuvc's callback thread.                                               *)
(***************************************************************************)
CbUnchanged == UNCHANGED <<mIsRunning, mIsCapturing, mPreviewWindow, mFrameCallbackObj,
                           capture_sync, pv, ctlVars, capVars, setterVars, windowVars,
                           streamVars>>

uvc_preview_frame_callback ==
    /\ cb = "idle" /\ streaming
    /\ mIsRunning
    /\ \E f \in get_frame(own) : own' = Obtain(own, f, Copy)
    /\ cb' = "add"
    /\ UNCHANGED preview_sync
    /\ CbUnchanged

\* uvc_duplicate_frame fails: the new frame goes straight to the pool.
DuplicateFails ==
    /\ cb = "idle" /\ streaming
    /\ mIsRunning
    /\ \E f \in get_frame(own) : own' = recycle_frame(Obtain(own, f, Copy), Copy)
    /\ UNCHANGED <<cb, preview_sync>>
    /\ CbUnchanged

\* Mutant: the bound of the queue is off by one.
QueueHasRoomOffByOne == mIsRunning /\ Cardinality(own[PreviewQueue]) <= MAX_FRAME

QueueHasRoom == mIsRunning /\ Cardinality(own[PreviewQueue]) < MAX_FRAME

addPreviewFrame ==
    /\ cb = "add"
    /\ IF QueueHasRoom
       THEN /\ own' = [own EXCEPT ![PreviewQueue] = @ \cup own[Copy], ![Copy] = {}]
            /\ preview_sync' = {}
       ELSE /\ own' = recycle_frame(own, Copy)
            /\ UNCHANGED preview_sync
    /\ cb' = "idle"
    /\ CbUnchanged

-----------------------------------------------------------------------------
(***************************************************************************)
(* The preview thread: prepare_preview, then do_preview.                   *)
(***************************************************************************)
PvUnchanged == UNCHANGED <<mIsRunning, mIsCapturing, mPreviewWindow, mFrameCallbackObj,
                           cb, session, ctlVars, mode, using, setterVars, windowVars>>

\* Negotiation and uvc_start_streaming succeed, or one of them fails and the
\* thread ends, leaving mIsRunning set.
PreparePreview ==
    /\ pv = "prepare"
    /\ \/ streaming' = TRUE /\ pv' = "clear"
       \/ UNCHANGED streaming /\ pv' = "done"
    /\ UNCHANGED <<preview_sync, capture_sync, cap, own, capture_thread>>
    /\ PvUnchanged

ClearOldFrames ==
    /\ pv = "clear"
    /\ own' \in RecycleAll(own, PreviewQueue)
    /\ pv' = "spawn"
    /\ UNCHANGED <<preview_sync, capture_sync, cap, streaming, capture_thread>>
    /\ PvUnchanged

\* The code does not look at what pthread_create returns; here it succeeds.
CreateCaptureThread ==
    /\ pv = "spawn"
    /\ capture_thread' = session
    /\ cap' = [cap EXCEPT ![session] = "start"]
    /\ pv' = "loop"
    /\ UNCHANGED <<preview_sync, capture_sync, own, streaming>>
    /\ PvUnchanged

PreviewLoop ==
    /\ pv = "loop"
    /\ pv' = IF mIsRunning THEN "wait" ELSE "exit"
    /\ UNCHANGED <<preview_sync, capture_sync, cap, own, streaming, capture_thread>>
    /\ PvUnchanged

\* The end of waitPreviewFrame, with preview_mutex held.
TakePreviewFrame ==
    IF mIsRunning /\ own[PreviewQueue] # {}
    THEN /\ \E f \in own[PreviewQueue] :
                own' = [own EXCEPT ![PreviewQueue] = @ \ {f}, ![Frame] = {f}]
         /\ pv' = IF Mjpeg THEN "decode" ELSE "draw"
    ELSE UNCHANGED own /\ pv' = "loop"

\* Mutant: the preview thread sleeps on the capture thread's condition.
WaitPreviewFrameOnCaptureSync ==
    /\ pv = "wait"
    /\ IF own[PreviewQueue] = {}
       THEN /\ capture_sync' = capture_sync \cup {Preview}
            /\ pv' = "asleep"
            /\ UNCHANGED own
       ELSE TakePreviewFrame /\ UNCHANGED capture_sync
    /\ UNCHANGED <<preview_sync, cap, streaming, capture_thread>>
    /\ PvUnchanged

waitPreviewFrame ==
    /\ pv = "wait"
    /\ IF own[PreviewQueue] = {}
       THEN /\ preview_sync' = {Preview}
            /\ pv' = "asleep"
            /\ UNCHANGED own
       ELSE TakePreviewFrame /\ UNCHANGED preview_sync
    /\ UNCHANGED <<capture_sync, cap, streaming, capture_thread>>
    /\ PvUnchanged

PreviewWoken ==
    /\ pv = "asleep" /\ Preview \notin preview_sync
    /\ TakePreviewFrame
    /\ UNCHANGED <<preview_sync, capture_sync, cap, streaming, capture_thread>>
    /\ PvUnchanged

\* MJPEG: the frame to decode into.  An exhausted heap is fatal to the process
\* here (the result of get_frame is not tested).
Decode ==
    /\ pv = "decode"
    /\ \E f \in get_frame(own) : own' = Obtain(own, f, Converted)
    /\ pv' = "decoded"
    /\ UNCHANGED <<preview_sync, capture_sync, cap, streaming, capture_thread>>
    /\ PvUnchanged

Decoded ==
    /\ pv = "decoded"
    /\ LET o == recycle_frame(own, Frame) IN
        \/ own' = Move(o, Converted, Frame) /\ pv' = "draw"
        \/ own' = recycle_frame(o, Converted) /\ pv' = "loop"      \* broken frame
    /\ UNCHANGED <<preview_sync, capture_sync, cap, streaming, capture_thread>>
    /\ PvUnchanged

\* draw_preview_one up to the conversion ...
draw_preview_one ==
    /\ pv = "draw"
    /\ IF mPreviewWindow = None \/ get_frame(own) = {}
       THEN UNCHANGED own /\ pv' = "offer"
       ELSE /\ \E f \in get_frame(own) : own' = Obtain(own, f, Converted)
            /\ pv' = "drawn"
    /\ UNCHANGED <<preview_sync, capture_sync, cap, streaming, capture_thread>>
    /\ PvUnchanged

\* ... and from there: the converted frame goes back to the pool.
Drawn ==
    /\ pv = "drawn"
    /\ own' = recycle_frame(own, Converted)
    /\ pv' = "offer"
    /\ UNCHANGED <<preview_sync, capture_sync, cap, streaming, capture_thread>>
    /\ PvUnchanged

\* Mutant: the superseded frame is overwritten without being recycled.
SupersedeLeaks(o) == o

\* A waiting frame that the new one replaces.
Supersede(o) == recycle_frame(o, CaptureQueue)

\* Mutant: nobody is woken when a frame arrives.
WakeNobody(sleepers) == sleepers

WakeCapturers(sleepers) == {}

\* When mIsRunning is already false the frame is dropped without being recycled.
addCaptureFrame ==
    /\ pv = "offer"
    /\ IF mIsRunning
       THEN /\ own' = LET o == Supersede(own)
                      IN  [o EXCEPT ![CaptureQueue] = own[Frame], ![Frame] = {}]
            /\ capture_sync' = WakeCapturers(capture_sync)
       ELSE /\ own' = [own EXCEPT ![Frame] = {}]
            /\ UNCHANGED capture_sync
    /\ pv' = "loop"
    /\ UNCHANGED <<preview_sync, cap, streaming, capture_thread>>
    /\ PvUnchanged

PreviewExit ==
    /\ pv = "exit"
    /\ capture_sync' \in Signalled(capture_sync)
    /\ pv' = "stopStreaming"
    /\ UNCHANGED <<preview_sync, cap, own, streaming, capture_thread>>
    /\ PvUnchanged

\* uvc_stop_streaming joins libuvc's callback thread.
StopStreaming ==
    /\ pv = "stopStreaming"
    /\ cb = "idle"
    /\ streaming' = FALSE
    /\ pv' = "done"
    /\ UNCHANGED <<preview_sync, capture_sync, cap, own, capture_thread>>
    /\ PvUnchanged

-----------------------------------------------------------------------------
(***************************************************************************)
(* Capture thread c: do_capture with its two inner loops.  mode[c] tells   *)
(* do_capture_surface from do_capture_idle_loop.                           *)
(***************************************************************************)
CapUnchanged == UNCHANGED <<mIsRunning, mPreviewWindow, mFrameCallbackObj, preview_sync,
                            pv, cb, ctlVars, setterVars, streamVars>>

DoCapture(c) ==
    /\ cap[c] = "start"
    /\ own' = recycle_frame(own, CaptureQueue)
    /\ cap' = [cap EXCEPT ![c] = "check"]
    /\ UNCHANGED <<mIsCapturing, capture_sync, mode, using, windowVars>>
    /\ CapUnchanged

CaptureCheck(c) ==
    /\ cap[c] = "check"
    /\ IF mIsRunning
       THEN mIsCapturing' = TRUE /\ cap' = [cap EXCEPT ![c] = "branch"]
       ELSE UNCHANGED mIsCapturing /\ cap' = [cap EXCEPT ![c] = "done"]
    /\ UNCHANGED <<capture_sync, mode, using, windowVars, own>>
    /\ CapUnchanged

CaptureBranch(c) ==
    /\ cap[c] = "branch"
    /\ mode' = [mode EXCEPT ![c] = IF mCaptureWindow # None THEN "surface" ELSE "idle"]
    /\ cap' = [cap EXCEPT ![c] = "loop"]
    /\ UNCHANGED <<mIsCapturing, capture_sync, using, windowVars, own>>
    /\ CapUnchanged

CaptureLoop(c) ==
    /\ cap[c] = "loop"
    /\ cap' = [cap EXCEPT ![c] =
                  IF mIsRunning /\ mIsCapturing THEN "wait"
                  ELSE IF mode[c] = "surface" THEN "finish" ELSE "announce"]
    /\ UNCHANGED <<mIsCapturing, capture_sync, mode, using, windowVars, own>>
    /\ CapUnchanged

\* The end of waitCaptureFrame, with capture_mutex held.
TakeCaptureFrame(c) ==
    IF mIsRunning /\ own[CaptureQueue] # {}
    THEN /\ own' = Move(own, CaptureQueue, CapFrame(c))
         /\ cap' = [cap EXCEPT ![c] = IF mode[c] = "surface" THEN "convert" ELSE "deliver"]
    ELSE /\ cap' = [cap EXCEPT ![c] = "loop"]
         /\ UNCHANGED own

waitCaptureFrame(c) ==
    /\ cap[c] = "wait"
    /\ IF own[CaptureQueue] = {}
       THEN /\ capture_sync' = capture_sync \cup {Capture(c)}
            /\ cap' = [cap EXCEPT ![c] = "asleep"]
            /\ UNCHANGED own
       ELSE TakeCaptureFrame(c) /\ UNCHANGED capture_sync
    /\ UNCHANGED <<mIsCapturing, mode, using, windowVars>>
    /\ CapUnchanged

CaptureWoken(c) ==
    /\ cap[c] = "asleep" /\ Capture(c) \notin capture_sync
    /\ TakeCaptureFrame(c)
    /\ UNCHANGED <<mIsCapturing, capture_sync, mode, using, windowVars>>
    /\ CapUnchanged

\* do_capture_surface converts into a frame it keeps until its loop ends.
ConvertForSurface(c) ==
    /\ cap[c] = "convert"
    /\ \/ ~mIsCapturing /\ UNCHANGED own /\ cap' = [cap EXCEPT ![c] = "deliver"]
       \/ /\ mIsCapturing
          /\ \/ own[CapConv(c)] # {} /\ UNCHANGED own
             \/ /\ own[CapConv(c)] = {}
                /\ \E f \in get_frame(own) : own' = Obtain(own, f, CapConv(c))
          /\ \E next \in {"blit", "deliver"} : cap' = [cap EXCEPT ![c] = next]
       \/ /\ mIsCapturing /\ own[CapConv(c)] = {} /\ get_frame(own) = {}
          /\ UNCHANGED own
          /\ cap' = [cap EXCEPT ![c] = "deliver"]
    /\ UNCHANGED <<mIsCapturing, capture_sync, mode, using, windowVars>>
    /\ CapUnchanged

\* copyToSurface draws into mCaptureWindow, without capture_mutex.  The code tests
\* it twice and then reads it (848, 625, 627); here that is one read.
BeginBlit(c) ==
    /\ cap[c] = "blit"
    /\ using' = [using EXCEPT ![c] = mCaptureWindow]
    /\ cap' = [cap EXCEPT ![c] = IF mCaptureWindow = None THEN "deliver" ELSE "blitting"]
    /\ UNCHANGED <<mIsCapturing, capture_sync, mode, windowVars, own>>
    /\ CapUnchanged

EndBlit(c) ==
    /\ cap[c] = "blitting"
    /\ using' = [using EXCEPT ![c] = None]
    /\ cap' = [cap EXCEPT ![c] = "deliver"]
    /\ UNCHANGED <<mIsCapturing, capture_sync, mode, windowVars, own>>
    /\ CapUnchanged

\* do_capture_callback up to the conversion into a frame of its own.
do_capture_callback(c) ==
    /\ cap[c] = "deliver"
    /\ LET next(pc) == cap' = [cap EXCEPT ![c] = pc] IN
        \/ /\ mFrameCallbackObj = None \/ get_frame(own) = {}
           /\ own' = recycle_frame(own, CapFrame(c))
           /\ next("loop")
        \/ mFrameCallbackObj # None /\ UNCHANGED own /\ next("call")   \* no conversion
        \/ /\ mFrameCallbackObj # None
           /\ \E f \in get_frame(own) : own' = Obtain(own, f, CapCall(c))
           /\ next("converted")
    /\ UNCHANGED <<mIsCapturing, capture_sync, mode, using, windowVars>>
    /\ CapUnchanged

\* The original frame is recycled whether or not the conversion succeeded.
CallbackConverted(c) ==
    /\ cap[c] = "converted"
    /\ LET o == recycle_frame(own, CapFrame(c)) IN
        \/ own' = Move(o, CapCall(c), CapFrame(c)) /\ cap' = [cap EXCEPT ![c] = "call"]
        \/ own' = recycle_frame(o, CapCall(c)) /\ cap' = [cap EXCEPT ![c] = "loop"]
    /\ UNCHANGED <<mIsCapturing, capture_sync, mode, using, windowVars>>
    /\ CapUnchanged

\* The object is read a second time for the call.
BeginCallback(c) ==
    /\ cap[c] = "call"
    /\ using' = [using EXCEPT ![c] = mFrameCallbackObj]
    /\ cap' = [cap EXCEPT ![c] = "calling"]
    /\ UNCHANGED <<mIsCapturing, capture_sync, mode, windowVars, own>>
    /\ CapUnchanged

EndCallback(c) ==
    /\ cap[c] = "calling"
    /\ using' = [using EXCEPT ![c] = None]
    /\ own' = recycle_frame(own, CapFrame(c))
    /\ cap' = [cap EXCEPT ![c] = "loop"]
    /\ UNCHANGED <<mIsCapturing, capture_sync, mode, windowVars>>
    /\ CapUnchanged

\* The end of do_capture_surface: two unlocked accesses to mCaptureWindow, the
\* release (with the test before it, 860) and, in ClearCaptureWindow, the write.
FinishSurface(c) ==
    /\ cap[c] = "finish"
    /\ own' = recycle_frame(own, CapConv(c))
    /\ windowRefs' = ReleaseWindow(windowRefs, mCaptureWindow)
    /\ windowRaced' = (windowRaced \/ Clearing)
    /\ cap' = [cap EXCEPT ![c] = IF mCaptureWindow = None THEN "announce" ELSE "clearWindow"]
    /\ UNCHANGED <<mIsCapturing, capture_sync, mode, using, mCaptureWindow>>
    /\ CapUnchanged

\* Mutant: the pointer to the released window is kept.
KeepReleasedWindow(c) ==
    /\ cap[c] = "clearWindow"
    /\ cap' = [cap EXCEPT ![c] = "announce"]
    /\ UNCHANGED <<mIsCapturing, capture_sync, mode, using, windowVars, own>>
    /\ CapUnchanged

ClearCaptureWindow(c) ==
    /\ cap[c] = "clearWindow"
    /\ mCaptureWindow' = None
    /\ cap' = [cap EXCEPT ![c] = "announce"]
    /\ UNCHANGED <<mIsCapturing, capture_sync, mode, using, windowRefs, windowRaced, own>>
    /\ CapUnchanged

Announce(c) ==
    /\ cap[c] = "announce"
    /\ capture_sync' = {}
    /\ cap' = [cap EXCEPT ![c] = "check"]
    /\ UNCHANGED <<mIsCapturing, mode, using, windowVars, own>>
    /\ CapUnchanged

CaptureStep(c) ==
    \/ DoCapture(c) \/ CaptureCheck(c) \/ CaptureBranch(c) \/ CaptureLoop(c)
    \/ waitCaptureFrame(c) \/ CaptureWoken(c) \/ ConvertForSurface(c)
    \/ BeginBlit(c) \/ EndBlit(c)
    \/ do_capture_callback(c) \/ CallbackConverted(c) \/ BeginCallback(c) \/ EndCallback(c)
    \/ FinishSurface(c) \/ ClearCaptureWindow(c) \/ Announce(c)

-----------------------------------------------------------------------------
(***************************************************************************)
(* setFrameCallback and setCaptureDisplay.  Both clear mIsCapturing and    *)
(* wait once on capture_sync for the capture thread to leave its loop.     *)
(***************************************************************************)
SetterUnchanged == UNCHANGED <<mIsRunning, mPreviewWindow, preview_sync, pv, cb,
                               ctlVars, capVars, own, streamVars>>

\* pthread_cond_signal, then pthread_cond_wait by t.
SignalAndSleep(t) == \E rest \in Signalled(capture_sync) : capture_sync' = rest \cup {t}

setFrameCallback(obj) ==
    /\ callbackSetter = "idle" /\ sets.callback < MaxSets
    /\ sets' = [sets EXCEPT !.callback = @ + 1]
    /\ mIsCapturing' = (mIsCapturing /\ ~mIsRunning)
    /\ IF mIsRunning /\ mIsCapturing /\ mFrameCallbackObj # None
       THEN /\ newCallback' = obj
            /\ callbackSetter' = "asleep"
            /\ SignalAndSleep(CallbackSetter)
            /\ UNCHANGED mFrameCallbackObj
       ELSE /\ mFrameCallbackObj' = obj
            /\ UNCHANGED <<newCallback, callbackSetter, capture_sync>>
    /\ UNCHANGED <<displaySetter, newWindow, windowVars>>
    /\ SetterUnchanged

CallbackSetterWoken ==
    /\ callbackSetter = "asleep" /\ CallbackSetter \notin capture_sync
    /\ mFrameCallbackObj' = newCallback
    /\ newCallback' = None
    /\ callbackSetter' = "idle"
    /\ UNCHANGED <<mIsCapturing, capture_sync, displaySetter, newWindow, sets, windowVars>>
    /\ SetterUnchanged

\* Releases the window in use and stores w in its place.
InstallWindow(refs, w) ==
    /\ mCaptureWindow' = w
    /\ windowRefs' = IF w = mCaptureWindow THEN refs
                                           ELSE ReleaseWindow(refs, mCaptureWindow)
    /\ windowRaced' = (windowRaced \/ Clearing)

\* The caller acquired w (ANativeWindow_fromSurface).
setCaptureDisplay(w) ==
    LET acquired == IF w = None THEN windowRefs ELSE [windowRefs EXCEPT ![w] = @ + 1] IN
    /\ displaySetter = "idle" /\ sets.display < MaxSets
    /\ sets' = [sets EXCEPT !.display = @ + 1]
    /\ mIsCapturing' = (mIsCapturing /\ ~mIsRunning)
    /\ IF mIsRunning /\ mIsCapturing /\ mCaptureWindow # None
       THEN /\ newWindow' = w
            /\ displaySetter' = "asleep"
            /\ SignalAndSleep(DisplaySetter)
            /\ windowRefs' = acquired
            /\ UNCHANGED <<mCaptureWindow, windowRaced>>
       ELSE /\ InstallWindow(acquired, w)
            /\ UNCHANGED <<newWindow, displaySetter, capture_sync>>
    /\ UNCHANGED <<mFrameCallbackObj, callbackSetter, newCallback>>
    /\ SetterUnchanged

DisplaySetterWoken ==
    /\ displaySetter = "asleep" /\ DisplaySetter \notin capture_sync
    /\ InstallWindow(windowRefs, newWindow)
    /\ newWindow' = None
    /\ displaySetter' = "idle"
    /\ UNCHANGED <<mIsCapturing, capture_sync, mFrameCallbackObj, callbackSetter,
                   newCallback, sets>>
    /\ SetterUnchanged

-----------------------------------------------------------------------------
CtlStep ==
    \/ CreatePreviewThread \/ StartFails
    \/ SignalPreview \/ SignalCapture \/ ReadCaptureHandle \/ JoinCapture \/ JoinPreview
    \/ StopCleanup

PreviewStep ==
    \/ PreparePreview \/ ClearOldFrames \/ CreateCaptureThread
    \/ PreviewLoop \/ waitPreviewFrame \/ PreviewWoken
    \/ Decode \/ Decoded \/ draw_preview_one \/ Drawn \/ addCaptureFrame
    \/ PreviewExit \/ StopStreaming

\* Calls from outside: nothing obliges a client to make them.
ControlCall ==
    \/ \E w \in PreviewWindows \cup {None} : setPreviewDisplay(w)
    \/ startPreview \/ stopPreview

SetterCall ==
    \/ \E obj \in Callbacks \cup {None} : setFrameCallback(obj)
    \/ \E w \in CaptureWindows \cup {None} : setCaptureDisplay(w)

ThreadStep ==
    \/ CtlStep
    \/ uvc_preview_frame_callback \/ DuplicateFails \/ addPreviewFrame
    \/ PreviewStep
    \/ \E c \in Sessions : CaptureStep(c)
    \/ CallbackSetterWoken \/ DisplaySetterWoken

Next == ControlCall \/ SetterCall \/ ThreadStep

Spec == Init /\ [][Next]_vars

\* Every thread that can run does, onFrame and the window functions return, and
\* the camera goes on sending frames.
Fairness ==
    /\ WF_vars(CtlStep)
    /\ WF_vars(uvc_preview_frame_callback) /\ WF_vars(addPreviewFrame)
    /\ WF_vars(PreviewStep)
    /\ \A c \in Sessions : WF_vars(CaptureStep(c))
    /\ WF_vars(CallbackSetterWoken) /\ WF_vars(DisplaySetterWoken)

FairSpec == Spec /\ Fairness

-----------------------------------------------------------------------------
(***************************************************************************)
(* Properties.                                                             *)
(***************************************************************************)
CtlStates == {"idle", "starting", "signalPreview", "signalCapture", "readHandle",
              "joinCapture", "joinPreview", "cleanup"}
PvStates == {"none", "prepare", "clear", "spawn", "loop", "wait", "asleep", "decode",
             "decoded", "draw", "drawn", "offer", "exit", "stopStreaming", "done"}
CapStates == {"none", "start", "check", "branch", "loop", "wait", "asleep", "convert",
              "blit", "blitting", "deliver", "converted", "call", "calling", "finish",
              "clearWindow", "announce", "done"}

\* Every variable keeps its type.
TypeOK ==
    /\ mIsRunning \in BOOLEAN /\ mIsCapturing \in BOOLEAN
    /\ mPreviewWindow \in PreviewWindows \cup {None}
    /\ mCaptureWindow \in CaptureWindows \cup {None}
    /\ mFrameCallbackObj \in Callbacks \cup {None}
    /\ preview_sync \subseteq {Preview}
    /\ capture_sync \subseteq CaptureWaiters
    /\ session \in 0 .. MaxSessions
    /\ capture_thread \in 0 .. MaxSessions /\ joining \in 0 .. MaxSessions
    /\ own \in [Places -> SUBSET Frames]
    /\ streaming \in BOOLEAN
    /\ ctl \in CtlStates /\ pv \in PvStates /\ cb \in {"idle", "add"}
    /\ cap \in [Sessions -> CapStates]
    /\ mode \in [Sessions -> {"idle", "surface"}]
    /\ using \in [Sessions -> Callbacks \cup CaptureWindows \cup {None}]
    /\ callbackSetter \in {"idle", "asleep"} /\ displaySetter \in {"idle", "asleep"}
    /\ newCallback \in Callbacks \cup {None}
    /\ newWindow \in CaptureWindows \cup {None}
    /\ windowRefs \in [CaptureWindows -> Int] /\ windowRaced \in BOOLEAN
    /\ sets \in [callback : 0 .. MaxSets, display : 0 .. MaxSets]

\* No frame is in two places at once: the pool never hands out a frame that a
\* thread still reads, and no frame is recycled twice.
Disjoint(o) == \A p, q \in Places : p # q => o[p] \cap o[q] = {}

FrameOwnership == Disjoint(own)

\* previewFrames never grows beyond MAX_FRAME, the pool never beyond
\* FRAME_POOL_SZ, and captureQueu keeps one frame only.
QueueBounds ==
    /\ Cardinality(own[PreviewQueue]) <= MAX_FRAME
    /\ Cardinality(own[Pool]) <= FRAME_POOL_SZ
    /\ Cardinality(own[CaptureQueue]) <= 1

\* Frames are lost only in addCaptureFrame when stopPreview overtakes the
\* preview thread, and so at most one for each time the preview was started.
BoundedLoss == Cardinality(Lost(own)) <= session

\* While nobody runs or changes the preview and it is stopped, its preview
\* thread has ended, no libuvc callback runs and no frame is queued.
QuietWhenStopped ==
    ctl = "idle" /\ ~mIsRunning =>
        /\ pv = "none" /\ ~streaming /\ cb = "idle"
        /\ own[PreviewQueue] = {} /\ own[CaptureQueue] = {}

\* The pipeline needs no more frames than the queue, the threads and the heap
\* of the instance hold: get_frame, whose result do_preview does not test, can
\* always supply the frame that an MJPEG frame is decoded into.
DecodeFrameAvailable == pv = "decode" => get_frame(own) # {}

\* Unless a window was changed between the moment a capture thread released it
\* and the moment it forgot it (860), there is a reference to each capture window
\* for each place that will use or release it: mCaptureWindow and the window
\* with which setCaptureDisplay waits.
Uses(w) == (IF mCaptureWindow = w /\ ~Clearing THEN 1 ELSE 0)
           + (IF newWindow = w THEN 1 ELSE 0)

WindowsReferenced == ~windowRaced => \A w \in CaptureWindows : windowRefs[w] >= Uses(w)

\* "wait finishing capturing": when the wait of setFrameCallback or of
\* setCaptureDisplay returns, no capture thread is inside a call of the callback
\* object or drawing into the window, which are then released.
WaitFinishesCapturing ==
    [][/\ CallbackSetterWoken => \A c \in Sessions : cap[c] # "calling"
       /\ DisplaySetterWoken => \A c \in Sessions : cap[c] # "blitting"]_vars

\* While the camera streams and sends frames, a setFrameCallback or
\* setCaptureDisplay that waits for the capture thread returns.
SettersReturn ==
    /\ callbackSetter = "asleep" ~> (callbackSetter = "idle" \/ ~streaming)
    /\ displaySetter = "asleep" ~> (displaySetter = "idle" \/ ~streaming)

\* stopPreview returns.
StopReturns == ctl = "signalPreview" ~> ctl = "idle"
=============================================================================
