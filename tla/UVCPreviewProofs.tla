-------------------------- MODULE UVCPreviewProofs --------------------------
(***************************************************************************)
(* Theorems about UVCPreview, for every number of frames, windows,         *)
(* callbacks, sessions and setter calls.                                   *)
(***************************************************************************)
EXTENDS UVCPreview, FiniteSetTheorems, TLAPS

-----------------------------------------------------------------------------
(***************************************************************************)
(* The places are distinct, and the operations on frames keep them apart.  *)
(***************************************************************************)
Ownership == [Places -> SUBSET Frames]

\* Every place but the pool and the heap.
Local == Places \ {Pool, Heap}

LEMMA PlacesAreDistinct ==
    /\ Pool \in Places /\ Heap \in Places /\ Pool # Heap
    /\ {PreviewQueue, CaptureQueue, Copy, Frame, Converted} \subseteq Local
    /\ \A c \in Sessions : {CapFrame(c), CapConv(c), CapCall(c)} \subseteq Local
    /\ PreviewQueue # Copy /\ PreviewQueue # Frame
    /\ CaptureQueue # Frame /\ CaptureQueue # PreviewQueue /\ Converted # Frame
    /\ \A c \in Sessions : CapFrame(c) # CaptureQueue /\ CapFrame(c) # CapCall(c)
BY DEF Local, Places, Pool, Heap, PreviewQueue, CaptureQueue, Copy, Frame, Converted,
       CapFrame, CapConv, CapCall

LEMMA ObtainKeepsDisjoint ==
    ASSUME NEW o \in Ownership, Disjoint(o), NEW f \in get_frame(o), NEW p \in Local
    PROVE  Obtain(o, f, p) \in Ownership /\ Disjoint(Obtain(o, f, p))
<1> DEFINE n == Obtain(o, f, p)
<1>1. f \in Frames
  BY PlacesAreDistinct DEF get_frame, Ownership
<1>2. n \in Ownership
  BY <1>1, PlacesAreDistinct DEF Obtain, Ownership, Local
<1>3. \A q \in Places : f \in o[q] => q \in {Pool, Heap}
  BY PlacesAreDistinct DEF get_frame, Disjoint, Local
<1>4. Disjoint(n)
  BY <1>3, PlacesAreDistinct DEF Obtain, Ownership, Disjoint, Local
<1>5. QED BY <1>2, <1>4

LEMMA MoveKeepsDisjoint ==
    ASSUME NEW o \in Ownership, Disjoint(o), NEW p \in Local, NEW q \in Local, p # q
    PROVE  Move(o, p, q) \in Ownership /\ Disjoint(Move(o, p, q))
BY DEF Move, Ownership, Disjoint, Local

LEMMA RecycleKeepsDisjoint ==
    ASSUME NEW o \in Ownership, Disjoint(o), NEW p \in Local
    PROVE  recycle_frame(o, p) \in Ownership /\ Disjoint(recycle_frame(o, p))
BY PlacesAreDistinct DEF recycle_frame, Ownership, Disjoint, Local

LEMMA RecycleAllKeepsDisjoint ==
    ASSUME NEW o \in Ownership, Disjoint(o), NEW p \in Local, NEW n \in RecycleAll(o, p)
    PROVE  n \in Ownership /\ Disjoint(n)
<1>1. PICK kept \in SUBSET o[p] :
        n = [o EXCEPT ![p] = {}, ![Pool] = @ \cup kept, ![Heap] = @ \cup (o[p] \ kept)]
  BY DEF RecycleAll
<1>2. QED
  BY <1>1, PlacesAreDistinct DEF Ownership, Disjoint, Local

-----------------------------------------------------------------------------
(***************************************************************************)
(* Frame ownership: every step moves frames by the operations above.       *)
(***************************************************************************)
OwnInv == own \in Ownership /\ FrameOwnership

LEMMA TakePreviewFrameKeepsOwnInv ==
    ASSUME OwnInv, TakePreviewFrame
    PROVE  OwnInv'
<1>1. CASE UNCHANGED own
  BY <1>1 DEF OwnInv, FrameOwnership
<1>2. CASE \E f \in own[PreviewQueue] :
             own' = [own EXCEPT ![PreviewQueue] = @ \ {f}, ![Frame] = {f}]
  BY <1>2, PlacesAreDistinct DEF OwnInv, FrameOwnership, Disjoint, Ownership, Local
<1>3. QED BY <1>1, <1>2 DEF TakePreviewFrame

LEMMA CtlKeepsOwnInv ==
    ASSUME OwnInv, ControlCall \/ CtlStep
    PROVE  OwnInv'
<1>1. CASE StopCleanup
  <2>1. PICK o \in RecycleAll(own, PreviewQueue) : own' = recycle_frame(o, CaptureQueue)
    BY <1>1 DEF StopCleanup
  <2>2. o \in Ownership /\ Disjoint(o)
    BY RecycleAllKeepsDisjoint, PlacesAreDistinct DEF OwnInv, FrameOwnership
  <2>3. QED
    BY <2>1, <2>2, RecycleKeepsDisjoint, PlacesAreDistinct DEF OwnInv, FrameOwnership
<1>2. CASE UNCHANGED own
  BY <1>2 DEF OwnInv, FrameOwnership
<1>3. QED
  BY <1>1, <1>2 DEF ControlCall, CtlStep, setPreviewDisplay, startPreview, stopPreview,
     CreatePreviewThread, StartFails, SignalPreview, SignalCapture, ReadCaptureHandle,
     JoinCapture, JoinPreview

LEMMA CbKeepsOwnInv ==
    ASSUME OwnInv, uvc_preview_frame_callback \/ DuplicateFails \/ addPreviewFrame
    PROVE  OwnInv'
<1>1. CASE uvc_preview_frame_callback
  BY <1>1, ObtainKeepsDisjoint, PlacesAreDistinct
     DEF uvc_preview_frame_callback, OwnInv, FrameOwnership
<1>2. CASE DuplicateFails
  <2>1. PICK f \in get_frame(own) : own' = recycle_frame(Obtain(own, f, Copy), Copy)
    BY <1>2 DEF DuplicateFails
  <2>2. Obtain(own, f, Copy) \in Ownership /\ Disjoint(Obtain(own, f, Copy))
    BY ObtainKeepsDisjoint, PlacesAreDistinct DEF OwnInv, FrameOwnership
  <2>3. QED
    BY <2>1, <2>2, RecycleKeepsDisjoint, PlacesAreDistinct DEF OwnInv, FrameOwnership
<1>3. CASE addPreviewFrame
  <2>1. CASE own' = [own EXCEPT ![PreviewQueue] = @ \cup own[Copy], ![Copy] = {}]
    BY <2>1, PlacesAreDistinct DEF OwnInv, FrameOwnership, Disjoint, Ownership, Local
  <2>2. CASE own' = recycle_frame(own, Copy)
    BY <2>2, RecycleKeepsDisjoint, PlacesAreDistinct DEF OwnInv, FrameOwnership
  <2>3. QED BY <1>3, <2>1, <2>2 DEF addPreviewFrame
<1>4. QED BY <1>1, <1>2, <1>3

LEMMA PreviewKeepsOwnInv ==
    ASSUME OwnInv, PreviewStep
    PROVE  OwnInv'
<1> USE DEF OwnInv, FrameOwnership
<1>1. CASE UNCHANGED own
  BY <1>1
<1>2. CASE ClearOldFrames
  BY <1>2, RecycleAllKeepsDisjoint, PlacesAreDistinct DEF ClearOldFrames
<1>3. CASE waitPreviewFrame
  BY <1>1, <1>3, TakePreviewFrameKeepsOwnInv DEF waitPreviewFrame
<1>4. CASE PreviewWoken
  BY <1>4, TakePreviewFrameKeepsOwnInv DEF PreviewWoken
<1>5. CASE Decode
  BY <1>5, ObtainKeepsDisjoint, PlacesAreDistinct DEF Decode
<1>6. CASE Decoded
  <2> DEFINE o == recycle_frame(own, Frame)
  <2>1. o \in Ownership /\ Disjoint(o)
    BY RecycleKeepsDisjoint, PlacesAreDistinct
  <2>2. own' \in {Move(o, Converted, Frame), recycle_frame(o, Converted)}
    BY <1>6 DEF Decoded
  <2> HIDE DEF o
  <2>3. QED
    BY <2>1, <2>2, MoveKeepsDisjoint, RecycleKeepsDisjoint, PlacesAreDistinct
<1>7. CASE draw_preview_one
  BY <1>7, ObtainKeepsDisjoint, PlacesAreDistinct DEF draw_preview_one
<1>8. CASE Drawn
  BY <1>8, RecycleKeepsDisjoint, PlacesAreDistinct DEF Drawn
<1>9. CASE addCaptureFrame
  <2> DEFINE o == recycle_frame(own, CaptureQueue)
  <2>1. o \in Ownership /\ Disjoint(o)
    BY RecycleKeepsDisjoint, PlacesAreDistinct
  <2>2. CASE mIsRunning
    <3>1. own' = [o EXCEPT ![CaptureQueue] = own[Frame], ![Frame] = {}]
      BY <1>9, <2>2 DEF addCaptureFrame, Supersede
    <3>2. o[Frame] = own[Frame]
      BY PlacesAreDistinct DEF recycle_frame, Ownership, Local
    <3> HIDE DEF o
    <3>3. QED
      BY <2>1, <3>1, <3>2, PlacesAreDistinct DEF Disjoint, Ownership, Local
  <2>3. CASE ~mIsRunning
    BY <1>9, <2>3, PlacesAreDistinct DEF addCaptureFrame, Disjoint, Ownership, Local
  <2>4. QED BY <2>2, <2>3
<1>10. QED
  BY <1>1, <1>2, <1>3, <1>4, <1>5, <1>6, <1>7, <1>8, <1>9
     DEF PreviewStep, PreparePreview, CreateCaptureThread, PreviewLoop, PreviewExit,
         StopStreaming

LEMMA CaptureKeepsOwnInv ==
    ASSUME OwnInv, NEW c \in Sessions, CaptureStep(c)
    PROVE  OwnInv'
<1> USE DEF OwnInv, FrameOwnership
<1> DEFINE recycled == recycle_frame(own, CapFrame(c))
<1>0. recycled \in Ownership /\ Disjoint(recycled)
  BY RecycleKeepsDisjoint, PlacesAreDistinct
<1>1. CASE UNCHANGED own
  BY <1>1
<1>2. CASE DoCapture(c)
  BY <1>2, RecycleKeepsDisjoint, PlacesAreDistinct DEF DoCapture
<1>3. CASE TakeCaptureFrame(c)
  BY <1>1, <1>3, MoveKeepsDisjoint, PlacesAreDistinct DEF TakeCaptureFrame
<1>4. CASE ConvertForSurface(c)
  <2>1. UNCHANGED own \/ \E f \in get_frame(own) : own' = Obtain(own, f, CapConv(c))
    BY <1>4 DEF ConvertForSurface
  <2>2. QED BY <2>1, ObtainKeepsDisjoint, PlacesAreDistinct
<1>5. CASE do_capture_callback(c)
  <2>1. \/ UNCHANGED own
        \/ own' = recycled
        \/ \E f \in get_frame(own) : own' = Obtain(own, f, CapCall(c))
    BY <1>5 DEF do_capture_callback
  <2>2. QED BY <2>1, <1>0, ObtainKeepsDisjoint, PlacesAreDistinct
<1>6. CASE CallbackConverted(c)
  <2>1. own' \in {Move(recycled, CapCall(c), CapFrame(c)), recycle_frame(recycled, CapCall(c))}
    BY <1>6 DEF CallbackConverted
  <2> HIDE DEF recycled
  <2>2. QED
    BY <1>0, <2>1, MoveKeepsDisjoint, RecycleKeepsDisjoint, PlacesAreDistinct
<1>7. CASE EndCallback(c)
  BY <1>0, <1>7 DEF EndCallback
<1>8. CASE FinishSurface(c)
  BY <1>8, RecycleKeepsDisjoint, PlacesAreDistinct DEF FinishSurface
<1>9. QED
  BY <1>1, <1>2, <1>3, <1>4, <1>5, <1>6, <1>7, <1>8
     DEF CaptureStep, CaptureCheck, CaptureBranch, CaptureLoop, waitCaptureFrame,
         CaptureWoken, BeginBlit, EndBlit, BeginCallback, ClearCaptureWindow, Announce

LEMMA OwnStep ==
    ASSUME OwnInv, [Next]_vars
    PROVE  OwnInv'
<1>1. CASE UNCHANGED own
  BY <1>1 DEF OwnInv, FrameOwnership
<1>2. CASE SetterCall \/ CallbackSetterWoken \/ DisplaySetterWoken
  BY <1>1, <1>2 DEF SetterCall, setFrameCallback, setCaptureDisplay, CallbackSetterWoken,
     DisplaySetterWoken, SetterUnchanged
<1>3. QED
  BY <1>1, <1>2, CtlKeepsOwnInv, CbKeepsOwnInv, PreviewKeepsOwnInv, CaptureKeepsOwnInv
     DEF Next, ThreadStep, vars

LEMMA InitiallyOwn ==
    ASSUME Init
    PROVE  OwnInv
BY DEF Init, InitWith, OwnInv, Ownership, FrameOwnership, Disjoint

\* No frame is ever in two places: get_frame never hands out a frame that is
\* queued or in use, and no path recycles a frame twice.
THEOREM FramesHaveOneOwner == Spec => []FrameOwnership
<1>1. Init => OwnInv
  BY InitiallyOwn
<1>2. OwnInv /\ [Next]_vars => OwnInv'
  BY OwnStep
<1>3. OwnInv => FrameOwnership
  BY DEF OwnInv
<1>4. QED BY <1>1, <1>2, <1>3, PTL DEF Spec

-----------------------------------------------------------------------------
(***************************************************************************)
(* Type correctness.  The type of own comes from the theorem above; the    *)
(* bound of session needs that startPreview has tested it.                 *)
(***************************************************************************)
\* TypeOK without own, and the bound of session.
TypeRest ==
    /\ mIsRunning \in BOOLEAN /\ mIsCapturing \in BOOLEAN
    /\ mPreviewWindow \in PreviewWindows \cup {None}
    /\ mCaptureWindow \in CaptureWindows \cup {None}
    /\ mFrameCallbackObj \in Callbacks \cup {None}
    /\ preview_sync \subseteq {Preview}
    /\ capture_sync \subseteq CaptureWaiters
    /\ session \in 0 .. MaxSessions
    /\ capture_thread \in 0 .. MaxSessions /\ joining \in 0 .. MaxSessions
    /\ streaming \in BOOLEAN
    /\ ctl \in CtlStates /\ pv \in PvStates /\ cb \in {"idle", "add"}
    /\ cap \in [Sessions -> CapStates]
    /\ mode \in [Sessions -> {"idle", "surface"}]
    /\ using \in [Sessions -> Callbacks \cup CaptureWindows \cup {None}]
    /\ callbackSetter \in {"idle", "asleep"} /\ displaySetter \in {"idle", "asleep"}
    /\ newCallback \in Callbacks \cup {None}
    /\ newWindow \in CaptureWindows \cup {None}
    /\ windowRefs \in [CaptureWindows -> Int] /\ windowRaced \in BOOLEAN
    /\ sets \in [callback : 0 .. MaxSets, display : 0 .. MaxSets]
    /\ ctl = "starting" => session < MaxSessions

LEMMA ReleaseWindowType ==
    ASSUME NEW refs \in [CaptureWindows -> Int], NEW w \in CaptureWindows \cup {None}
    PROVE  ReleaseWindow(refs, w) \in [CaptureWindows -> Int]
BY DEF ReleaseWindow

LEMMA CtlKeepsType ==
    ASSUME TypeRest, ControlCall \/ CtlStep
    PROVE  TypeRest'
<1> USE PreviewAssumption DEF TypeRest, CtlUnchanged, ctlVars, capVars, setterVars, windowVars
<1>1. CASE \E w \in PreviewWindows \cup {None} : setPreviewDisplay(w)
  BY <1>1 DEF setPreviewDisplay
<1>2a. CASE startPreview
  BY <1>2a DEF startPreview, CtlStates
<1>2b. CASE stopPreview
  <2>1. ctl' \in CtlStates /\ ctl' # "starting"
    BY <1>2b DEF stopPreview, CtlStates
  <2>2. mIsRunning' \in BOOLEAN
    BY <1>2b DEF stopPreview
  <2>3. UNCHANGED <<mPreviewWindow, preview_sync, capture_sync, pv, session, joining,
                    windowVars>> /\ CtlUnchanged
    BY <1>2b DEF stopPreview
  <2>4. QED BY <2>1, <2>2, <2>3
<1>2c. CASE StartFails
  <2>1. ctl' \in CtlStates /\ ctl' # "starting"
    BY <1>2c DEF StartFails, CtlStates
  <2>2. mIsRunning' \in BOOLEAN /\ preview_sync' \subseteq {Preview}
    BY <1>2c DEF StartFails
  <2>3. UNCHANGED <<mPreviewWindow, capture_sync, pv, session, joining, windowVars>>
        /\ CtlUnchanged
    BY <1>2c DEF StartFails
  <2>4. QED BY <2>1, <2>2, <2>3
<1>3. CASE CreatePreviewThread
  BY <1>3 DEF CreatePreviewThread, CtlStates, PvStates
<1>4. CASE SignalPreview \/ ReadCaptureHandle \/ JoinCapture \/ JoinPreview
  BY <1>4 DEF SignalPreview, ReadCaptureHandle, JoinCapture, JoinPreview,
     CtlStates, PvStates
<1>5. CASE SignalCapture
  BY <1>5 DEF SignalCapture, Signalled, CtlStates
<1>6. CASE StopCleanup
  BY <1>6, ReleaseWindowType DEF StopCleanup, CtlStates
<1>7. QED
  BY <1>1, <1>2a, <1>2b, <1>2c, <1>3, <1>4, <1>5, <1>6 DEF ControlCall, CtlStep

LEMMA CbAndPreviewKeepType ==
    ASSUME TypeRest,
           uvc_preview_frame_callback \/ DuplicateFails \/ addPreviewFrame \/ PreviewStep
    PROVE  TypeRest'
<1> USE PreviewAssumption DEF TypeRest, CbUnchanged, PvUnchanged, ctlVars, capVars, setterVars, windowVars, streamVars
<1>1. CASE uvc_preview_frame_callback \/ DuplicateFails \/ addPreviewFrame
  BY <1>1 DEF uvc_preview_frame_callback, DuplicateFails, addPreviewFrame
<1>2b. CASE PreparePreview
  <2>1. streaming' \in BOOLEAN
    BY <1>2b DEF PreparePreview
  <2>2. pv' \in PvStates
    BY <1>2b DEF PreparePreview, PvStates
  <2>3. UNCHANGED <<preview_sync, capture_sync, cap, capture_thread>> /\ PvUnchanged
    BY <1>2b DEF PreparePreview
  <2>4. QED BY <2>1, <2>2, <2>3
<1>2c. CASE ClearOldFrames
  BY <1>2c DEF ClearOldFrames, PvStates
<1>2d. CASE PreviewLoop
  BY <1>2d DEF PreviewLoop, PvStates
<1>2a. CASE CreateCaptureThread
  <2>1. cap' \in [Sessions -> CapStates] /\ pv' \in PvStates
    BY <1>2a DEF CreateCaptureThread, CapStates, PvStates
  <2>2. QED BY <1>2a, <2>1 DEF CreateCaptureThread
<1>3. CASE waitPreviewFrame \/ PreviewWoken
  BY <1>3 DEF waitPreviewFrame, PreviewWoken, TakePreviewFrame, PvStates
<1>4. CASE Decode \/ Decoded \/ draw_preview_one \/ Drawn
  BY <1>4 DEF Decode, Decoded, draw_preview_one, Drawn, PvStates
<1>5. CASE addCaptureFrame
  BY <1>5 DEF addCaptureFrame, WakeCapturers, PvStates
<1>6. CASE PreviewExit
  BY <1>6 DEF PreviewExit, Signalled, PvStates
<1>6a. CASE StopStreaming
  <2>1. streaming' \in BOOLEAN /\ pv' \in PvStates
    BY <1>6a DEF StopStreaming, PvStates
  <2>2. UNCHANGED <<preview_sync, capture_sync, cap, capture_thread>> /\ PvUnchanged
    BY <1>6a DEF StopStreaming
  <2>3. QED BY <2>1, <2>2
<1>7. QED
  BY <1>1, <1>2a, <1>2b, <1>2c, <1>2d, <1>3, <1>4, <1>5, <1>6, <1>6a DEF PreviewStep

LEMMA CaptureKeepsType ==
    ASSUME TypeRest, NEW c \in Sessions, CaptureStep(c)
    PROVE  TypeRest'
<1> USE PreviewAssumption DEF TypeRest, CapUnchanged, ctlVars, setterVars,
        windowVars, streamVars
<1>1. CASE DoCapture(c) \/ CaptureBranch(c)
  BY <1>1 DEF DoCapture, CaptureBranch, CapStates
<1>1a. CASE CaptureCheck(c)
  <2>1. mIsCapturing' \in BOOLEAN
    BY <1>1a DEF CaptureCheck
  <2>2. cap' \in [Sessions -> CapStates]
    BY <1>1a DEF CaptureCheck, CapStates
  <2>3. QED BY <1>1a, <2>1, <2>2 DEF CaptureCheck
<1>1b. CASE CaptureLoop(c)
  BY <1>1b DEF CaptureLoop, CapStates
<1>2. CASE waitCaptureFrame(c) \/ CaptureWoken(c)
  BY <1>2 DEF waitCaptureFrame, CaptureWoken, TakeCaptureFrame, CaptureWaiters,
     CapStates
<1>3. CASE ConvertForSurface(c) \/ do_capture_callback(c) \/ CallbackConverted(c)
  BY <1>3 DEF ConvertForSurface, do_capture_callback, CallbackConverted,
     CapStates
<1>4. CASE BeginBlit(c) \/ EndBlit(c) \/ BeginCallback(c) \/ EndCallback(c)
  BY <1>4 DEF BeginBlit, EndBlit, BeginCallback, EndCallback, CapStates
<1>5. CASE FinishSurface(c)
  BY <1>5, ReleaseWindowType DEF FinishSurface, CapStates
<1>6. CASE ClearCaptureWindow(c) \/ Announce(c)
  BY <1>6 DEF ClearCaptureWindow, Announce, CapStates
<1>7. QED
  BY <1>1, <1>1a, <1>1b, <1>2, <1>3, <1>4, <1>5, <1>6 DEF CaptureStep

LEMMA SettersKeepType ==
    ASSUME TypeRest, SetterCall \/ CallbackSetterWoken \/ DisplaySetterWoken
    PROVE  TypeRest'
<1> USE PreviewAssumption DEF TypeRest, SetterUnchanged, ctlVars, capVars, windowVars,
        streamVars
<1>1. CASE \E obj \in Callbacks \cup {None} : setFrameCallback(obj)
  BY <1>1 DEF setFrameCallback, SignalAndSleep, Signalled, CaptureWaiters
<1>2. ASSUME NEW w \in CaptureWindows \cup {None}, setCaptureDisplay(w)
      PROVE  TypeRest'
  <2> DEFINE acquired == IF w = None THEN windowRefs ELSE [windowRefs EXCEPT ![w] = @ + 1]
  <2>1. acquired \in [CaptureWindows -> Int]
    OBVIOUS
  <2>2. ReleaseWindow(acquired, mCaptureWindow) \in [CaptureWindows -> Int]
    BY <2>1, ReleaseWindowType
  <2>3. windowRefs' \in [CaptureWindows -> Int]
    BY <1>2, <2>1, <2>2 DEF setCaptureDisplay, InstallWindow
  <2>4. windowRaced' \in BOOLEAN
    BY <1>2 DEF setCaptureDisplay, InstallWindow
  <2>5. /\ mCaptureWindow' \in CaptureWindows \cup {None}
        /\ newWindow' \in CaptureWindows \cup {None} /\ displaySetter' \in {"idle", "asleep"}
        /\ capture_sync' \subseteq CaptureWaiters
    BY <1>2 DEF setCaptureDisplay, InstallWindow, SignalAndSleep, Signalled, CaptureWaiters
  <2>6. /\ mIsCapturing' \in BOOLEAN
        /\ sets' \in [callback : 0 .. MaxSets, display : 0 .. MaxSets]
    BY <1>2 DEF setCaptureDisplay
  <2>7. QED
    BY <1>2, <2>3, <2>4, <2>5, <2>6 DEF setCaptureDisplay
<1>3. CASE CallbackSetterWoken
  BY <1>3 DEF CallbackSetterWoken
<1>4. CASE DisplaySetterWoken
  BY <1>4, ReleaseWindowType DEF DisplaySetterWoken, InstallWindow
<1>5. QED
  BY <1>1, <1>2, <1>3, <1>4 DEF SetterCall

LEMMA InitiallyTyped ==
    ASSUME Init
    PROVE  TypeRest
<1>1. sets \in [callback : 0 .. MaxSets, display : 0 .. MaxSets]
  BY PreviewAssumption DEF Init, InitWith
<1>2. /\ windowRefs \in [CaptureWindows -> Int]
      /\ cap \in [Sessions -> CapStates]
      /\ mode \in [Sessions -> {"idle", "surface"}]
      /\ using \in [Sessions -> Callbacks \cup CaptureWindows \cup {None}]
  BY DEF Init, InitWith, CapStates
<1>3. ctl = "idle" /\ ctl \in CtlStates /\ pv \in PvStates
  BY DEF Init, InitWith, CtlStates, PvStates
<1>4. /\ mIsRunning \in BOOLEAN /\ mIsCapturing \in BOOLEAN
      /\ streaming \in BOOLEAN /\ windowRaced \in BOOLEAN
  BY DEF Init, InitWith
<1>5. /\ mPreviewWindow \in PreviewWindows \cup {None}
      /\ mCaptureWindow \in CaptureWindows \cup {None}
      /\ mFrameCallbackObj \in Callbacks \cup {None}
      /\ newCallback \in Callbacks \cup {None} /\ newWindow \in CaptureWindows \cup {None}
      /\ callbackSetter \in {"idle", "asleep"} /\ displaySetter \in {"idle", "asleep"}
  BY DEF Init, InitWith
<1>6. /\ session \in 0 .. MaxSessions /\ capture_thread \in 0 .. MaxSessions
      /\ joining \in 0 .. MaxSessions
      /\ preview_sync \subseteq {Preview} /\ capture_sync \subseteq CaptureWaiters
      /\ cb \in {"idle", "add"}
  BY PreviewAssumption DEF Init, InitWith
<1>7. QED
  BY <1>1, <1>2, <1>3, <1>4, <1>5, <1>6 DEF TypeRest

LEMMA TypeStep ==
    ASSUME TypeRest, [Next]_vars
    PROVE  TypeRest'
<1>1. CASE UNCHANGED vars
  BY <1>1 DEF vars, TypeRest, ctlVars, capVars, setterVars, windowVars, streamVars
<1>2. QED
  BY <1>1, CtlKeepsType, CbAndPreviewKeepType, CaptureKeepsType, SettersKeepType
     DEF Next, ThreadStep

\* Every variable keeps its type.
THEOREM TypeCorrect == Spec => []TypeOK
<1>1. Init => OwnInv /\ TypeRest
  BY InitiallyOwn, InitiallyTyped
<1>2. OwnInv /\ TypeRest /\ [Next]_vars => (OwnInv /\ TypeRest)'
  BY OwnStep, TypeStep
<1>3. OwnInv /\ TypeRest => TypeOK
  BY DEF OwnInv, TypeRest, TypeOK, Ownership
<1>4. QED BY <1>1, <1>2, <1>3, PTL DEF Spec
-----------------------------------------------------------------------------
(***************************************************************************)
(* A stopped preview is quiet.  The invariant follows the handshake        *)
(* between the controlling thread, the preview thread and libuvc: the      *)
(* stream is open only while the preview thread is in do_preview, and the  *)
(* controlling thread is idle with mIsRunning cleared only when there is   *)
(* no preview thread.                                                      *)
(***************************************************************************)
Stopping == {"signalPreview", "signalCapture", "readHandle", "joinCapture", "joinPreview"}

InDoPreview == {"clear", "spawn", "loop", "wait", "asleep", "decode", "decoded", "draw",
                "drawn", "offer", "exit", "stopStreaming"}

QueuesEmpty(o) == o[PreviewQueue] = {} /\ o[CaptureQueue] = {}

QuietInv ==
    /\ own \in Ownership
    /\ cb = "idle" \/ streaming
    /\ streaming => pv \in InDoPreview
    /\ ctl = "starting" => pv = "none" /\ mIsRunning
    /\ ctl = "idle" /\ ~mIsRunning => pv = "none"
    /\ ctl \in Stopping \cup {"cleanup"} => ~mIsRunning
    /\ ctl = "cleanup" => pv = "none"
    /\ ctl \in {"idle", "starting"} /\ pv = "none" => QueuesEmpty(own)
    /\ ctl \in {"idle", "starting", "cleanup"} \cup Stopping

LEMMA CtlKeepsQuietInv ==
    ASSUME QuietInv, own' \in Ownership, ControlCall \/ CtlStep
    PROVE  QuietInv'
<1> USE DEF QuietInv, InDoPreview, Stopping, CtlUnchanged, ctlVars
<1>1. CASE \E w \in PreviewWindows \cup {None} : setPreviewDisplay(w)
  BY <1>1 DEF setPreviewDisplay, QueuesEmpty
<1>2. CASE startPreview
  BY <1>2 DEF startPreview, QueuesEmpty
<1>3. CASE stopPreview
  BY <1>3 DEF stopPreview, QueuesEmpty
<1>4. CASE CreatePreviewThread
  BY <1>4 DEF CreatePreviewThread
<1>5. CASE StartFails
  BY <1>5 DEF StartFails, QueuesEmpty
<1>6. CASE SignalPreview \/ SignalCapture \/ ReadCaptureHandle \/ JoinCapture
  BY <1>6 DEF SignalPreview, SignalCapture, ReadCaptureHandle, JoinCapture
<1>7. CASE JoinPreview
  BY <1>7 DEF JoinPreview, PreviewThreadEnded
<1>8. CASE StopCleanup
  <2>1. PICK o \in RecycleAll(own, PreviewQueue) : own' = recycle_frame(o, CaptureQueue)
    BY <1>8 DEF StopCleanup
  <2>2. o \in Ownership /\ o[PreviewQueue] = {}
    BY PlacesAreDistinct DEF RecycleAll, Ownership, Local
  <2>3. QueuesEmpty(own')
    BY <2>1, <2>2, PlacesAreDistinct DEF recycle_frame, QueuesEmpty, Ownership, Local
  <2>4. QED BY <1>8, <2>3 DEF StopCleanup
<1>9. QED
  BY <1>1, <1>2, <1>3, <1>4, <1>5, <1>6, <1>7, <1>8 DEF ControlCall, CtlStep

LEMMA CbAndPreviewKeepQuietInv ==
    ASSUME QuietInv, own' \in Ownership,
           uvc_preview_frame_callback \/ DuplicateFails \/ addPreviewFrame \/ PreviewStep
    PROVE  QuietInv'
<1> USE DEF QuietInv, InDoPreview, CbUnchanged, PvUnchanged, ctlVars, streamVars
<1>1. CASE uvc_preview_frame_callback \/ DuplicateFails \/ addPreviewFrame
  BY <1>1 DEF uvc_preview_frame_callback, DuplicateFails, addPreviewFrame
<1>2. CASE PreparePreview \/ ClearOldFrames \/ CreateCaptureThread \/ PreviewLoop
  BY <1>2 DEF PreparePreview, ClearOldFrames, CreateCaptureThread, PreviewLoop
<1>3. CASE waitPreviewFrame \/ PreviewWoken
  BY <1>3 DEF waitPreviewFrame, PreviewWoken, TakePreviewFrame
<1>4. CASE Decode \/ Decoded \/ draw_preview_one \/ Drawn \/ addCaptureFrame
  BY <1>4 DEF Decode, Decoded, draw_preview_one, Drawn, addCaptureFrame
<1>5. CASE PreviewExit \/ StopStreaming
  BY <1>5 DEF PreviewExit, StopStreaming
<1>6. QED BY <1>1, <1>2, <1>3, <1>4, <1>5 DEF PreviewStep

\* A capture thread takes frames out of captureQueu and puts none in, whatever
\* the rest of the pipeline does.
LEMMA CaptureKeepsQueuesEmpty ==
    ASSUME own \in Ownership, QueuesEmpty(own), NEW c \in Sessions, CaptureStep(c)
    PROVE  QueuesEmpty(own')
<1> USE DEF QueuesEmpty
<1>a. ASSUME NEW o \in Ownership, QueuesEmpty(o), NEW p \in Local
      PROVE  QueuesEmpty(recycle_frame(o, p)) /\ recycle_frame(o, p) \in Ownership
  BY <1>a, PlacesAreDistinct DEF recycle_frame, Ownership, Local
<1>b. ASSUME NEW o \in Ownership, QueuesEmpty(o), NEW f, NEW p \in Local,
             p \notin {PreviewQueue, CaptureQueue}
      PROVE  QueuesEmpty(Obtain(o, f, p))
  BY <1>b, PlacesAreDistinct DEF Obtain, Ownership, Local
<1>c. /\ CapConv(c) \in Local \ {PreviewQueue, CaptureQueue}
      /\ CapCall(c) \in Local \ {PreviewQueue, CaptureQueue}
      /\ CapFrame(c) \in Local \ {PreviewQueue, CaptureQueue}
      /\ CaptureQueue \in Local
  BY PlacesAreDistinct
     DEF CapConv, CapCall, CapFrame, PreviewQueue, CaptureQueue
<1>1. CASE UNCHANGED own
  BY <1>1
<1>2. CASE DoCapture(c)
  BY <1>2, <1>a, <1>c DEF DoCapture
<1>3. CASE TakeCaptureFrame(c)
  BY <1>3 DEF TakeCaptureFrame
<1>4. CASE ConvertForSurface(c)
  <2>1. UNCHANGED own \/ \E f \in get_frame(own) : own' = Obtain(own, f, CapConv(c))
    BY <1>4 DEF ConvertForSurface
  <2>2. QED BY <2>1, <1>b, <1>c
<1>5. CASE do_capture_callback(c)
  <2>1. \/ UNCHANGED own
        \/ own' = recycle_frame(own, CapFrame(c))
        \/ \E f \in get_frame(own) : own' = Obtain(own, f, CapCall(c))
    BY <1>5 DEF do_capture_callback
  <2>2. QED BY <2>1, <1>a, <1>b, <1>c
<1>6. CASE CallbackConverted(c)
  <2> DEFINE o == recycle_frame(own, CapFrame(c))
  <2>1. o \in Ownership /\ QueuesEmpty(o)
    BY <1>a, <1>c
  <2>2. own' = Move(o, CapCall(c), CapFrame(c)) \/ own' = recycle_frame(o, CapCall(c))
    BY <1>6 DEF CallbackConverted
  <2> HIDE DEF o
  <2>3. CASE own' = Move(o, CapCall(c), CapFrame(c))
    BY <2>1, <2>3, <1>c, PlacesAreDistinct DEF Move, Ownership, Local
  <2>4. QED BY <2>1, <2>2, <2>3, <1>a, <1>c
<1>7. CASE EndCallback(c)
  BY <1>7, <1>a, <1>c DEF EndCallback
<1>8. CASE FinishSurface(c)
  BY <1>8, <1>a, <1>c DEF FinishSurface
<1>9. QED
  BY <1>1, <1>2, <1>3, <1>4, <1>5, <1>6, <1>7, <1>8
     DEF CaptureStep, CaptureCheck, CaptureBranch, CaptureLoop, waitCaptureFrame,
         CaptureWoken, BeginBlit, EndBlit, BeginCallback, ClearCaptureWindow, Announce

LEMMA CaptureLeavesOthersAlone ==
    ASSUME NEW c \in Sessions, CaptureStep(c)
    PROVE  UNCHANGED <<mIsRunning, pv, cb, ctl, streaming>>
<1> USE DEF CapUnchanged, ctlVars, streamVars
<1>1. CASE DoCapture(c) \/ CaptureCheck(c) \/ CaptureBranch(c) \/ CaptureLoop(c)
  BY <1>1 DEF DoCapture, CaptureCheck, CaptureBranch, CaptureLoop
<1>2. CASE waitCaptureFrame(c) \/ CaptureWoken(c) \/ ConvertForSurface(c)
  BY <1>2 DEF waitCaptureFrame, CaptureWoken, ConvertForSurface
<1>3. CASE BeginBlit(c) \/ EndBlit(c) \/ BeginCallback(c) \/ EndCallback(c)
  BY <1>3 DEF BeginBlit, EndBlit, BeginCallback, EndCallback
<1>4. CASE do_capture_callback(c) \/ CallbackConverted(c)
  BY <1>4 DEF do_capture_callback, CallbackConverted
<1>5. CASE FinishSurface(c) \/ ClearCaptureWindow(c) \/ Announce(c)
  BY <1>5 DEF FinishSurface, ClearCaptureWindow, Announce
<1>6. QED BY <1>1, <1>2, <1>3, <1>4, <1>5 DEF CaptureStep

LEMMA InitiallyQuiet ==
    ASSUME Init
    PROVE  QuietInv
<1>1. QueuesEmpty(own)
  BY PlacesAreDistinct DEF Init, InitWith, QueuesEmpty, Local
<1>2. QED
  BY <1>1, InitiallyOwn DEF Init, InitWith, OwnInv, QuietInv, Stopping

LEMMA QuietStep ==
    ASSUME OwnInv, QuietInv, [Next]_vars
    PROVE  QuietInv'
<1>1. own' \in Ownership
  BY OwnStep DEF OwnInv
<1>2. CASE ControlCall \/ CtlStep
  BY <1>1, <1>2, CtlKeepsQuietInv
<1>3. CASE uvc_preview_frame_callback \/ DuplicateFails \/ addPreviewFrame \/ PreviewStep
  BY <1>1, <1>3, CbAndPreviewKeepQuietInv
<1>4. ASSUME NEW c \in Sessions, CaptureStep(c) PROVE QuietInv'
  BY <1>1, <1>4, CaptureKeepsQueuesEmpty, CaptureLeavesOthersAlone DEF QuietInv
<1>5. CASE UNCHANGED <<own, mIsRunning, pv, cb, ctl, streaming>>
  BY <1>1, <1>5 DEF QuietInv, QueuesEmpty
<1>6. CASE SetterCall \/ CallbackSetterWoken \/ DisplaySetterWoken
  BY <1>5, <1>6 DEF SetterCall, setFrameCallback, setCaptureDisplay,
     CallbackSetterWoken, DisplaySetterWoken, SetterUnchanged, ctlVars, streamVars
<1>7. QED
  BY <1>1, <1>2, <1>3, <1>4, <1>5, <1>6 DEF Next, ThreadStep, vars, ctlVars, streamVars

\* While nobody runs or changes the preview and it is stopped, its preview
\* thread has ended, no libuvc callback runs and no frame is queued.
THEOREM StoppedIsQuiet == Spec => []QuietWhenStopped
<1>1. Init => OwnInv /\ QuietInv
  BY InitiallyOwn, InitiallyQuiet
<1>2. OwnInv /\ QuietInv /\ [Next]_vars => (OwnInv /\ QuietInv)'
  BY OwnStep, QuietStep
<1>3. OwnInv /\ QuietInv => QuietWhenStopped
  BY DEF QuietInv, InDoPreview, QuietWhenStopped, QueuesEmpty
<1>4. QED BY <1>1, <1>2, <1>3, PTL DEF Spec
=============================================================================
