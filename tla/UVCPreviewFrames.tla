-------------------------- MODULE UVCPreviewFrames --------------------------
(***************************************************************************)
(* Theorems about the number of frames in UVCPreview: the bounds of the    *)
(* pool and of the queues, the number of frames that can be lost, and how  *)
(* many frames suffice for get_frame never to be without one.              *)
(***************************************************************************)
EXTENDS UVCPreviewProofs

-----------------------------------------------------------------------------
(***************************************************************************)
(* What the operations on frames do to the sizes and to the lost frames.   *)
(***************************************************************************)
\* The places that hold at most one frame.
Slots == Local \ {PreviewQueue}

AtMostOne(S) == \A f, g \in S : f = g

Good(o) ==
    /\ o \in Ownership
    /\ \A p \in Slots : AtMostOne(o[p])
    /\ Cardinality(o[Pool]) <= FRAME_POOL_SZ
    /\ Cardinality(o[PreviewQueue]) <= MAX_FRAME

\* From o to n nothing changed but p and the two places frames come from and
\* go to.
OnlyAt(o, n, p) == \A q \in Local \ {p} : n[q] = o[q]

LEMMA FramesAreFinite ==
    ASSUME NEW S \in SUBSET Frames
    PROVE  /\ IsFiniteSet(S) /\ Cardinality(S) \in Nat
           /\ \A T \in SUBSET S : Cardinality(T) <= Cardinality(S)
<1>1. IsFiniteSet(S)
  BY FS_Subset, PreviewAssumption
<1>2. QED BY <1>1, FS_Subset, FS_CardinalityType

LEMMA OneMore ==
    ASSUME NEW S \in SUBSET Frames, NEW T \in SUBSET Frames, AtMostOne(T)
    PROVE  Cardinality(S \cup T) <= Cardinality(S) + 1
<1>1. CASE T = {}
  <2>1. S \cup T = S
    BY <1>1
  <2>2. QED BY <2>1, FramesAreFinite
<1>2. CASE T # {}
  <2>1. PICK f \in T : TRUE
    BY <1>2
  <2>2. T = {f}
    BY <2>1 DEF AtMostOne
  <2>3. IsFiniteSet(S) /\ Cardinality(S) \in Nat
    BY FramesAreFinite
  <2>4. Cardinality(S \cup {f}) = IF f \in S THEN Cardinality(S) ELSE Cardinality(S) + 1
    BY <2>3, FS_AddElement
  <2>5. QED BY <2>2, <2>3, <2>4
<1>3. QED BY <1>1, <1>2

LEMMA SlotsDiffer ==
    /\ {CaptureQueue, Copy, Frame, Converted} \subseteq Slots
    /\ \A c \in Sessions : {CapFrame(c), CapConv(c), CapCall(c)} \subseteq Slots
    /\ CaptureQueue \notin {Copy, Frame, Converted}
    /\ Copy \notin {Frame, Converted} /\ Frame # Converted
    /\ \A c \in Sessions : \A p \in {CapFrame(c), CapConv(c), CapCall(c)} :
          p \notin {CaptureQueue, Copy, Frame, Converted}
    /\ \A c, d \in Sessions :
          /\ CapFrame(c) \notin {CapConv(d), CapCall(d)} /\ CapConv(c) # CapCall(d)
          /\ c # d => CapFrame(c) # CapFrame(d) /\ CapConv(c) # CapConv(d)
                      /\ CapCall(c) # CapCall(d)
<1>1. /\ {CaptureQueue, Copy, Frame, Converted} \subseteq Slots
      /\ \A c \in Sessions : {CapFrame(c), CapConv(c), CapCall(c)} \subseteq Slots
  BY DEF Slots, Local, Places, Pool, Heap, PreviewQueue, CaptureQueue, Copy, Frame,
         Converted, CapFrame, CapConv, CapCall
<1>2. QED
  BY <1>1 DEF CaptureQueue, Copy, Frame, Converted, CapFrame, CapConv, CapCall

LEMMA ObtainEffect ==
    ASSUME NEW o, Good(o), NEW f \in get_frame(o), NEW p \in Slots
    PROVE  /\ Good(Obtain(o, f, p)) /\ Obtain(o, f, p)[p] = {f}
           /\ OnlyAt(o, Obtain(o, f, p), p)
           /\ o[p] = {} => Lost(Obtain(o, f, p)) = Lost(o)
<1> DEFINE n == Obtain(o, f, p)
<1> USE DEF Good, Slots
<1>1. f \in Frames /\ (f \in o[Pool] \/ f \in o[Heap])
  BY PlacesAreDistinct DEF get_frame, Ownership
<1>2. /\ n \in Ownership /\ n[p] = {f}
      /\ \A q \in Places \ {p} : n[q] = IF q \in {Pool, Heap} THEN o[q] \ {f} ELSE o[q]
  BY <1>1, PlacesAreDistinct DEF Obtain, Ownership, Local
<1> HIDE DEF n
<1>3. OnlyAt(o, n, p)
  BY <1>2 DEF OnlyAt, Local
<1>4. Cardinality(n[Pool]) <= FRAME_POOL_SZ
  <2>1. n[Pool] \subseteq o[Pool] /\ o[Pool] \in SUBSET Frames
    BY <1>2, PlacesAreDistinct DEF Local, Ownership
  <2>2. Cardinality(n[Pool]) <= Cardinality(o[Pool])
    BY <2>1, FramesAreFinite
  <2>3. QED
    BY <2>1, <2>2, FramesAreFinite, PreviewAssumption DEF FRAME_POOL_SZ
<1>5. Good(n)
  BY <1>2, <1>3, <1>4, PlacesAreDistinct DEF OnlyAt, AtMostOne
<1>6. ASSUME o[p] = {} PROVE Lost(n) = Lost(o)
  <2>1. ASSUME NEW g \in Frames
        PROVE  (\A q \in Places : g \notin n[q]) <=> (\A q \in Places : g \notin o[q])
    <3>1. CASE g = f
      BY <1>1, <1>2, <3>1, PlacesAreDistinct DEF Local
    <3>2. CASE g # f
      <4>1. ASSUME NEW q \in Places PROVE g \in n[q] <=> g \in o[q]
        <5>1. CASE q = p
          BY <1>2, <1>6, <3>2, <5>1
        <5>2. CASE q # p
          <6>1. n[q] = IF q \in {Pool, Heap} THEN o[q] \ {f} ELSE o[q]
            BY <1>2, <5>2
          <6>2. QED BY <3>2, <6>1
        <5>3. QED BY <5>1, <5>2
      <4>2. QED BY <4>1
    <3>3. QED BY <3>1, <3>2
  <2>2. QED BY <2>1 DEF Lost
<1>7. QED BY <1>2, <1>3, <1>5, <1>6 DEF n

LEMMA MoveEffect ==
    ASSUME NEW o, Good(o), NEW p \in Slots, NEW q \in Slots, p # q
    PROVE  /\ Good(Move(o, p, q)) /\ Move(o, p, q)[p] = {} /\ Move(o, p, q)[q] = o[p]
           /\ \A r \in Local \ {p, q} : Move(o, p, q)[r] = o[r]
           /\ o[q] = {} => Lost(Move(o, p, q)) = Lost(o)
<1> DEFINE n == Move(o, p, q)
<1> USE DEF Good, Slots
<1>1. /\ n \in Ownership /\ n[p] = {} /\ n[q] = o[p]
      /\ \A r \in Places \ {p, q} : n[r] = o[r]
  BY DEF Move, Ownership, Local
<1> HIDE DEF n
<1>2. Good(n)
  BY <1>1, PlacesAreDistinct DEF AtMostOne, Local
<1>3. o[q] = {} => Lost(n) = Lost(o)
  BY <1>1 DEF Lost, Local
<1>4. QED BY <1>1, <1>2, <1>3 DEF n, Local

LEMMA RecycleEffect ==
    ASSUME NEW o, Good(o), NEW p \in Slots
    PROVE  /\ Good(recycle_frame(o, p)) /\ recycle_frame(o, p)[p] = {}
           /\ OnlyAt(o, recycle_frame(o, p), p)
           /\ Lost(recycle_frame(o, p)) = Lost(o)
<1> DEFINE n == recycle_frame(o, p)
<1> USE DEF Good, Slots
<1>1. /\ n \in Ownership /\ n[p] = {} /\ OnlyAt(o, n, p)
      /\ \/ PoolHasRoom(o) /\ n[Pool] = o[Pool] \cup o[p] /\ n[Heap] = o[Heap]
         \/ n[Pool] = o[Pool] /\ n[Heap] = o[Heap] \cup o[p]
  BY PlacesAreDistinct DEF recycle_frame, Ownership, OnlyAt, Local
<1> HIDE DEF n
<1>2. Cardinality(n[Pool]) <= FRAME_POOL_SZ
  <2>1. o[Pool] \in SUBSET Frames /\ o[p] \in SUBSET Frames /\ Cardinality(o[Pool]) \in Nat
    BY PlacesAreDistinct, FramesAreFinite DEF Ownership, Local
  <2>2. CASE PoolHasRoom(o) /\ n[Pool] = o[Pool] \cup o[p]
    <3>1. Cardinality(n[Pool]) <= Cardinality(o[Pool]) + 1 /\ Cardinality(n[Pool]) \in Nat
      BY <2>1, <2>2, OneMore, FramesAreFinite
    <3>2. QED
      BY <2>1, <2>2, <3>1, PreviewAssumption DEF PoolHasRoom, FRAME_POOL_SZ
  <2>3. QED BY <1>1, <2>2
<1>3. Good(n)
  BY <1>1, <1>2, PlacesAreDistinct DEF OnlyAt, AtMostOne
<1>4. Lost(n) = Lost(o)
  BY <1>1, PlacesAreDistinct DEF Lost, OnlyAt, Local
<1>5. QED BY <1>1, <1>3, <1>4 DEF n

LEMMA RecycleAllEffect ==
    ASSUME NEW o, Good(o), NEW n \in RecycleAll(o, PreviewQueue)
    PROVE  /\ Good(n) /\ n[PreviewQueue] = {}
           /\ OnlyAt(o, n, PreviewQueue) /\ Lost(n) = Lost(o)
<1> DEFINE room == FRAME_POOL_SZ - Cardinality(o[Pool])
           queued == Cardinality(o[PreviewQueue])
<1> USE DEF Good, Slots
<1>1. PICK kept \in SUBSET o[PreviewQueue] :
        /\ n = [o EXCEPT ![PreviewQueue] = {}, ![Pool] = @ \cup kept,
                         ![Heap] = @ \cup (o[PreviewQueue] \ kept)]
        /\ Cardinality(kept) = IF queued < room THEN queued ELSE room
  BY DEF RecycleAll
<1>2. /\ n \in Ownership /\ n[PreviewQueue] = {} /\ OnlyAt(o, n, PreviewQueue)
      /\ n[Pool] = o[Pool] \cup kept /\ n[Heap] = o[Heap] \cup (o[PreviewQueue] \ kept)
  BY <1>1, PlacesAreDistinct DEF Ownership, OnlyAt, Local
<1>3. Cardinality(n[Pool]) <= FRAME_POOL_SZ
  <2>1. /\ o[Pool] \in SUBSET Frames /\ kept \in SUBSET Frames
        /\ o[PreviewQueue] \in SUBSET Frames
    BY PlacesAreDistinct DEF Ownership, Local
  <2>2. /\ IsFiniteSet(o[Pool]) /\ IsFiniteSet(kept)
        /\ Cardinality(o[Pool]) \in Nat /\ queued \in Nat
        /\ Cardinality(o[Pool] \cap kept) \in Nat /\ Cardinality(kept) \in Nat
    BY <2>1, FramesAreFinite
  <2>3. Cardinality(n[Pool])
          = Cardinality(o[Pool]) + Cardinality(kept) - Cardinality(o[Pool] \cap kept)
    BY <1>2, <2>2, FS_Union
  <2>4. Cardinality(kept) <= room
    BY <1>1, <2>2, PreviewAssumption DEF FRAME_POOL_SZ
  <2>5. QED
    BY <2>2, <2>3, <2>4, PreviewAssumption DEF FRAME_POOL_SZ
<1>4. Cardinality(n[PreviewQueue]) <= MAX_FRAME
  BY <1>2, FS_EmptySet, PreviewAssumption
<1>5. Good(n)
  BY <1>2, <1>3, <1>4 DEF OnlyAt
<1>6. Lost(n) = Lost(o)
  BY <1>2, PlacesAreDistinct DEF Lost, OnlyAt, Local
<1>7. QED BY <1>2, <1>5, <1>6

-----------------------------------------------------------------------------
(***************************************************************************)
(* Where a thread holds a frame: every other slot of it is empty, so that  *)
(* no assignment overwrites a frame.  A capture thread is created once for *)
(* each preview thread.                                                    *)
(***************************************************************************)
CbSlot == cb = "idle" => own[Copy] = {}

PvSlots ==
    /\ pv \notin {"decode", "decoded", "draw", "drawn", "offer"} => own[Frame] = {}
    /\ pv \notin {"decoded", "drawn"} => own[Converted] = {}

CapSlots ==
    \A c \in Sessions :
        /\ cap[c] \notin {"convert", "blit", "blitting", "deliver", "converted", "call", "calling"}
              => own[CapFrame(c)] = {}
        /\ cap[c] # "converted" => own[CapCall(c)] = {}

OneThreadEach ==
    /\ \A c \in Sessions : c > session => cap[c] = "none"
    /\ pv \in {"prepare", "clear", "spawn"} => session \in Sessions /\ cap[session] = "none"

FrameInv == Good(own) /\ CbSlot /\ PvSlots /\ CapSlots /\ OneThreadEach

\* The invariants proved in UVCPreviewProofs.
BaseInv == OwnInv /\ TypeRest /\ QuietInv

LEMMA CtlKeepsFrameInv ==
    ASSUME BaseInv, FrameInv, ControlCall \/ CtlStep
    PROVE  FrameInv' /\ Lost(own') = Lost(own)
<1> USE DEF FrameInv, CbSlot, PvSlots, CapSlots, OneThreadEach, CtlUnchanged, ctlVars, capVars
<1>1. CASE StopCleanup
  <2>1. PICK o \in RecycleAll(own, PreviewQueue) : own' = recycle_frame(o, CaptureQueue)
    BY <1>1 DEF StopCleanup
  <2>2. Good(o) /\ OnlyAt(own, o, PreviewQueue) /\ Lost(o) = Lost(own)
    BY RecycleAllEffect
  <2>3. Good(own') /\ OnlyAt(o, own', CaptureQueue) /\ Lost(own') = Lost(own)
    BY <2>1, <2>2, RecycleEffect, SlotsDiffer
  <2>4. \A p \in Slots \ {CaptureQueue} : own'[p] = own[p]
    BY <2>2, <2>3 DEF OnlyAt, Slots
  <2>5. UNCHANGED <<cb, pv, cap, session>>
    BY <1>1 DEF StopCleanup
  <2>6. QED BY <2>3, <2>4, <2>5, SlotsDiffer
<1>2. CASE CreatePreviewThread
  <2>1. pv = "none" /\ session' = session + 1 /\ session' \in Sessions
    BY <1>2, PreviewAssumption
       DEF CreatePreviewThread, BaseInv, QuietInv, TypeRest, Sessions
  <2>2. cap[session + 1] = "none"
    BY <2>1 DEF BaseInv, TypeRest, Sessions
  <2>3. \A c \in Sessions : c > session + 1 => cap[c] = "none"
    BY DEF BaseInv, TypeRest, Sessions
  <2>4. UNCHANGED <<own, cb, cap>> /\ pv' = "prepare"
    BY <1>2 DEF CreatePreviewThread
  <2>5. QED BY <2>1, <2>2, <2>3, <2>4
<1>3. CASE JoinPreview
  BY <1>3 DEF JoinPreview, PreviewThreadEnded
<1>4. CASE UNCHANGED <<own, cb, pv, cap, session>>
  BY <1>4
<1>5. QED
  BY <1>1, <1>2, <1>3, <1>4
     DEF ControlCall, CtlStep, setPreviewDisplay, startPreview, stopPreview, StartFails,
         SignalPreview, SignalCapture, ReadCaptureHandle, JoinCapture

LEMMA CbKeepsFrameInv ==
    ASSUME BaseInv, FrameInv, uvc_preview_frame_callback \/ DuplicateFails \/ addPreviewFrame
    PROVE  FrameInv' /\ Lost(own') = Lost(own)
<1> USE DEF FrameInv, CbUnchanged, capVars, streamVars
<1>1. UNCHANGED <<pv, cap, session>>
  BY DEF uvc_preview_frame_callback, DuplicateFails, addPreviewFrame
<1>2. ASSUME Good(own'), \A p \in Slots \ {Copy} : own'[p] = own[p]
      PROVE  PvSlots' /\ CapSlots' /\ OneThreadEach'
  BY <1>1, <1>2, SlotsDiffer DEF PvSlots, CapSlots, OneThreadEach
<1>3. CASE uvc_preview_frame_callback
  <2>1. PICK f \in get_frame(own) : own' = Obtain(own, f, Copy)
    BY <1>3 DEF uvc_preview_frame_callback
  <2>2. own[Copy] = {} /\ cb' = "add"
    BY <1>3 DEF uvc_preview_frame_callback, CbSlot
  <2>3. Good(own') /\ OnlyAt(own, own', Copy) /\ Lost(own') = Lost(own)
    BY <2>1, <2>2, ObtainEffect, SlotsDiffer
  <2>4. QED BY <1>2, <2>2, <2>3 DEF OnlyAt, Slots, CbSlot
<1>4. CASE DuplicateFails
  <2>1. PICK f \in get_frame(own) : own' = recycle_frame(Obtain(own, f, Copy), Copy)
    BY <1>4 DEF DuplicateFails
  <2> DEFINE o == Obtain(own, f, Copy)
  <2>2. own[Copy] = {} /\ cb' = cb
    BY <1>4 DEF DuplicateFails, CbSlot
  <2>3. Good(o) /\ OnlyAt(own, o, Copy) /\ Lost(o) = Lost(own)
    BY <2>2, ObtainEffect, SlotsDiffer
  <2> HIDE DEF o
  <2>4. /\ Good(own') /\ OnlyAt(o, own', Copy) /\ Lost(own') = Lost(own)
        /\ own'[Copy] = {}
    BY <2>1, <2>3, RecycleEffect, SlotsDiffer DEF o
  <2>5. QED BY <1>2, <2>2, <2>3, <2>4 DEF OnlyAt, Slots, CbSlot
<1>5. CASE addPreviewFrame
  <2>1. cb' = "idle"
    BY <1>5 DEF addPreviewFrame
  <2>2. CASE own' = recycle_frame(own, Copy)
    <3>1. /\ Good(own') /\ OnlyAt(own, own', Copy) /\ Lost(own') = Lost(own)
          /\ own'[Copy] = {}
      BY <2>2, RecycleEffect, SlotsDiffer
    <3>2. QED BY <1>2, <2>1, <3>1 DEF OnlyAt, Slots, CbSlot
  <2>3. CASE /\ QueueHasRoom
             /\ own' = [own EXCEPT ![PreviewQueue] = @ \cup own[Copy], ![Copy] = {}]
    <3>1. /\ own' \in Ownership /\ own'[Copy] = {}
          /\ own'[PreviewQueue] = own[PreviewQueue] \cup own[Copy]
          /\ \A p \in Places \ {PreviewQueue, Copy} : own'[p] = own[p]
      BY <2>3, PlacesAreDistinct DEF Good, Ownership, Local
    <3>2. /\ own[PreviewQueue] \in SUBSET Frames /\ own[Copy] \in SUBSET Frames
          /\ AtMostOne(own[Copy])
      BY PlacesAreDistinct, SlotsDiffer DEF Good, Ownership, Local
    <3>3. Cardinality(own'[PreviewQueue]) <= MAX_FRAME
      <4>1. Cardinality(own'[PreviewQueue]) <= Cardinality(own[PreviewQueue]) + 1
        BY <3>1, <3>2, OneMore
      <4>2. Cardinality(own'[PreviewQueue]) \in Nat /\ Cardinality(own[PreviewQueue]) \in Nat
        BY <3>1, <3>2, FramesAreFinite
      <4>3. QED BY <2>3, <4>1, <4>2, PreviewAssumption DEF QueueHasRoom
    <3>4. Good(own')
      BY <3>1, <3>3, PlacesAreDistinct, SlotsDiffer DEF Good, AtMostOne, Slots, Local
    <3>5. Lost(own') = Lost(own)
      BY <3>1, PlacesAreDistinct DEF Lost, Local
    <3>6. QED
      BY <1>2, <2>1, <3>1, <3>4, <3>5 DEF Slots, Local, CbSlot
  <2>4. QED BY <1>5, <2>2, <2>3 DEF addPreviewFrame
<1>6. QED BY <1>3, <1>4, <1>5

\* addCaptureFrame drops its frame when stopPreview has cleared mIsRunning; no
\* other step of the preview thread loses one.
LEMMA PreviewKeepsFrameInv ==
    ASSUME BaseInv, FrameInv, PreviewStep
    PROVE  /\ FrameInv'
           /\ \/ Lost(own') = Lost(own)
              \/ /\ addCaptureFrame /\ ~mIsRunning
                 /\ Lost(own') \subseteq Lost(own) \cup own[Frame]
<1> DEFINE Mine == {Frame, Converted, CaptureQueue}
<1> USE DEF FrameInv
<1>1. UNCHANGED <<cb, session>>
  BY DEF PreviewStep, PvUnchanged, PreparePreview, ClearOldFrames, CreateCaptureThread,
     PreviewLoop, waitPreviewFrame, PreviewWoken, Decode, Decoded, draw_preview_one, Drawn,
     addCaptureFrame, PreviewExit, StopStreaming
<1>2. ASSUME Good(own'), UNCHANGED cap, \A p \in Slots \ Mine : own'[p] = own[p],
             pv' \in {"prepare", "clear", "spawn"} => pv \in {"prepare", "clear", "spawn"},
             PvSlots'
      PROVE  FrameInv'
  BY <1>1, <1>2, SlotsDiffer DEF CbSlot, CapSlots, OneThreadEach
<1>3. CASE UNCHANGED <<own, cap>> /\ (PreparePreview \/ PreviewLoop \/ PreviewExit \/ StopStreaming)
  <2>1. PvSlots' /\ (pv' \in {"prepare", "clear", "spawn"} => pv = "prepare")
    BY <1>3 DEF PreparePreview, PreviewLoop, PreviewExit, StopStreaming, PvSlots
  <2>2. QED BY <1>2, <1>3, <2>1
<1>4. CASE ClearOldFrames
  <2>1. Good(own') /\ OnlyAt(own, own', PreviewQueue) /\ Lost(own') = Lost(own)
    BY <1>4, RecycleAllEffect DEF ClearOldFrames
  <2>2. pv = "clear" /\ pv' = "spawn" /\ UNCHANGED cap
    BY <1>4 DEF ClearOldFrames
  <2>3. PvSlots'
    BY <2>1, <2>2, SlotsDiffer DEF PvSlots, OnlyAt, Slots
  <2>4. QED BY <1>2, <2>1, <2>2, <2>3 DEF OnlyAt, Slots
<1>5. CASE CreateCaptureThread
  <2>1. /\ pv = "spawn" /\ pv' = "loop" /\ UNCHANGED own
        /\ cap' = [cap EXCEPT ![session] = "start"]
    BY <1>5 DEF CreateCaptureThread
  <2>2. session \in Sessions /\ cap[session] = "none" /\ cap \in [Sessions -> CapStates]
    BY <2>1 DEF OneThreadEach, BaseInv, TypeRest
  <2>3. CapSlots'
    BY <2>1, <2>2 DEF CapSlots
  <2>4. \A c \in Sessions : c > session => cap'[c] = "none"
    BY <2>1, <2>2 DEF OneThreadEach, Sessions
  <2>5. QED
    BY <1>1, <2>1, <2>3, <2>4 DEF CbSlot, PvSlots, OneThreadEach
<1>6. CASE TakePreviewFrame /\ pv \in {"wait", "asleep"} /\ UNCHANGED cap
  <2>1. CASE UNCHANGED own /\ pv' = "loop"
    BY <1>2, <1>6, <2>1 DEF PvSlots
  <2>2. ASSUME NEW f \in own[PreviewQueue],
               own' = [own EXCEPT ![PreviewQueue] = @ \ {f}, ![Frame] = {f}],
               pv' \in {"decode", "draw"}
        PROVE  FrameInv' /\ Lost(own') = Lost(own)
    <3>1. /\ own' \in Ownership /\ own'[Frame] = {f}
          /\ own'[PreviewQueue] = own[PreviewQueue] \ {f}
          /\ \A p \in Places \ {PreviewQueue, Frame} : own'[p] = own[p]
      BY <2>2, PlacesAreDistinct DEF Good, Ownership, Local
    <3>2. Cardinality(own'[PreviewQueue]) <= MAX_FRAME
      <4>1. own[PreviewQueue] \in SUBSET Frames /\ own'[PreviewQueue] \subseteq own[PreviewQueue]
        BY <3>1, PlacesAreDistinct DEF Good, Ownership, Local
      <4>2. QED BY <4>1, FramesAreFinite, PreviewAssumption DEF Good
    <3>3. Good(own')
      BY <3>1, <3>2, PlacesAreDistinct, SlotsDiffer DEF Good, AtMostOne, Slots, Local
    <3>4. own[Frame] = {} /\ own[Converted] = {}
      BY <1>6 DEF PvSlots
    <3>5. Lost(own') = Lost(own)
      BY <3>1, <3>4, PlacesAreDistinct DEF Lost, Local
    <3>6. PvSlots'
      BY <2>2, <3>1, <3>4, SlotsDiffer, PlacesAreDistinct DEF PvSlots, Local
    <3>7. QED
      BY <1>2, <1>6, <2>2, <3>1, <3>3, <3>5, <3>6 DEF Slots, Local
  <2>3. QED BY <1>6, <2>1, <2>2 DEF TakePreviewFrame
<1>7. CASE waitPreviewFrame \/ PreviewWoken
  <2>1. UNCHANGED cap /\ pv \in {"wait", "asleep"}
    BY <1>7 DEF waitPreviewFrame, PreviewWoken
  <2>2. TakePreviewFrame \/ (UNCHANGED own /\ pv' = "asleep")
    BY <1>7 DEF waitPreviewFrame, PreviewWoken
  <2>3. CASE UNCHANGED own /\ pv' = "asleep"
    BY <1>2, <2>1, <2>3 DEF PvSlots
  <2>4. QED BY <1>6, <2>1, <2>2, <2>3
<1>8. ASSUME NEW f \in get_frame(own), own' = Obtain(own, f, Converted), UNCHANGED cap,
             pv \in {"decode", "draw"}, pv' \in {"decoded", "drawn"}
      PROVE  FrameInv' /\ Lost(own') = Lost(own)
  <2>1. own[Converted] = {}
    BY <1>8 DEF PvSlots
  <2>2. Good(own') /\ OnlyAt(own, own', Converted) /\ Lost(own') = Lost(own)
    BY <1>8, <2>1, ObtainEffect, SlotsDiffer
  <2>3. PvSlots'
    BY <1>8 DEF PvSlots
  <2>4. QED BY <1>2, <1>8, <2>2, <2>3 DEF OnlyAt, Slots
<1>9. CASE Decode \/ draw_preview_one
  <2>1. UNCHANGED cap
    BY <1>9 DEF Decode, draw_preview_one
  <2>2. CASE UNCHANGED own /\ pv = "draw" /\ pv' = "offer"
    BY <1>2, <2>1, <2>2 DEF PvSlots
  <2>3. QED BY <1>8, <1>9, <2>1, <2>2 DEF Decode, draw_preview_one
<1>10. CASE Decoded
  <2> DEFINE o == recycle_frame(own, Frame)
  <2>1. Good(o) /\ OnlyAt(own, o, Frame) /\ Lost(o) = Lost(own) /\ o[Frame] = {}
    BY RecycleEffect, SlotsDiffer
  <2>2. /\ UNCHANGED cap
        /\ \/ own' = Move(o, Converted, Frame) /\ pv' = "draw"
           \/ own' = recycle_frame(o, Converted) /\ pv' = "loop"
    BY <1>10 DEF Decoded
  <2> HIDE DEF o
  <2>3. CASE own' = Move(o, Converted, Frame) /\ pv' = "draw"
    <3>1. /\ Good(own') /\ own'[Converted] = {} /\ Lost(own') = Lost(o)
          /\ \A r \in Local \ {Converted, Frame} : own'[r] = o[r]
      <4>1. Frame \in Slots /\ Converted \in Slots /\ Converted # Frame
        BY SlotsDiffer
      <4> DEFINE n == Move(o, Converted, Frame)
      <4>2. /\ Good(n) /\ n[Converted] = {} /\ (o[Frame] = {} => Lost(n) = Lost(o))
            /\ \A r \in Local \ {Converted, Frame} : n[r] = o[r]
        BY <2>1, <4>1, MoveEffect
      <4> HIDE DEF n
      <4>3. own' = n
        BY <2>3 DEF n
      <4>4. QED BY <2>1, <4>2, <4>3
    <3>2. QED BY <1>2, <2>1, <2>2, <2>3, <3>1 DEF OnlyAt, Slots, PvSlots
  <2>4. CASE own' = recycle_frame(o, Converted) /\ pv' = "loop"
    <3>1. /\ Good(own') /\ own'[Converted] = {} /\ Lost(own') = Lost(o)
          /\ OnlyAt(o, own', Converted)
      BY <2>1, <2>4, RecycleEffect, SlotsDiffer
    <3>2. own'[Frame] = {}
      BY <2>1, <3>1, SlotsDiffer DEF OnlyAt, Slots
    <3>3. QED BY <1>2, <2>1, <2>2, <2>4, <3>1, <3>2 DEF OnlyAt, Slots, PvSlots
  <2>5. QED BY <2>2, <2>3, <2>4
<1>11. CASE Drawn
  <2>1. /\ Good(own') /\ own'[Converted] = {} /\ Lost(own') = Lost(own)
        /\ OnlyAt(own, own', Converted)
    BY <1>11, RecycleEffect, SlotsDiffer DEF Drawn
  <2>2. pv' = "offer" /\ UNCHANGED cap
    BY <1>11 DEF Drawn
  <2>3. QED BY <1>2, <2>1, <2>2 DEF OnlyAt, Slots, PvSlots
<1>12. CASE addCaptureFrame
  <2>1. pv = "offer" /\ pv' = "loop" /\ UNCHANGED cap /\ own[Converted] = {}
    BY <1>12 DEF addCaptureFrame, PvSlots
  <2>2. CASE ~mIsRunning
    <3>1. own' = [own EXCEPT ![Frame] = {}]
      BY <1>12, <2>2 DEF addCaptureFrame
    <3>2. /\ own' \in Ownership /\ own'[Frame] = {}
          /\ \A p \in Places \ {Frame} : own'[p] = own[p]
      BY <3>1, SlotsDiffer DEF Good, Ownership, Slots, Local
    <3>3. Good(own')
      BY <3>2, PlacesAreDistinct DEF Good, AtMostOne, Slots, Local
    <3>4. Lost(own') \subseteq Lost(own) \cup own[Frame]
      BY <3>2 DEF Lost
    <3>5. PvSlots'
      BY <2>1, <3>2, SlotsDiffer DEF PvSlots, Slots, Local
    <3>6. QED BY <1>2, <1>12, <2>1, <2>2, <3>2, <3>3, <3>4, <3>5 DEF Slots, Local
  <2>3. CASE mIsRunning
    <3> DEFINE o == recycle_frame(own, CaptureQueue)
    <3>1. /\ Good(o) /\ OnlyAt(own, o, CaptureQueue) /\ Lost(o) = Lost(own)
          /\ o[CaptureQueue] = {}
      BY RecycleEffect, SlotsDiffer
    <3>2. o[Frame] = own[Frame]
      BY <3>1, SlotsDiffer DEF OnlyAt, Slots
    <3>3. own' = [o EXCEPT ![CaptureQueue] = o[Frame], ![Frame] = {}]
      BY <1>12, <2>3, <3>2 DEF addCaptureFrame, Supersede
    <3> HIDE DEF o
    <3>4. own' = Move(o, Frame, CaptureQueue)
      BY <3>1, <3>3, SlotsDiffer DEF Move, Good, Ownership, Slots, Local
    <3>5. /\ Good(own') /\ own'[Frame] = {} /\ Lost(own') = Lost(own)
          /\ \A r \in Local \ {Frame, CaptureQueue} : own'[r] = o[r]
      <4>1. Frame \in Slots /\ CaptureQueue \in Slots /\ Frame # CaptureQueue
        BY SlotsDiffer
      <4> DEFINE n == Move(o, Frame, CaptureQueue)
      <4>2. /\ Good(n) /\ n[Frame] = {} /\ (o[CaptureQueue] = {} => Lost(n) = Lost(o))
            /\ \A r \in Local \ {Frame, CaptureQueue} : n[r] = o[r]
        BY <3>1, <4>1, MoveEffect
      <4> HIDE DEF n
      <4>3. own' = n
        BY <3>4 DEF n
      <4>4. QED BY <3>1, <4>2, <4>3
    <3>6. \A r \in Slots \ {Frame, CaptureQueue} : own'[r] = own[r]
      BY <3>1, <3>5 DEF OnlyAt, Slots
    <3>7. PvSlots'
      BY <2>1, <3>5, <3>6, SlotsDiffer DEF PvSlots
    <3>8. QED BY <1>2, <2>1, <3>5, <3>6, <3>7
  <2>4. QED BY <2>2, <2>3
<1>13. QED
  BY <1>3, <1>4, <1>5, <1>7, <1>9, <1>10, <1>11, <1>12
     DEF PreviewStep, PreparePreview, PreviewLoop, PreviewExit, StopStreaming

LEMMA TakeEffect ==
    ASSUME NEW o, Good(o), NEW c \in Sessions
    PROVE  LET n == Move(o, CaptureQueue, CapFrame(c)) IN
           /\ Good(n) /\ (o[CapFrame(c)] = {} => Lost(n) = Lost(o))
           /\ \A r \in Local \ {CaptureQueue, CapFrame(c)} : n[r] = o[r]
<1>1. /\ CaptureQueue \in Slots /\ CapFrame(c) \in Slots
      /\ CaptureQueue # CapFrame(c)
  BY SlotsDiffer
<1>2. QED BY <1>1, MoveEffect

LEMMA CaptureKeepsFrameInv ==
    ASSUME BaseInv, FrameInv, NEW c \in Sessions, CaptureStep(c)
    PROVE  FrameInv' /\ Lost(own') = Lost(own)
<1> DEFINE Mine == {CaptureQueue, CapFrame(c), CapConv(c), CapCall(c)}
           recycled == recycle_frame(own, CapFrame(c))
           mySlots == /\ cap[c] \notin {"convert", "blit", "blitting", "deliver", "converted",
                                        "call", "calling"} => own[CapFrame(c)] = {}
                      /\ cap[c] # "converted" => own[CapCall(c)] = {}
<1> USE DEF FrameInv
<1>1. UNCHANGED <<cb, pv, session>>
  BY CaptureLeavesOthersAlone
     DEF CaptureStep, CapUnchanged, streamVars, DoCapture, CaptureCheck, CaptureBranch,
         CaptureLoop, waitCaptureFrame, CaptureWoken, ConvertForSurface, BeginBlit, EndBlit,
         do_capture_callback, CallbackConverted, BeginCallback, EndCallback, FinishSurface,
         ClearCaptureWindow, Announce
<1>2. cap[c] # "none" /\ \E pc : cap' = [cap EXCEPT ![c] = pc]
  BY DEF CaptureStep, DoCapture, CaptureCheck, CaptureBranch, CaptureLoop, waitCaptureFrame,
         CaptureWoken, TakeCaptureFrame, ConvertForSurface, BeginBlit, EndBlit,
         do_capture_callback, CallbackConverted, BeginCallback, EndCallback, FinishSurface,
         ClearCaptureWindow, Announce
<1>3. mySlots
  BY DEF CapSlots
<1>4. ASSUME Good(own'), \A p \in Slots \ Mine : own'[p] = own[p], mySlots'
      PROVE  FrameInv'
  <2>1. CbSlot' /\ PvSlots'
    BY <1>1, <1>4, SlotsDiffer DEF CbSlot, PvSlots
  <2>2. \A d \in Sessions \ {c} : cap'[d] = cap[d]
    BY <1>2 DEF BaseInv, TypeRest
  <2>3. OneThreadEach'
    BY <1>1, <1>2, <2>2 DEF OneThreadEach
  <2>4. \A d \in Sessions \ {c} : own'[CapFrame(d)] = own[CapFrame(d)]
                                /\ own'[CapCall(d)] = own[CapCall(d)]
    BY <1>4, SlotsDiffer
  <2>5. CapSlots'
    BY <1>4, <2>2, <2>4 DEF CapSlots
  <2>6. QED BY <1>4, <2>1, <2>3, <2>5
<1>5. Good(recycled) /\ recycled[CapFrame(c)] = {} /\ OnlyAt(own, recycled, CapFrame(c))
      /\ Lost(recycled) = Lost(own)
  BY RecycleEffect, SlotsDiffer
<1>6. cap \in [Sessions -> CapStates]
  BY DEF BaseInv, TypeRest
<1> HIDE DEF recycled
<1>7. CASE UNCHANGED own /\ mySlots'
  BY <1>4, <1>7
<1>8. CASE DoCapture(c)
  <2>1. /\ Good(own') /\ OnlyAt(own, own', CaptureQueue) /\ Lost(own') = Lost(own)
    BY <1>8, RecycleEffect, SlotsDiffer DEF DoCapture
  <2>2. cap'[c] = "check" /\ cap[c] = "start"
    BY <1>6, <1>8 DEF DoCapture
  <2>3. QED BY <1>3, <1>4, <2>1, <2>2, SlotsDiffer DEF OnlyAt, Slots
<1>9. CASE UNCHANGED own /\ (CaptureCheck(c) \/ CaptureBranch(c) \/ CaptureLoop(c))
  BY <1>3, <1>6, <1>7, <1>9 DEF CaptureCheck, CaptureBranch, CaptureLoop
<1>10. CASE UNCHANGED own /\ (BeginBlit(c) \/ EndBlit(c) \/ BeginCallback(c))
  BY <1>3, <1>6, <1>7, <1>10 DEF BeginBlit, EndBlit, BeginCallback
<1>11. CASE UNCHANGED own /\ (ClearCaptureWindow(c) \/ Announce(c))
  BY <1>3, <1>6, <1>7, <1>11 DEF ClearCaptureWindow, Announce
<1>12. CASE waitCaptureFrame(c) \/ CaptureWoken(c)
  <2>1. cap[c] \in {"wait", "asleep"} /\ own[CapFrame(c)] = {} /\ own[CapCall(c)] = {}
    BY <1>3, <1>12 DEF waitCaptureFrame, CaptureWoken
  <2>2. CASE UNCHANGED own /\ cap'[c] \in {"asleep", "loop"}
    BY <1>7, <2>1, <2>2
  <2>3. CASE /\ own' = Move(own, CaptureQueue, CapFrame(c))
             /\ cap'[c] \in {"convert", "deliver"}
    <3> DEFINE n == Move(own, CaptureQueue, CapFrame(c))
    <3>1. /\ CaptureQueue \in Slots /\ CapFrame(c) \in Slots
          /\ CapCall(c) \in Slots \ {CaptureQueue, CapFrame(c)}
          /\ CaptureQueue # CapFrame(c)
      BY SlotsDiffer
    <3>2. /\ Good(n) /\ (own[CapFrame(c)] = {} => Lost(n) = Lost(own))
          /\ \A r \in Local \ {CaptureQueue, CapFrame(c)} : n[r] = own[r]
      BY TakeEffect
    <3> HIDE DEF n
    <3>3. own' = n
      BY <2>3 DEF n
    <3>4. mySlots'
      BY <2>1, <2>3, <3>1, <3>2, <3>3 DEF Slots
    <3>5. QED BY <1>4, <2>1, <3>2, <3>3, <3>4 DEF Slots
  <2>4. QED
    BY <1>6, <1>12, <2>2, <2>3 DEF waitCaptureFrame, CaptureWoken, TakeCaptureFrame
<1>13. CASE ConvertForSurface(c)
  <2>1. cap[c] = "convert" /\ cap'[c] \in {"blit", "deliver"} /\ own[CapCall(c)] = {}
    BY <1>3, <1>6, <1>13 DEF ConvertForSurface
  <2>2. CASE UNCHANGED own
    BY <1>3, <1>7, <2>1, <2>2
  <2>3. ASSUME NEW f \in get_frame(own), own' = Obtain(own, f, CapConv(c)),
               own[CapConv(c)] = {}
        PROVE  FrameInv' /\ Lost(own') = Lost(own)
    <3>1. /\ Good(own') /\ OnlyAt(own, own', CapConv(c)) /\ Lost(own') = Lost(own)
      BY <2>3, ObtainEffect, SlotsDiffer
    <3>2. own'[CapCall(c)] = own[CapCall(c)]
      BY <3>1, SlotsDiffer DEF OnlyAt, Slots
    <3>3. QED BY <1>4, <2>1, <3>1, <3>2 DEF OnlyAt, Slots
  <2>4. QED BY <1>13, <2>2, <2>3 DEF ConvertForSurface
<1>14. CASE do_capture_callback(c)
  <2>1. cap[c] = "deliver" /\ own[CapCall(c)] = {}
    BY <1>3, <1>14 DEF do_capture_callback
  <2>2. \/ UNCHANGED own /\ cap'[c] = "call"
        \/ own' = recycled /\ cap'[c] = "loop"
        \/ \E f \in get_frame(own) : own' = Obtain(own, f, CapCall(c)) /\ cap'[c] = "converted"
    BY <1>6, <1>14 DEF do_capture_callback, recycled
  <2>3. CASE UNCHANGED own /\ cap'[c] = "call"
    BY <1>7, <2>1, <2>3
  <2>4. CASE own' = recycled /\ cap'[c] = "loop"
    <3>1. own'[CapCall(c)] = {}
      BY <1>5, <2>1, <2>4, SlotsDiffer DEF OnlyAt, Slots
    <3>2. QED BY <1>4, <1>5, <2>4, <3>1 DEF OnlyAt, Slots
  <2>5. ASSUME NEW f \in get_frame(own), own' = Obtain(own, f, CapCall(c)),
               cap'[c] = "converted"
        PROVE  FrameInv' /\ Lost(own') = Lost(own)
    <3>1. /\ Good(own') /\ OnlyAt(own, own', CapCall(c)) /\ Lost(own') = Lost(own)
      BY <2>1, <2>5, ObtainEffect, SlotsDiffer
    <3>2. QED BY <1>4, <2>5, <3>1 DEF OnlyAt, Slots
  <2>6. QED BY <2>2, <2>3, <2>4, <2>5
<1>15. CASE CallbackConverted(c)
  <2>1. \/ own' = Move(recycled, CapCall(c), CapFrame(c)) /\ cap'[c] = "call"
        \/ own' = recycle_frame(recycled, CapCall(c)) /\ cap'[c] = "loop"
    BY <1>6, <1>15 DEF CallbackConverted, recycled
  <2>2. CASE own' = Move(recycled, CapCall(c), CapFrame(c)) /\ cap'[c] = "call"
    <3> DEFINE n == Move(recycled, CapCall(c), CapFrame(c))
    <3>1. CapCall(c) \in Slots /\ CapFrame(c) \in Slots /\ CapCall(c) # CapFrame(c)
      BY SlotsDiffer
    <3>2. /\ Good(n) /\ n[CapCall(c)] = {}
          /\ (recycled[CapFrame(c)] = {} => Lost(n) = Lost(recycled))
          /\ \A r \in Local \ {CapCall(c), CapFrame(c)} : n[r] = recycled[r]
      BY <1>5, <3>1, MoveEffect
    <3> HIDE DEF n
    <3>3. own' = n
      BY <2>2 DEF n
    <3>4. QED BY <1>4, <1>5, <2>2, <3>2, <3>3 DEF OnlyAt, Slots
  <2>3. CASE own' = recycle_frame(recycled, CapCall(c)) /\ cap'[c] = "loop"
    <3>1. /\ Good(own') /\ own'[CapCall(c)] = {} /\ Lost(own') = Lost(recycled)
          /\ OnlyAt(recycled, own', CapCall(c))
      BY <1>5, <2>3, RecycleEffect, SlotsDiffer
    <3>2. own'[CapFrame(c)] = {}
      BY <1>5, <3>1, SlotsDiffer DEF OnlyAt, Slots
    <3>3. QED BY <1>4, <1>5, <2>3, <3>1, <3>2 DEF OnlyAt, Slots
  <2>4. QED BY <2>1, <2>2, <2>3
<1>16. CASE EndCallback(c)
  <2>1. own' = recycled /\ cap[c] = "calling" /\ cap'[c] = "loop"
    BY <1>6, <1>16 DEF EndCallback, recycled
  <2>2. own'[CapCall(c)] = {}
    BY <1>3, <1>5, <2>1, SlotsDiffer DEF OnlyAt, Slots
  <2>3. QED BY <1>4, <1>5, <2>1, <2>2 DEF OnlyAt, Slots
<1>17. CASE FinishSurface(c)
  <2>1. /\ Good(own') /\ OnlyAt(own, own', CapConv(c)) /\ Lost(own') = Lost(own)
    BY <1>17, RecycleEffect, SlotsDiffer DEF FinishSurface
  <2>2. cap[c] = "finish" /\ cap'[c] \in {"announce", "clearWindow"}
    BY <1>6, <1>17 DEF FinishSurface
  <2>3. own'[CapCall(c)] = own[CapCall(c)] /\ own'[CapFrame(c)] = own[CapFrame(c)]
    BY <2>1, SlotsDiffer DEF OnlyAt, Slots
  <2>4. QED BY <1>3, <1>4, <2>1, <2>2, <2>3 DEF OnlyAt, Slots
<1>18. QED
  BY <1>8, <1>9, <1>10, <1>11, <1>12, <1>13, <1>14, <1>15, <1>16, <1>17
     DEF CaptureStep, CaptureCheck, CaptureBranch, CaptureLoop, BeginBlit, EndBlit,
         BeginCallback, ClearCaptureWindow, Announce

-----------------------------------------------------------------------------
(***************************************************************************)
(* Lost frames.  The preview thread can lose one frame until it has seen   *)
(* that mIsRunning is false.                                               *)
(***************************************************************************)
MayLose ==
    \/ pv \in {"prepare", "clear", "spawn", "wait", "asleep", "decode", "decoded", "draw",
              "drawn", "offer"}
    \/ pv = "loop" /\ mIsRunning

LossInv == Cardinality(Lost(own)) + (IF MayLose THEN 1 ELSE 0) <= session

LEMMA LostIsFinite ==
    ASSUME NEW o PROVE Lost(o) \in SUBSET Frames /\ Cardinality(Lost(o)) \in Nat
<1>1. Lost(o) \in SUBSET Frames
  BY DEF Lost
<1>2. QED BY <1>1, FramesAreFinite

\* Only CreatePreviewThread, which counts a session, makes MayLose true.
LEMMA MayLoseOnlyInANewSession ==
    ASSUME BaseInv, [Next]_vars
    PROVE  \/ session' = session /\ (MayLose' => MayLose)
           \/ session' = session + 1
<1> USE DEF BaseInv, QuietInv
<1>1. CASE ControlCall \/ CtlStep
  <2> USE DEF CtlUnchanged
  <2>1. CASE CreatePreviewThread
    BY <2>1 DEF CreatePreviewThread
  <2>2. CASE startPreview
    BY <2>2 DEF startPreview, MayLose
  <2>3. CASE JoinPreview
    BY <2>3 DEF JoinPreview, MayLose
  <2>4. (UNCHANGED <<pv, session>> /\ (mIsRunning' => mIsRunning))
          \/ CreatePreviewThread \/ startPreview \/ JoinPreview
    BY <1>1 DEF ControlCall, CtlStep, setPreviewDisplay, stopPreview, StartFails,
       SignalPreview, SignalCapture, ReadCaptureHandle, JoinCapture, StopCleanup
  <2>5. QED BY <2>1, <2>2, <2>3, <2>4 DEF MayLose
<1>2. CASE UNCHANGED <<pv, session, mIsRunning>>
  BY <1>2 DEF MayLose
<1>3. CASE PreviewStep
  <2> USE DEF PvUnchanged
  <2>1. UNCHANGED <<session, mIsRunning>>
    BY <1>3 DEF PreviewStep, PreparePreview, ClearOldFrames, CreateCaptureThread,
       PreviewLoop, waitPreviewFrame, PreviewWoken, Decode, Decoded, draw_preview_one,
       Drawn, addCaptureFrame, PreviewExit, StopStreaming
  <2>2. CASE PreparePreview \/ ClearOldFrames \/ CreateCaptureThread \/ PreviewLoop
    BY <2>1, <2>2 DEF PreparePreview, ClearOldFrames, CreateCaptureThread, PreviewLoop, MayLose
  <2>3. CASE waitPreviewFrame \/ PreviewWoken
    BY <2>1, <2>3 DEF waitPreviewFrame, PreviewWoken, TakePreviewFrame, MayLose
  <2>4. CASE Decode \/ Decoded \/ draw_preview_one \/ Drawn \/ addCaptureFrame
    BY <2>1, <2>4 DEF Decode, Decoded, draw_preview_one, Drawn, addCaptureFrame, MayLose
  <2>5. CASE PreviewExit \/ StopStreaming
    BY <2>1, <2>5 DEF PreviewExit, StopStreaming, MayLose
  <2>6. QED BY <1>3, <2>2, <2>3, <2>4, <2>5 DEF PreviewStep
<1>4. CASE uvc_preview_frame_callback \/ DuplicateFails \/ addPreviewFrame
  BY <1>2, <1>4 DEF uvc_preview_frame_callback, DuplicateFails, addPreviewFrame, CbUnchanged,
     streamVars
<1>5. ASSUME NEW c \in Sessions, CaptureStep(c) PROVE UNCHANGED <<pv, session, mIsRunning>>
  BY <1>5, CaptureLeavesOthersAlone
     DEF CaptureStep, CapUnchanged, streamVars, DoCapture, CaptureCheck, CaptureBranch,
         CaptureLoop, waitCaptureFrame, CaptureWoken, ConvertForSurface, BeginBlit, EndBlit,
         do_capture_callback, CallbackConverted, BeginCallback, EndCallback, FinishSurface,
         ClearCaptureWindow, Announce
<1>6. CASE SetterCall \/ CallbackSetterWoken \/ DisplaySetterWoken
  BY <1>2, <1>6 DEF SetterCall, setFrameCallback, setCaptureDisplay, CallbackSetterWoken,
     DisplaySetterWoken, SetterUnchanged, streamVars
<1>7. QED
  BY <1>1, <1>2, <1>3, <1>4, <1>5, <1>6 DEF Next, ThreadStep, vars, streamVars

LEMMA FrameStep ==
    ASSUME BaseInv, FrameInv, LossInv, [Next]_vars
    PROVE  FrameInv' /\ LossInv'
<1>1. /\ session \in Nat /\ Cardinality(Lost(own)) \in Nat
      /\ Cardinality(Lost(own')) \in Nat
  BY LostIsFinite, PreviewAssumption DEF BaseInv, TypeRest
<1>2. ASSUME FrameInv', Lost(own') = Lost(own)
      PROVE  FrameInv' /\ LossInv'
  BY <1>1, <1>2, MayLoseOnlyInANewSession DEF LossInv
<1>3. CASE ControlCall \/ CtlStep
  BY <1>2, <1>3, CtlKeepsFrameInv
<1>4. CASE uvc_preview_frame_callback \/ DuplicateFails \/ addPreviewFrame
  BY <1>2, <1>4, CbKeepsFrameInv
<1>5. CASE PreviewStep
  <2>1. CASE Lost(own') = Lost(own)
    BY <1>2, <1>5, <2>1, PreviewKeepsFrameInv
  <2>2. CASE /\ addCaptureFrame /\ ~mIsRunning
             /\ Lost(own') \subseteq Lost(own) \cup own[Frame]
    <3>1. MayLose /\ ~MayLose' /\ session' = session
      BY <2>2 DEF addCaptureFrame, PvUnchanged, MayLose
    <3>2. own[Frame] \in SUBSET Frames /\ AtMostOne(own[Frame])
      BY SlotsDiffer DEF FrameInv, Good, Ownership, Slots, Local
    <3>3. Cardinality(Lost(own) \cup own[Frame]) <= Cardinality(Lost(own)) + 1
      BY <3>2, LostIsFinite, OneMore
    <3>4. /\ Cardinality(Lost(own')) <= Cardinality(Lost(own) \cup own[Frame])
          /\ Cardinality(Lost(own) \cup own[Frame]) \in Nat
      BY <2>2, <3>2, LostIsFinite, FramesAreFinite
    <3>5. LossInv'
      BY <1>1, <3>1, <3>3, <3>4 DEF LossInv
    <3>6. QED BY <1>5, <3>5, PreviewKeepsFrameInv
  <2>3. QED BY <1>5, <2>1, <2>2, PreviewKeepsFrameInv
<1>6. ASSUME NEW c \in Sessions, CaptureStep(c) PROVE FrameInv' /\ LossInv'
  BY <1>2, <1>6, CaptureKeepsFrameInv
<1>7. CASE UNCHANGED <<own, cb, pv, cap, session>>
  <2>1. FrameInv'
    BY <1>7 DEF FrameInv, CbSlot, PvSlots, CapSlots, OneThreadEach
  <2>2. QED BY <1>2, <1>7, <2>1
<1>8. CASE SetterCall \/ CallbackSetterWoken \/ DisplaySetterWoken
  BY <1>7, <1>8 DEF SetterCall, setFrameCallback, setCaptureDisplay, CallbackSetterWoken,
     DisplaySetterWoken, SetterUnchanged, capVars, streamVars
<1>9. QED
  BY <1>3, <1>4, <1>5, <1>6, <1>7, <1>8 DEF Next, ThreadStep, vars, capVars, streamVars

LEMMA InitiallyNoFrames ==
    ASSUME Init
    PROVE  FrameInv /\ LossInv
<1>1. /\ own \in Ownership /\ own[Heap] = Frames
      /\ \A p \in Places \ {Heap} : own[p] = {}
  BY PlacesAreDistinct DEF Init, InitWith, Ownership
<1>2. Cardinality({}) = 0
  BY FS_EmptySet
<1>3. Good(own)
  <2>1. own[Pool] = {} /\ own[PreviewQueue] = {} /\ \A p \in Slots : own[p] = {}
    BY <1>1, PlacesAreDistinct DEF Slots, Local
  <2>2. 0 <= FRAME_POOL_SZ /\ 0 <= MAX_FRAME
    BY PreviewAssumption DEF FRAME_POOL_SZ
  <2>3. QED BY <1>1, <1>2, <2>1, <2>2 DEF Good, AtMostOne
<1>4. CbSlot /\ PvSlots /\ CapSlots
  BY <1>1, SlotsDiffer DEF CbSlot, PvSlots, CapSlots, Slots, Local
<1>5. OneThreadEach /\ ~MayLose /\ session = 0
  BY DEF Init, InitWith, OneThreadEach, MayLose
<1>6. Lost(own) = {}
  BY <1>1, PlacesAreDistinct DEF Lost
<1>7. QED
  BY <1>2, <1>3, <1>4, <1>5, <1>6 DEF FrameInv, LossInv

LEMMA FramesInvariant == Spec => [](BaseInv /\ FrameInv /\ LossInv)
<1>1. Init => BaseInv /\ FrameInv /\ LossInv
  BY InitiallyOwn, InitiallyTyped, InitiallyQuiet, InitiallyNoFrames DEF BaseInv
<1>2. BaseInv /\ FrameInv /\ LossInv /\ [Next]_vars => (BaseInv /\ FrameInv /\ LossInv)'
  BY OwnStep, TypeStep, QuietStep, FrameStep DEF BaseInv
<1>3. QED BY <1>1, <1>2, PTL DEF Spec

\* previewFrames never grows beyond MAX_FRAME, the pool never beyond
\* FRAME_POOL_SZ, and captureQueu keeps one frame only.
THEOREM QueuesAreBounded == Spec => []QueueBounds
<1>1. FrameInv => QueueBounds
  <2> SUFFICES ASSUME FrameInv PROVE QueueBounds
    OBVIOUS
  <2>1. own[CaptureQueue] \in SUBSET Frames /\ AtMostOne(own[CaptureQueue])
    BY SlotsDiffer DEF FrameInv, Good, Ownership, Slots, Local
  <2>2. Cardinality({} \cup own[CaptureQueue]) <= Cardinality({}) + 1
    BY <2>1, OneMore
  <2>3. {} \cup own[CaptureQueue] = own[CaptureQueue] /\ Cardinality({}) = 0
    BY FS_EmptySet
  <2>4. QED
    BY <2>2, <2>3 DEF QueueBounds, FrameInv, Good
<1>2. QED BY <1>1, FramesInvariant, PTL

\* At most one frame is lost for each time the preview was started.
THEOREM LossIsBounded == Spec => []BoundedLoss
<1>1. BaseInv /\ LossInv => BoundedLoss
  BY LostIsFinite, PreviewAssumption DEF BaseInv, TypeRest, LossInv, BoundedLoss
<1>2. QED BY <1>1, FramesInvariant, PTL

-----------------------------------------------------------------------------
(***************************************************************************)
(* How many frames the pipeline can hold while do_preview decodes one.     *)
(***************************************************************************)
\* Converted is the frame that do_preview asks for then.
OtherSlots == Slots \ {Converted}

LEMMA NoMoreThanTheSum ==
    ASSUME NEW S, IsFiniteSet(S), NEW T, IsFiniteSet(T)
    PROVE  /\ IsFiniteSet(S \cup T)
           /\ Cardinality(S) \in Nat /\ Cardinality(T) \in Nat /\ Cardinality(S \cup T) \in Nat
           /\ Cardinality(S \cup T) <= Cardinality(S) + Cardinality(T)
<1>1. IsFiniteSet(S \cap T) /\ IsFiniteSet(S \cup T)
  BY FS_Intersection, FS_Union
<1>2. /\ Cardinality(S) \in Nat /\ Cardinality(T) \in Nat
      /\ Cardinality(S \cap T) \in Nat /\ Cardinality(S \cup T) \in Nat
  BY <1>1, FS_CardinalityType
<1>3. Cardinality(S \cup T) = Cardinality(S) + Cardinality(T) - Cardinality(S \cap T)
  BY FS_Union
<1>4. QED BY <1>1, <1>2, <1>3

\* One place of a kind for every session.
LEMMA OnePerSession ==
    ASSUME NEW g, g = [c \in Sessions |-> g[c]]
    PROVE  /\ IsFiniteSet({g[c] : c \in Sessions})
           /\ Cardinality({g[c] : c \in Sessions}) <= MaxSessions
<1> DEFINE T == {g[c] : c \in Sessions}
<1>1. IsFiniteSet(Sessions) /\ Cardinality(Sessions) = MaxSessions
  BY FS_Interval, PreviewAssumption DEF Sessions
<1>2. g \in [Sessions -> T] /\ \A t \in T : \E c \in Sessions : g[c] = t
  OBVIOUS
<1>3. g \in Surjection(Sessions, T)
  BY <1>2 DEF Surjection
<1>4. QED BY <1>1, <1>3, FS_Surjection

LEMMA OtherSlotsCount ==
    IsFiniteSet(OtherSlots) /\ Cardinality(OtherSlots) <= 3 + 3 * MaxSessions
<1> DEFINE A == {CapFrame(c) : c \in Sessions}
           B == {CapConv(c) : c \in Sessions}
           C == {CapCall(c) : c \in Sessions}
           D == {CaptureQueue, Copy, Frame}
<1>1. IsFiniteSet(A) /\ Cardinality(A) <= MaxSessions
  <2> DEFINE g == [c \in Sessions |-> CapFrame(c)]
  <2>1. {g[c] : c \in Sessions} = A OBVIOUS
  <2>2. g = [c \in Sessions |-> g[c]] OBVIOUS
  <2> HIDE DEF g, A
  <2>3. QED BY <2>1, <2>2, OnePerSession
<1>2. IsFiniteSet(B) /\ Cardinality(B) <= MaxSessions
  <2> DEFINE g == [c \in Sessions |-> CapConv(c)]
  <2>1. {g[c] : c \in Sessions} = B OBVIOUS
  <2>2. g = [c \in Sessions |-> g[c]] OBVIOUS
  <2> HIDE DEF g, B
  <2>3. QED BY <2>1, <2>2, OnePerSession
<1>3. IsFiniteSet(C) /\ Cardinality(C) <= MaxSessions
  <2> DEFINE g == [c \in Sessions |-> CapCall(c)]
  <2>1. {g[c] : c \in Sessions} = C OBVIOUS
  <2>2. g = [c \in Sessions |-> g[c]] OBVIOUS
  <2> HIDE DEF g, C
  <2>3. QED BY <2>1, <2>2, OnePerSession
<1>4. IsFiniteSet(D) /\ Cardinality(D) <= 3
  <2>1. /\ IsFiniteSet({CaptureQueue}) /\ IsFiniteSet({Copy}) /\ IsFiniteSet({Frame})
        /\ Cardinality({CaptureQueue}) = 1 /\ Cardinality({Copy}) = 1 /\ Cardinality({Frame}) = 1
    BY FS_Singleton
  <2>2. /\ IsFiniteSet({CaptureQueue} \cup {Copy})
        /\ Cardinality({CaptureQueue} \cup {Copy}) <= 2
    BY <2>1, NoMoreThanTheSum
  <2>3. /\ IsFiniteSet({CaptureQueue} \cup {Copy} \cup {Frame})
        /\ Cardinality({CaptureQueue} \cup {Copy} \cup {Frame}) <= 3
    <3> DEFINE S == {CaptureQueue} \cup {Copy}
               T == {Frame}
    <3>1. IsFiniteSet(S) /\ Cardinality(S) <= 2 /\ IsFiniteSet(T) /\ Cardinality(T) = 1
      BY <2>1, <2>2
    <3> HIDE DEF S, T
    <3>2. IsFiniteSet(S \cup T) /\ Cardinality(S \cup T) <= 3
      BY <3>1, NoMoreThanTheSum
    <3>3. QED BY <3>2 DEF S, T
  <2>4. {CaptureQueue} \cup {Copy} \cup {Frame} = D
    OBVIOUS
  <2>5. QED BY <2>3, <2>4
<1>5. OtherSlots \subseteq (D \cup A) \cup (B \cup C)
  BY DEF OtherSlots, Slots, Local, Places
<1> HIDE DEF A, B, C, D
<1>6. MaxSessions \in Nat
  BY PreviewAssumption
<1>7. IsFiniteSet(D \cup A) /\ Cardinality(D \cup A) <= 3 + MaxSessions
  BY <1>1, <1>4, <1>6, NoMoreThanTheSum
<1>8. IsFiniteSet(B \cup C) /\ Cardinality(B \cup C) <= 2 * MaxSessions
  BY <1>2, <1>3, <1>6, NoMoreThanTheSum
<1>9. /\ IsFiniteSet((D \cup A) \cup (B \cup C))
      /\ Cardinality((D \cup A) \cup (B \cup C)) <= 3 + 3 * MaxSessions
  <2> DEFINE S == D \cup A
             T == B \cup C
  <2> HIDE DEF S, T
  <2>1. /\ IsFiniteSet(S) /\ Cardinality(S) <= 3 + MaxSessions
        /\ IsFiniteSet(T) /\ Cardinality(T) <= 2 * MaxSessions
    BY <1>7, <1>8 DEF S, T
  <2>2. IsFiniteSet(S \cup T) /\ Cardinality(S \cup T) <= 3 + 3 * MaxSessions
    BY <1>6, <2>1, NoMoreThanTheSum
  <2>3. QED BY <2>2 DEF S, T
<1>10. QED
  BY <1>5, <1>6, <1>9, FS_Subset, FS_CardinalityType

\* The slots hold at most one frame each.
LEMMA HeldCount ==
    ASSUME NEW o, Good(o)
    PROVE  LET held == {f \in Frames : \E p \in OtherSlots : f \in o[p]}
           IN  IsFiniteSet(held) /\ Cardinality(held) <= 3 + 3 * MaxSessions
<1> DEFINE held == {f \in Frames : \E p \in OtherSlots : f \in o[p]}
           place == [f \in held |-> CHOOSE p \in OtherSlots : f \in o[p]]
<1>1. \A f \in held : place[f] \in OtherSlots /\ f \in o[place[f]]
  OBVIOUS
<1>2. \A f, g \in held : place[f] = place[g] => f = g
  <2>1. \A p \in OtherSlots : AtMostOne(o[p])
    BY DEF Good, OtherSlots
  <2>2. QED BY <1>1, <2>1 DEF AtMostOne
<1>3. place \in Injection(held, OtherSlots)
  <2>1. place \in [held -> OtherSlots]
    BY <1>1
  <2>2. QED BY <1>2, <2>1 DEF Injection, IsInjective
<1> HIDE DEF held, place
<1>4. IsFiniteSet(held) /\ Cardinality(held) <= Cardinality(OtherSlots)
  BY <1>3, OtherSlotsCount, FS_Injection
<1>5. QED
  BY <1>4, OtherSlotsCount, FS_CardinalityType, PreviewAssumption DEF held

\* With more frames than the preview queue, the places of the three kinds of
\* threads and the earlier starts can take away, get_frame always has a frame
\* for do_preview, which does not test what it returns (UVCPreview.cpp:574).
THEOREM DecodeFrameIsAvailable ==
    ASSUME Cardinality(Frames) > MAX_FRAME + 4 * MaxSessions + 2
    PROVE  Spec => []DecodeFrameAvailable
<1>1. ASSUME BaseInv, FrameInv, LossInv, pv = "decode", get_frame(own) = {}
      PROVE  FALSE
  <2> DEFINE held == {f \in Frames : \E p \in OtherSlots : f \in own[p]}
             queued == own[PreviewQueue]
             lost == Lost(own)
  <2>1. own[Pool] = {} /\ own[Heap] = {}
    BY <1>1 DEF get_frame
  <2>2. own[Converted] = {}
    BY <1>1 DEF FrameInv, PvSlots
  <2>3. Frames \subseteq (held \cup queued) \cup lost
    BY <2>1, <2>2 DEF Lost, OtherSlots, Slots, Local
  <2>4. IsFiniteSet(held) /\ Cardinality(held) <= 3 + 3 * MaxSessions
    BY <1>1, HeldCount DEF FrameInv
  <2>5. IsFiniteSet(queued) /\ Cardinality(queued) <= MAX_FRAME
    <3>1. queued \in SUBSET Frames
      BY <1>1, PlacesAreDistinct DEF FrameInv, Good, Ownership, Local
    <3>2. QED BY <1>1, <3>1, FramesAreFinite DEF FrameInv, Good
  <2>6. IsFiniteSet(lost) /\ Cardinality(lost) <= MaxSessions - 1
    <3>1. MayLose
      BY <1>1 DEF MayLose
    <3>2. session \in 0 .. MaxSessions /\ Cardinality(lost) + 1 <= session
      BY <1>1, <3>1 DEF BaseInv, TypeRest, LossInv
    <3>3. lost \in SUBSET Frames /\ Cardinality(lost) \in Nat
      BY LostIsFinite
    <3>4. QED BY <3>2, <3>3, FramesAreFinite, PreviewAssumption
  <2> HIDE DEF held, queued, lost
  <2>7. /\ IsFiniteSet(held \cup queued)
        /\ Cardinality(held \cup queued) <= 3 + 3 * MaxSessions + MAX_FRAME
    BY <2>4, <2>5, NoMoreThanTheSum, PreviewAssumption
  <2>8. /\ IsFiniteSet((held \cup queued) \cup lost)
        /\ Cardinality((held \cup queued) \cup lost)
             <= 2 + 4 * MaxSessions + MAX_FRAME
    <3> DEFINE S == held \cup queued
    <3> HIDE DEF S
    <3>1. IsFiniteSet(S) /\ Cardinality(S) <= 3 + 3 * MaxSessions + MAX_FRAME
      BY <2>7 DEF S
    <3>2. /\ IsFiniteSet(S \cup lost)
          /\ Cardinality(S \cup lost) <= 2 + 4 * MaxSessions + MAX_FRAME
      BY <2>6, <3>1, NoMoreThanTheSum, PreviewAssumption
    <3>3. QED BY <3>2 DEF S
  <2>9. Cardinality(Frames) <= Cardinality((held \cup queued) \cup lost)
    BY <2>3, <2>8, FS_Subset
  <2>10. /\ Cardinality(Frames) \in Nat
         /\ Cardinality((held \cup queued) \cup lost) \in Nat
    BY <2>8, FS_CardinalityType, PreviewAssumption
  <2>11. QED
    BY <2>8, <2>9, <2>10, PreviewAssumption
<1>2. BaseInv /\ FrameInv /\ LossInv => DecodeFrameAvailable
  BY <1>1 DEF DecodeFrameAvailable
<1>3. QED BY <1>2, FramesInvariant, PTL
-----------------------------------------------------------------------------
(***************************************************************************)
(* References to capture windows.  WindowsReferenced is inductive beside   *)
(* the types; that a capture thread is new when it is created is needed so *)
(* that its creation does not end a Clearing.                              *)
(***************************************************************************)
\* What WindowsReferenced depends on.
windowState == <<windowVars, newWindow, cap>>

LEMMA NobodyElseTouchesWindows ==
    ASSUME BaseInv, OneThreadEach,
           ControlCall \/ (CtlStep /\ ~StopCleanup) \/ uvc_preview_frame_callback
             \/ DuplicateFails \/ addPreviewFrame \/ PreviewStep \/ CallbackSetterWoken
             \/ \E obj \in Callbacks \cup {None} : setFrameCallback(obj)
    PROVE  UNCHANGED <<windowVars, newWindow>> /\ Clearing' = Clearing
<1> USE DEF CtlUnchanged, CbUnchanged, PvUnchanged, SetterUnchanged, setterVars, capVars,
            windowVars
<1>1. CASE CreateCaptureThread
  <2>1. /\ session \in Sessions /\ cap[session] = "none" /\ cap \in [Sessions -> CapStates]
        /\ cap' = [cap EXCEPT ![session] = "start"]
    BY <1>1 DEF CreateCaptureThread, OneThreadEach, BaseInv, TypeRest
  <2>2. \A c \in Sessions : cap'[c] = "clearWindow" <=> cap[c] = "clearWindow"
    BY <2>1
  <2>3. UNCHANGED <<windowVars, newWindow>>
    BY <1>1 DEF CreateCaptureThread
  <2>4. QED BY <2>2, <2>3 DEF Clearing
<1>2. CASE UNCHANGED windowState
  BY <1>2 DEF Clearing, windowState
<1>3. CASE ControlCall \/ (CtlStep /\ ~StopCleanup)
  BY <1>2, <1>3 DEF windowState, ControlCall, CtlStep, setPreviewDisplay, startPreview,
     stopPreview, CreatePreviewThread, StartFails, SignalPreview, SignalCapture,
     ReadCaptureHandle, JoinCapture, JoinPreview
<1>4. CASE uvc_preview_frame_callback \/ DuplicateFails \/ addPreviewFrame
  BY <1>2, <1>4 DEF windowState, uvc_preview_frame_callback, DuplicateFails, addPreviewFrame
<1>5. CASE PreviewStep /\ ~CreateCaptureThread
  BY <1>2, <1>5 DEF windowState, PreviewStep, PreparePreview, ClearOldFrames, PreviewLoop,
     waitPreviewFrame, PreviewWoken, Decode, Decoded, draw_preview_one, Drawn,
     addCaptureFrame, PreviewExit, StopStreaming
<1>6. CASE CallbackSetterWoken \/ \E obj \in Callbacks \cup {None} : setFrameCallback(obj)
  BY <1>2, <1>6 DEF windowState, CallbackSetterWoken, setFrameCallback
<1>7. QED BY <1>1, <1>3, <1>4, <1>5, <1>6

\* Of the steps of a capture thread, two touch the windows.
LEMMA CaptureTouchesWindows ==
    ASSUME BaseInv, NEW c \in Sessions, CaptureStep(c),
           ~FinishSurface(c), ~ClearCaptureWindow(c)
    PROVE  UNCHANGED <<windowVars, newWindow>> /\ Clearing' = Clearing
<1> USE DEF CapUnchanged, setterVars
<1>1. UNCHANGED <<windowVars, newWindow>>
  <2>1. CASE DoCapture(c) \/ CaptureCheck(c) \/ CaptureBranch(c) \/ CaptureLoop(c)
    BY <2>1 DEF DoCapture, CaptureCheck, CaptureBranch, CaptureLoop
  <2>2. CASE waitCaptureFrame(c) \/ CaptureWoken(c) \/ ConvertForSurface(c)
    BY <2>2 DEF waitCaptureFrame, CaptureWoken, ConvertForSurface
  <2>3. CASE BeginBlit(c) \/ EndBlit(c) \/ BeginCallback(c) \/ EndCallback(c)
    BY <2>3 DEF BeginBlit, EndBlit, BeginCallback, EndCallback
  <2>4. CASE do_capture_callback(c) \/ CallbackConverted(c) \/ Announce(c)
    BY <2>4 DEF do_capture_callback, CallbackConverted, Announce
  <2>5. QED BY <2>1, <2>2, <2>3, <2>4 DEF CaptureStep
<1>2. /\ cap[c] # "clearWindow"
      /\ \E pc \in CapStates \ {"clearWindow"} : cap' = [cap EXCEPT ![c] = pc]
  <2>1. CASE DoCapture(c) \/ CaptureCheck(c) \/ CaptureBranch(c) \/ CaptureLoop(c)
    BY <2>1 DEF DoCapture, CaptureCheck, CaptureBranch, CaptureLoop, CapStates
  <2>2. CASE waitCaptureFrame(c) \/ CaptureWoken(c)
    BY <2>2 DEF waitCaptureFrame, CaptureWoken, TakeCaptureFrame, CapStates
  <2>3. CASE ConvertForSurface(c)
    BY <2>3 DEF ConvertForSurface, CapStates
  <2>4. CASE BeginBlit(c) \/ EndBlit(c) \/ BeginCallback(c) \/ EndCallback(c)
    BY <2>4 DEF BeginBlit, EndBlit, BeginCallback, EndCallback, CapStates
  <2>5. CASE do_capture_callback(c) \/ CallbackConverted(c) \/ Announce(c)
    BY <2>5 DEF do_capture_callback, CallbackConverted, Announce, CapStates
  <2>6. QED BY <2>1, <2>2, <2>3, <2>4, <2>5 DEF CaptureStep
<1>3. \A d \in Sessions : cap'[d] = "clearWindow" <=> cap[d] = "clearWindow"
  BY <1>2 DEF BaseInv, TypeRest
<1>4. QED BY <1>1, <1>3 DEF Clearing

\* Installing v, which somebody holds a reference for.
LEMMA InstallKeepsReferences ==
    ASSUME BaseInv, ~Clearing, Clearing' = Clearing,
           NEW refs \in [CaptureWindows -> Int], NEW v \in CaptureWindows \cup {None},
           InstallWindow(refs, v),
           \A w \in CaptureWindows :
               refs[w] >= (IF mCaptureWindow = w THEN 1 ELSE 0) + (IF v = w THEN 1 ELSE 0)
                          + (IF newWindow' = w THEN 1 ELSE 0)
    PROVE  \A w \in CaptureWindows : windowRefs'[w] >= Uses(w)'
<1> SUFFICES ASSUME NEW w \in CaptureWindows
             PROVE  windowRefs'[w] >= Uses(w)'
  OBVIOUS
<1>1. Uses(w)' = (IF v = w THEN 1 ELSE 0) + (IF newWindow' = w THEN 1 ELSE 0)
  BY DEF Uses, InstallWindow
<1>2. mCaptureWindow \in CaptureWindows \cup {None}
  BY DEF BaseInv, TypeRest
<1>3. windowRefs'[w] = IF v # mCaptureWindow /\ w = mCaptureWindow THEN refs[w] - 1 ELSE refs[w]
  BY <1>2, PreviewAssumption DEF InstallWindow, ReleaseWindow
<1>4. QED BY <1>1, <1>3

LEMMA ReferencesStep ==
    ASSUME BaseInv, OneThreadEach, WindowsReferenced, [Next]_vars
    PROVE  WindowsReferenced'
<1> SUFFICES ASSUME ~windowRaced'
             PROVE  \A w \in CaptureWindows : windowRefs'[w] >= Uses(w)'
  BY DEF WindowsReferenced
<1> USE DEF WindowsReferenced
<1>a. /\ windowRefs \in [CaptureWindows -> Int] /\ cap \in [Sessions -> CapStates]
      /\ mCaptureWindow \in CaptureWindows \cup {None}
      /\ newWindow \in CaptureWindows \cup {None}
  BY DEF BaseInv, TypeRest
<1>b. \A w \in CaptureWindows : w # None
  BY PreviewAssumption
<1>1. CASE UNCHANGED <<windowVars, newWindow>> /\ Clearing' = Clearing
  BY <1>1 DEF windowVars, Uses
<1>2. CASE StopCleanup
  <2>1. /\ ~Clearing /\ ~windowRaced /\ mCaptureWindow' = None
        /\ windowRefs' = ReleaseWindow(windowRefs, mCaptureWindow)
        /\ UNCHANGED <<cap, newWindow>>
    BY <1>2 DEF StopCleanup, CtlUnchanged, capVars, setterVars
  <2>2. ASSUME NEW w \in CaptureWindows PROVE windowRefs'[w] >= Uses(w)'
    <3>1. Uses(w)' = IF newWindow = w THEN 1 ELSE 0
      BY <1>b, <2>1 DEF Uses
    <3>2. windowRefs'[w] = IF w = mCaptureWindow THEN windowRefs[w] - 1 ELSE windowRefs[w]
      BY <1>a, <1>b, <2>1 DEF ReleaseWindow
    <3>3. windowRefs[w] >= (IF mCaptureWindow = w THEN 1 ELSE 0) + (IF newWindow = w THEN 1 ELSE 0)
      BY <2>1 DEF Uses
    <3>4. QED BY <1>a, <3>1, <3>2, <3>3
  <2>3. QED BY <2>2
<1>3. ASSUME NEW c \in Sessions, FinishSurface(c)
      PROVE  \A w \in CaptureWindows : windowRefs'[w] >= Uses(w)'
  <2>1. /\ ~Clearing /\ ~windowRaced /\ UNCHANGED <<mCaptureWindow, newWindow>>
        /\ windowRefs' = ReleaseWindow(windowRefs, mCaptureWindow)
        /\ cap' = [cap EXCEPT ![c] = IF mCaptureWindow = None THEN "announce"
                                                              ELSE "clearWindow"]
    BY <1>3 DEF FinishSurface, CapUnchanged, setterVars
  <2>2. mCaptureWindow # None => Clearing'
    BY <1>a, <2>1 DEF Clearing
  <2>3. ASSUME NEW w \in CaptureWindows PROVE windowRefs'[w] >= Uses(w)'
    <3>1. Uses(w)' = IF newWindow = w THEN 1 ELSE 0
      BY <1>b, <2>1, <2>2 DEF Uses
    <3>2. windowRefs'[w] = IF w = mCaptureWindow THEN windowRefs[w] - 1 ELSE windowRefs[w]
      BY <1>a, <1>b, <2>1 DEF ReleaseWindow
    <3>3. windowRefs[w] >= (IF mCaptureWindow = w THEN 1 ELSE 0) + (IF newWindow = w THEN 1 ELSE 0)
      BY <2>1 DEF Uses
    <3>4. QED BY <1>a, <3>1, <3>2, <3>3
  <2>4. QED BY <2>3
<1>4. ASSUME NEW c \in Sessions, ClearCaptureWindow(c)
      PROVE  \A w \in CaptureWindows : windowRefs'[w] >= Uses(w)'
  <2>1. /\ ~windowRaced /\ mCaptureWindow' = None /\ UNCHANGED <<windowRefs, newWindow>>
    BY <1>4 DEF ClearCaptureWindow, CapUnchanged, setterVars
  <2>2. Clearing
    BY <1>4 DEF ClearCaptureWindow, Clearing
  <2>3. \A w \in CaptureWindows : Uses(w)' = Uses(w)
    BY <1>b, <2>1, <2>2 DEF Uses
  <2>4. QED BY <2>1, <2>3
<1>5. ASSUME NEW v \in CaptureWindows \cup {None}, setCaptureDisplay(v)
      PROVE  \A w \in CaptureWindows : windowRefs'[w] >= Uses(w)'
  <2> DEFINE acquired == IF v = None THEN windowRefs ELSE [windowRefs EXCEPT ![v] = @ + 1]
  <2>1. /\ acquired \in [CaptureWindows -> Int]
        /\ \A w \in CaptureWindows :
              acquired[w] = windowRefs[w] + (IF v = w THEN 1 ELSE 0)
    BY <1>a, <1>b
  <2>2. Clearing' = Clearing
    BY <1>5 DEF setCaptureDisplay, SetterUnchanged, capVars, Clearing
  <2>3. CASE mIsRunning /\ mIsCapturing /\ mCaptureWindow # None
    <3>1. /\ ~windowRaced /\ newWindow' = v /\ windowRefs' = acquired /\ UNCHANGED mCaptureWindow
      BY <1>5, <2>3 DEF setCaptureDisplay
    <3>2. ASSUME NEW w \in CaptureWindows PROVE windowRefs'[w] >= Uses(w)'
      <4>1. windowRefs[w] >= (IF mCaptureWindow = w /\ ~Clearing THEN 1 ELSE 0)
                              + (IF newWindow = w THEN 1 ELSE 0)
        BY <3>1 DEF Uses
      <4>2. Uses(w)' = (IF mCaptureWindow = w /\ ~Clearing THEN 1 ELSE 0)
                        + (IF v = w THEN 1 ELSE 0)
        BY <2>2, <3>1 DEF Uses
      <4> HIDE DEF acquired
      <4>3. QED BY <1>a, <2>1, <3>1, <4>1, <4>2
    <3>3. QED BY <3>2
  <2>4. CASE ~(mIsRunning /\ mIsCapturing /\ mCaptureWindow # None)
    <3>1. InstallWindow(acquired, v) /\ UNCHANGED newWindow
      BY <1>5, <2>4 DEF setCaptureDisplay
    <3>2. ~Clearing /\ ~windowRaced
      BY <3>1 DEF InstallWindow
    <3>3. newWindow' = newWindow
      BY <3>1
    <3>4. \A w \in CaptureWindows :
            windowRefs[w] >= (IF mCaptureWindow = w THEN 1 ELSE 0)
                             + (IF newWindow = w THEN 1 ELSE 0)
      BY <3>2 DEF Uses
    <3> HIDE DEF acquired
    <3>5. \A w \in CaptureWindows :
            acquired[w] >= (IF mCaptureWindow = w THEN 1 ELSE 0) + (IF v = w THEN 1 ELSE 0)
                           + (IF newWindow' = w THEN 1 ELSE 0)
      BY <1>a, <2>1, <3>3, <3>4
    <3>6. QED BY <2>1, <2>2, <3>1, <3>2, <3>5, InstallKeepsReferences
  <2>5. QED BY <2>3, <2>4
<1>6. CASE DisplaySetterWoken
  <2>1. InstallWindow(windowRefs, newWindow) /\ newWindow' = None
    BY <1>6 DEF DisplaySetterWoken
  <2>2. ~Clearing /\ ~windowRaced
    BY <2>1 DEF InstallWindow
  <2>3. Clearing' = Clearing
    BY <1>6 DEF DisplaySetterWoken, SetterUnchanged, capVars, Clearing
  <2>4. \A w \in CaptureWindows :
          windowRefs[w] >= (IF mCaptureWindow = w THEN 1 ELSE 0)
                           + (IF newWindow = w THEN 1 ELSE 0)
                           + (IF newWindow' = w THEN 1 ELSE 0)
    BY <1>b, <2>1, <2>2 DEF Uses
  <2>5. QED BY <1>a, <2>1, <2>2, <2>3, <2>4, InstallKeepsReferences
<1>7. CASE UNCHANGED vars
  BY <1>1, <1>7 DEF vars, windowVars, setterVars, capVars, Clearing
<1>8. QED
  BY <1>1, <1>2, <1>3, <1>4, <1>5, <1>6, <1>7, NobodyElseTouchesWindows, CaptureTouchesWindows
     DEF Next, ThreadStep, SetterCall, CtlStep, CaptureStep

\* However setters, stops and capture threads interleave, every capture window
\* that is in use or about to be is referenced, unless a window was changed while
\* a capture thread was between releasing and forgetting it (UVCPreview.cpp:860).
THEOREM WindowsAreReferenced == Spec => []WindowsReferenced
<1>1. Init => WindowsReferenced
  BY PreviewAssumption DEF Init, InitWith, WindowsReferenced, Uses
<1>2. BaseInv /\ FrameInv /\ WindowsReferenced /\ [Next]_vars => WindowsReferenced'
  BY ReferencesStep DEF FrameInv
<1>3. QED BY <1>1, <1>2, FramesInvariant, PTL DEF Spec
=============================================================================
