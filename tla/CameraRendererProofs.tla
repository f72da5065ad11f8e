------------------------ MODULE CameraRendererProofs ------------------------
(***************************************************************************)
(* Proofs about CameraRenderer for any sizes and pictures, any finite set  *)
(* of surfaces and any number of operations: types, NoDeadlockFromStopped, *)
(* SlavesAsAsked and NoStaleSurface.                                       *)
(*                                                                         *)
(* The first inductive invariant, IInv, says, besides the types, that the  *)
(* argument of an operation is of its kind (ArgOK), that whoever is in     *)
(* startPreview owns CameraInternal.class (CameraLocked), and that         *)
(* mIsPreviewing stays FALSE while the client starts a stopped preview, so *)
(* that the GL thread stays out of startPreview (CalmKept).                *)
(*                                                                         *)
(* The second, RendererInv, is about the renderer's messages.  A renderer  *)
(* that is there was not told to quit (HolderKept); the last message about *)
(* a slave surface asks for what was asked last, and the surfaces no       *)
(* message is about are as asked (SlavesKept).  GlPlaced says where the GL *)
(* thread holds mLock and has made a surface; while the client is in       *)
(* startPreview the GL thread makes the surface the client asked for and   *)
(* no other (AloneKept); otherwise the camera writes into the current one  *)
(* (FreshKept).                                                            *)
(***************************************************************************)
EXTENDS CameraRenderer, FiniteSetTheorems, TLAPS

\* The argument of an operation under way.
ArgOK ==
    /\ pc["client"] \in {"addSurface", "removeSurface"} => arg \in Surfaces
    /\ pc["client"] \in {"useCapture", "postCapture"} => arg \in Pictures

\* The owner of CameraInternal.class.
CameraLocked ==
    /\ pc["client"] \in StartPlaces \cup {"resetWait"} => lock["CameraInternal"] = "client"
    /\ pc["gl"] \in StartPlaces => lock["CameraInternal"] = "gl"

\* The client starts a preview that was stopped: nobody else does.
CalmKept ==
    calm /\ pc["client"] \in StartPlaces =>
        ~mIsPreviewing /\ pc["gl"] # "startPreview"

\* The types of the flags and those of everything else.
FlagsOK ==
    /\ mUVCCamera \in BOOLEAN /\ mIsPreviewing \in BOOLEAN /\ mImageCapture \in BOOLEAN
    /\ mRendererHolder \in BOOLEAN /\ running \in BOOLEAN /\ mPrimarySurface \in BOOLEAN
    /\ mIsFirstFrameRendered \in BOOLEAN /\ quit \in BOOLEAN
    /\ listed \in BOOLEAN /\ removal \in BOOLEAN /\ muddled \in BOOLEAN
    /\ calm \in BOOLEAN /\ overlap \in BOOLEAN
DataOK ==
    /\ mCurrentSize \in Sizes /\ display \in {"none", "current", "old"}
    /\ mVideoSize \in Sizes /\ mSlaveSurfaces \subseteq Surfaces
    /\ glQueue \in Seq(Messages) /\ valid \subseteq Surfaces /\ failures \in 0..MaxFailures
    /\ picture \in [Pictures -> {"none", "asked", "posted", "dropped", "saving", "answered"}]
    /\ lock \in [Locks -> Threads \cup {NoThread}]
    /\ pc \in [Threads -> StartPlaces \cup ClientPlaces \cup GlPlaces \cup ListenerPlaces]
    /\ got \in [Starters -> {"none", "current", "old"}]
    /\ ops \in 0..MaxOps /\ arg \in Surfaces \cup Pictures \cup {NoArg}
    /\ added \subseteq Surfaces /\ overtaken \subseteq Surfaces

\* The inductive invariant.
IInv == TypeOK /\ ArgOK /\ CameraLocked /\ CalmKept

\* What Handler.post and the next message do to the queue.
LEMMA PostType ==
  ASSUME NEW ms \in Seq(Messages), TypeOK, Post(ms)
  PROVE  glQueue' \in Seq(Messages)
<1>1. glQueue \o ms \in Seq(Messages) BY DEF TypeOK
<1> QED BY <1>1 DEF Post, TypeOK

LEMMA HandleType ==
  ASSUME NEW what, TypeOK, Handle(what)
  PROVE  Head(glQueue) \in Messages /\ Tail(glQueue) \in Seq(Messages)
BY DEF Handle, TypeOK

LEMMA MessageTypes ==
  /\ \A what \in {"recreate", "removeAll", "release"} :
        Message(what, NoArg) \in Messages
  /\ \A z \in Sizes : Message("updateSize", z) \in Messages
  /\ \A what \in {"add", "remove"} : \A s \in Surfaces : Message(what, s) \in Messages
  /\ \A p \in Pictures : Message("capture", p) \in Messages
BY DEF Message, Messages

\* The flags keep their types in the actions that are the largest.
LEMMA FlagsClose ==
  ASSUME NEW t \in {"client", "listener"}, FlagsOK, CloseCamera(t)
  PROVE  FlagsOK'
<1>1. /\ UNCHANGED <<mIsPreviewing, mImageCapture, mRendererHolder, mPrimarySurface,
                     mIsFirstFrameRendered, quit>>
      /\ UNCHANGED <<listed, muddled, calm, overlap>>
  BY DEF CloseCamera, primary, looper, history
<1>2. CASE mUVCCamera /\ Closed
  <2>1. mUVCCamera' = FALSE /\ running' = FALSE /\ removal' = TRUE BY <1>2 DEF Closed
  <2> QED BY <1>1, <2>1, ZenonT(60) DEF FlagsOK
<1>3. CASE ~mUVCCamera /\ UNCHANGED <<mUVCCamera, running, display, removal>>
  <2>1. UNCHANGED <<mUVCCamera, running, removal>> BY <1>3
  <2> QED BY <1>1, <2>1 DEF FlagsOK
<1> QED BY <1>2, <1>3 DEF CloseCamera

LEMMA FlagsDrop ==
  ASSUME NEW t \in {"client", "listener"}, FlagsOK, DropCaptures(t)
  PROVE  FlagsOK'
<1>1. /\ UNCHANGED <<mUVCCamera, mIsPreviewing, mRendererHolder, running, mPrimarySurface,
                     mIsFirstFrameRendered, quit>>
      /\ UNCHANGED <<listed, removal, muddled, calm, overlap>>
      /\ mImageCapture' = FALSE
  BY DEF DropCaptures, native, primary, looper, connection, history
<1>2. mImageCapture' \in BOOLEAN BY <1>1
<1> QED BY <1>1, <1>2 DEF FlagsOK

LEMMA FlagsStart ==
  ASSUME NEW t \in Starters, FlagsOK, StartPreview(t)
  PROVE  FlagsOK'
<1>1. /\ UNCHANGED <<mUVCCamera, mIsPreviewing, mImageCapture, mRendererHolder, running,
                     mPrimarySurface, mIsFirstFrameRendered, quit>>
      /\ UNCHANGED <<listed, removal, muddled>>
  BY DEF StartPreview, camera, native, primary, looper, connection
<1>2. calm' \in BOOLEAN /\ overlap' \in BOOLEAN
  <2>1. CASE t = "client"
    <3>1. /\ calm' = (~mIsPreviewing /\ pc["gl"] # "startPreview")
          /\ overlap' = (Recreating \/ RecreateDue)
      BY <2>1 DEF StartPreview
    <3>2. /\ (~mIsPreviewing /\ pc["gl"] # "startPreview") \in BOOLEAN
          /\ (Recreating \/ RecreateDue) \in BOOLEAN
      BY Zenon
    <3> QED BY <3>1, <3>2
  <2>2. CASE t # "client"
    BY <2>2 DEF StartPreview, FlagsOK
  <2> QED BY <2>1, <2>2
<1> QED BY <1>1, <1>2 DEF FlagsOK

LEMMA FlagsRelease ==
  ASSUME FlagsOK, ReleasePrimary
  PROVE  FlagsOK'
<1>1. /\ UNCHANGED <<mUVCCamera, mIsPreviewing, mImageCapture, mRendererHolder, running,
                     mIsFirstFrameRendered, quit>>
      /\ UNCHANGED <<listed, removal, muddled, calm, overlap>>
      /\ mPrimarySurface' = FALSE
  BY DEF ReleasePrimary, PrimaryReleased, camera, looper, connection, history
<1>2. mPrimarySurface' \in BOOLEAN BY <1>1
<1> QED BY <1>1, <1>2 DEF FlagsOK

\* Every step keeps the messages of the renderer well-formed.
LEMMA QueueStep ==
  ASSUME TypeOK, ArgOK, [Next]_vars
  PROVE  glQueue' \in Seq(Messages)
<1> USE DEF looper
<1>1. CASE BeginOpen
  BY <1>1 DEF BeginOpen, TypeOK
<1>2. CASE BeginClose
  BY <1>2 DEF BeginClose, TypeOK
<1>3. CASE BeginPreview
  BY <1>3 DEF BeginPreview, TypeOK
<1>4. ASSUME NEW s \in Surfaces, BeginSurface(s) PROVE glQueue' \in Seq(Messages)
  BY <1>4 DEF BeginSurface, TypeOK
<1>5. ASSUME NEW s \in Surfaces, Invalidate(s) PROVE glQueue' \in Seq(Messages)
  BY <1>5 DEF Invalidate, TypeOK
<1>6. ASSUME NEW p \in Pictures, BeginPicture(p) PROVE glQueue' \in Seq(Messages)
  BY <1>6 DEF BeginPicture, TypeOK
<1>7. ASSUME NEW size \in Sizes, SetPreviewSize(size) PROVE glQueue' \in Seq(Messages)
  BY <1>7 DEF SetPreviewSize, TypeOK
<1>8. CASE Detach
  BY <1>8 DEF Detach, TypeOK
<1>9. CASE ResetUVCCamera
  <2>1. <<Message("removeAll", NoArg)>> \in Seq(Messages) BY MessageTypes
  <2> QED BY <1>9, <2>1, PostType DEF ResetUVCCamera, TypeOK
<1>10. CASE WaitTimeout
  BY <1>10 DEF WaitTimeout, TypeOK
<1>11. CASE OpenUVCCamera
  BY <1>11 DEF OpenUVCCamera, TypeOK
<1>12. CASE CreateCaptures
  BY <1>12 DEF CreateCaptures, TypeOK
<1>13. ASSUME NEW t \in {"client", "listener"}, CloseCamera(t) PROVE glQueue' \in Seq(Messages)
  BY <1>13 DEF CloseCamera, TypeOK
<1>14. ASSUME NEW t \in {"client", "listener"}, DropCaptures(t) PROVE glQueue' \in Seq(Messages)
  BY <1>14 DEF DropCaptures, TypeOK
<1>15. ASSUME NEW t \in Starters, StartPreview(t) PROVE glQueue' \in Seq(Messages)
  BY <1>15 DEF StartPreview, TypeOK
<1>16. ASSUME NEW t \in Starters, Resize(t) PROVE glQueue' \in Seq(Messages)
  <2>1. <<Message("updateSize", mCurrentSize), Message("recreate", NoArg)>> \in Seq(Messages)
    BY MessageTypes DEF TypeOK
  <2> QED BY <1>16, <2>1, PostType DEF Resize
<1>17. ASSUME NEW t \in Starters, CheckPrimarySurface(t) PROVE glQueue' \in Seq(Messages)
  BY <1>17 DEF CheckPrimarySurface, TypeOK
<1>18. ASSUME NEW t \in Starters, RequestSurface(t) PROVE glQueue' \in Seq(Messages)
  <2>1. <<Message("recreate", NoArg)>> \in Seq(Messages) BY MessageTypes
  <2> QED BY <1>18, <2>1, PostType DEF RequestSurface, TypeOK
<1>19. ASSUME NEW t \in Starters, Relock(t) PROVE glQueue' \in Seq(Messages)
  BY <1>19 DEF Relock, TypeOK
<1>20. ASSUME NEW t \in Starters, ReadSurface(t) PROVE glQueue' \in Seq(Messages)
  BY <1>20 DEF ReadSurface, TypeOK
<1>21. ASSUME NEW t \in Starters, SetPreviewDisplay(t) PROVE glQueue' \in Seq(Messages)
  BY <1>21 DEF SetPreviewDisplay, TypeOK
<1>22. CASE StopPreview
  BY <1>22 DEF StopPreview, TypeOK
<1>23. CASE AddSlaveSurface
  <2>1. arg \in Surfaces BY <1>23 DEF AddSlaveSurface, ArgOK
  <2>2. <<Message("add", arg)>> \in Seq(Messages) BY <2>1, MessageTypes
  <2> QED BY <1>23, <2>2, PostType DEF AddSlaveSurface, TypeOK
<1>24. CASE RemoveSlaveSurface
  <2>1. arg \in Surfaces BY <1>24 DEF RemoveSlaveSurface, ArgOK
  <2>2. <<Message("remove", arg)>> \in Seq(Messages) BY <2>1, MessageTypes
  <2> QED BY <1>24, <2>2, PostType DEF RemoveSlaveSurface, TypeOK
<1>25. CASE UseCapture
  BY <1>25 DEF UseCapture, TypeOK
<1>26. CASE PostCapture
  <2>1. arg \in Pictures BY <1>26 DEF PostCapture, ArgOK
  <2>2. <<Message("capture", arg)>> \in Seq(Messages) BY <2>1, MessageTypes
  <2> QED BY <1>26, <2>2, PostType DEF PostCapture
<1>27. CASE RemoveCamera
  BY <1>27 DEF RemoveCamera, TypeOK
<1>28. CASE ReleaseResource
  <2>1. (IF mRendererHolder THEN <<Message("release", NoArg)>> ELSE <<>>) \in Seq(Messages)
    BY MessageTypes
  <2> QED BY <1>28, <2>1, PostType DEF ReleaseResource
<1>29. CASE HandleReCreatePrimarySurface
  BY <1>29, HandleType DEF HandleReCreatePrimarySurface
<1>30. CASE HandleUpdateSize
  BY <1>30, HandleType DEF HandleUpdateSize
<1>31. CASE HandleAddSlaveSurface
  BY <1>31, HandleType DEF HandleAddSlaveSurface
<1>32. CASE HandleRemoveSlaveSurface
  BY <1>32, HandleType DEF HandleRemoveSlaveSurface
<1>33. CASE HandleRemoveSlaveSurfaceAll
  BY <1>33, HandleType DEF HandleRemoveSlaveSurfaceAll
<1>34. CASE HandleRelease
  BY <1>34, HandleType DEF HandleRelease
<1>35. CASE CheckSurfaceThrows
  BY <1>35 DEF CheckSurfaceThrows, TypeOK
<1>36. CASE HandleCapture
  BY <1>36, HandleType DEF HandleCapture
<1>37. CASE LoopEnds
  BY <1>37 DEF LoopEnds, TypeOK
<1>38. CASE ReleasePrimary
  BY <1>38 DEF ReleasePrimary, TypeOK
<1>39. CASE CreatePrimary
  BY <1>39 DEF CreatePrimary, TypeOK
<1>40. CASE OnPrimarySurfaceCreate
  BY <1>40 DEF OnPrimarySurfaceCreate, TypeOK
<1>41. CASE PrimaryCreated
  BY <1>41 DEF PrimaryCreated, TypeOK
<1>42. CASE OnFrameAvailable
  BY <1>42 DEF OnFrameAvailable, TypeOK
<1>43. CASE DrawFails
  <2>1. <<Message("recreate", NoArg)>> \in Seq(Messages) BY MessageTypes
  <2> QED BY <1>43, <2>1, PostType DEF DrawFails, TypeOK
<1>44. ASSUME NEW p \in Pictures, SaveImage(p) PROVE glQueue' \in Seq(Messages)
  BY <1>44 DEF SaveImage, TypeOK
<1>45. CASE UNCHANGED vars
  BY <1>45 DEF vars, TypeOK
<1>46. ASSUME NEW t \in Starters, CheckValid(t) PROVE glQueue' \in Seq(Messages)
  BY <1>46 DEF CheckValid, TypeOK
<1>47. ASSUME NEW s \in Surfaces, CleanUp(s) PROVE glQueue' \in Seq(Messages)
  <2>1. (IF s \in mSlaveSurfaces THEN <<Message("remove", s)>> ELSE <<>>) \in Seq(Messages)
    BY MessageTypes
  <2> QED BY <1>47, <2>1, PostType DEF CleanUp
<1> HIDE DEF looper
<1> QED BY <1>1, <1>2, <1>3, <1>4, <1>5, <1>6, <1>7, <1>8, <1>9, <1>10, <1>11, <1>12,
    <1>13, <1>14, <1>15, <1>16, <1>17, <1>18, <1>19, <1>20, <1>21, <1>22, <1>23, <1>24,
    <1>25, <1>26, <1>27, <1>28, <1>29, <1>30, <1>31, <1>32, <1>33, <1>34, <1>35, <1>36,
    <1>37, <1>38, <1>39, <1>40, <1>41, <1>42, <1>43, <1>44, <1>45, <1>46, <1>47 DEF Next, Application,
    Client, Listener, Gl, Messaging, Start, Starters

\* Every step keeps the types.
LEMMA TypeStep ==
  ASSUME TypeOK, ArgOK, [Next]_vars
  PROVE  TypeOK'
<1> USE BoundsAssumption, QueueStep DEF Goto, camera, native, primary, looper,
    outside, connection, request, history, TypeOK, Threads, Starters, Locks,
    StartPlaces, ClientPlaces, GlPlaces, ListenerPlaces
<1>1. CASE BeginOpen
  BY <1>1 DEF BeginOpen, Begin
<1>2. CASE BeginClose
  BY <1>2 DEF BeginClose, Begin
<1>3. CASE BeginPreview
  BY <1>3 DEF BeginPreview, Begin
<1>4. ASSUME NEW s \in Surfaces, BeginSurface(s) PROVE TypeOK'
  BY <1>4 DEF BeginSurface, Begin
<1>5. ASSUME NEW s \in Surfaces, Invalidate(s) PROVE TypeOK'
  BY <1>5 DEF Invalidate
<1>6. ASSUME NEW p \in Pictures, BeginPicture(p) PROVE TypeOK'
  BY <1>6 DEF BeginPicture, Begin
<1>7. ASSUME NEW size \in Sizes, SetPreviewSize(size) PROVE TypeOK'
  <2>1. FlagsOK'
    BY <1>7, ZenonT(60) DEF SetPreviewSize, Begin, Closed, FlagsOK
  <2>2. DataOK'
    BY <1>7 DEF SetPreviewSize, Begin, Closed, DataOK
  <2> QED BY <2>1, <2>2 DEF FlagsOK, DataOK
<1>8. CASE Detach
  BY <1>8 DEF Detach
<1>9. CASE ResetUVCCamera
  <2>1. FlagsOK'
    BY <1>9, ZenonT(60) DEF ResetUVCCamera, Acquire, FlagsOK
  <2>2. DataOK'
    BY <1>9 DEF ResetUVCCamera, Acquire, DataOK
  <2> QED BY <2>1, <2>2 DEF FlagsOK, DataOK
<1>10. CASE WaitTimeout
  BY <1>10 DEF WaitTimeout, NotifyAll, Notified, UnlockReset
<1>11. CASE OpenUVCCamera
  BY <1>11 DEF OpenUVCCamera
<1>12. CASE CreateCaptures
  BY <1>12 DEF CreateCaptures
<1>13. ASSUME NEW t \in {"client", "listener"}, CloseCamera(t) PROVE TypeOK'
  <2>1. FlagsOK' BY <1>13, FlagsClose DEF FlagsOK
  <2>2. DataOK'
    BY <1>13 DEF CloseCamera, Closed, DataOK
  <2> QED BY <2>1, <2>2 DEF FlagsOK, DataOK
<1>14. ASSUME NEW t \in {"client", "listener"}, DropCaptures(t) PROVE TypeOK'
  <2>1. FlagsOK' BY <1>14, FlagsDrop DEF FlagsOK
  <2>2. DataOK'
    BY <1>14 DEF DropCaptures, DataOK
  <2> QED BY <2>1, <2>2 DEF FlagsOK, DataOK
<1>15. ASSUME NEW t \in Starters, StartPreview(t) PROVE TypeOK'
  <2>1. FlagsOK' BY <1>15, FlagsStart DEF FlagsOK
  <2>2. DataOK'
    BY <1>15 DEF StartPreview, AfterStart, Acquire, DataOK
  <2> QED BY <2>1, <2>2 DEF FlagsOK, DataOK
<1>16. ASSUME NEW t \in Starters, Resize(t) PROVE TypeOK'
  BY <1>16 DEF Resize, Released
<1>17. ASSUME NEW t \in Starters, CheckPrimarySurface(t) PROVE TypeOK'
  BY <1>17 DEF CheckPrimarySurface, StartAborted, AfterStart, Released
<1>18. ASSUME NEW t \in Starters, RequestSurface(t) PROVE TypeOK'
  BY <1>18 DEF RequestSurface, Released
<1>19. ASSUME NEW t \in Starters, Relock(t) PROVE TypeOK'
  BY <1>19 DEF Relock
<1>20. ASSUME NEW t \in Starters, ReadSurface(t) PROVE TypeOK'
  BY <1>20 DEF ReadSurface
<1>21. ASSUME NEW t \in Starters, SetPreviewDisplay(t) PROVE TypeOK'
  <2>1. FlagsOK'
    BY <1>21, ZenonT(60) DEF SetPreviewDisplay, AfterStart, Released, FlagsOK
  <2>2. DataOK'
    BY <1>21 DEF SetPreviewDisplay, AfterStart, Released, DataOK
  <2> QED BY <2>1, <2>2 DEF FlagsOK, DataOK
<1>22. CASE StopPreview
  <2>1. FlagsOK'
    BY <1>22, ZenonT(60) DEF StopPreview, FlagsOK
  <2>2. DataOK'
    BY <1>22 DEF StopPreview, DataOK
  <2> QED BY <2>1, <2>2 DEF FlagsOK, DataOK
<1>23. CASE AddSlaveSurface
  <2>1. arg \in Surfaces BY <1>23 DEF AddSlaveSurface, ArgOK
  <2> QED BY <1>23, <2>1 DEF AddSlaveSurface, Overtakes
<1>24. CASE RemoveSlaveSurface
  <2>1. arg \in Surfaces BY <1>24 DEF RemoveSlaveSurface, ArgOK
  <2> QED BY <1>24, <2>1 DEF RemoveSlaveSurface, Overtakes
<1>25. CASE UseCapture
  <2>1. arg \in Pictures BY <1>25 DEF UseCapture, ArgOK
  <2> QED BY <1>25, <2>1 DEF UseCapture
<1>26. CASE PostCapture
  <2>1. arg \in Pictures BY <1>26 DEF PostCapture, ArgOK
  <2> QED BY <1>26, <2>1 DEF PostCapture
<1>27. CASE RemoveCamera
  BY <1>27 DEF RemoveCamera
<1>28. CASE ReleaseResource
  <2>1. FlagsOK'
    BY <1>28, ZenonT(60) DEF ReleaseResource, FlagsOK
  <2>2. DataOK'
    BY <1>28 DEF ReleaseResource, DataOK
  <2> QED BY <2>1, <2>2 DEF FlagsOK, DataOK
<1>29. CASE HandleReCreatePrimarySurface
  BY <1>29 DEF HandleReCreatePrimarySurface, Handle
<1>30. CASE HandleUpdateSize
  <2>1. Head(glQueue) \in Messages /\ Head(glQueue).what = "updateSize"
    BY <1>30, HandleType DEF HandleUpdateSize, Handle
  <2>2. Head(glQueue).arg \in Sizes BY <2>1 DEF Messages
  <2> QED BY <1>30, <2>2 DEF HandleUpdateSize
<1>31. CASE HandleAddSlaveSurface
  BY <1>31 DEF HandleAddSlaveSurface, Checked, Muddles, Handle, NotifyAll, Notified,
     UnlockReset
<1>32. CASE HandleRemoveSlaveSurface
  BY <1>32 DEF HandleRemoveSlaveSurface, Checked, Muddles, Handle, NotifyAll, Notified,
     UnlockReset
<1>33. CASE HandleRemoveSlaveSurfaceAll
  BY <1>33 DEF HandleRemoveSlaveSurfaceAll, Handle, NotifyAll, Notified, UnlockReset
<1>34. CASE HandleRelease
  <2>1. FlagsOK'
    BY <1>34, ZenonT(60) DEF HandleRelease, Handle, PrimaryReleased, Aged, NotifyAll, Notified,
        UnlockReset, FlagsOK
  <2>2. DataOK'
    BY <1>34 DEF HandleRelease, Handle, PrimaryReleased, Aged, NotifyAll, Notified,
        UnlockReset, DataOK
  <2> QED BY <2>1, <2>2 DEF FlagsOK, DataOK
<1>35. CASE CheckSurfaceThrows
  BY <1>35 DEF CheckSurfaceThrows
<1>36. CASE HandleCapture
  BY <1>36 DEF HandleCapture, Handle
<1>37. CASE LoopEnds
  BY <1>37 DEF LoopEnds
<1>38. CASE ReleasePrimary
  <2>1. FlagsOK' BY <1>38, FlagsRelease DEF FlagsOK
  <2>2. DataOK'
    BY <1>38 DEF ReleasePrimary, Acquire, PrimaryReleased, Aged, DataOK
  <2> QED BY <2>1, <2>2 DEF FlagsOK, DataOK
<1>39. CASE CreatePrimary
  <2>1. FlagsOK'
    BY <1>39, ZenonT(60) DEF CreatePrimary, Signalled, FlagsOK
  <2>2. DataOK'
    BY <1>39 DEF CreatePrimary, Signalled, DataOK
  <2> QED BY <2>1, <2>2 DEF FlagsOK, DataOK
<1>40. CASE OnPrimarySurfaceCreate
  BY <1>40 DEF OnPrimarySurfaceCreate
<1>41. CASE PrimaryCreated
  BY <1>41 DEF PrimaryCreated, Released
<1>42. CASE OnFrameAvailable
  BY <1>42 DEF OnFrameAvailable
<1>43. CASE DrawFails
  BY <1>43 DEF DrawFails
<1>44. ASSUME NEW p \in Pictures, SaveImage(p) PROVE TypeOK'
  BY <1>44 DEF SaveImage
<1>45. CASE UNCHANGED vars
  BY <1>45 DEF vars
<1>46. ASSUME NEW t \in Starters, CheckValid(t) PROVE TypeOK'
  BY <1>46 DEF CheckValid, StartAborted, AfterStart, Released
<1>47. ASSUME NEW s \in Surfaces, CleanUp(s) PROVE TypeOK'
  BY <1>47 DEF CleanUp, Overtakes
<1> HIDE DEF Goto, camera, native, primary, looper, outside, connection,
    request, history, TypeOK, Threads, Locks, StartPlaces, ClientPlaces, GlPlaces,
    ListenerPlaces
<1> QED BY <1>1, <1>2, <1>3, <1>4, <1>5, <1>6, <1>7, <1>8, <1>9, <1>10, <1>11, <1>12,
    <1>13, <1>14, <1>15, <1>16, <1>17, <1>18, <1>19, <1>20, <1>21, <1>22, <1>23, <1>24,
    <1>25, <1>26, <1>27, <1>28, <1>29, <1>30, <1>31, <1>32, <1>33, <1>34, <1>35, <1>36,
    <1>37, <1>38, <1>39, <1>40, <1>41, <1>42, <1>43, <1>44, <1>45, <1>46, <1>47 DEF Next, Application,
    Client, Listener, Gl, Messaging, Start, Starters

\* Every step keeps the argument of the operation under way.
LEMMA ArgStep ==
  ASSUME TypeOK, ArgOK, [Next]_vars
  PROVE  ArgOK'
<1> USE DEF Goto, ArgOK, request, TypeOK, Threads, StartPlaces
<1>1. CASE BeginOpen
  BY <1>1 DEF BeginOpen, Begin
<1>2. CASE BeginClose
  BY <1>2 DEF BeginClose, Begin
<1>3. CASE BeginPreview
  BY <1>3 DEF BeginPreview, Begin
<1>4. ASSUME NEW s \in Surfaces, BeginSurface(s) PROVE ArgOK'
  BY <1>4 DEF BeginSurface, Begin
<1>5. ASSUME NEW s \in Surfaces, Invalidate(s) PROVE ArgOK'
  BY <1>5 DEF Invalidate
<1>6. ASSUME NEW p \in Pictures, BeginPicture(p) PROVE ArgOK'
  BY <1>6 DEF BeginPicture, Begin
<1>7. ASSUME NEW size \in Sizes, SetPreviewSize(size) PROVE ArgOK'
  BY <1>7 DEF SetPreviewSize, Begin, Closed
<1>8. CASE Detach
  BY <1>8 DEF Detach
<1>9. CASE ResetUVCCamera
  BY <1>9 DEF ResetUVCCamera, Acquire
<1>10. CASE WaitTimeout
  BY <1>10 DEF WaitTimeout, NotifyAll, Notified, UnlockReset
<1>11. CASE OpenUVCCamera
  BY <1>11 DEF OpenUVCCamera
<1>12. CASE CreateCaptures
  BY <1>12 DEF CreateCaptures
<1>13. ASSUME NEW t \in {"client", "listener"}, CloseCamera(t) PROVE ArgOK'
  BY <1>13 DEF CloseCamera, Closed
<1>14. ASSUME NEW t \in {"client", "listener"}, DropCaptures(t) PROVE ArgOK'
  BY <1>14 DEF DropCaptures
<1>15. ASSUME NEW t \in Starters, StartPreview(t) PROVE ArgOK'
  BY <1>15 DEF StartPreview, AfterStart, Acquire
<1>16. ASSUME NEW t \in Starters, Resize(t) PROVE ArgOK'
  BY <1>16 DEF Resize, Released
<1>17. ASSUME NEW t \in Starters, CheckPrimarySurface(t) PROVE ArgOK'
  BY <1>17 DEF CheckPrimarySurface, StartAborted, AfterStart, Released
<1>18. ASSUME NEW t \in Starters, RequestSurface(t) PROVE ArgOK'
  BY <1>18 DEF RequestSurface, Released
<1>19. ASSUME NEW t \in Starters, Relock(t) PROVE ArgOK'
  BY <1>19 DEF Relock
<1>20. ASSUME NEW t \in Starters, ReadSurface(t) PROVE ArgOK'
  BY <1>20 DEF ReadSurface
<1>21. ASSUME NEW t \in Starters, SetPreviewDisplay(t) PROVE ArgOK'
  BY <1>21 DEF SetPreviewDisplay, AfterStart, Released
<1>22. CASE StopPreview
  BY <1>22 DEF StopPreview
<1>23. CASE AddSlaveSurface
  BY <1>23 DEF AddSlaveSurface
<1>24. CASE RemoveSlaveSurface
  BY <1>24 DEF RemoveSlaveSurface
<1>25. CASE UseCapture
  BY <1>25 DEF UseCapture
<1>26. CASE PostCapture
  BY <1>26 DEF PostCapture
<1>27. CASE RemoveCamera
  BY <1>27 DEF RemoveCamera
<1>28. CASE ReleaseResource
  BY <1>28 DEF ReleaseResource
<1>29. CASE HandleReCreatePrimarySurface
  BY <1>29 DEF HandleReCreatePrimarySurface, Handle
<1>30. CASE HandleUpdateSize
  BY <1>30 DEF HandleUpdateSize, Handle
<1>31. CASE HandleAddSlaveSurface
  BY <1>31 DEF HandleAddSlaveSurface, Handle, NotifyAll, Notified, UnlockReset
<1>32. CASE HandleRemoveSlaveSurface
  BY <1>32 DEF HandleRemoveSlaveSurface, Handle, NotifyAll, Notified, UnlockReset
<1>33. CASE HandleRemoveSlaveSurfaceAll
  BY <1>33 DEF HandleRemoveSlaveSurfaceAll, Handle, NotifyAll, Notified, UnlockReset
<1>34. CASE HandleRelease
  BY <1>34 DEF HandleRelease, Handle, PrimaryReleased, Aged, NotifyAll, Notified,
      UnlockReset
<1>35. CASE CheckSurfaceThrows
  BY <1>35 DEF CheckSurfaceThrows
<1>36. CASE HandleCapture
  BY <1>36 DEF HandleCapture, Handle
<1>37. CASE LoopEnds
  BY <1>37 DEF LoopEnds
<1>38. CASE ReleasePrimary
  BY <1>38 DEF ReleasePrimary, Acquire, PrimaryReleased, Aged
<1>39. CASE CreatePrimary
  BY <1>39 DEF CreatePrimary, Signalled
<1>40. CASE OnPrimarySurfaceCreate
  BY <1>40 DEF OnPrimarySurfaceCreate
<1>41. CASE PrimaryCreated
  BY <1>41 DEF PrimaryCreated, Released
<1>42. CASE OnFrameAvailable
  BY <1>42 DEF OnFrameAvailable
<1>43. CASE DrawFails
  BY <1>43 DEF DrawFails
<1>44. ASSUME NEW p \in Pictures, SaveImage(p) PROVE ArgOK'
  BY <1>44 DEF SaveImage
<1>45. CASE UNCHANGED vars
  BY <1>45 DEF vars
<1>46. ASSUME NEW t \in Starters, CheckValid(t) PROVE ArgOK'
  BY <1>46 DEF CheckValid, StartAborted, AfterStart, Released
<1>47. ASSUME NEW s \in Surfaces, CleanUp(s) PROVE ArgOK'
  BY <1>47 DEF CleanUp
<1> HIDE DEF Goto, ArgOK, request, TypeOK, Threads, StartPlaces
<1> QED BY <1>1, <1>2, <1>3, <1>4, <1>5, <1>6, <1>7, <1>8, <1>9, <1>10, <1>11, <1>12,
    <1>13, <1>14, <1>15, <1>16, <1>17, <1>18, <1>19, <1>20, <1>21, <1>22, <1>23, <1>24,
    <1>25, <1>26, <1>27, <1>28, <1>29, <1>30, <1>31, <1>32, <1>33, <1>34, <1>35, <1>36,
    <1>37, <1>38, <1>39, <1>40, <1>41, <1>42, <1>43, <1>44, <1>45, <1>46, <1>47 DEF Next, Application,
    Client, Listener, Gl, Messaging, Start, Starters

\* Every step keeps CameraInternal.class with its owner.
LEMMA LockStep ==
  ASSUME TypeOK, CameraLocked, [Next]_vars
  PROVE  CameraLocked'
<1> USE NoThreadAssumption DEF Goto, Free, CameraLocked, TypeOK, Threads, Starters,
    Locks, StartPlaces
<1>1. CASE BeginOpen
  BY <1>1 DEF BeginOpen, Begin
<1>2. CASE BeginClose
  BY <1>2 DEF BeginClose, Begin
<1>3. CASE BeginPreview
  BY <1>3 DEF BeginPreview, Begin
<1>4. ASSUME NEW s \in Surfaces, BeginSurface(s) PROVE CameraLocked'
  BY <1>4 DEF BeginSurface, Begin
<1>5. ASSUME NEW s \in Surfaces, Invalidate(s) PROVE CameraLocked'
  BY <1>5 DEF Invalidate
<1>6. ASSUME NEW p \in Pictures, BeginPicture(p) PROVE CameraLocked'
  BY <1>6 DEF BeginPicture, Begin
<1>7. ASSUME NEW size \in Sizes, SetPreviewSize(size) PROVE CameraLocked'
  BY <1>7 DEF SetPreviewSize, Begin, Closed
<1>8. CASE Detach
  BY <1>8 DEF Detach
<1>9. CASE ResetUVCCamera
  BY <1>9 DEF ResetUVCCamera, Acquire
<1>10. CASE WaitTimeout
  BY <1>10 DEF WaitTimeout, NotifyAll, Notified, UnlockReset
<1>11. CASE OpenUVCCamera
  BY <1>11 DEF OpenUVCCamera
<1>12. CASE CreateCaptures
  BY <1>12 DEF CreateCaptures
<1>13. ASSUME NEW t \in {"client", "listener"}, CloseCamera(t) PROVE CameraLocked'
  BY <1>13 DEF CloseCamera, Closed
<1>14. ASSUME NEW t \in {"client", "listener"}, DropCaptures(t) PROVE CameraLocked'
  BY <1>14 DEF DropCaptures
<1>15. ASSUME NEW t \in Starters, StartPreview(t) PROVE CameraLocked'
  BY <1>15 DEF StartPreview, AfterStart, Acquire
<1>16. ASSUME NEW t \in Starters, Resize(t) PROVE CameraLocked'
  BY <1>16 DEF Resize, Released
<1>17. ASSUME NEW t \in Starters, CheckPrimarySurface(t) PROVE CameraLocked'
  BY <1>17 DEF CheckPrimarySurface, StartAborted, AfterStart, Released
<1>18. ASSUME NEW t \in Starters, RequestSurface(t) PROVE CameraLocked'
  BY <1>18 DEF RequestSurface, Released
<1>19. ASSUME NEW t \in Starters, Relock(t) PROVE CameraLocked'
  BY <1>19 DEF Relock
<1>20. ASSUME NEW t \in Starters, ReadSurface(t) PROVE CameraLocked'
  BY <1>20 DEF ReadSurface
<1>21. ASSUME NEW t \in Starters, SetPreviewDisplay(t) PROVE CameraLocked'
  BY <1>21 DEF SetPreviewDisplay, AfterStart, Released
<1>22. CASE StopPreview
  BY <1>22 DEF StopPreview
<1>23. CASE AddSlaveSurface
  BY <1>23 DEF AddSlaveSurface
<1>24. CASE RemoveSlaveSurface
  BY <1>24 DEF RemoveSlaveSurface
<1>25. CASE UseCapture
  BY <1>25 DEF UseCapture
<1>26. CASE PostCapture
  BY <1>26 DEF PostCapture
<1>27. CASE RemoveCamera
  BY <1>27 DEF RemoveCamera
<1>28. CASE ReleaseResource
  BY <1>28 DEF ReleaseResource
<1>29. CASE HandleReCreatePrimarySurface
  BY <1>29 DEF HandleReCreatePrimarySurface, Handle
<1>30. CASE HandleUpdateSize
  BY <1>30 DEF HandleUpdateSize, Handle
<1>31. CASE HandleAddSlaveSurface
  BY <1>31 DEF HandleAddSlaveSurface, Handle, NotifyAll, Notified, UnlockReset
<1>32. CASE HandleRemoveSlaveSurface
  BY <1>32 DEF HandleRemoveSlaveSurface, Handle, NotifyAll, Notified, UnlockReset
<1>33. CASE HandleRemoveSlaveSurfaceAll
  BY <1>33 DEF HandleRemoveSlaveSurfaceAll, Handle, NotifyAll, Notified, UnlockReset
<1>34. CASE HandleRelease
  BY <1>34 DEF HandleRelease, Handle, PrimaryReleased, Aged, NotifyAll, Notified,
      UnlockReset
<1>35. CASE CheckSurfaceThrows
  BY <1>35 DEF CheckSurfaceThrows
<1>36. CASE HandleCapture
  BY <1>36 DEF HandleCapture, Handle
<1>37. CASE LoopEnds
  BY <1>37 DEF LoopEnds
<1>38. CASE ReleasePrimary
  BY <1>38 DEF ReleasePrimary, Acquire, PrimaryReleased, Aged
<1>39. CASE CreatePrimary
  BY <1>39 DEF CreatePrimary, Signalled
<1>40. CASE OnPrimarySurfaceCreate
  BY <1>40 DEF OnPrimarySurfaceCreate
<1>41. CASE PrimaryCreated
  BY <1>41 DEF PrimaryCreated, Released
<1>42. CASE OnFrameAvailable
  BY <1>42 DEF OnFrameAvailable
<1>43. CASE DrawFails
  BY <1>43 DEF DrawFails
<1>44. ASSUME NEW p \in Pictures, SaveImage(p) PROVE CameraLocked'
  BY <1>44 DEF SaveImage
<1>45. CASE UNCHANGED vars
  BY <1>45 DEF vars
<1>46. ASSUME NEW t \in Starters, CheckValid(t) PROVE CameraLocked'
  BY <1>46 DEF CheckValid, StartAborted, AfterStart, Released
<1>47. ASSUME NEW s \in Surfaces, CleanUp(s) PROVE CameraLocked'
  BY <1>47 DEF CleanUp
<1> HIDE DEF Goto, Free, CameraLocked, TypeOK, Threads, Locks, StartPlaces
<1> QED BY <1>1, <1>2, <1>3, <1>4, <1>5, <1>6, <1>7, <1>8, <1>9, <1>10, <1>11, <1>12,
    <1>13, <1>14, <1>15, <1>16, <1>17, <1>18, <1>19, <1>20, <1>21, <1>22, <1>23, <1>24,
    <1>25, <1>26, <1>27, <1>28, <1>29, <1>30, <1>31, <1>32, <1>33, <1>34, <1>35, <1>36,
    <1>37, <1>38, <1>39, <1>40, <1>41, <1>42, <1>43, <1>44, <1>45, <1>46, <1>47 DEF Next, Application,
    Client, Listener, Gl, Messaging, Start, Starters

\* Every step keeps the GL thread out of a startPreview that began calmly.
LEMMA CalmStep ==
  ASSUME TypeOK, CameraLocked, CalmKept, [Next]_vars
  PROVE  CalmKept'
<1> USE NoThreadAssumption DEF Goto, Free, CameraLocked, CalmKept, camera, history,
    TypeOK, Threads, Starters, Locks, StartPlaces
<1>1. CASE BeginOpen
  BY <1>1 DEF BeginOpen, Begin
<1>2. CASE BeginClose
  BY <1>2 DEF BeginClose, Begin
<1>3. CASE BeginPreview
  BY <1>3 DEF BeginPreview, Begin
<1>4. ASSUME NEW s \in Surfaces, BeginSurface(s) PROVE CalmKept'
  BY <1>4 DEF BeginSurface, Begin
<1>5. ASSUME NEW s \in Surfaces, Invalidate(s) PROVE CalmKept'
  BY <1>5 DEF Invalidate
<1>6. ASSUME NEW p \in Pictures, BeginPicture(p) PROVE CalmKept'
  BY <1>6 DEF BeginPicture, Begin
<1>7. ASSUME NEW size \in Sizes, SetPreviewSize(size) PROVE CalmKept'
  BY <1>7 DEF SetPreviewSize, Begin, Closed
<1>8. CASE Detach
  BY <1>8 DEF Detach
<1>9. CASE ResetUVCCamera
  BY <1>9 DEF ResetUVCCamera, Acquire
<1>10. CASE WaitTimeout
  BY <1>10 DEF WaitTimeout, NotifyAll, Notified, UnlockReset
<1>11. CASE OpenUVCCamera
  BY <1>11 DEF OpenUVCCamera
<1>12. CASE CreateCaptures
  BY <1>12 DEF CreateCaptures
<1>13. ASSUME NEW t \in {"client", "listener"}, CloseCamera(t) PROVE CalmKept'
  BY <1>13 DEF CloseCamera, Closed
<1>14. ASSUME NEW t \in {"client", "listener"}, DropCaptures(t) PROVE CalmKept'
  BY <1>14 DEF DropCaptures
<1>15. ASSUME NEW t \in Starters, StartPreview(t) PROVE CalmKept'
  BY <1>15, ZenonT(60) DEF StartPreview, AfterStart, Acquire
<1>16. ASSUME NEW t \in Starters, Resize(t) PROVE CalmKept'
  BY <1>16 DEF Resize, Released
<1>17. ASSUME NEW t \in Starters, CheckPrimarySurface(t) PROVE CalmKept'
  BY <1>17 DEF CheckPrimarySurface, StartAborted, AfterStart, Released
<1>18. ASSUME NEW t \in Starters, RequestSurface(t) PROVE CalmKept'
  BY <1>18 DEF RequestSurface, Released
<1>19. ASSUME NEW t \in Starters, Relock(t) PROVE CalmKept'
  BY <1>19 DEF Relock
<1>20. ASSUME NEW t \in Starters, ReadSurface(t) PROVE CalmKept'
  BY <1>20 DEF ReadSurface
<1>21. ASSUME NEW t \in Starters, SetPreviewDisplay(t) PROVE CalmKept'
  BY <1>21 DEF SetPreviewDisplay, AfterStart, Released
<1>22. CASE StopPreview
  BY <1>22 DEF StopPreview
<1>23. CASE AddSlaveSurface
  BY <1>23 DEF AddSlaveSurface
<1>24. CASE RemoveSlaveSurface
  BY <1>24 DEF RemoveSlaveSurface
<1>25. CASE UseCapture
  BY <1>25 DEF UseCapture
<1>26. CASE PostCapture
  BY <1>26 DEF PostCapture
<1>27. CASE RemoveCamera
  BY <1>27 DEF RemoveCamera
<1>28. CASE ReleaseResource
  BY <1>28 DEF ReleaseResource
<1>29. CASE HandleReCreatePrimarySurface
  BY <1>29 DEF HandleReCreatePrimarySurface, Handle
<1>30. CASE HandleUpdateSize
  BY <1>30 DEF HandleUpdateSize, Handle
<1>31. CASE HandleAddSlaveSurface
  BY <1>31 DEF HandleAddSlaveSurface, Handle, NotifyAll, Notified, UnlockReset
<1>32. CASE HandleRemoveSlaveSurface
  BY <1>32 DEF HandleRemoveSlaveSurface, Handle, NotifyAll, Notified, UnlockReset
<1>33. CASE HandleRemoveSlaveSurfaceAll
  BY <1>33 DEF HandleRemoveSlaveSurfaceAll, Handle, NotifyAll, Notified, UnlockReset
<1>34. CASE HandleRelease
  BY <1>34 DEF HandleRelease, Handle, PrimaryReleased, Aged, NotifyAll, Notified,
      UnlockReset
<1>35. CASE CheckSurfaceThrows
  BY <1>35 DEF CheckSurfaceThrows
<1>36. CASE HandleCapture
  BY <1>36 DEF HandleCapture, Handle
<1>37. CASE LoopEnds
  BY <1>37 DEF LoopEnds
<1>38. CASE ReleasePrimary
  BY <1>38 DEF ReleasePrimary, Acquire, PrimaryReleased, Aged
<1>39. CASE CreatePrimary
  BY <1>39 DEF CreatePrimary, Signalled
<1>40. CASE OnPrimarySurfaceCreate
  BY <1>40 DEF OnPrimarySurfaceCreate
<1>41. CASE PrimaryCreated
  BY <1>41 DEF PrimaryCreated, Released
<1>42. CASE OnFrameAvailable
  BY <1>42 DEF OnFrameAvailable
<1>43. CASE DrawFails
  BY <1>43 DEF DrawFails
<1>44. ASSUME NEW p \in Pictures, SaveImage(p) PROVE CalmKept'
  BY <1>44 DEF SaveImage
<1>45. CASE UNCHANGED vars
  BY <1>45 DEF vars
<1>46. ASSUME NEW t \in Starters, CheckValid(t) PROVE CalmKept'
  BY <1>46 DEF CheckValid, StartAborted, AfterStart, Released
<1>47. ASSUME NEW s \in Surfaces, CleanUp(s) PROVE CalmKept'
  BY <1>47 DEF CleanUp
<1> HIDE DEF Goto, Free, CameraLocked, CalmKept, camera, history, TypeOK, Threads,
    Locks, StartPlaces
<1> QED BY <1>1, <1>2, <1>3, <1>4, <1>5, <1>6, <1>7, <1>8, <1>9, <1>10, <1>11, <1>12,
    <1>13, <1>14, <1>15, <1>16, <1>17, <1>18, <1>19, <1>20, <1>21, <1>22, <1>23, <1>24,
    <1>25, <1>26, <1>27, <1>28, <1>29, <1>30, <1>31, <1>32, <1>33, <1>34, <1>35, <1>36,
    <1>37, <1>38, <1>39, <1>40, <1>41, <1>42, <1>43, <1>44, <1>45, <1>46, <1>47 DEF Next, Application,
    Client, Listener, Gl, Messaging, Start, Starters

\* The initial states satisfy the inductive invariant.
LEMMA InitIInv == Init => IInv
<1> SUFFICES ASSUME Init PROVE IInv OBVIOUS
<1>1. glQueue \in Seq(Messages)
  <2>1. <<Message("recreate", NoArg)>> \in Seq(Messages) /\ <<>> \in Seq(Messages)
    BY MessageTypes
  <2> QED BY <2>1 DEF Init, Selected, Previewing
<1>2. FlagsOK BY DEF Init, Selected, Previewing, FlagsOK
<1>3. DataOK
  BY <1>1, BoundsAssumption, DefaultSizeAssumption
     DEF Init, Selected, Previewing, DataOK, Threads, Starters, Locks, StartPlaces, ClientPlaces,
         GlPlaces, ListenerPlaces
<1>4. ArgOK /\ CameraLocked /\ CalmKept
  BY DEF Init, ArgOK, CameraLocked, CalmKept, Threads, StartPlaces
<1> QED BY <1>2, <1>3, <1>4 DEF IInv, TypeOK, FlagsOK, DataOK

\* The inductive invariant holds in every state of every behaviour.
THEOREM Invariance == Spec => []IInv
<1>1. ASSUME IInv, [Next]_vars PROVE IInv'
  BY <1>1, TypeStep, ArgStep, LockStep, CalmStep DEF IInv
<1> QED BY InitIInv, <1>1, PTL DEF Spec

\* Every variable keeps its type.
THEOREM TypeCorrect == Spec => []TypeOK
<1>1. IInv => TypeOK BY DEF IInv
<1> QED BY Invariance, <1>1, PTL

\* A startPreview that begins while the preview is stopped never meets the GL
\* thread, whatever else the application asks and however often drawing fails
\* (CameraInternal.java:66, RendererHolder.java:673).
THEOREM NoDeadlockFromStoppedHolds == Spec => []NoDeadlockFromStopped
<1>1. IInv => NoDeadlockFromStopped
  BY NoThreadAssumption DEF IInv, CameraLocked, CalmKept, NoDeadlockFromStopped, Stuck, Embrace,
     SelfWait, GlWantsCamera, LockPlaces, StartPlaces
<1> QED BY Invariance, <1>1, PTL

-----------------------------------------------------------------------------
(***************************************************************************)
(* The renderer's messages, for SlavesAsAsked and NoStaleSurface           *)
(***************************************************************************)
\* No message, and at most one message, of these kinds is in the queue.
NoneOf(kinds) == \A i \in 1..Len(glQueue) : glQueue[i].what \notin kinds
OneOf(kinds) ==
    \A i, j \in 1..Len(glQueue) :
        glQueue[i].what \in kinds /\ glQueue[j].what \in kinds => i = j

\* Due, of any queue; and the last message of q about s, if there is one, adds
\* s just if s is in A.
SlaveKinds == {"add", "remove", "removeAll"}
DueIn(q, s) == \E i \in 1..Len(q) : About(q[i], s)
LastAsks(q, s, A) ==
    \A i \in 1..Len(q) :
        About(q[i], s) /\ (\A j \in 1..Len(q) : j > i => ~About(q[j], s))
            => (q[i].what = "add" <=> s \in A)

\* A queue with messages appended: each one was there or is one of these.
LEMMA Appended ==
  ASSUME NEW q \in Seq(Messages), NEW ms \in Seq(Messages), NEW i \in 1..Len(q \o ms)
  PROVE  \/ i \in 1..Len(q) /\ (q \o ms)[i] = q[i]
         \/ i - Len(q) \in 1..Len(ms) /\ (q \o ms)[i] = ms[i - Len(q)]
OBVIOUS

\* A queue without its first message: each one was there, behind the first.
LEMMA Popped ==
  ASSUME NEW q \in Seq(Messages), q # <<>>, NEW i \in 1..Len(Tail(q))
  PROVE  i + 1 \in 1..Len(q) /\ Tail(q)[i] = q[i + 1] /\ i + 1 # 1
OBVIOUS

\* Messages about other surfaces change nothing for s.
LEMMA AppendOther ==
  ASSUME NEW q \in Seq(Messages), NEW ms \in Seq(Messages), NEW s, NEW A,
         \A k \in 1..Len(ms) : ~About(ms[k], s)
  PROVE  /\ DueIn(q \o ms, s) <=> DueIn(q, s)
         /\ LastAsks(q, s, A) => LastAsks(q \o ms, s, A)
<1>1. \A i \in 1..Len(q) : i \in 1..Len(q \o ms) /\ (q \o ms)[i] = q[i]
  OBVIOUS
<1>2. ASSUME NEW i \in 1..Len(q \o ms), About((q \o ms)[i], s)
      PROVE  i \in 1..Len(q) /\ (q \o ms)[i] = q[i]
  BY <1>2, Appended
<1> HIDE DEF About
<1> QED BY <1>1, <1>2 DEF DueIn, LastAsks

\* A message about s is the last one about s.
LEMMA AppendAbout ==
  ASSUME NEW q \in Seq(Messages), NEW m \in Messages, NEW s, NEW A, About(m, s),
         m.what = "add" <=> s \in A
  PROVE  DueIn(q \o <<m>>, s) /\ LastAsks(q \o <<m>>, s, A)
<1>1. /\ Len(q) \in Nat /\ Len(q \o <<m>>) = Len(q) + 1
      /\ (q \o <<m>>)[Len(q) + 1] = m
  OBVIOUS
<1>2. DueIn(q \o <<m>>, s) BY <1>1 DEF DueIn
<1>3. ASSUME NEW i \in 1..Len(q \o <<m>>),
             \A j \in 1..Len(q \o <<m>>) : j > i => ~About((q \o <<m>>)[j], s)
      PROVE  (q \o <<m>>)[i] = m
  <2>1. ~(Len(q) + 1 > i) BY <1>1, <1>3
  <2>2. i = Len(q) + 1 BY <1>1, <2>1
  <2> QED BY <1>1, <2>2
<1> QED BY <1>2, <1>3 DEF LastAsks

\* What taking the first message leaves of the ones about s.
LEMMA TailAsks ==
  ASSUME NEW q \in Seq(Messages), q # <<>>, NEW s, NEW A
  PROVE  /\ LastAsks(q, s, A) => LastAsks(Tail(q), s, A)
         /\ ~About(Head(q), s) => (DueIn(Tail(q), s) <=> DueIn(q, s))
         /\ About(Head(q), s) /\ LastAsks(q, s, A) /\ ~DueIn(Tail(q), s)
              => (Head(q).what = "add" <=> s \in A)
<1>1. /\ 1 \in 1..Len(q) /\ Head(q) = q[1] /\ Len(q) \in Nat /\ Len(Tail(q)) = Len(q) - 1
      /\ \A i \in 1..Len(Tail(q)) : i + 1 \in 1..Len(q) /\ Tail(q)[i] = q[i + 1]
  OBVIOUS
<1>2. ASSUME NEW i \in 1..Len(q), i # 1
      PROVE  i - 1 \in 1..Len(Tail(q)) /\ Tail(q)[i - 1] = q[i]
  <2>1. i - 1 \in 1..Len(Tail(q)) /\ (i - 1) + 1 = i BY <1>1, <1>2
  <2> QED BY <1>1, <2>1
<1>3. ASSUME LastAsks(q, s, A) PROVE LastAsks(Tail(q), s, A)
  <2> SUFFICES ASSUME NEW i \in 1..Len(Tail(q)), About(Tail(q)[i], s),
                      \A j \in 1..Len(Tail(q)) : j > i => ~About(Tail(q)[j], s)
               PROVE  Tail(q)[i].what = "add" <=> s \in A
    BY DEF LastAsks
  <2>1. i + 1 \in 1..Len(q) /\ Tail(q)[i] = q[i + 1] BY <1>1
  <2>2. ASSUME NEW j \in 1..Len(q), j > i + 1 PROVE ~About(q[j], s)
    <3>1. j # 1 /\ j - 1 > i BY <1>1, <2>2
    <3> QED BY <1>2, <3>1
  <2> QED BY <1>3, <2>1, <2>2 DEF LastAsks
<1>4. ~About(Head(q), s) => (DueIn(Tail(q), s) <=> DueIn(q, s))
  BY <1>1, <1>2 DEF DueIn
<1>5. ASSUME About(Head(q), s), LastAsks(q, s, A), ~DueIn(Tail(q), s)
      PROVE  Head(q).what = "add" <=> s \in A
  <2>1. ASSUME NEW j \in 1..Len(q), j > 1 PROVE ~About(q[j], s)
    <3>1. j - 1 \in 1..Len(Tail(q)) /\ Tail(q)[j - 1] = q[j] BY <1>2, <2>1
    <3> QED BY <1>5, <3>1 DEF DueIn
  <2> QED BY <1>1, <1>5, <2>1 DEF LastAsks
<1> QED BY <1>3, <1>4, <1>5

\* A message after Handler.post: it was there or it was posted just now.
LEMMA Posted ==
  ASSUME NEW ms \in Seq(Messages), TypeOK, Post(ms), NEW i \in 1..Len(glQueue')
  PROVE  \/ i \in 1..Len(glQueue) /\ glQueue'[i] = glQueue[i]
         \/ /\ ~quit /\ i \notin 1..Len(glQueue)
            /\ i - Len(glQueue) \in 1..Len(ms) /\ glQueue'[i] = ms[i - Len(glQueue)]
<1>1. CASE quit BY <1>1 DEF Post
<1>2. CASE ~quit
  <2>1. glQueue' = glQueue \o ms /\ glQueue \in Seq(Messages) BY <1>2 DEF Post, TypeOK
  <2>2. \/ i \in 1..Len(glQueue) /\ glQueue'[i] = glQueue[i]
        \/ i - Len(glQueue) \in 1..Len(ms) /\ glQueue'[i] = ms[i - Len(glQueue)]
    BY <2>1, Appended
  <2>3. i - Len(glQueue) \in 1..Len(ms) => i \notin 1..Len(glQueue)
    BY <2>1
  <2> QED BY <1>2, <2>2, <2>3
<1> QED BY <1>1, <1>2

\* Posting messages of other kinds, or the first ones of these kinds.
LEMMA PostNoneOf ==
  ASSUME NEW kinds, NEW ms \in Seq(Messages), TypeOK, Post(ms), NoneOf(kinds),
         \A k \in 1..Len(ms) : ms[k].what \notin kinds
  PROVE  NoneOf(kinds)'
BY Posted DEF NoneOf

LEMMA PostOneOf ==
  ASSUME NEW kinds, NEW ms \in Seq(Messages), TypeOK, Post(ms), OneOf(kinds),
         \A k \in 1..Len(ms) : ms[k].what \notin kinds
  PROVE  OneOf(kinds)'
BY Posted DEF OneOf

LEMMA PostFirst ==
  ASSUME NEW kinds, NEW ms \in Seq(Messages), TypeOK, Post(ms), NoneOf(kinds),
         \A k, l \in 1..Len(ms) : ms[k].what \in kinds /\ ms[l].what \in kinds => k = l
  PROVE  OneOf(kinds)'
<1> SUFFICES ASSUME NEW i \in 1..Len(glQueue'), NEW j \in 1..Len(glQueue'),
                    glQueue'[i].what \in kinds, glQueue'[j].what \in kinds
             PROVE  i = j
  BY DEF OneOf
<1>1. /\ i - Len(glQueue) \in 1..Len(ms) /\ ms[i - Len(glQueue)].what \in kinds
      /\ j - Len(glQueue) \in 1..Len(ms) /\ ms[j - Len(glQueue)].what \in kinds
  BY Posted DEF NoneOf
<1>2. i - Len(glQueue) = j - Len(glQueue) BY <1>1
<1>3. Len(glQueue) \in Nat BY DEF TypeOK
<1> QED BY <1>2, <1>3

\* The next message is taken from the queue.
LEMMA PopNoneOf ==
  ASSUME NEW kinds, TypeOK, glQueue # <<>>, glQueue' = Tail(glQueue), NoneOf(kinds)
  PROVE  NoneOf(kinds)'
BY Popped DEF NoneOf, TypeOK

LEMMA PopOneOf ==
  ASSUME NEW kinds, TypeOK, glQueue # <<>>, glQueue' = Tail(glQueue), OneOf(kinds)
  PROVE  /\ OneOf(kinds)'
         /\ Head(glQueue).what \in kinds => NoneOf(kinds)'
<1>1. ASSUME NEW i \in 1..Len(glQueue'), NEW j \in 1..Len(glQueue'),
             glQueue'[i].what \in kinds, glQueue'[j].what \in kinds
      PROVE  i = j
  <2>1. /\ i + 1 \in 1..Len(glQueue) /\ glQueue[i + 1].what \in kinds
        /\ j + 1 \in 1..Len(glQueue) /\ glQueue[j + 1].what \in kinds
    BY <1>1, Popped DEF TypeOK
  <2>2. i + 1 = j + 1 BY <2>1 DEF OneOf
  <2> QED BY <2>2
<1>2. ASSUME Head(glQueue).what \in kinds, NEW i \in 1..Len(glQueue'),
             glQueue'[i].what \in kinds
      PROVE  FALSE
  <2>1. i + 1 \in 1..Len(glQueue) /\ glQueue[i + 1].what \in kinds /\ i + 1 # 1
    BY <1>2, Popped DEF TypeOK
  <2>2. 1 \in 1..Len(glQueue) /\ Head(glQueue) = glQueue[1]
    BY DEF TypeOK
  <2>3. i + 1 = 1 BY <1>2, <2>1, <2>2 DEF OneOf
  <2> QED BY <2>1, <2>3
<1> QED BY <1>1, <1>2 DEF OneOf, NoneOf

\* The next message is in the queue.
LEMMA HandleQueued ==
  ASSUME NEW what, TypeOK, Handle(what)
  PROVE  glQueue # <<>> /\ 1 \in 1..Len(glQueue) /\ Head(glQueue) = glQueue[1]
         /\ Head(glQueue).what = what
BY DEF Handle, TypeOK

\* The k-th of the surfaces of S, counted from 0, is no other than the k-th.
LEMMA PositionsDiffer ==
  ASSUME NEW S \in SUBSET Surfaces, NEW s \in S, NEW t \in S, s < t
  PROVE  Position(s, S) # Position(t, S)
<1> DEFINE A == {r \in S : r < s}
           B == {r \in S : r < t}
<1>1. S \subseteq Int /\ IsFiniteSet(S) BY SurfacesAssumption, FS_Subset
<1>2. IsFiniteSet(B) BY <1>1, FS_Subset
<1>3. A \in SUBSET B /\ s \in B \ A
  <2>1. s \in Int /\ t \in Int /\ \A r \in S : r \in Int BY <1>1
  <2>2. ASSUME NEW r \in S, r < s PROVE r < t
    <3>1. r \in Int BY <2>1
    <3> QED BY <2>1, <2>2, <3>1
  <2>3. A \subseteq B BY <2>2
  <2>4. ~(s < s) BY <2>1
  <2>5. s \in B /\ s \notin A BY <2>4
  <2> QED BY <2>3, <2>5
<1>4. Cardinality(B) # Cardinality(A)
  <2> HIDE DEF A, B
  <2>1. Cardinality(B) = Cardinality(A) => B = A BY <1>2, <1>3, FS_Subset
  <2> QED BY <1>3, <2>1
<1> QED BY <1>4 DEF Position

\* checkSurface with no more than one invalid surface removes just that one.
LEMMA CheckedOnce ==
  ASSUME NEW S \in SUBSET Surfaces, \A s, t \in S \ valid : s = t
  PROVE  Checked(S) = S \cap valid
<1>1. S \subseteq Int BY SurfacesAssumption
<1>2. ASSUME NEW s \in S \ valid PROVE Taken(s, S) = Position(s, S)
  <2>1. {t \in S \ valid : t < s} = {}
    <3> SUFFICES ASSUME NEW t \in S \ valid, t < s PROVE FALSE OBVIOUS
    <3>1. t = s /\ s \in Int BY <1>1, <1>2
    <3> QED BY <3>1
  <2>2. Position(s, S \ valid) = 0 BY <2>1, FS_EmptySet DEF Position
  <2>3. Position(s, S) \in Nat
    <3>1. IsFiniteSet({t \in S : t < s}) BY SurfacesAssumption, FS_Subset
    <3> QED BY <3>1, FS_CardinalityType DEF Position
  <2> QED BY <2>2, <2>3 DEF Taken
<1>3. ASSUME NEW t \in S \cap valid, NEW s \in S \ valid
      PROVE  Position(t, S) # Taken(s, S)
  <2>1. t # s /\ t \in Int /\ s \in Int BY <1>1, <1>3
  <2>2. t < s \/ s < t BY <2>1
  <2> QED BY <1>2, <1>3, <2>2, PositionsDiffer
<1> QED BY <1>2, <1>3 DEF Checked

\* A renderer that is there was not told to release itself, nor to quit.
HolderKept == mRendererHolder => ~quit /\ NoneOf({"release"})

\* The last message about a surface asks for what was asked last; without one
\* the renderer mirrors on it, or does not, as asked.
Right(s) == /\ s \in mSlaveSurfaces => s \in added
            /\ s \in added \cap valid => s \in mSlaveSurfaces
SlavesKept ==
    mRendererHolder /\ ~muddled =>
        \A s \in Surfaces \ overtaken :
            LastAsks(glQueue, s, added) /\ (~DueIn(glQueue, s) => Right(s))

\* What most steps keep of the queue.
MessagesKept ==
    /\ NoneOf({"release"}) => NoneOf({"release"})'
    /\ \A s \in Surfaces, A \in {added, added'} :
          /\ LastAsks(glQueue, s, A) => LastAsks(glQueue', s, A)
          /\ DueIn(glQueue', s) <=> DueIn(glQueue, s)

LEMMA QueueKept ==
  ASSUME UNCHANGED glQueue
  PROVE  MessagesKept
BY DEF MessagesKept, NoneOf

LEMMA PostKeeps ==
  ASSUME NEW ms \in Seq(Messages), TypeOK, Post(ms),
         \A k \in 1..Len(ms) : ms[k].what \notin SlaveKinds \cup {"release"}
  PROVE  MessagesKept
<1>1. \A k \in 1..Len(ms) : ms[k].what \notin {"release"}
  OBVIOUS
<1>2. \A s \in Surfaces : \A k \in 1..Len(ms) : ~About(ms[k], s)
  BY DEF About, SlaveKinds
<1>3. NoneOf({"release"}) => NoneOf({"release"})' BY <1>1, PostNoneOf
<1>4. glQueue \in Seq(Messages) /\ (glQueue' = glQueue \/ glQueue' = glQueue \o ms)
  BY DEF Post, TypeOK
<1> QED BY <1>2, <1>3, <1>4, AppendOther DEF MessagesKept

LEMMA PostOneKeeps ==
  ASSUME NEW m \in Messages, TypeOK, Post(<<m>>), m.what \notin SlaveKinds, m.what # "release"
  PROVE  MessagesKept
<1>1. <<m>> \in Seq(Messages) /\ \A k \in 1..Len(<<m>>) : <<m>>[k] = m OBVIOUS
<1> QED BY <1>1, PostKeeps

LEMMA PopKeeps ==
  ASSUME TypeOK, glQueue # <<>>, glQueue' = Tail(glQueue),
         Head(glQueue).what \notin SlaveKinds
  PROVE  MessagesKept
<1>1. NoneOf({"release"}) => NoneOf({"release"})' BY PopNoneOf
<1>2. \A s \in Surfaces : ~About(Head(glQueue), s) BY DEF About, SlaveKinds
<1>3. glQueue \in Seq(Messages) BY DEF TypeOK
<1> QED BY <1>1, <1>2, <1>3, TailAsks DEF MessagesKept

\* A step that keeps the messages and what was asked keeps the surfaces right.
LEMMA SlavesSame ==
  ASSUME HolderKept, SlavesKept, MessagesKept, UNCHANGED <<quit, mSlaveSurfaces>>,
         UNCHANGED <<added, overtaken, muddled>>, valid' \subseteq valid,
         mRendererHolder' => mRendererHolder
  PROVE  HolderKept' /\ SlavesKept'
<1>1. HolderKept' BY DEF HolderKept, MessagesKept
<1>2. ASSUME NEW s \in Surfaces, Right(s) PROVE Right(s)' BY <1>2 DEF Right
<1>3. SlavesKept' BY <1>2 DEF SlavesKept, MessagesKept
<1> QED BY <1>1, <1>3

\* A request about s that sends the message m, or sends none because the
\* renderer mirrors on s, or does not, as asked.
LEMMA RequestKeeps ==
  ASSUME TypeOK, HolderKept, SlavesKept, NEW s \in Surfaces, NEW m \in Messages,
         NEW sent \in BOOLEAN, m.what \in {"add", "remove"}, m.arg = s,
         m.what = "add" <=> s \in added', added' \ {s} = added \ {s},
         Post(IF sent THEN <<m>> ELSE <<>>), Overtakes(s, sent),
         ~sent => (s \in mSlaveSurfaces <=> s \in added'),
         UNCHANGED <<mRendererHolder, quit, mSlaveSurfaces, valid, muddled>>
  PROVE  HolderKept' /\ SlavesKept'
<1>0. glQueue \in Seq(Messages) /\ Due(s) = DueIn(glQueue, s)
  BY DEF TypeOK, Due, DueIn
<1>1. CASE ~mRendererHolder
  BY <1>1 DEF HolderKept, SlavesKept
<1>2. CASE mRendererHolder /\ sent
  <2>1. glQueue' = glQueue \o <<m>> /\ overtaken' = overtaken \ {s} /\ Post(<<m>>)
    BY <1>2 DEF HolderKept, Post, Overtakes
  <2>2. <<m>> \in Seq(Messages) /\ \A k \in 1..Len(<<m>>) : <<m>>[k] = m OBVIOUS
  <2>3. HolderKept'
    BY <1>2, <2>1, <2>2, PostNoneOf DEF HolderKept
  <2>4. ASSUME NEW r \in Surfaces \ overtaken', mRendererHolder', ~muddled'
        PROVE  LastAsks(glQueue', r, added') /\ (~DueIn(glQueue', r) => Right(r)')
    <3>1. CASE r = s
      <4>1. About(m, s) BY DEF About
      <4> QED BY <1>0, <2>1, <3>1, <4>1, AppendAbout
    <3>2. CASE r # s
      <4>1. r \in Surfaces \ overtaken /\ (r \in added' <=> r \in added) BY <2>1, <2>4, <3>2
      <4>2. \A k \in 1..Len(<<m>>) : ~About(<<m>>[k], r) BY <2>2, <3>2 DEF About
      <4>3. LastAsks(glQueue, r, added) /\ (~DueIn(glQueue, r) => Right(r))
        BY <2>4, <4>1 DEF SlavesKept
      <4>4. /\ LastAsks(glQueue', r, added)
            /\ DueIn(glQueue', r) <=> DueIn(glQueue, r)
        BY <1>0, <2>1, <2>2, <4>2, <4>3, AppendOther
      <4>5. LastAsks(glQueue', r, added') BY <4>1, <4>4 DEF LastAsks
      <4>6. Right(r) => Right(r)' BY <4>1 DEF Right
      <4> QED BY <4>3, <4>4, <4>5, <4>6
    <3> QED BY <3>1, <3>2
  <2> QED BY <2>3, <2>4 DEF SlavesKept
<1>3. CASE mRendererHolder /\ ~sent
  <2>1. glQueue' = glQueue
    BY <1>0, <1>3 DEF Post
  <2>2. HolderKept' BY <2>1 DEF HolderKept, NoneOf
  <2>3. ASSUME NEW r \in Surfaces \ overtaken', mRendererHolder', ~muddled'
        PROVE  LastAsks(glQueue', r, added') /\ (~DueIn(glQueue', r) => Right(r)')
    <3>1. CASE r = s
      <4>1. ~DueIn(glQueue, s)
        BY <1>0, <1>3, <2>3, <3>1 DEF Overtakes
      <4>2. LastAsks(glQueue', r, added') BY <2>1, <3>1, <4>1 DEF LastAsks, DueIn
      <4>3. Right(r)' BY <1>3, <3>1 DEF Right
      <4> QED BY <4>2, <4>3
    <3>2. CASE r # s
      <4>1. r \in Surfaces \ overtaken /\ (r \in added' <=> r \in added)
        BY <2>3, <3>2 DEF Overtakes
      <4>2. LastAsks(glQueue, r, added) /\ (~DueIn(glQueue, r) => Right(r))
        BY <2>3, <4>1 DEF SlavesKept
      <4>3. LastAsks(glQueue', r, added') BY <2>1, <4>1, <4>2 DEF LastAsks
      <4>4. Right(r) => Right(r)' BY <4>1 DEF Right
      <4> QED BY <2>1, <4>2, <4>3, <4>4
    <3> QED BY <3>1, <3>2
  <2> QED BY <2>2, <2>3 DEF SlavesKept
<1> QED BY <1>1, <1>2, <1>3

\* The GL thread handles a message about slave surfaces: for the others nothing
\* changes, for these it does what the message says.
LEMMA HandleKeeps ==
  ASSUME TypeOK, HolderKept, SlavesKept, NEW what \in SlaveKinds, Handle(what),
         glQueue' = Tail(glQueue),
         UNCHANGED <<mRendererHolder, quit, valid>>, UNCHANGED <<added, overtaken>>,
         muddled => muddled',
         ~muddled' => \A s \in Surfaces :
            /\ ~About(Head(glQueue), s) =>
                  /\ s \in mSlaveSurfaces' => s \in mSlaveSurfaces
                  /\ s \in mSlaveSurfaces \cap valid => s \in mSlaveSurfaces'
            /\ About(Head(glQueue), s) =>
                  /\ s \in mSlaveSurfaces' => what = "add"
                  /\ what = "add" /\ s \in valid => s \in mSlaveSurfaces'
  PROVE  HolderKept' /\ SlavesKept'
<1>1. /\ glQueue \in Seq(Messages) /\ glQueue # <<>> /\ Head(glQueue).what = what
  BY HandleQueued DEF TypeOK
<1>2. HolderKept' BY <1>1, PopNoneOf DEF HolderKept
<1>3. ASSUME NEW s \in Surfaces \ overtaken', mRendererHolder', ~muddled'
      PROVE  LastAsks(glQueue', s, added') /\ (~DueIn(glQueue', s) => Right(s)')
  <2>1. LastAsks(glQueue, s, added) /\ (~DueIn(glQueue, s) => Right(s))
    BY <1>3 DEF SlavesKept
  <2>2. LastAsks(glQueue', s, added') BY <1>1, <2>1, TailAsks
  <2>3. ASSUME ~DueIn(glQueue', s) PROVE Right(s)'
    <3>1. CASE ~About(Head(glQueue), s)
      <4>1. Right(s) BY <1>1, <2>1, <2>3, <3>1, TailAsks
      <4> QED BY <1>3, <3>1, <4>1 DEF Right
    <3>2. CASE About(Head(glQueue), s)
      <4>1. what = "add" <=> s \in added BY <1>1, <2>1, <2>3, <3>2, TailAsks
      <4> QED BY <1>3, <3>2, <4>1 DEF Right
    <3> QED BY <3>1, <3>2
  <2> QED BY <2>2, <2>3
<1> QED BY <1>2, <1>3 DEF SlavesKept

\* Every step keeps the slave surfaces, and what is due to them, as asked.
LEMMA SlavesStep ==
  ASSUME TypeOK, ArgOK, HolderKept, SlavesKept, [Next]_vars
  PROVE  HolderKept' /\ SlavesKept'
<1> USE DEF camera, looper, outside, history
<1>1. CASE BeginOpen
  BY <1>1, QueueKept, SlavesSame DEF BeginOpen, Begin
<1>2. CASE BeginClose
  BY <1>2, QueueKept, SlavesSame DEF BeginClose, Begin
<1>3. CASE BeginPreview
  BY <1>3, QueueKept, SlavesSame DEF BeginPreview, Begin
<1>4. ASSUME NEW s \in Surfaces, BeginSurface(s) PROVE HolderKept' /\ SlavesKept'
  BY <1>4, QueueKept, SlavesSame DEF BeginSurface, Begin
<1>5. ASSUME NEW s \in Surfaces, Invalidate(s) PROVE HolderKept' /\ SlavesKept'
  BY <1>5, QueueKept, SlavesSame DEF Invalidate
<1>6. ASSUME NEW p \in Pictures, BeginPicture(p) PROVE HolderKept' /\ SlavesKept'
  BY <1>6, QueueKept, SlavesSame DEF BeginPicture, Begin
<1>7. ASSUME NEW size \in Sizes, SetPreviewSize(size) PROVE HolderKept' /\ SlavesKept'
  BY <1>7, QueueKept, SlavesSame DEF SetPreviewSize, Begin
<1>8. CASE Detach
  BY <1>8, QueueKept, SlavesSame DEF Detach
<1>9. CASE ResetUVCCamera
  <2> DEFINE m == Message("removeAll", NoArg)
  <2>1. /\ m \in Messages /\ m.what = "removeAll"
        /\ <<m>> \in Seq(Messages) /\ \A k \in 1..Len(<<m>>) : <<m>>[k] = m
    BY MessageTypes DEF Message
  <2>2. /\ UNCHANGED <<mRendererHolder, quit, mSlaveSurfaces, valid, muddled>>
        /\ added' = {} /\ (mRendererHolder => Post(<<m>>))
    BY <1>9 DEF ResetUVCCamera
  <2> HIDE DEF m
  <2>3. CASE ~mRendererHolder
    BY <2>2, <2>3 DEF HolderKept, SlavesKept
  <2>4. CASE mRendererHolder
    <3>1. glQueue \in Seq(Messages) /\ glQueue' = glQueue \o <<m>>
      BY <2>2, <2>4 DEF HolderKept, Post, TypeOK
    <3>2. HolderKept' BY <2>1, <2>2, <2>4, PostNoneOf DEF HolderKept
    <3>3. ASSUME NEW s \in Surfaces
          PROVE  LastAsks(glQueue', s, added') /\ DueIn(glQueue', s)
      <4>1. About(m, s) /\ ~(m.what = "add") BY <2>1 DEF About
      <4>2. ~(s \in added') BY <2>2
      <4> QED BY <2>1, <3>1, <4>1, <4>2, AppendAbout
    <3> QED BY <3>2, <3>3 DEF SlavesKept
  <2> QED BY <2>3, <2>4
<1>10. CASE WaitTimeout
  BY <1>10, QueueKept, SlavesSame DEF WaitTimeout
<1>11. CASE OpenUVCCamera
  BY <1>11, QueueKept, SlavesSame DEF OpenUVCCamera
<1>12. CASE CreateCaptures
  BY <1>12, QueueKept, SlavesSame DEF CreateCaptures
<1>13. ASSUME NEW t \in {"client", "listener"}, CloseCamera(t) PROVE HolderKept' /\ SlavesKept'
  BY <1>13, QueueKept, SlavesSame DEF CloseCamera
<1>14. ASSUME NEW t \in {"client", "listener"}, DropCaptures(t) PROVE HolderKept' /\ SlavesKept'
  BY <1>14, QueueKept, SlavesSame DEF DropCaptures
<1>15. ASSUME NEW t \in Starters, StartPreview(t) PROVE HolderKept' /\ SlavesKept'
  BY <1>15, QueueKept, SlavesSame DEF StartPreview
<1>16. ASSUME NEW t \in Starters, Resize(t) PROVE HolderKept' /\ SlavesKept'
  <2> DEFINE ms == <<Message("updateSize", mCurrentSize), Message("recreate", NoArg)>>
  <2>1. ms \in Seq(Messages) BY MessageTypes DEF TypeOK
  <2>2. \A k \in 1..Len(ms) : ms[k].what \notin SlaveKinds \cup {"release"}
    BY DEF Message, SlaveKinds
  <2>3. Post(ms) BY <1>16 DEF Resize
  <2> HIDE DEF ms
  <2>4. MessagesKept BY <2>1, <2>2, <2>3, PostKeeps
  <2> QED BY <1>16, <2>4, SlavesSame DEF Resize
<1>17. ASSUME NEW t \in Starters, CheckPrimarySurface(t) PROVE HolderKept' /\ SlavesKept'
  BY <1>17, QueueKept, SlavesSame DEF CheckPrimarySurface
<1>18. ASSUME NEW t \in Starters, RequestSurface(t) PROVE HolderKept' /\ SlavesKept'
  <2>1. Message("recreate", NoArg) \in Messages /\ Message("recreate", NoArg).what = "recreate"
    BY MessageTypes DEF Message
  <2>2. MessagesKept BY <1>18, <2>1, PostOneKeeps DEF RequestSurface, SlaveKinds
  <2> QED BY <1>18, <2>2, SlavesSame DEF RequestSurface
<1>19. ASSUME NEW t \in Starters, Relock(t) PROVE HolderKept' /\ SlavesKept'
  BY <1>19, QueueKept, SlavesSame DEF Relock
<1>20. ASSUME NEW t \in Starters, ReadSurface(t) PROVE HolderKept' /\ SlavesKept'
  BY <1>20, QueueKept, SlavesSame DEF ReadSurface
<1>21. ASSUME NEW t \in Starters, SetPreviewDisplay(t) PROVE HolderKept' /\ SlavesKept'
  BY <1>21, QueueKept, SlavesSame DEF SetPreviewDisplay
<1>22. CASE StopPreview
  BY <1>22, QueueKept, SlavesSame DEF StopPreview
<1>23. CASE AddSlaveSurface
  <2>1. PICK s \in Surfaces : arg = s BY <1>23 DEF AddSlaveSurface, ArgOK
  <2> DEFINE m == Message("add", s)
             sent == (s \notin mSlaveSurfaces)
  <2>2. m \in Messages /\ m.what = "add" /\ m.arg = s /\ sent \in BOOLEAN
    BY MessageTypes DEF Message
  <2>3. /\ UNCHANGED <<mRendererHolder, quit, mSlaveSurfaces, valid, muddled>>
        /\ added' = added \cup {s} /\ Overtakes(s, sent)
    BY <1>23, <2>1 DEF AddSlaveSurface
  <2>4. Post(IF sent THEN <<m>> ELSE <<>>)
    BY <1>23, <2>1 DEF AddSlaveSurface, Post, TypeOK
  <2>5. /\ m.what = "add" <=> s \in added'
        /\ added' \ {s} = added \ {s}
        /\ ~sent => (s \in mSlaveSurfaces <=> s \in added')
    BY <2>2, <2>3
  <2> HIDE DEF m, sent
  <2> QED BY <2>2, <2>3, <2>4, <2>5, RequestKeeps
<1>24. CASE RemoveSlaveSurface
  <2>1. PICK s \in Surfaces : arg = s BY <1>24 DEF RemoveSlaveSurface, ArgOK
  <2> DEFINE m == Message("remove", s)
             sent == (s \in mSlaveSurfaces)
  <2>2. m \in Messages /\ m.what = "remove" /\ m.arg = s /\ sent \in BOOLEAN
    BY MessageTypes DEF Message
  <2>3. /\ UNCHANGED <<mRendererHolder, quit, mSlaveSurfaces, valid, muddled>>
        /\ added' = added \ {s} /\ Overtakes(s, sent)
    BY <1>24, <2>1 DEF RemoveSlaveSurface
  <2>4. Post(IF sent THEN <<m>> ELSE <<>>)
    BY <1>24, <2>1 DEF RemoveSlaveSurface, Post, TypeOK
  <2>5. /\ m.what = "add" <=> s \in added'
        /\ added' \ {s} = added \ {s}
        /\ ~sent => (s \in mSlaveSurfaces <=> s \in added')
    BY <2>2, <2>3
  <2> HIDE DEF m, sent
  <2> QED BY <2>2, <2>3, <2>4, <2>5, RequestKeeps
<1>25. CASE UseCapture
  BY <1>25, QueueKept, SlavesSame DEF UseCapture
<1>26. CASE PostCapture
  <2>1. arg \in Pictures BY <1>26 DEF PostCapture, ArgOK
  <2>2. Message("capture", arg) \in Messages /\ Message("capture", arg).what = "capture"
    BY <2>1, MessageTypes DEF Message
  <2>3. MessagesKept BY <1>26, <2>2, PostOneKeeps DEF PostCapture, SlaveKinds
  <2> QED BY <1>26, <2>3, SlavesSame DEF PostCapture
<1>27. CASE RemoveCamera
  BY <1>27, QueueKept, SlavesSame DEF RemoveCamera
<1>28. CASE ReleaseResource
  BY <1>28 DEF ReleaseResource, HolderKept, SlavesKept
<1>29. CASE HandleReCreatePrimarySurface
  <2>1. MessagesKept BY <1>29, PopKeeps DEF HandleReCreatePrimarySurface, Handle, SlaveKinds
  <2> QED BY <1>29, <2>1, SlavesSame DEF HandleReCreatePrimarySurface
<1>30. CASE HandleUpdateSize
  <2>1. MessagesKept BY <1>30, PopKeeps DEF HandleUpdateSize, Handle, SlaveKinds
  <2> QED BY <1>30, <2>1, SlavesSame DEF HandleUpdateSize
<1>31. CASE HandleAddSlaveSurface
  <2>1. /\ glQueue # <<>> /\ Head(glQueue).what = "add" /\ Head(glQueue) \in Messages
        /\ glQueue' = Tail(glQueue)
        /\ UNCHANGED <<mRendererHolder, quit, valid>> /\ UNCHANGED <<added, overtaken>>
    BY <1>31, HandleType DEF HandleAddSlaveSurface, Handle
  <2>2. Head(glQueue).arg \in Surfaces BY <2>1 DEF Messages
  <2>3. \A s \in Surfaces : About(Head(glQueue), s) <=> s = Head(glQueue).arg
    BY <2>1 DEF About
  <2> DEFINE S == mSlaveSurfaces
  <2>4. S \in SUBSET Surfaces /\ muddled' = (muddled \/ \E s, t \in S \ valid : s # t)
    BY <1>31 DEF HandleAddSlaveSurface, Muddles, TypeOK
  <2>5. ~muddled' => mSlaveSurfaces' = (S \cap valid) \cup ({Head(glQueue).arg} \cap valid)
    <3>1. mSlaveSurfaces' = Checked(S) \cup ({Head(glQueue).arg} \cap valid) BY <1>31 DEF HandleAddSlaveSurface
    <3> QED BY <2>4, <3>1, CheckedOnce
  <2>6. ~muddled' => \A s \in Surfaces :
           /\ ~About(Head(glQueue), s) =>
                 /\ s \in mSlaveSurfaces' => s \in mSlaveSurfaces
                 /\ s \in mSlaveSurfaces \cap valid => s \in mSlaveSurfaces'
           /\ About(Head(glQueue), s) =>
                 /\ s \in mSlaveSurfaces' => "add" = "add"
                 /\ "add" = "add" /\ s \in valid => s \in mSlaveSurfaces'
    BY <2>3, <2>5
  <2>7. muddled => muddled' BY <2>4
  <2>8. Handle("add") BY <1>31 DEF HandleAddSlaveSurface
  <2> HIDE DEF S
  <2> QED BY <2>1, <2>6, <2>7, <2>8, HandleKeeps DEF SlaveKinds
<1>32. CASE HandleRemoveSlaveSurface
  <2>1. /\ glQueue # <<>> /\ Head(glQueue).what = "remove" /\ Head(glQueue) \in Messages
        /\ glQueue' = Tail(glQueue)
        /\ UNCHANGED <<mRendererHolder, quit, valid>> /\ UNCHANGED <<added, overtaken>>
    BY <1>32, HandleType DEF HandleRemoveSlaveSurface, Handle
  <2>2. Head(glQueue).arg \in Surfaces BY <2>1 DEF Messages
  <2>3. \A s \in Surfaces : About(Head(glQueue), s) <=> s = Head(glQueue).arg
    BY <2>1 DEF About
  <2> DEFINE S == mSlaveSurfaces \ {Head(glQueue).arg}
  <2>4. S \in SUBSET Surfaces /\ muddled' = (muddled \/ \E s, t \in S \ valid : s # t)
    BY <1>32 DEF HandleRemoveSlaveSurface, Muddles, TypeOK
  <2>5. ~muddled' => mSlaveSurfaces' = S \cap valid
    <3>1. mSlaveSurfaces' = Checked(S) BY <1>32 DEF HandleRemoveSlaveSurface
    <3> QED BY <2>4, <3>1, CheckedOnce
  <2>6. ~muddled' => \A s \in Surfaces :
           /\ ~About(Head(glQueue), s) =>
                 /\ s \in mSlaveSurfaces' => s \in mSlaveSurfaces
                 /\ s \in mSlaveSurfaces \cap valid => s \in mSlaveSurfaces'
           /\ About(Head(glQueue), s) =>
                 /\ s \in mSlaveSurfaces' => "remove" = "add"
                 /\ "remove" = "add" /\ s \in valid => s \in mSlaveSurfaces'
    BY <2>3, <2>5
  <2>7. muddled => muddled' BY <2>4
  <2>8. Handle("remove") BY <1>32 DEF HandleRemoveSlaveSurface
  <2> HIDE DEF S
  <2> QED BY <2>1, <2>6, <2>7, <2>8, HandleKeeps DEF SlaveKinds
<1>33. CASE HandleRemoveSlaveSurfaceAll
  <2>1. /\ Handle("removeAll") /\ Head(glQueue).what = "removeAll"
        /\ glQueue' = Tail(glQueue) /\ mSlaveSurfaces' = {}
        /\ UNCHANGED <<mRendererHolder, quit, valid>>
        /\ UNCHANGED <<added, overtaken, muddled>>
    BY <1>33 DEF HandleRemoveSlaveSurfaceAll, Handle
  <2>2. \A s \in Surfaces : About(Head(glQueue), s) BY <2>1 DEF About
  <2> QED BY <2>1, <2>2, HandleKeeps DEF SlaveKinds
<1>34. CASE HandleRelease
  <2>1. Head(glQueue).what = "release" BY <1>34 DEF HandleRelease, Handle
  <2>2. ~NoneOf({"release"})
    BY <1>34, <2>1, HandleQueued DEF HandleRelease, NoneOf
  <2> QED BY <1>34, <2>2 DEF HandleRelease, HolderKept, SlavesKept
<1>35. CASE CheckSurfaceThrows
  <2>1. UNCHANGED <<mRendererHolder, quit, glQueue>> /\ muddled' = TRUE
    BY <1>35 DEF CheckSurfaceThrows
  <2> QED BY <2>1 DEF HolderKept, SlavesKept, NoneOf
<1>36. CASE HandleCapture
  <2>1. MessagesKept BY <1>36, PopKeeps DEF HandleCapture, Handle, SlaveKinds
  <2> QED BY <1>36, <2>1, SlavesSame DEF HandleCapture
<1>37. CASE LoopEnds
  BY <1>37, QueueKept, SlavesSame DEF LoopEnds
<1>38. CASE ReleasePrimary
  BY <1>38, QueueKept, SlavesSame DEF ReleasePrimary
<1>39. CASE CreatePrimary
  BY <1>39, QueueKept, SlavesSame DEF CreatePrimary
<1>40. CASE OnPrimarySurfaceCreate
  BY <1>40, QueueKept, SlavesSame DEF OnPrimarySurfaceCreate
<1>41. CASE PrimaryCreated
  BY <1>41, QueueKept, SlavesSame DEF PrimaryCreated
<1>42. CASE OnFrameAvailable
  BY <1>42, QueueKept, SlavesSame DEF OnFrameAvailable
<1>43. CASE DrawFails
  <2>1. Message("recreate", NoArg) \in Messages /\ Message("recreate", NoArg).what = "recreate"
    BY MessageTypes DEF Message
  <2>2. MessagesKept BY <1>43, <2>1, PostOneKeeps DEF DrawFails, SlaveKinds
  <2> QED BY <1>43, <2>2, SlavesSame DEF DrawFails
<1>44. ASSUME NEW p \in Pictures, SaveImage(p) PROVE HolderKept' /\ SlavesKept'
  BY <1>44, QueueKept, SlavesSame DEF SaveImage
<1>45. CASE UNCHANGED vars
  BY <1>45, QueueKept, SlavesSame DEF vars
<1>46. ASSUME NEW t \in Starters, CheckValid(t) PROVE HolderKept' /\ SlavesKept'
  BY <1>46, QueueKept, SlavesSame DEF CheckValid
<1>47. ASSUME NEW s \in Surfaces, CleanUp(s) PROVE HolderKept' /\ SlavesKept'
  <2> DEFINE m == Message("remove", s)
             sent == (s \in mSlaveSurfaces)
  <2>2. m \in Messages /\ m.what = "remove" /\ m.arg = s /\ sent \in BOOLEAN
    BY MessageTypes DEF Message
  <2>3. /\ UNCHANGED <<mRendererHolder, quit, mSlaveSurfaces, valid, muddled>>
        /\ added' = added \ {s} /\ Overtakes(s, sent)
    BY <1>47 DEF CleanUp
  <2>4. Post(IF sent THEN <<m>> ELSE <<>>)
    BY <1>47 DEF CleanUp, Post, TypeOK
  <2>5. /\ m.what = "add" <=> s \in added'
        /\ added' \ {s} = added \ {s}
        /\ ~sent => (s \in mSlaveSurfaces <=> s \in added')
    BY <2>2, <2>3
  <2> HIDE DEF m, sent
  <2> QED BY <2>2, <2>3, <2>4, <2>5, RequestKeeps
<1> HIDE DEF camera, looper, outside, history
<1> QED BY <1>1, <1>2, <1>3, <1>4, <1>5, <1>6, <1>7, <1>8, <1>9, <1>10, <1>11, <1>12,
    <1>13, <1>14, <1>15, <1>16, <1>17, <1>18, <1>19, <1>20, <1>21, <1>22, <1>23, <1>24,
    <1>25, <1>26, <1>27, <1>28, <1>29, <1>30, <1>31, <1>32, <1>33, <1>34, <1>35, <1>36,
    <1>37, <1>38, <1>39, <1>40, <1>41, <1>42, <1>43, <1>44, <1>45, <1>46, <1>47 DEF Next, Application,
    Client, Listener, Gl, Messaging, Start, Starters
-----------------------------------------------------------------------------
(***************************************************************************)
(* Where the GL thread is, for NoStaleSurface                              *)
(***************************************************************************)
\* A camera that previews is open, and CameraInternal knows that it previews.
PreviewOn == running => mUVCCamera /\ mIsPreviewing

\* From the new primary surface until it is announced, mLock is held.
Making == {"callback", "startPreview", "resize", "checkSurface", "checkValid", "readSurface",
           "display", "created"}
GlPlaced ==
    /\ pc["gl"] \in {"idle", "recreate", "create", "awaitSize", "ended", "crashed"} \cup Making
    /\ pc["gl"] \in {"create"} \cup Making => lock["mLock"] = "gl"
    /\ pc["gl"] \in Making => mPrimarySurface
    /\ pc["gl"] = "display" => got["gl"] = "current"
    /\ pc["gl"] = "ended" => quit
    /\ pc["gl"] = "crashed" => pc["client"] = "crashed"

\* While the client is in startPreview, and no other primary surface was due,
\* the GL thread makes the one the client has asked for, and nothing else.
AloneKept ==
    mRendererHolder /\ ~overlap =>
        /\ pc["client"] \in {"resize", "checkSurface", "checkValid", "lockSurface", "readSurface",
                           "display"} => pc["gl"] = "idle" /\ NoneOf({"recreate"})
        /\ pc["client"] \in {"awaitSize", "awaitSurface"} =>
             /\ pc["gl"] \in {"idle", "recreate", "create"}
             /\ OneOf({"recreate"})
             /\ pc["gl"] # "idle" => NoneOf({"recreate"})
        /\ pc["client"] \in {"relockSize", "relockSurface"} =>
             /\ pc["gl"] \in {"idle", "callback", "startPreview", "created"}
             /\ NoneOf({"recreate"})
        /\ pc["client"] \in {"relockSize", "relockSurface", "checkValid", "readSurface"} =>
             mPrimarySurface
        /\ pc["client"] = "display" => got["client"] = "current"

\* Outside startPreview and the making of a surface the camera writes into
\* the current one, also when a new one is due.
FreshKept ==
    (/\ mRendererHolder /\ ~overlap /\ running
     /\ pc["client"] \notin StartPlaces /\ pc["gl"] \in {"idle", "created"})
        => display = "current"

\* What a step that posts no "recreate" keeps of the queue.
RecreatesKept ==
    /\ NoneOf({"recreate"}) => NoneOf({"recreate"})'
    /\ OneOf({"recreate"}) => OneOf({"recreate"})'

LEMMA RecreatesQueueKept ==
  ASSUME UNCHANGED glQueue
  PROVE  RecreatesKept
BY DEF RecreatesKept, NoneOf, OneOf

LEMMA RecreatesPopped ==
  ASSUME TypeOK, glQueue # <<>>, glQueue' = Tail(glQueue)
  PROVE  RecreatesKept
<1>1. NoneOf({"recreate"}) => NoneOf({"recreate"})' BY PopNoneOf
<1>2. OneOf({"recreate"}) => OneOf({"recreate"})' BY PopOneOf
<1> QED BY <1>1, <1>2 DEF RecreatesKept

LEMMA RecreatesPosted ==
  ASSUME NEW m \in Messages, TypeOK, Post(<<m>>), m.what # "recreate"
  PROVE  RecreatesKept
<1>1. <<m>> \in Seq(Messages) /\ \A k \in 1..Len(<<m>>) : <<m>>[k] = m OBVIOUS
<1>2. NoneOf({"recreate"}) => NoneOf({"recreate"})' BY <1>1, PostNoneOf
<1>3. OneOf({"recreate"}) => OneOf({"recreate"})' BY <1>1, PostOneOf
<1> QED BY <1>2, <1>3 DEF RecreatesKept

\* startPreview asks for a surface when none is due.
LEMMA RecreatePosted ==
  ASSUME TypeOK, NoneOf({"recreate"}),
         \/ Post(<<Message("recreate", NoArg)>>)
         \/ Post(<<Message("updateSize", mCurrentSize), Message("recreate", NoArg)>>)
  PROVE  OneOf({"recreate"})'
<1>1. CASE Post(<<Message("recreate", NoArg)>>)
  <2>1. /\ <<Message("recreate", NoArg)>> \in Seq(Messages)
        /\ \A k, l \in 1..Len(<<Message("recreate", NoArg)>>) : k = l
    BY MessageTypes
  <2> QED BY <1>1, <2>1, PostFirst
<1>2. CASE Post(<<Message("updateSize", mCurrentSize), Message("recreate", NoArg)>>)
  <2> DEFINE ms == <<Message("updateSize", mCurrentSize), Message("recreate", NoArg)>>
  <2>1. ms \in Seq(Messages) BY MessageTypes DEF TypeOK
  <2>2. \A k, l \in 1..Len(ms) :
           ms[k].what \in {"recreate"} /\ ms[l].what \in {"recreate"} => k = l
    BY DEF Message
  <2> HIDE DEF ms
  <2>3. Post(ms) BY <1>2 DEF ms
  <2> QED BY <2>1, <2>2, <2>3, PostFirst
<1> QED BY <1>1, <1>2

\* Every step keeps the GL thread in its places.
LEMMA GlStep ==
  ASSUME TypeOK, PreviewOn, GlPlaced, [Next]_vars
  PROVE  PreviewOn' /\ GlPlaced'
<1>0. /\ pc \in [Threads -> StartPlaces \cup ClientPlaces \cup GlPlaces \cup ListenerPlaces]
      /\ lock \in [Locks -> Threads \cup {NoThread}]
      /\ got \in [Starters -> {"none", "current", "old"}]
  BY DEF TypeOK
<1> USE <1>0, NoThreadAssumption DEF Goto, Free, camera, native, primary, looper, history,
    Threads, Starters, Locks, StartPlaces, PreviewOn, GlPlaced, Making
<1>1. CASE BeginOpen
  BY <1>1 DEF BeginOpen, Begin
<1>2. CASE BeginClose
  BY <1>2 DEF BeginClose, Begin
<1>3. CASE BeginPreview
  BY <1>3 DEF BeginPreview, Begin
<1>4. ASSUME NEW s \in Surfaces, BeginSurface(s) PROVE PreviewOn' /\ GlPlaced'
  BY <1>4 DEF BeginSurface, Begin
<1>5. ASSUME NEW s \in Surfaces, Invalidate(s) PROVE PreviewOn' /\ GlPlaced'
  BY <1>5 DEF Invalidate
<1>6. ASSUME NEW p \in Pictures, BeginPicture(p) PROVE PreviewOn' /\ GlPlaced'
  BY <1>6 DEF BeginPicture, Begin
<1>7. ASSUME NEW size \in Sizes, SetPreviewSize(size) PROVE PreviewOn' /\ GlPlaced'
  BY <1>7 DEF SetPreviewSize, Begin, Closed
<1>8. CASE Detach
  BY <1>8 DEF Detach
<1>9. CASE ResetUVCCamera
  BY <1>9 DEF ResetUVCCamera, Acquire
<1>10. CASE WaitTimeout
  BY <1>10 DEF WaitTimeout, NotifyAll, Notified, UnlockReset
<1>11. CASE OpenUVCCamera
  BY <1>11 DEF OpenUVCCamera
<1>12. CASE CreateCaptures
  BY <1>12 DEF CreateCaptures
<1>13. ASSUME NEW t \in {"client", "listener"}, CloseCamera(t) PROVE PreviewOn' /\ GlPlaced'
  BY <1>13 DEF CloseCamera, Closed
<1>14. ASSUME NEW t \in {"client", "listener"}, DropCaptures(t) PROVE PreviewOn' /\ GlPlaced'
  BY <1>14 DEF DropCaptures
<1>15. ASSUME NEW t \in Starters, StartPreview(t) PROVE PreviewOn' /\ GlPlaced'
  BY <1>15 DEF StartPreview, AfterStart, Acquire
<1>16. ASSUME NEW t \in Starters, Resize(t) PROVE PreviewOn' /\ GlPlaced'
  BY <1>16 DEF Resize, Released
<1>17. ASSUME NEW t \in Starters, CheckPrimarySurface(t) PROVE PreviewOn' /\ GlPlaced'
  BY <1>17 DEF CheckPrimarySurface, StartAborted, AfterStart, Released
<1>18. ASSUME NEW t \in Starters, RequestSurface(t) PROVE PreviewOn' /\ GlPlaced'
  BY <1>18 DEF RequestSurface, Released
<1>19. ASSUME NEW t \in Starters, Relock(t) PROVE PreviewOn' /\ GlPlaced'
  BY <1>19 DEF Relock
<1>20. ASSUME NEW t \in Starters, ReadSurface(t) PROVE PreviewOn' /\ GlPlaced'
  BY <1>20 DEF ReadSurface
<1>21. ASSUME NEW t \in Starters, SetPreviewDisplay(t) PROVE PreviewOn' /\ GlPlaced'
  BY <1>21 DEF SetPreviewDisplay, AfterStart, Released
<1>22. CASE StopPreview
  BY <1>22 DEF StopPreview
<1>23. CASE AddSlaveSurface
  BY <1>23 DEF AddSlaveSurface
<1>24. CASE RemoveSlaveSurface
  BY <1>24 DEF RemoveSlaveSurface
<1>25. CASE UseCapture
  BY <1>25 DEF UseCapture
<1>26. CASE PostCapture
  BY <1>26 DEF PostCapture
<1>27. CASE RemoveCamera
  BY <1>27 DEF RemoveCamera
<1>28. CASE ReleaseResource
  BY <1>28 DEF ReleaseResource
<1>29. CASE HandleReCreatePrimarySurface
  BY <1>29 DEF HandleReCreatePrimarySurface, Handle
<1>30. CASE HandleUpdateSize
  BY <1>30 DEF HandleUpdateSize, Handle
<1>31. CASE HandleAddSlaveSurface
  BY <1>31 DEF HandleAddSlaveSurface, Handle, NotifyAll, Notified, UnlockReset
<1>32. CASE HandleRemoveSlaveSurface
  BY <1>32 DEF HandleRemoveSlaveSurface, Handle, NotifyAll, Notified, UnlockReset
<1>33. CASE HandleRemoveSlaveSurfaceAll
  BY <1>33 DEF HandleRemoveSlaveSurfaceAll, Handle, NotifyAll, Notified, UnlockReset
<1>34. CASE HandleRelease
  BY <1>34 DEF HandleRelease, Handle, PrimaryReleased, Aged, NotifyAll, Notified,
      UnlockReset
<1>35. CASE CheckSurfaceThrows
  BY <1>35 DEF CheckSurfaceThrows
<1>36. CASE HandleCapture
  BY <1>36 DEF HandleCapture, Handle
<1>37. CASE LoopEnds
  BY <1>37 DEF LoopEnds
<1>38. CASE ReleasePrimary
  BY <1>38 DEF ReleasePrimary, Acquire, PrimaryReleased, Aged
<1>39. CASE CreatePrimary
  BY <1>39 DEF CreatePrimary, Signalled
<1>40. CASE OnPrimarySurfaceCreate
  BY <1>40 DEF OnPrimarySurfaceCreate
<1>41. CASE PrimaryCreated
  BY <1>41 DEF PrimaryCreated, Released
<1>42. CASE OnFrameAvailable
  BY <1>42 DEF OnFrameAvailable
<1>43. CASE DrawFails
  BY <1>43 DEF DrawFails
<1>44. ASSUME NEW p \in Pictures, SaveImage(p) PROVE PreviewOn' /\ GlPlaced'
  BY <1>44 DEF SaveImage
<1>45. CASE UNCHANGED vars
  BY <1>45 DEF vars
<1>46. ASSUME NEW t \in Starters, CheckValid(t) PROVE PreviewOn' /\ GlPlaced'
  BY <1>46 DEF CheckValid, StartAborted, AfterStart, Released
<1>47. ASSUME NEW s \in Surfaces, CleanUp(s) PROVE PreviewOn' /\ GlPlaced'
  BY <1>47 DEF CleanUp
<1> HIDE DEF Goto, Free, camera, native, primary, looper, history, Threads, Locks,
    StartPlaces, PreviewOn, GlPlaced, Making
<1> QED BY <1>1, <1>2, <1>3, <1>4, <1>5, <1>6, <1>7, <1>8, <1>9, <1>10, <1>11, <1>12,
    <1>13, <1>14, <1>15, <1>16, <1>17, <1>18, <1>19, <1>20, <1>21, <1>22, <1>23, <1>24,
    <1>25, <1>26, <1>27, <1>28, <1>29, <1>30, <1>31, <1>32, <1>33, <1>34, <1>35, <1>36,
    <1>37, <1>38, <1>39, <1>40, <1>41, <1>42, <1>43, <1>44, <1>45, <1>46, <1>47 DEF Next, Application,
    Client, Listener, Gl, Messaging, Start, Starters

\* Every step keeps the client's startPreview alone with the surface it asked for.
LEMMA AloneStep ==
  ASSUME TypeOK, CameraLocked, HolderKept, GlPlaced, AloneKept, [Next]_vars
  PROVE  AloneKept'
<1>0. /\ pc \in [Threads -> StartPlaces \cup ClientPlaces \cup GlPlaces \cup ListenerPlaces]
      /\ lock \in [Locks -> Threads \cup {NoThread}]
      /\ got \in [Starters -> {"none", "current", "old"}]
  BY DEF TypeOK
<1> USE <1>0, NoThreadAssumption DEF Goto, Free, camera, native, primary, looper, history,
    Threads, Starters, Locks, StartPlaces, CameraLocked, GlPlaced, Making, HolderKept, AloneKept
<1>1. CASE BeginOpen
  BY <1>1, RecreatesQueueKept DEF BeginOpen, Begin, RecreatesKept
<1>2. CASE BeginClose
  BY <1>2, RecreatesQueueKept DEF BeginClose, Begin, RecreatesKept
<1>3. CASE BeginPreview
  BY <1>3, RecreatesQueueKept DEF BeginPreview, Begin, RecreatesKept
<1>4. ASSUME NEW s \in Surfaces, BeginSurface(s) PROVE AloneKept'
  BY <1>4, RecreatesQueueKept DEF BeginSurface, Begin, RecreatesKept
<1>5. ASSUME NEW s \in Surfaces, Invalidate(s) PROVE AloneKept'
  BY <1>5, RecreatesQueueKept DEF Invalidate, RecreatesKept
<1>6. ASSUME NEW p \in Pictures, BeginPicture(p) PROVE AloneKept'
  BY <1>6, RecreatesQueueKept DEF BeginPicture, Begin, RecreatesKept
<1>7. ASSUME NEW size \in Sizes, SetPreviewSize(size) PROVE AloneKept'
  BY <1>7, RecreatesQueueKept DEF SetPreviewSize, Begin, Closed, RecreatesKept
<1>8. CASE Detach
  BY <1>8, RecreatesQueueKept DEF Detach, RecreatesKept
<1>9. CASE ResetUVCCamera
  BY <1>9 DEF ResetUVCCamera, Acquire
<1>10. CASE WaitTimeout
  BY <1>10, RecreatesQueueKept DEF WaitTimeout, NotifyAll, Notified, UnlockReset,
      RecreatesKept
<1>11. CASE OpenUVCCamera
  BY <1>11, RecreatesQueueKept DEF OpenUVCCamera, RecreatesKept
<1>12. CASE CreateCaptures
  BY <1>12, RecreatesQueueKept DEF CreateCaptures, RecreatesKept
<1>13. ASSUME NEW t \in {"client", "listener"}, CloseCamera(t) PROVE AloneKept'
  BY <1>13, RecreatesQueueKept DEF CloseCamera, Closed, RecreatesKept
<1>14. ASSUME NEW t \in {"client", "listener"}, DropCaptures(t) PROVE AloneKept'
  BY <1>14, RecreatesQueueKept DEF DropCaptures, RecreatesKept
<1>15. ASSUME NEW t \in Starters, StartPreview(t) PROVE AloneKept'
  <2>1. RecreatesKept BY <1>15, RecreatesQueueKept DEF StartPreview
  <2>2. NoneOf({"recreate"}) = ~RecreateDue BY DEF NoneOf, RecreateDue
  <2>3. CASE t = "client"
    BY <1>15, <2>1, <2>2, <2>3 DEF StartPreview, AfterStart, Acquire, RecreatesKept, Recreating
  <2>4. CASE t = "gl"
    BY <1>15, <2>1, <2>4 DEF StartPreview, AfterStart, Acquire
  <2> QED BY <2>3, <2>4
<1>16. ASSUME NEW t \in Starters, Resize(t) PROVE AloneKept'
  <2>1. NoneOf({"recreate"}) => OneOf({"recreate"})'
    BY <1>16, RecreatePosted DEF Resize
  <2> QED BY <1>16, <2>1 DEF Resize, Released
<1>17. ASSUME NEW t \in Starters, CheckPrimarySurface(t) PROVE AloneKept'
  BY <1>17, RecreatesQueueKept DEF CheckPrimarySurface, StartAborted, AfterStart, Released,
      RecreatesKept
<1>18. ASSUME NEW t \in Starters, RequestSurface(t) PROVE AloneKept'
  <2>1. NoneOf({"recreate"}) => OneOf({"recreate"})'
    BY <1>18, RecreatePosted DEF RequestSurface
  <2> QED BY <1>18, <2>1 DEF RequestSurface, Released
<1>19. ASSUME NEW t \in Starters, Relock(t) PROVE AloneKept'
  BY <1>19, RecreatesQueueKept DEF Relock, RecreatesKept
<1>20. ASSUME NEW t \in Starters, ReadSurface(t) PROVE AloneKept'
  BY <1>20, RecreatesQueueKept DEF ReadSurface, RecreatesKept
<1>21. ASSUME NEW t \in Starters, SetPreviewDisplay(t) PROVE AloneKept'
  BY <1>21, RecreatesQueueKept DEF SetPreviewDisplay, AfterStart, Released,
      RecreatesKept
<1>22. CASE StopPreview
  BY <1>22, RecreatesQueueKept DEF StopPreview, RecreatesKept
<1>23. CASE AddSlaveSurface
  BY <1>23 DEF AddSlaveSurface
<1>24. CASE RemoveSlaveSurface
  BY <1>24 DEF RemoveSlaveSurface
<1>25. CASE UseCapture
  BY <1>25, RecreatesQueueKept DEF UseCapture, RecreatesKept
<1>26. CASE PostCapture
  BY <1>26 DEF PostCapture
<1>27. CASE RemoveCamera
  BY <1>27, RecreatesQueueKept DEF RemoveCamera, RecreatesKept
<1>28. CASE ReleaseResource
  BY <1>28 DEF ReleaseResource, Acquire
<1>29. CASE HandleReCreatePrimarySurface
  <2>1. /\ ~NoneOf({"recreate"})
        /\ OneOf({"recreate"}) => NoneOf({"recreate"})' /\ OneOf({"recreate"})'
    BY <1>29, HandleQueued, PopOneOf DEF HandleReCreatePrimarySurface, NoneOf
  <2> QED BY <1>29, <2>1 DEF HandleReCreatePrimarySurface, Handle
<1>30. CASE HandleUpdateSize
  <2>1. RecreatesKept BY <1>30, RecreatesPopped DEF HandleUpdateSize, Handle
  <2> QED BY <1>30, <2>1 DEF HandleUpdateSize, RecreatesKept
<1>31. CASE HandleAddSlaveSurface
  <2>1. RecreatesKept BY <1>31, RecreatesPopped DEF HandleAddSlaveSurface, Handle
  <2> QED BY <1>31, <2>1 DEF HandleAddSlaveSurface, RecreatesKept, NotifyAll,
      Notified, UnlockReset
<1>32. CASE HandleRemoveSlaveSurface
  <2>1. RecreatesKept BY <1>32, RecreatesPopped DEF HandleRemoveSlaveSurface, Handle
  <2> QED BY <1>32, <2>1 DEF HandleRemoveSlaveSurface, RecreatesKept, NotifyAll,
      Notified, UnlockReset
<1>33. CASE HandleRemoveSlaveSurfaceAll
  <2>1. RecreatesKept BY <1>33, RecreatesPopped DEF HandleRemoveSlaveSurfaceAll, Handle
  <2> QED BY <1>33, <2>1 DEF HandleRemoveSlaveSurfaceAll, RecreatesKept, NotifyAll,
      Notified, UnlockReset
<1>34. CASE HandleRelease
  <2>1. Head(glQueue).what = "release" BY <1>34 DEF HandleRelease, Handle
  <2>2. ~NoneOf({"release"})
    BY <1>34, <2>1, HandleQueued DEF HandleRelease, NoneOf
  <2> QED BY <1>34, <2>2 DEF HandleRelease, HolderKept
<1>35. CASE CheckSurfaceThrows
  BY <1>35 DEF CheckSurfaceThrows
<1>36. CASE HandleCapture
  <2>1. RecreatesKept BY <1>36, RecreatesPopped DEF HandleCapture, Handle
  <2> QED BY <1>36, <2>1 DEF HandleCapture, RecreatesKept
<1>37. CASE LoopEnds
  BY <1>37, RecreatesQueueKept DEF LoopEnds, RecreatesKept
<1>38. CASE ReleasePrimary
  BY <1>38, RecreatesQueueKept DEF ReleasePrimary, PrimaryReleased, Aged, Acquire,
     RecreatesKept
<1>39. CASE CreatePrimary
  BY <1>39, RecreatesQueueKept DEF CreatePrimary, Signalled, RecreatesKept
<1>40. CASE OnPrimarySurfaceCreate
  BY <1>40, RecreatesQueueKept DEF OnPrimarySurfaceCreate, RecreatesKept
<1>41. CASE PrimaryCreated
  BY <1>41, RecreatesQueueKept DEF PrimaryCreated, Released, RecreatesKept
<1>42. CASE OnFrameAvailable
  BY <1>42, RecreatesQueueKept DEF OnFrameAvailable, RecreatesKept
<1>43. CASE DrawFails
  BY <1>43 DEF DrawFails
<1>44. ASSUME NEW p \in Pictures, SaveImage(p) PROVE AloneKept'
  BY <1>44, RecreatesQueueKept DEF SaveImage, RecreatesKept
<1>45. CASE UNCHANGED vars
  BY <1>45, RecreatesQueueKept DEF vars, RecreatesKept
<1>46. ASSUME NEW t \in Starters, CheckValid(t) PROVE AloneKept'
  BY <1>46, RecreatesQueueKept DEF CheckValid, StartAborted, AfterStart, Released,
     RecreatesKept
<1>47. ASSUME NEW s \in Surfaces, CleanUp(s) PROVE AloneKept'
  <2>1. CASE s \in mSlaveSurfaces
    <3>1. Message("remove", s) \in Messages /\ Message("remove", s).what = "remove"
      BY MessageTypes DEF Message
    <3>2. RecreatesKept BY <1>47, <2>1, <3>1, RecreatesPosted DEF CleanUp
    <3> QED BY <1>47, <3>2 DEF CleanUp, RecreatesKept
  <2>2. CASE s \notin mSlaveSurfaces
    <3>1. Post(<<>>) BY <1>47, <2>2 DEF CleanUp
    <3>2. glQueue' = glQueue BY <3>1 DEF Post, TypeOK
    <3> QED BY <1>47, <3>2, RecreatesQueueKept DEF CleanUp, RecreatesKept
  <2> QED BY <2>1, <2>2
<1> HIDE DEF Goto, Free, camera, native, primary, looper, history, Threads, Locks,
    StartPlaces, CameraLocked, GlPlaced, Making, HolderKept, AloneKept
<1> QED BY <1>1, <1>2, <1>3, <1>4, <1>5, <1>6, <1>7, <1>8, <1>9, <1>10, <1>11, <1>12,
    <1>13, <1>14, <1>15, <1>16, <1>17, <1>18, <1>19, <1>20, <1>21, <1>22, <1>23, <1>24,
    <1>25, <1>26, <1>27, <1>28, <1>29, <1>30, <1>31, <1>32, <1>33, <1>34, <1>35, <1>36,
    <1>37, <1>38, <1>39, <1>40, <1>41, <1>42, <1>43, <1>44, <1>45, <1>46, <1>47 DEF Next, Application,
    Client, Listener, Gl, Messaging, Start, Starters

\* Every step keeps the camera writing into the current surface.
LEMMA FreshStep ==
  ASSUME TypeOK, CameraLocked, HolderKept, PreviewOn, GlPlaced, AloneKept, FreshKept,
         [Next]_vars
  PROVE  FreshKept'
<1>0. /\ pc \in [Threads -> StartPlaces \cup ClientPlaces \cup GlPlaces \cup ListenerPlaces]
      /\ lock \in [Locks -> Threads \cup {NoThread}]
      /\ got \in [Starters -> {"none", "current", "old"}]
  BY DEF TypeOK
<1> USE <1>0, NoThreadAssumption DEF Goto, Free, camera, native, primary, looper, history,
    Threads, Starters, Locks, StartPlaces, CameraLocked, PreviewOn, GlPlaced, Making, AloneKept, FreshKept
<1>1. CASE BeginOpen
  BY <1>1 DEF BeginOpen, Begin
<1>2. CASE BeginClose
  BY <1>2 DEF BeginClose, Begin
<1>3. CASE BeginPreview
  BY <1>3 DEF BeginPreview, Begin
<1>4. ASSUME NEW s \in Surfaces, BeginSurface(s) PROVE FreshKept'
  BY <1>4 DEF BeginSurface, Begin
<1>5. ASSUME NEW s \in Surfaces, Invalidate(s) PROVE FreshKept'
  BY <1>5 DEF Invalidate
<1>6. ASSUME NEW p \in Pictures, BeginPicture(p) PROVE FreshKept'
  BY <1>6 DEF BeginPicture, Begin
<1>7. ASSUME NEW size \in Sizes, SetPreviewSize(size) PROVE FreshKept'
  BY <1>7 DEF SetPreviewSize, Begin, Closed
<1>8. CASE Detach
  BY <1>8 DEF Detach
<1>9. CASE ResetUVCCamera
  BY <1>9 DEF ResetUVCCamera, Acquire
<1>10. CASE WaitTimeout
  BY <1>10 DEF WaitTimeout, NotifyAll, Notified, UnlockReset
<1>11. CASE OpenUVCCamera
  BY <1>11 DEF OpenUVCCamera
<1>12. CASE CreateCaptures
  BY <1>12 DEF CreateCaptures
<1>13. ASSUME NEW t \in {"client", "listener"}, CloseCamera(t) PROVE FreshKept'
  BY <1>13 DEF CloseCamera, Closed
<1>14. ASSUME NEW t \in {"client", "listener"}, DropCaptures(t) PROVE FreshKept'
  BY <1>14 DEF DropCaptures
<1>15. ASSUME NEW t \in Starters, StartPreview(t) PROVE FreshKept'
  BY <1>15 DEF StartPreview, AfterStart, Acquire
<1>16. ASSUME NEW t \in Starters, Resize(t) PROVE FreshKept'
  BY <1>16 DEF Resize, Released
<1>17. ASSUME NEW t \in Starters, CheckPrimarySurface(t) PROVE FreshKept'
  BY <1>17 DEF CheckPrimarySurface, StartAborted, AfterStart, Released
<1>18. ASSUME NEW t \in Starters, RequestSurface(t) PROVE FreshKept'
  BY <1>18 DEF RequestSurface, Released
<1>19. ASSUME NEW t \in Starters, Relock(t) PROVE FreshKept'
  BY <1>19 DEF Relock
<1>20. ASSUME NEW t \in Starters, ReadSurface(t) PROVE FreshKept'
  BY <1>20 DEF ReadSurface
<1>21. ASSUME NEW t \in Starters, SetPreviewDisplay(t) PROVE FreshKept'
  BY <1>21 DEF SetPreviewDisplay, AfterStart, Released
<1>22. CASE StopPreview
  BY <1>22 DEF StopPreview
<1>23. CASE AddSlaveSurface
  BY <1>23 DEF AddSlaveSurface
<1>24. CASE RemoveSlaveSurface
  BY <1>24 DEF RemoveSlaveSurface
<1>25. CASE UseCapture
  BY <1>25 DEF UseCapture
<1>26. CASE PostCapture
  BY <1>26 DEF PostCapture
<1>27. CASE RemoveCamera
  BY <1>27 DEF RemoveCamera
<1>28. CASE ReleaseResource
  BY <1>28 DEF ReleaseResource
<1>29. CASE HandleReCreatePrimarySurface
  BY <1>29 DEF HandleReCreatePrimarySurface, Handle
<1>30. CASE HandleUpdateSize
  BY <1>30 DEF HandleUpdateSize, Handle
<1>31. CASE HandleAddSlaveSurface
  BY <1>31 DEF HandleAddSlaveSurface, Handle, NotifyAll, Notified, UnlockReset
<1>32. CASE HandleRemoveSlaveSurface
  BY <1>32 DEF HandleRemoveSlaveSurface, Handle, NotifyAll, Notified, UnlockReset
<1>33. CASE HandleRemoveSlaveSurfaceAll
  BY <1>33 DEF HandleRemoveSlaveSurfaceAll, Handle, NotifyAll, Notified, UnlockReset
<1>34. CASE HandleRelease
  <2>1. Head(glQueue).what = "release" BY <1>34 DEF HandleRelease, Handle
  <2>2. ~NoneOf({"release"})
    BY <1>34, <2>1, HandleQueued DEF HandleRelease, NoneOf
  <2> QED BY <1>34, <2>2 DEF HandleRelease, HolderKept
<1>35. CASE CheckSurfaceThrows
  BY <1>35 DEF CheckSurfaceThrows
<1>36. CASE HandleCapture
  BY <1>36 DEF HandleCapture, Handle
<1>37. CASE LoopEnds
  BY <1>37 DEF LoopEnds
<1>38. CASE ReleasePrimary
  BY <1>38 DEF ReleasePrimary, Acquire, PrimaryReleased, Aged
<1>39. CASE CreatePrimary
  BY <1>39 DEF CreatePrimary, Signalled
<1>40. CASE OnPrimarySurfaceCreate
  BY <1>40 DEF OnPrimarySurfaceCreate
<1>41. CASE PrimaryCreated
  BY <1>41 DEF PrimaryCreated, Released
<1>42. CASE OnFrameAvailable
  BY <1>42 DEF OnFrameAvailable
<1>43. CASE DrawFails
  BY <1>43 DEF DrawFails
<1>44. ASSUME NEW p \in Pictures, SaveImage(p) PROVE FreshKept'
  BY <1>44 DEF SaveImage
<1>45. CASE UNCHANGED vars
  BY <1>45 DEF vars
<1>46. ASSUME NEW t \in Starters, CheckValid(t) PROVE FreshKept'
  BY <1>46 DEF CheckValid, StartAborted, AfterStart, Released
<1>47. ASSUME NEW s \in Surfaces, CleanUp(s) PROVE FreshKept'
  BY <1>47 DEF CleanUp
<1> HIDE DEF Goto, Free, camera, native, primary, looper, history, Threads, Locks,
    StartPlaces, CameraLocked, PreviewOn, GlPlaced, Making, AloneKept, FreshKept
<1> QED BY <1>1, <1>2, <1>3, <1>4, <1>5, <1>6, <1>7, <1>8, <1>9, <1>10, <1>11, <1>12,
    <1>13, <1>14, <1>15, <1>16, <1>17, <1>18, <1>19, <1>20, <1>21, <1>22, <1>23, <1>24,
    <1>25, <1>26, <1>27, <1>28, <1>29, <1>30, <1>31, <1>32, <1>33, <1>34, <1>35, <1>36,
    <1>37, <1>38, <1>39, <1>40, <1>41, <1>42, <1>43, <1>44, <1>45, <1>46, <1>47 DEF Next, Application,
    Client, Listener, Gl, Messaging, Start, Starters
-----------------------------------------------------------------------------
(***************************************************************************)
(* The invariant of the renderer and what it implies                       *)
(***************************************************************************)
RendererInv == HolderKept /\ SlavesKept /\ PreviewOn /\ GlPlaced /\ AloneKept /\ FreshKept

LEMMA InitRendererInv == Init => RendererInv
<1> SUFFICES ASSUME Init PROVE RendererInv OBVIOUS
<1>1. /\ pc = [t \in Threads |-> "idle"] /\ ~quit /\ mSlaveSurfaces = {} /\ added = {}
      /\ running => mUVCCamera /\ mIsPreviewing /\ display = "current"
  BY DEF Init, Selected, Previewing
<1>2. NoneOf({"release"}) /\ \A s \in Surfaces : ~DueIn(glQueue, s)
  <2>1. CASE glQueue = <<>> BY <2>1 DEF NoneOf, DueIn
  <2>2. CASE glQueue = <<Message("recreate", NoArg)>>
    BY <2>2 DEF NoneOf, DueIn, About, Message
  <2> QED BY <2>1, <2>2 DEF Init, Selected, Previewing
<1>3. HolderKept /\ SlavesKept
  BY <1>1, <1>2 DEF HolderKept, SlavesKept, LastAsks, DueIn, Right
<1>4. PreviewOn /\ GlPlaced /\ AloneKept /\ FreshKept
  BY <1>1 DEF PreviewOn, GlPlaced, Making, AloneKept, FreshKept, Threads
<1> QED BY <1>3, <1>4 DEF RendererInv

\* It holds in every state of every behaviour.
THEOREM RendererInvariance == Spec => []RendererInv
<1>1. ASSUME IInv, RendererInv, [Next]_vars PROVE RendererInv'
  BY <1>1, SlavesStep, GlStep, AloneStep, FreshStep DEF IInv, RendererInv
<1> QED BY InitRendererInv, Invariance, <1>1, PTL DEF Spec

\* While no request about it is due, the renderer mirrors on a surface just if
\* the last request, of the application or of the executor, was to add it and it
\* is still valid: for any finite set of surfaces, and except for the two ways in
\* which the code loses a request, a request decided on mSlaveSurfaces while
\* another was due and a checkSurface that met two invalid surfaces
\* (RendererHolder.java:225, 246, 616).
THEOREM SlavesAsAskedHolds == Spec => []SlavesAsAsked
<1>1. RendererInv => SlavesAsAsked
  BY DEF RendererInv, SlavesKept, Right, DueIn, Due, SlavesAsAsked
<1> QED BY RendererInvariance, <1>1, PTL

\* Once the GL thread has nothing to recreate, a camera that previews writes
\* into the surface the renderer draws from, unless another surface was due
\* while the client started the preview (CameraInternal.java:65).
THEOREM NoStaleSurfaceHolds == Spec => []NoStaleSurface
<1>1. RendererInv => NoStaleSurface
  BY DEF RendererInv, HolderKept, GlPlaced, Making, FreshKept, NoStaleSurface, Alive, Recreating,
     StartPlaces
<1> QED BY RendererInvariance, <1>1, PTL
=============================================================================
