----------------------- MODULE CameraConnectionProofs -----------------------
(***************************************************************************)
(* Proofs about CameraConnection for any set of devices and any number of  *)
(* operations: types, NoCircularWait and ListedCamerasLive.                *)
(*                                                                         *)
(* The inductive invariant says, besides the types, where every thread     *)
(* that holds a lock can be (LocksHeld), that the references a thread uses *)
(* are not null (Located), and that a listed camera that is released is    *)
(* about to be removed by a thread that holds mConnectionSync              *)
(* (ReleasedLocked).  There is one lemma per part, with a step per action. *)
(***************************************************************************)
EXTENDS CameraConnection, TLAPS

\* Places where a thread uses its device, mUsbDevice, its camera.
DevicePlaces == {"selectDevice", "requestPermission", "updateDeviceKeys", "openDevice",
                 "postOpen", "findCamera", "closeOriginal", "removeCamera", "granted",
                 "denied", "detach", "closeDetached", "postDetach"}
UsbDevicePlaces == {"openCheck", "openGet", "openWait", "openWoken", "closeCheck", "closeGet",
                    "closeWait", "closeWoken"}
ClosePlaces == {"closeCamera", "closeBlock", "closeEntry"}
CameraPlaces == ClosePlaces \cup {"releaseResource", "resetUVCCamera", "openUVCCamera"}
\* Places where a thread holds mConnectionSync.
ConnectionPlaces == ClosePlaces \cup
    {"requestPermission", "updateDeviceKeys", "openDevice", "postOpen", "findCamera",
     "release", "releaseResource"}
\* The references a thread uses are not null, and a listed camera is that of
\* its key.
Located ==
    /\ \A t \in Threads : pc[t] \in DevicePlaces => dev[t] \in Devices
    /\ pc["helper"] \in UsbDevicePlaces => mUsbDevice \in Devices
    /\ \A t \in Threads : pc[t] \in CameraPlaces =>
           cam[t] \in Cameras /\ device[cam[t]] \in Devices
    /\ \A t \in Threads : \A c \in todo[t] : device[c] \in Devices
    /\ \A d \in Devices : mCameras[d] # NoCamera => device[mCameras[d]] = d
\* The helper holds mConnectionSync here.
SelectingPlaces ==
    {"requestPermission", "updateDeviceKeys", "openDevice", "postOpen", "findCamera"}

\* Where the owner of every lock is.
LocksHeld ==
    /\ \A t \in Threads :
         /\ lock["mConnectionSync"] = t =>
               /\ t # "monitor" /\ pc[t] \in ConnectionPlaces
               /\ pc[t] \in ClosePlaces => back[t] = "releaseResource"
         /\ lock["CameraInternal"] = t => pc[t] \in {"closeBlock", "closeEntry"}
         /\ lock["USBMonitor"] = t => t = "monitor" /\ pc[t] \in {"openDevice", "postOpen"}
         /\ lock["clone"] = t => pc[t] = "closeEntry"
         /\ lock["mOpenedCtrlBlocks"] = t => pc[t] \in {"closeDetached", "closeOriginal"}
    /\ lock["original"] = NoThread
    /\ pc["helper"] \in SelectingPlaces => lock["mConnectionSync"] = "helper"

\* t is releasing cameras, with mConnectionSync locked.
Releasing(t) == \/ pc[t] \in {"release", "releaseResource"}
                \/ pc[t] \in ClosePlaces /\ back[t] = "releaseResource"

\* Nobody but a thread that is releasing sees a released camera listed.
ReleasedLocked ==
    /\ \A t \in Threads : Releasing(t) => lock["mConnectionSync"] = t
    /\ \A d \in Devices : mCameras[d] # NoCamera /\ released[mCameras[d]] =>
           \E t \in Threads : Releasing(t)
    /\ \A c \in Cameras : released[c] => device[c] # NoDevice

\* The inductive invariant.
IInv == TypeOK /\ Located /\ LocksHeld /\ ReleasedLocked

\* What Handler.post, the next message and a broadcast do to the queues.
LEMMA PostType ==
  ASSUME NEW kind \in {"open", "close", "detach", "cancel", "error"}, NEW d \in Devices,
         TypeOK, Post(kind, d)
  PROVE  listenerQueue' \in Seq(Events) /\ listenerQuit' \in BOOLEAN
<1>1. [kind |-> kind, dev |-> d] \in Events BY DEF Events
<1> QED BY <1>1 DEF Post, TypeOK

LEMMA IncomingType ==
  ASSUME NEW kind, TypeOK, Incoming(kind)
  PROVE  /\ Head(listenerQueue).dev \in Devices
         /\ listenerQueue' \in Seq(Events) /\ listenerQuit' \in BOOLEAN
<1>1. Head(listenerQueue) \in Events /\ Tail(listenerQueue) \in Seq(Events) BY DEF Incoming,
    TypeOK
<1> QED BY <1>1 DEF Incoming, TypeOK, Events

LEMMA ReceiveType ==
  ASSUME TypeOK, OnReceive
  PROVE  /\ Head(monitorQueue).dev \in Devices
         /\ Head(monitorQueue).kind \in {"granted", "denied", "detach"}
         /\ monitorQueue' \in Seq(Broadcasts)
<1>1. Head(monitorQueue) \in Broadcasts /\ Tail(monitorQueue) \in Seq(Broadcasts)
  BY DEF OnReceive, TypeOK
<1> QED BY <1>1 DEF OnReceive, Broadcasts

LEMMA BroadcastType ==
  ASSUME NEW kind \in {"granted", "denied", "detach"}, NEW d \in Devices,
         TypeOK, Broadcast(kind, d)
  PROVE  monitorQueue' \in Seq(Broadcasts)
<1>1. [kind |-> kind, dev |-> d] \in Broadcasts BY DEF Broadcasts
<1> QED BY <1>1 DEF Broadcast, TypeOK

LEMMA TypeRequestPermission == ASSUME TypeOK, Located, RequestPermission PROVE TypeOK'
<1>1. dev["helper"] \in Devices BY DEF RequestPermission, Located, Threads, DevicePlaces
<1>2. listenerQueue' \in Seq(Events) /\ listenerQuit' \in BOOLEAN
  BY <1>1, PostType DEF RequestPermission, events, TypeOK
<1>3. asked' \subseteq Devices BY <1>1 DEF RequestPermission, TypeOK
<1> QED BY <1>2, <1>3 DEF RequestPermission, Goto, system, monitor, connection, events,
    cameras, helper, locals, TypeOK, Threads, Locks, Cameras, UvcStates, Broadcasts,
    HelperPlaces, MonitorPlaces, ListenerPlaces

LEMMA TypeOpenDevice ==
  ASSUME NEW t \in {"helper", "monitor"}, TypeOK, Located, OpenDevice(t)
  PROVE  TypeOK'
<1>1. dev[t] \in Devices BY DEF OpenDevice, Located, Threads, DevicePlaces
<1>2. listenerQueue' \in Seq(Events) /\ listenerQuit' \in BOOLEAN
  BY <1>1, PostType DEF OpenDevice, events, TypeOK
<1>3. opened' \subseteq Devices BY <1>1 DEF OpenDevice, TypeOK
<1>4. lock' \in [Locks -> Threads \cup {NoThread}] BY DEF OpenDevice, TypeOK
<1> QED BY <1>2, <1>3, <1>4 DEF OpenDevice, Goto, system, monitor, connection, events,
    cameras, helper, locals, TypeOK, Threads, Locks, Cameras, UvcStates, Broadcasts,
    HelperPlaces, MonitorPlaces, ListenerPlaces

LEMMA TypeCloseBlock ==
  ASSUME NEW t \in {"helper", "listener"}, TypeOK, Located, CloseBlock(t)
  PROVE  TypeOK'
<1>1. cam[t] \in Cameras /\ device[cam[t]] \in Devices
  BY DEF CloseBlock, Located, Threads, CameraPlaces, ClosePlaces
<1>2. listenerQueue' \in Seq(Events) /\ listenerQuit' \in BOOLEAN
  BY <1>1, PostType DEF CloseBlock, events, TypeOK
<1>3. lock' \in [Locks -> Threads \cup {NoThread}] BY DEF CloseBlock, BlockLock, TypeOK,
    Threads
<1>4. mUVCCamera' \in [Cameras -> UvcStates] /\ device' = device /\ released' = released
  BY DEF CloseBlock, TypeOK, UvcStates, cameras
<1>5. pc' \in [Threads -> HelperPlaces \cup MonitorPlaces \cup ListenerPlaces]
  BY DEF CloseBlock, Goto, TypeOK, Threads, HelperPlaces, MonitorPlaces, ListenerPlaces
<1> QED BY <1>2, <1>3, <1>4, <1>5 DEF CloseBlock, system, monitor, connection, helper,
    locals, TypeOK

LEMMA TypeAddCamera == ASSUME TypeOK, Located, AddCamera PROVE TypeOK'
<1> DEFINE d == Head(listenerQueue).dev
<1>1. d \in Devices /\ listenerQueue' \in Seq(Events) /\ listenerQuit' \in BOOLEAN
  BY IncomingType DEF AddCamera
<1>2. mCameras' \in [Devices -> Cameras \cup {NoCamera}] /\ device' \in [Cameras -> Devices
    \cup {NoDevice}]
  BY <1>1, ZenonT(60) DEF AddCamera, TypeOK
<1>3. pc' \in [Threads -> HelperPlaces \cup MonitorPlaces \cup ListenerPlaces]
  BY DEF AddCamera, NotifyAll, Woken, TypeOK, Threads, HelperPlaces, MonitorPlaces,
      ListenerPlaces
<1>4. mLastCameraKey' \in Devices \cup {NoDevice} BY DEF AddCamera
<1> QED BY <1>1, <1>2, <1>3, <1>4 DEF AddCamera, system, monitor, helper, locals, TypeOK

LEMMA LocReleaseCameras == ASSUME TypeOK, Located, ReleaseCameras PROVE Located'
<1>1. \A t \in Threads : \A c \in todo'[t] : device'[c] \in Devices
  <2>1. CASE todo' = todo BY <2>1 DEF ReleaseCameras, cameras, Located
  <2>2. ASSUME NEW ds \in {{mUsbDevice} \cap Devices, Devices},
               todo' = [todo EXCEPT !["helper"] = {mCameras[d] : d \in ds} \ {NoCamera}]
        PROVE  \A t \in Threads : \A c \in todo'[t] : device'[c] \in Devices
    <3>1. \A c \in {mCameras[d] : d \in ds} \ {NoCamera} : device[c] \in Devices
      BY DEF Located
    <3> QED BY <2>2, <3>1 DEF ReleaseCameras, cameras, Located, TypeOK, Threads
  <2> QED BY <2>1, <2>2 DEF ReleaseCameras
<1> QED BY <1>1, NoDeviceAssumption DEF ReleaseCameras, Goto, system, monitor, connection,
    events, cameras, helper, locals, Located, TypeOK, Threads, DevicePlaces,
    UsbDevicePlaces, ClosePlaces, CameraPlaces

LEMMA LocAddCamera == ASSUME TypeOK, Located, AddCamera PROVE Located'
<1> DEFINE d == Head(listenerQueue).dev
<1>1. d \in Devices BY IncomingType DEF AddCamera
<1>2. CASE mCameras[d] # NoCamera
  <2>1. UNCHANGED <<mCameras, device>> BY <1>2 DEF AddCamera
  <2> QED BY <2>1 DEF AddCamera, NotifyAll, Woken, Incoming, helper, locals, Located,
      TypeOK, Threads, DevicePlaces, UsbDevicePlaces, ClosePlaces, CameraPlaces
<1>3. CASE mCameras[d] = NoCamera
  <2>1. PICK c \in Cameras : /\ device[c] = NoDevice
                             /\ device' = [device EXCEPT ![c] = d]
                             /\ mCameras' = [mCameras EXCEPT ![d] = c]
    BY <1>3 DEF AddCamera
  <2>2. \A e \in Cameras : device[e] \in Devices => device'[e] = device[e]
    BY <2>1, NoDeviceAssumption DEF TypeOK
  <2>3. \A e \in Devices : mCameras'[e] # NoCamera => device'[mCameras'[e]] = e
    <3> SUFFICES ASSUME NEW e \in Devices, mCameras'[e] # NoCamera
                 PROVE  device'[mCameras'[e]] = e
        OBVIOUS
    <3>1. CASE e = d BY <3>1, <2>1, <1>1 DEF TypeOK
    <3>2. CASE e # d
      <4>1. mCameras'[e] = mCameras[e] /\ mCameras[e] \in Cameras
        BY <3>2, <2>1, <1>1 DEF TypeOK
      <4> QED BY <4>1, <2>2 DEF Located
    <3> QED BY <3>1, <3>2
  <2>4. \A t \in Threads : \A e \in todo[t] : e \in Cameras /\ device[e] \in Devices
    BY DEF Located, TypeOK
  <2>5. \A t \in Threads : \A e \in todo'[t] : device'[e] \in Devices
    BY <2>2, <2>4 DEF AddCamera, locals
  <2>6. \A t \in Threads : pc'[t] \in CameraPlaces => cam'[t] \in Cameras /\
      device'[cam'[t]] \in Devices
    BY <2>2 DEF AddCamera, NotifyAll, Woken, locals, Located, TypeOK, Threads, CameraPlaces,
        ClosePlaces
  <2>7. /\ \A t \in Threads : pc'[t] \in DevicePlaces => dev'[t] \in Devices
        /\ pc'["helper"] \in UsbDevicePlaces => mUsbDevice' \in Devices
    BY DEF AddCamera, NotifyAll, Woken, locals, helper, Located, TypeOK, Threads,
        DevicePlaces, UsbDevicePlaces
  <2> QED BY <2>3, <2>5, <2>6, <2>7 DEF Located
<1> QED BY <1>2, <1>3

LEMMA LockCameraRemoved ==
  ASSUME TypeOK, LocksHeld, ReleasedLocked, CameraRemoved
  PROVE  LocksHeld'
<1>1. lock["mConnectionSync"] = "listener" BY DEF CameraRemoved, ReleasedLocked, Releasing,
    Threads
<1>2. pc["helper"] \notin SelectingPlaces BY <1>1 DEF LocksHeld
<1> QED BY <1>1, <1>2, NoThreadAssumption DEF CameraRemoved, NotifyAll, Woken, locals,
    LocksHeld, SelectingPlaces, Threads, Locks, ConnectionPlaces, ClosePlaces, TypeOK

LEMMA RelCamerasReleased ==
  ASSUME TypeOK, LocksHeld, ReleasedLocked, CamerasReleased
  PROVE  ReleasedLocked'
<1>1. lock["mConnectionSync"] = "helper" BY DEF CamerasReleased, ReleasedLocked, Releasing,
    Threads
<1>2. \A t \in Threads : ~Releasing(t)'
  BY <1>1 DEF CamerasReleased, Goto, locals, ReleasedLocked, Releasing, ClosePlaces,
      Threads, TypeOK
<1>3. \A d \in Devices : ~(mCameras'[d] # NoCamera /\ released'[mCameras'[d]])
  BY DEF CamerasReleased, ReleasedRemoved, cameras
<1> QED BY <1>2, <1>3 DEF CamerasReleased, cameras, ReleasedLocked

LEMMA RelCameraRemoved ==
  ASSUME TypeOK, LocksHeld, ReleasedLocked, CameraRemoved
  PROVE  ReleasedLocked'
<1>1. lock["mConnectionSync"] = "listener" BY DEF CameraRemoved, ReleasedLocked, Releasing,
    Threads
<1>2. \A t \in Threads : ~Releasing(t)'
  BY <1>1 DEF CameraRemoved, NotifyAll, Woken, locals, ReleasedLocked, Releasing,
      ClosePlaces, Threads, TypeOK
<1>3. \A d \in Devices : ~(mCameras'[d] # NoCamera /\ released'[mCameras'[d]])
  BY DEF CameraRemoved, ReleasedRemoved, cameras
<1> QED BY <1>2, <1>3 DEF CameraRemoved, cameras, ReleasedLocked

LEMMA RelAddCamera ==
  ASSUME TypeOK, Located, LocksHeld, ReleasedLocked, AddCamera
  PROVE  ReleasedLocked'
<1> DEFINE d == Head(listenerQueue).dev
<1>1. d \in Devices BY IncomingType DEF AddCamera
<1>2. \A t \in Threads : Releasing(t)' = Releasing(t)
  BY DEF AddCamera, Incoming, NotifyAll, Woken, locals, Releasing, ClosePlaces, Threads,
      TypeOK
<1>3. \A c \in Cameras : released[c] => device'[c] # NoDevice
  BY <1>1, NoDeviceAssumption DEF AddCamera, ReleasedLocked, TypeOK
<1>4. \A e \in Devices : mCameras'[e] # NoCamera /\ released[mCameras'[e]]
                           => mCameras[e] # NoCamera /\ released[mCameras[e]]
  BY <1>1 DEF AddCamera, ReleasedLocked, TypeOK
<1> QED BY <1>2, <1>3, <1>4 DEF AddCamera, ReleasedLocked

LEMMA RelRelease ==
  ASSUME NEW t \in {"helper", "listener"}, TypeOK, Located, ReleasedLocked, Release(t)
  PROVE  ReleasedLocked'
<1>1. \A u \in Threads : Releasing(u)' = Releasing(u)
  BY DEF Release, Goto, Releasing, ClosePlaces, Threads, TypeOK
<1> QED BY <1>1 DEF Release, connection, cameras, ReleasedLocked

LEMMA RelReleaseResource ==
  ASSUME NEW t \in {"helper", "listener"}, TypeOK, Located, ReleasedLocked, ReleaseResource(t)
  PROVE  ReleasedLocked'
<1>1. \A u \in Threads : Releasing(u)' = Releasing(u)
  BY DEF ReleaseResource, Goto, locals, Releasing, ClosePlaces, Threads, TypeOK
<1>2. Releasing(t)' /\ t \in Threads
  BY DEF ReleaseResource, Goto, locals, Releasing, ClosePlaces, Threads, TypeOK
<1>3. device[cam[t]] # NoDevice
  BY NoDeviceAssumption DEF ReleaseResource, Located, CameraPlaces, Threads
<1> QED BY <1>1, <1>2, <1>3 DEF ReleaseResource, connection, ReleasedLocked, TypeOK

LEMMA LocCloseBlock ==
  ASSUME NEW t \in {"helper", "listener"}, TypeOK, Located, CloseBlock(t)
  PROVE  Located'
<1>1. UNCHANGED <<mCameras, device, dev, cam, todo, mUsbDevice>>
  BY DEF CloseBlock, connection, cameras, locals, helper
<1>2. /\ t \in Threads /\ pc[t] \in CameraPlaces
      /\ pc' = [pc EXCEPT ![t] = "closeEntry"] \/ pc' = [pc EXCEPT ![t] = back[t]]
      /\ back[t] \in {"idle", "releaseResource"}
  BY DEF CloseBlock, Goto, TypeOK, Threads, CameraPlaces, ClosePlaces
<1>3. \A u \in Threads : /\ pc'[u] \in DevicePlaces => pc[u] \in DevicePlaces
                         /\ pc'[u] \in CameraPlaces => pc[u] \in CameraPlaces
                         /\ pc'[u] \in UsbDevicePlaces => pc[u] \in UsbDevicePlaces
  BY <1>2 DEF TypeOK, DevicePlaces, CameraPlaces, ClosePlaces, UsbDevicePlaces
<1> QED BY <1>1, <1>3 DEF Located, Threads

LEMMA RelCloseBlock ==
  ASSUME NEW t \in {"helper", "listener"}, TypeOK, ReleasedLocked, CloseBlock(t)
  PROVE  ReleasedLocked'
<1>1. \A u \in Threads : Releasing(u)' => Releasing(u)
  BY DEF CloseBlock, Goto, locals, Releasing, ClosePlaces, Threads, TypeOK
<1>2. Releasing(t) => Releasing(t)'
  BY DEF CloseBlock, Goto, locals, Releasing, ClosePlaces, Threads, TypeOK
<1>3. \A u \in Threads : Releasing(u) => Releasing(u)'
  BY <1>2 DEF CloseBlock, Goto, locals, Releasing, ClosePlaces, Threads, TypeOK
<1>4. /\ UNCHANGED <<mCameras, device, released>>
      /\ lock'["mConnectionSync"] = lock["mConnectionSync"]
  BY DEF CloseBlock, BlockLock, connection, cameras, Locks, TypeOK
<1> QED BY <1>1, <1>3, <1>4 DEF ReleasedLocked

\* Every step keeps the types.
LEMMA TypeStep ==
  ASSUME TypeOK, Located, [Next]_vars
  PROVE  TypeOK'
<1> USE MaxOpsAssumption, NoDeviceAssumption DEF Goto, Free, Take, system, monitor,
    connection, events, cameras, helper, locals, TypeOK, Threads, Locks, Cameras, UvcStates,
    Broadcasts, HelperPlaces, MonitorPlaces, ListenerPlaces, DevicePlaces, UsbDevicePlaces,
    ClosePlaces, CameraPlaces, Located
<1>1. CASE BeginSelect
  BY <1>1 DEF BeginSelect, Begin
<1>2. CASE BeginOpen
  BY <1>2 DEF BeginOpen, Begin
<1>3. CASE BeginClose
  BY <1>3 DEF BeginClose, Begin
<1>4. CASE BeginRelease
  BY <1>4 DEF BeginRelease, Begin
<1>5. CASE SelectDevice
  BY <1>5 DEF SelectDevice
<1>6. CASE RequestPermission
  BY <1>6, TypeRequestPermission
<1>7. CASE UpdateDeviceKeys
  BY <1>7 DEF UpdateDeviceKeys
<1>8. CASE FindCamera
  BY <1>8 DEF FindCamera
<1>9. CASE SelectWoken
  BY <1>9 DEF SelectWoken
<1>10. CASE OpenCheck
  BY <1>10 DEF OpenCheck
<1>11. CASE CloseCheck
  BY <1>11 DEF CloseCheck
<1>12. CASE OpenGet
  BY <1>12 DEF OpenGet, GetCamera
<1>13. CASE OpenWoken
  BY <1>13 DEF OpenWoken, GetCamera
<1>14. CASE CloseGet
  BY <1>14 DEF CloseGet, GetCamera
<1>15. CASE ResetUVCCamera
  BY <1>15 DEF ResetUVCCamera
<1>16. CASE OpenUVCCamera
  BY <1>16 DEF OpenUVCCamera
<1>17. CASE ReleaseCameras
  BY <1>17 DEF ReleaseCameras
<1>18. CASE CamerasReleased
  BY <1>18 DEF CamerasReleased, ReleasedRemoved
<1>19. CASE Destroy
  BY <1>19 DEF Destroy
<1>20. CASE SetDestroyed
  BY <1>20 DEF SetDestroyed
<1>21. CASE CloseConnected
  BY <1>21 DEF CloseConnected
<1>22. CASE CloseOriginal
  BY <1>22, PostType DEF CloseOriginal
<1>23. CASE Quit
  BY <1>23 DEF Quit
<1>24. CASE OnReceive
  BY <1>24, ReceiveType DEF OnReceive
<1>25. CASE Granted
  BY <1>25 DEF Granted, Dropped
<1>26. CASE Denied
  BY <1>26, PostType DEF Denied
<1>27. CASE Detach
  BY <1>27 DEF Detach
<1>28. CASE CloseDetached
  BY <1>28, PostType DEF CloseDetached
<1>29. CASE PostDetach
  BY <1>29, PostType DEF PostDetach
<1>30. CASE AddCamera
  BY <1>30, TypeAddCamera
<1>31. CASE CancelOrError
  BY <1>31, IncomingType DEF CancelOrError, Incoming, NotifyAll, Woken
<1>32. CASE OnCloseOrDetach
  BY <1>32, IncomingType, ZenonT(60) DEF OnCloseOrDetach, Incoming
<1>33. CASE RemoveCamera
  BY <1>33 DEF RemoveCamera
<1>34. CASE CameraRemoved
  BY <1>34 DEF CameraRemoved, ReleasedRemoved, NotifyAll, Woken
<1>35. ASSUME NEW t \in {"helper", "monitor"}, OpenDevice(t) PROVE TypeOK'
  BY <1>35, TypeOpenDevice
<1>36. ASSUME NEW t \in {"helper", "monitor"}, PostOpen(t) PROVE TypeOK'
  BY <1>36, PostType DEF PostOpen
<1>37. ASSUME NEW t \in {"helper", "listener"}, CloseCamera(t) PROVE TypeOK'
  BY <1>37 DEF CloseCamera
<1>38. ASSUME NEW t \in {"helper", "listener"}, CloseBlock(t) PROVE TypeOK'
  BY <1>38, TypeCloseBlock
<1>39. ASSUME NEW t \in {"helper", "listener"}, CloseEntry(t) PROVE TypeOK'
  BY <1>39 DEF CloseEntry, BlockLock
<1>40. ASSUME NEW t \in {"helper", "listener"}, Release(t) PROVE TypeOK'
  BY <1>40 DEF Release
<1>41. ASSUME NEW t \in {"helper", "listener"}, ReleaseResource(t) PROVE TypeOK'
  BY <1>41 DEF ReleaseResource
<1>42. ASSUME NEW d \in Devices, Unplug(d) PROVE TypeOK'
  BY <1>42, BroadcastType DEF Unplug
<1>43. ASSUME NEW d \in Devices, NEW ok \in BOOLEAN, Answer(d, ok) PROVE TypeOK'
  BY <1>43, BroadcastType DEF Answer
<1>44. CASE UNCHANGED vars
  BY <1>44 DEF vars
<1>45. CASE CloseWoken
  BY <1>45 DEF CloseWoken, GetCamera
<1> HIDE DEF Goto, Free, Take, system, monitor, connection, events, cameras, helper, locals,
    TypeOK, Threads, Locks, Cameras, UvcStates, Broadcasts, HelperPlaces, MonitorPlaces,
    ListenerPlaces, DevicePlaces, UsbDevicePlaces, ClosePlaces, CameraPlaces, Located
<1> QED BY <1>1, <1>2, <1>3, <1>4, <1>5, <1>6, <1>7, <1>8, <1>9, <1>10, <1>11, <1>12, <1>13,
    <1>14, <1>15, <1>16, <1>17, <1>18, <1>19, <1>20, <1>21, <1>22, <1>23, <1>24, <1>25,
    <1>26, <1>27, <1>28, <1>29, <1>30, <1>31, <1>32, <1>33, <1>34, <1>35, <1>36, <1>37,
    <1>38, <1>39, <1>40, <1>41, <1>42, <1>43, <1>44, <1>45
      DEF Next, Operation, HelperStep, MonitorStep, ListenerStep, SystemStep, Shared

\* Every step keeps Located: references are set before they are used.
LEMMA LocatedStep ==
  ASSUME TypeOK, Located, [Next]_vars
  PROVE  Located'
<1> USE MaxOpsAssumption, NoDeviceAssumption DEF Goto, Free, Take, system, monitor,
    connection, events, cameras, helper, locals, Located, Threads, DevicePlaces,
    UsbDevicePlaces, ClosePlaces, CameraPlaces, TypeOK, Cameras, Locks
<1>1. CASE BeginSelect
  BY <1>1 DEF BeginSelect, Begin
<1>2. CASE BeginOpen
  BY <1>2 DEF BeginOpen, Begin
<1>3. CASE BeginClose
  BY <1>3 DEF BeginClose, Begin
<1>4. CASE BeginRelease
  BY <1>4 DEF BeginRelease, Begin
<1>5. CASE SelectDevice
  BY <1>5 DEF SelectDevice
<1>6. CASE RequestPermission
  BY <1>6 DEF RequestPermission, Post
<1>7. CASE UpdateDeviceKeys
  BY <1>7 DEF UpdateDeviceKeys
<1>8. CASE FindCamera
  BY <1>8 DEF FindCamera
<1>9. CASE SelectWoken
  BY <1>9 DEF SelectWoken
<1>10. CASE OpenCheck
  BY <1>10 DEF OpenCheck
<1>11. CASE CloseCheck
  BY <1>11 DEF CloseCheck
<1>12. CASE OpenGet
  BY <1>12 DEF OpenGet, GetCamera
<1>13. CASE OpenWoken
  BY <1>13 DEF OpenWoken, GetCamera
<1>14. CASE CloseGet
  BY <1>14 DEF CloseGet, GetCamera
<1>15. CASE ResetUVCCamera
  BY <1>15 DEF ResetUVCCamera
<1>16. CASE OpenUVCCamera
  BY <1>16 DEF OpenUVCCamera
<1>17. CASE ReleaseCameras
  BY <1>17, LocReleaseCameras
<1>18. CASE CamerasReleased
  BY <1>18 DEF CamerasReleased, ReleasedRemoved
<1>19. CASE Destroy
  BY <1>19 DEF Destroy
<1>20. CASE SetDestroyed
  BY <1>20 DEF SetDestroyed
<1>21. CASE CloseConnected
  BY <1>21 DEF CloseConnected
<1>22. CASE CloseOriginal
  BY <1>22 DEF CloseOriginal, Post
<1>23. CASE Quit
  BY <1>23 DEF Quit
<1>24. CASE OnReceive
  BY <1>24, ReceiveType DEF OnReceive
<1>25. CASE Granted
  BY <1>25 DEF Granted, Dropped
<1>26. CASE Denied
  BY <1>26 DEF Denied, Dropped, Post
<1>27. CASE Detach
  BY <1>27 DEF Detach
<1>28. CASE CloseDetached
  BY <1>28 DEF CloseDetached, Post
<1>29. CASE PostDetach
  BY <1>29 DEF PostDetach, Post
<1>30. CASE AddCamera
  BY <1>30, LocAddCamera
<1>31. CASE CancelOrError
  BY <1>31, IncomingType DEF CancelOrError, Incoming, NotifyAll, Woken
<1>32. CASE OnCloseOrDetach
  BY <1>32, IncomingType, ZenonT(60) DEF OnCloseOrDetach, Incoming
<1>33. CASE RemoveCamera
  BY <1>33 DEF RemoveCamera
<1>34. CASE CameraRemoved
  BY <1>34, ZenonT(60) DEF CameraRemoved, ReleasedRemoved, NotifyAll, Woken
<1>35. ASSUME NEW t \in {"helper", "monitor"}, OpenDevice(t) PROVE Located'
  BY <1>35 DEF OpenDevice, Post
<1>36. ASSUME NEW t \in {"helper", "monitor"}, PostOpen(t) PROVE Located'
  BY <1>36 DEF PostOpen, Post
<1>37. ASSUME NEW t \in {"helper", "listener"}, CloseCamera(t) PROVE Located'
  BY <1>37 DEF CloseCamera
<1>38. ASSUME NEW t \in {"helper", "listener"}, CloseBlock(t) PROVE Located'
  BY <1>38, LocCloseBlock
<1>39. ASSUME NEW t \in {"helper", "listener"}, CloseEntry(t) PROVE Located'
  BY <1>39 DEF CloseEntry, BlockLock
<1>40. ASSUME NEW t \in {"helper", "listener"}, Release(t) PROVE Located'
  BY <1>40 DEF Release
<1>41. ASSUME NEW t \in {"helper", "listener"}, ReleaseResource(t) PROVE Located'
  BY <1>41 DEF ReleaseResource
<1>42. ASSUME NEW d \in Devices, Unplug(d) PROVE Located'
  BY <1>42 DEF Unplug, Broadcast
<1>43. ASSUME NEW d \in Devices, NEW ok \in BOOLEAN, Answer(d, ok) PROVE Located'
  BY <1>43 DEF Answer, Broadcast
<1>44. CASE UNCHANGED vars
  BY <1>44 DEF vars
<1>45. CASE CloseWoken
  BY <1>45 DEF CloseWoken, GetCamera
<1> HIDE DEF Goto, Free, Take, system, monitor, connection, events, cameras, helper, locals,
    Located, Threads, DevicePlaces, UsbDevicePlaces, ClosePlaces, CameraPlaces, TypeOK,
    Cameras, Locks
<1> QED BY <1>1, <1>2, <1>3, <1>4, <1>5, <1>6, <1>7, <1>8, <1>9, <1>10, <1>11, <1>12, <1>13,
    <1>14, <1>15, <1>16, <1>17, <1>18, <1>19, <1>20, <1>21, <1>22, <1>23, <1>24, <1>25,
    <1>26, <1>27, <1>28, <1>29, <1>30, <1>31, <1>32, <1>33, <1>34, <1>35, <1>36, <1>37,
    <1>38, <1>39, <1>40, <1>41, <1>42, <1>43, <1>44, <1>45
      DEF Next, Operation, HelperStep, MonitorStep, ListenerStep, SystemStep, Shared

\* Every step keeps LocksHeld: a lock is taken where its owner goes to such a place,
\* and given up when it leaves.
LEMMA LocksStep ==
  ASSUME TypeOK, LocksHeld, ReleasedLocked, [Next]_vars
  PROVE  LocksHeld'
<1> USE NoThreadAssumption DEF Goto, Free, Take, system, monitor, connection, events,
    cameras, helper, locals, LocksHeld, SelectingPlaces, Threads, Locks, ConnectionPlaces,
    ClosePlaces, TypeOK
<1>1. CASE BeginSelect
  BY <1>1 DEF BeginSelect, Begin
<1>2. CASE BeginOpen
  BY <1>2 DEF BeginOpen, Begin
<1>3. CASE BeginClose
  BY <1>3 DEF BeginClose, Begin
<1>4. CASE BeginRelease
  BY <1>4 DEF BeginRelease, Begin
<1>5. CASE SelectDevice
  BY <1>5 DEF SelectDevice
<1>6. CASE RequestPermission
  BY <1>6 DEF RequestPermission, Post
<1>7. CASE UpdateDeviceKeys
  BY <1>7 DEF UpdateDeviceKeys
<1>8. CASE FindCamera
  BY <1>8 DEF FindCamera
<1>9. CASE SelectWoken
  BY <1>9 DEF SelectWoken
<1>10. CASE OpenCheck
  BY <1>10 DEF OpenCheck
<1>11. CASE CloseCheck
  BY <1>11 DEF CloseCheck
<1>12. CASE OpenGet
  BY <1>12 DEF OpenGet, GetCamera
<1>13. CASE OpenWoken
  BY <1>13 DEF OpenWoken, GetCamera
<1>14. CASE CloseGet
  BY <1>14 DEF CloseGet, GetCamera
<1>15. CASE ResetUVCCamera
  BY <1>15 DEF ResetUVCCamera
<1>16. CASE OpenUVCCamera
  BY <1>16 DEF OpenUVCCamera
<1>17. CASE ReleaseCameras
  BY <1>17 DEF ReleaseCameras
<1>18. CASE CamerasReleased
  BY <1>18 DEF CamerasReleased, ReleasedRemoved
<1>19. CASE Destroy
  BY <1>19 DEF Destroy
<1>20. CASE SetDestroyed
  BY <1>20 DEF SetDestroyed
<1>21. CASE CloseConnected
  BY <1>21 DEF CloseConnected
<1>22. CASE CloseOriginal
  BY <1>22 DEF CloseOriginal, Post
<1>23. CASE Quit
  BY <1>23 DEF Quit
<1>24. CASE OnReceive
  BY <1>24, ReceiveType DEF OnReceive
<1>25. CASE Granted
  BY <1>25 DEF Granted, Dropped
<1>26. CASE Denied
  BY <1>26 DEF Denied, Dropped, Post
<1>27. CASE Detach
  BY <1>27 DEF Detach
<1>28. CASE CloseDetached
  BY <1>28 DEF CloseDetached, Post
<1>29. CASE PostDetach
  BY <1>29 DEF PostDetach, Post
<1>30. CASE AddCamera
  BY <1>30 DEF AddCamera, Incoming, NotifyAll, Woken
<1>31. CASE CancelOrError
  BY <1>31 DEF CancelOrError, Incoming, NotifyAll, Woken
<1>32. CASE OnCloseOrDetach
  BY <1>32 DEF OnCloseOrDetach, Incoming
<1>33. CASE RemoveCamera
  BY <1>33 DEF RemoveCamera
<1>34. CASE CameraRemoved
  BY <1>34, LockCameraRemoved
<1>35. ASSUME NEW t \in {"helper", "monitor"}, OpenDevice(t) PROVE LocksHeld'
  BY <1>35 DEF OpenDevice, Post
<1>36. ASSUME NEW t \in {"helper", "monitor"}, PostOpen(t) PROVE LocksHeld'
  BY <1>36 DEF PostOpen, Post
<1>37. ASSUME NEW t \in {"helper", "listener"}, CloseCamera(t) PROVE LocksHeld'
  BY <1>37 DEF CloseCamera
<1>38. ASSUME NEW t \in {"helper", "listener"}, CloseBlock(t) PROVE LocksHeld'
  BY <1>38 DEF CloseBlock, BlockLock, Connected, Post
<1>39. ASSUME NEW t \in {"helper", "listener"}, CloseEntry(t) PROVE LocksHeld'
  BY <1>39 DEF CloseEntry, BlockLock
<1>40. ASSUME NEW t \in {"helper", "listener"}, Release(t) PROVE LocksHeld'
  BY <1>40 DEF Release
<1>41. ASSUME NEW t \in {"helper", "listener"}, ReleaseResource(t) PROVE LocksHeld'
  BY <1>41 DEF ReleaseResource
<1>42. ASSUME NEW d \in Devices, Unplug(d) PROVE LocksHeld'
  BY <1>42 DEF Unplug, Broadcast
<1>43. ASSUME NEW d \in Devices, NEW ok \in BOOLEAN, Answer(d, ok) PROVE LocksHeld'
  BY <1>43 DEF Answer, Broadcast
<1>44. CASE UNCHANGED vars
  BY <1>44 DEF vars
<1>45. CASE CloseWoken
  BY <1>45 DEF CloseWoken, GetCamera
<1> HIDE DEF Goto, Free, Take, system, monitor, connection, events, cameras, helper, locals,
    LocksHeld, SelectingPlaces, Threads, Locks, ConnectionPlaces, ClosePlaces, TypeOK
<1> QED BY <1>1, <1>2, <1>3, <1>4, <1>5, <1>6, <1>7, <1>8, <1>9, <1>10, <1>11, <1>12, <1>13,
    <1>14, <1>15, <1>16, <1>17, <1>18, <1>19, <1>20, <1>21, <1>22, <1>23, <1>24, <1>25,
    <1>26, <1>27, <1>28, <1>29, <1>30, <1>31, <1>32, <1>33, <1>34, <1>35, <1>36, <1>37,
    <1>38, <1>39, <1>40, <1>41, <1>42, <1>43, <1>44, <1>45
      DEF Next, Operation, HelperStep, MonitorStep, ListenerStep, SystemStep, Shared

\* Every step keeps ReleasedLocked: cameras are released and removed with
\* mConnectionSync locked.
LEMMA ReleasedStep ==
  ASSUME TypeOK, Located, LocksHeld, ReleasedLocked, [Next]_vars
  PROVE  ReleasedLocked'
<1> USE NoDeviceAssumption, NoThreadAssumption DEF Goto, Free, Take, system, monitor,
    connection, events, cameras, helper, locals, ReleasedLocked, Releasing, LocksHeld,
    SelectingPlaces, Located, Threads, Locks, ConnectionPlaces, ClosePlaces, CameraPlaces,
    TypeOK, Cameras
<1>1. CASE BeginSelect
  BY <1>1 DEF BeginSelect, Begin
<1>2. CASE BeginOpen
  BY <1>2 DEF BeginOpen, Begin
<1>3. CASE BeginClose
  BY <1>3 DEF BeginClose, Begin
<1>4. CASE BeginRelease
  BY <1>4 DEF BeginRelease, Begin
<1>5. CASE SelectDevice
  BY <1>5 DEF SelectDevice
<1>6. CASE RequestPermission
  BY <1>6 DEF RequestPermission, Post
<1>7. CASE UpdateDeviceKeys
  BY <1>7 DEF UpdateDeviceKeys
<1>8. CASE FindCamera
  BY <1>8 DEF FindCamera
<1>9. CASE SelectWoken
  BY <1>9 DEF SelectWoken
<1>10. CASE OpenCheck
  BY <1>10 DEF OpenCheck
<1>11. CASE CloseCheck
  BY <1>11 DEF CloseCheck
<1>12. CASE OpenGet
  BY <1>12 DEF OpenGet, GetCamera
<1>13. CASE OpenWoken
  BY <1>13 DEF OpenWoken, GetCamera
<1>14. CASE CloseGet
  BY <1>14 DEF CloseGet, GetCamera
<1>15. CASE ResetUVCCamera
  BY <1>15 DEF ResetUVCCamera
<1>16. CASE OpenUVCCamera
  BY <1>16 DEF OpenUVCCamera
<1>17. CASE ReleaseCameras
  BY <1>17 DEF ReleaseCameras
<1>18. CASE CamerasReleased
  BY <1>18, RelCamerasReleased
<1>19. CASE Destroy
  BY <1>19 DEF Destroy
<1>20. CASE SetDestroyed
  BY <1>20 DEF SetDestroyed
<1>21. CASE CloseConnected
  BY <1>21 DEF CloseConnected
<1>22. CASE CloseOriginal
  BY <1>22 DEF CloseOriginal, Post
<1>23. CASE Quit
  BY <1>23 DEF Quit
<1>24. CASE OnReceive
  BY <1>24, ReceiveType DEF OnReceive
<1>25. CASE Granted
  BY <1>25 DEF Granted, Dropped
<1>26. CASE Denied
  BY <1>26 DEF Denied, Dropped, Post
<1>27. CASE Detach
  BY <1>27 DEF Detach
<1>28. CASE CloseDetached
  BY <1>28 DEF CloseDetached, Post
<1>29. CASE PostDetach
  BY <1>29 DEF PostDetach, Post
<1>30. CASE AddCamera
  BY <1>30, RelAddCamera
<1>31. CASE CancelOrError
  BY <1>31 DEF CancelOrError, Incoming, NotifyAll, Woken
<1>32. CASE OnCloseOrDetach
  BY <1>32 DEF OnCloseOrDetach, Incoming
<1>33. CASE RemoveCamera
  BY <1>33 DEF RemoveCamera
<1>34. CASE CameraRemoved
  BY <1>34, RelCameraRemoved
<1>35. ASSUME NEW t \in {"helper", "monitor"}, OpenDevice(t) PROVE ReleasedLocked'
  BY <1>35 DEF OpenDevice, Post
<1>36. ASSUME NEW t \in {"helper", "monitor"}, PostOpen(t) PROVE ReleasedLocked'
  BY <1>36 DEF PostOpen, Post
<1>37. ASSUME NEW t \in {"helper", "listener"}, CloseCamera(t) PROVE ReleasedLocked'
  BY <1>37 DEF CloseCamera
<1>38. ASSUME NEW t \in {"helper", "listener"}, CloseBlock(t) PROVE ReleasedLocked'
  BY <1>38, RelCloseBlock
<1>39. ASSUME NEW t \in {"helper", "listener"}, CloseEntry(t) PROVE ReleasedLocked'
  BY <1>39 DEF CloseEntry, BlockLock
<1>40. ASSUME NEW t \in {"helper", "listener"}, Release(t) PROVE ReleasedLocked'
  BY <1>40, RelRelease
<1>41. ASSUME NEW t \in {"helper", "listener"}, ReleaseResource(t) PROVE ReleasedLocked'
  BY <1>41, RelReleaseResource
<1>42. ASSUME NEW d \in Devices, Unplug(d) PROVE ReleasedLocked'
  BY <1>42 DEF Unplug, Broadcast
<1>43. ASSUME NEW d \in Devices, NEW ok \in BOOLEAN, Answer(d, ok) PROVE ReleasedLocked'
  BY <1>43 DEF Answer, Broadcast
<1>44. CASE UNCHANGED vars
  BY <1>44 DEF vars
<1>45. CASE CloseWoken
  BY <1>45 DEF CloseWoken, GetCamera
<1> HIDE DEF Goto, Free, Take, system, monitor, connection, events, cameras, helper, locals,
    ReleasedLocked, Releasing, LocksHeld, SelectingPlaces, Located, Threads, Locks,
    ConnectionPlaces, ClosePlaces, CameraPlaces, TypeOK, Cameras
<1> QED BY <1>1, <1>2, <1>3, <1>4, <1>5, <1>6, <1>7, <1>8, <1>9, <1>10, <1>11, <1>12, <1>13,
    <1>14, <1>15, <1>16, <1>17, <1>18, <1>19, <1>20, <1>21, <1>22, <1>23, <1>24, <1>25,
    <1>26, <1>27, <1>28, <1>29, <1>30, <1>31, <1>32, <1>33, <1>34, <1>35, <1>36, <1>37,
    <1>38, <1>39, <1>40, <1>41, <1>42, <1>43, <1>44, <1>45
      DEF Next, Operation, HelperStep, MonitorStep, ListenerStep, SystemStep, Shared


LEMMA Initial == Init => IInv
<1> SUFFICES ASSUME Init PROVE IInv
  OBVIOUS
<1>1. TypeOK
  <2>1. monitorQueue \in Seq(Broadcasts) /\ listenerQueue \in Seq(Events)
    BY DEF Init
  <2>2. /\ mUVCCamera \in [Cameras -> UvcStates]
        /\ pc \in [Threads -> HelperPlaces \cup MonitorPlaces \cup ListenerPlaces]
    BY DEF Init, UvcStates, HelperPlaces
  <2>3. back \in [Threads -> {"idle", "releaseResource"}] /\ ops \in 0..MaxOps
    BY MaxOpsAssumption DEF Init
  <2> QED BY <2>1, <2>2, <2>3 DEF Init, TypeOK
<1>2. Located /\ LocksHeld
  BY NoThreadAssumption, NoDeviceAssumption
  DEF Init, Located, LocksHeld, Threads, Locks, DevicePlaces, UsbDevicePlaces, CameraPlaces,
      ClosePlaces, SelectingPlaces
<1>3. ReleasedLocked
  BY DEF Init, ReleasedLocked, Releasing, Threads, Cameras, ClosePlaces
<1> QED BY <1>1, <1>2, <1>3 DEF IInv

\* The inductive invariant holds in every reachable state.
THEOREM Invariance == Spec => []IInv
<1>1. IInv /\ [Next]_vars => IInv'
  BY TypeStep, LocatedStep, LocksStep, ReleasedStep DEF IInv
<1> QED BY Initial, <1>1, PTL DEF Spec

\* Every variable keeps its type.
THEOREM TypeCorrect == Spec => []TypeOK
<1>1. IInv => TypeOK
  BY DEF IInv
<1> QED BY Invariance, <1>1, PTL

\* The order in which the locks are taken.
Rank(l) ==
    CASE l = "mConnectionSync" -> 1
      [] l = "CameraInternal" -> 2
      [] l = "USBMonitor" -> 3
      [] l = "clone" -> 4
      [] l = "mOpenedCtrlBlocks" -> 5
      [] l = "original" -> 6

\* A thread that holds the lock another one waits for waits for a later one.
LEMMA LockOrder ==
  ASSUME IInv, NEW t \in Threads, NEW u \in Threads, NEW v \in Threads,
         WaitsFor(t, u), WaitsFor(u, v)
  PROVE  Rank(Wants(t)) < Rank(Wants(u))
<1>1. Wants(t) \in Locks \ {"original"} /\ Wants(u) \in Locks
  BY NoThreadAssumption DEF IInv, LocksHeld, WaitsFor, Wants, Nothing, BlockLock, Locks, Threads
<1>2. lock[Wants(t)] = u /\ Wants(u) # Nothing
  BY DEF WaitsFor
<1>3. CASE Wants(t) = "mConnectionSync"
  <2>1. pc[u] \in ConnectionPlaces
    BY <1>2, <1>3 DEF IInv, LocksHeld
  <2>2. Wants(u) \in {"CameraInternal", "USBMonitor", "clone", "mOpenedCtrlBlocks"}
    BY <1>2, <2>1 DEF ConnectionPlaces, ClosePlaces, Wants, BlockLock
  <2> QED BY <1>3, <2>2 DEF Rank
<1>4. CASE Wants(t) = "CameraInternal"
  <2>1. Wants(u) \in {"clone", "mOpenedCtrlBlocks"}
    BY <1>2, <1>4 DEF IInv, LocksHeld, Wants, BlockLock
  <2> QED BY <1>4, <2>1 DEF Rank
<1>5. CASE Wants(t) = "USBMonitor"
  <2>1. Wants(u) = "mOpenedCtrlBlocks"
    BY <1>2, <1>5 DEF IInv, LocksHeld, Wants, BlockLock
  <2> QED BY <1>5, <2>1 DEF Rank
<1>6. CASE Wants(t) = "clone"
  <2>1. Wants(u) = "mOpenedCtrlBlocks"
    BY <1>2, <1>6 DEF IInv, LocksHeld, Wants, BlockLock
  <2> QED BY <1>6, <2>1 DEF Rank
<1>7. CASE Wants(t) = "mOpenedCtrlBlocks"
  <2>1. Wants(u) = "original"
    BY <1>2, <1>7 DEF IInv, LocksHeld, Wants, BlockLock
  <2> QED BY <1>7, <2>1 DEF Rank
<1> QED BY <1>1, <1>3, <1>4, <1>5, <1>6, <1>7 DEF Locks

\* No circle of threads that wait for each other's locks.
THEOREM NoCircularWaitHolds == Spec => []NoCircularWait
<1>1. IInv => NoCircularWait
  <2> SUFFICES ASSUME IInv, NEW t \in Threads, NEW u \in Threads, NEW v \in Threads,
                      WaitsFor(t, u),
                      WaitsFor(u, t) \/ (WaitsFor(u, v) /\ WaitsFor(v, t))
               PROVE  FALSE
    BY DEF NoCircularWait
  <2>1. \A x \in Threads : Wants(x) \in Locks => Rank(Wants(x)) \in Nat
    BY DEF Rank, Locks
  <2>2. \A x, y \in Threads : WaitsFor(x, y) => Wants(x) \in Locks
    BY DEF WaitsFor, Wants, Nothing, BlockLock, Locks
  <2>3. CASE WaitsFor(u, t)
    <3>1. /\ Rank(Wants(t)) < Rank(Wants(u))
          /\ Rank(Wants(u)) < Rank(Wants(t))
      BY <2>3, LockOrder
    <3> QED BY <2>1, <2>2, <2>3, <3>1
  <2>4. CASE WaitsFor(u, v) /\ WaitsFor(v, t)
    <3>1. /\ Rank(Wants(t)) < Rank(Wants(u))
          /\ Rank(Wants(u)) < Rank(Wants(v))
          /\ Rank(Wants(v)) < Rank(Wants(t))
      BY <2>4, LockOrder
    <3> QED BY <2>1, <2>2, <2>4, <3>1
  <2> QED BY <2>3, <2>4
<1> QED BY Invariance, <1>1, PTL

\* mCameras lists no released camera while nobody holds mConnectionSync, and
\* every camera is under the key of its device.
THEOREM ListedCamerasLiveHolds == Spec => []ListedCamerasLive
<1>1. IInv => ListedCamerasLive
  BY NoThreadAssumption DEF IInv, Located, ReleasedLocked, ListedCamerasLive, Threads
<1> QED BY Invariance, <1>1, PTL
=============================================================================
