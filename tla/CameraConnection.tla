-------------------------- MODULE CameraConnection --------------------------
(***************************************************************************)
(* Selecting, opening, closing and releasing USB cameras: CameraHelper,    *)
(* CameraConnectionService, CameraInternal and USBMonitor (Java).          *)
(*                                                                         *)
(* Three threads meet here.  The helper thread (CameraHelper's handler)    *)
(* runs the operations of the application one after the other.  The        *)
(* monitor thread (USBMonitor's handler) runs the broadcasts: the answer   *)
(* to a permission request, a detached device.  The listener thread        *)
(* (CameraConnection's handler) runs the events the other two post, and    *)
(* creates and releases the cameras.  They share five kinds of lock and    *)
(* the condition of mConnectionSync, on which the helper waits for the     *)
(* listener.  A step is what a thread does between two points where it may *)
(* block or where another thread can see the difference.                   *)
(***************************************************************************)
EXTENDS Naturals, Sequences, FiniteSets

CONSTANTS
    Devices,    \* the USB cameras that are attached at the start
    NoDevice,   \* the null of a UsbDevice reference or key
    NoThread,   \* the owner of a free lock
    MaxOps      \* bound: operations the application asks of the helper

ASSUME MaxOpsAssumption == MaxOps \in Nat
ASSUME NoDeviceAssumption == NoDevice \notin Devices
ASSUME NoThreadAssumption == NoThread \notin {"helper", "monitor", "listener"}

Threads == {"helper", "monitor", "listener"}
Locks == {"mConnectionSync", "CameraInternal", "USBMonitor", "clone",
          "mOpenedCtrlBlocks", "original"}

\* A camera is created for an open event, which one selectDevice causes.
Cameras == 1..MaxOps
NoCamera == 0

\* mUVCCamera: null; connected or not, with its cloned control block's
\* connection open; or set although that connection could not be opened.
UvcStates == {"null", "open", "failed", "unconnected"}

VARIABLES
    \* the system: attached devices, those with permission, open dialogs, and
    \* whether it may fill the device into the answer (mPermissionIntent is mutable)
    attached, granted, asked, intentMutable,
    \* USBMonitor: mOpenedCtrlBlocks, connections that are open but no longer
    \* in it, mDestroyed, and the messages of its handler
    opened, orphans, mDestroyed, monitorQueue,
    \* CameraConnection: mCameras, mLastCameraKey, the listener's messages
    \* and whether it was told to quit
    mCameras, mLastCameraKey, listenerQueue, listenerQuit,
    \* CameraInternal: device, mUVCCamera and release of every camera created
    device, mUVCCamera, released,
    \* CameraHelper: mUsbDevice, mDetachedDeviceMap, operations begun
    mUsbDevice, mDetachedDeviceMap, ops,
    \* the owner of every lock
    lock,
    \* per thread: where it is, its device and camera, the cameras it still
    \* has to release and where it goes on after closing one
    pc, dev, cam, todo, back

system == <<attached, granted, asked, intentMutable>>
monitor == <<opened, orphans, mDestroyed, monitorQueue>>
connection == <<mCameras, mLastCameraKey>>
events == <<listenerQueue, listenerQuit>>
cameras == <<device, mUVCCamera, released>>
helper == <<mUsbDevice, mDetachedDeviceMap, ops>>
locals == <<dev, cam, todo, back>>
vars == <<system, monitor, connection, events, cameras, helper, lock, pc, locals>>

Events == [kind : {"open", "close", "detach", "cancel", "error"}, dev : Devices]
Broadcasts == [kind : {"granted", "denied", "detach"}, dev : Devices]

HelperPlaces ==
    {"idle", "selectDevice", "requestPermission", "updateDeviceKeys",
     "openDevice", "postOpen", "findCamera", "selectWait", "selectWoken",
     "openCheck", "openGet", "openWait", "openWoken", "resetUVCCamera",
     "openUVCCamera", "closeCheck", "closeGet", "closeWait", "closeWoken",
     "closeCamera", "closeBlock", "closeEntry", "releaseAll", "release",
     "releaseResource", "destroy", "setDestroyed", "closeConnected",
     "closeOriginal", "quit", "ended"}
MonitorPlaces == {"idle", "granted", "openDevice", "postOpen", "denied",
                  "detach", "closeDetached", "postDetach"}
ListenerPlaces == {"idle", "removeCamera", "release", "closeCamera",
                   "closeBlock", "closeEntry", "releaseResource"}

TypeOK ==
    /\ attached \subseteq Devices /\ granted \subseteq Devices /\ asked \subseteq Devices
    /\ intentMutable \in BOOLEAN
    /\ opened \subseteq Devices /\ orphans \subseteq Devices
    /\ mDestroyed \in BOOLEAN /\ monitorQueue \in Seq(Broadcasts)
    /\ mCameras \in [Devices -> Cameras \cup {NoCamera}]
    /\ mLastCameraKey \in Devices \cup {NoDevice}
    /\ listenerQueue \in Seq(Events) /\ listenerQuit \in BOOLEAN
    /\ device \in [Cameras -> Devices \cup {NoDevice}]
    /\ mUVCCamera \in [Cameras -> UvcStates] /\ released \in [Cameras -> BOOLEAN]
    /\ mUsbDevice \in Devices \cup {NoDevice} /\ mDetachedDeviceMap \subseteq Devices
    /\ ops \in 0..MaxOps
    /\ lock \in [Locks -> Threads \cup {NoThread}]
    /\ pc \in [Threads -> HelperPlaces \cup MonitorPlaces \cup ListenerPlaces]
    /\ dev \in [Threads -> Devices \cup {NoDevice}]
    /\ cam \in [Threads -> Cameras \cup {NoCamera}]
    /\ todo \in [Threads -> SUBSET Cameras]
    /\ back \in [Threads -> {"idle", "releaseResource"}]

Init ==
    /\ attached = Devices /\ granted \in SUBSET Devices /\ asked = {}
    /\ intentMutable \in BOOLEAN
    /\ opened = {} /\ orphans = {} /\ mDestroyed = FALSE /\ monitorQueue = <<>>
    /\ mCameras = [d \in Devices |-> NoCamera] /\ mLastCameraKey = NoDevice
    /\ listenerQueue = <<>> /\ listenerQuit = FALSE
    /\ device = [c \in Cameras |-> NoDevice]
    /\ mUVCCamera = [c \in Cameras |-> "null"] /\ released = [c \in Cameras |-> FALSE]
    /\ mUsbDevice = NoDevice /\ mDetachedDeviceMap = {} /\ ops = 0
    /\ lock = [l \in Locks |-> NoThread]
    /\ pc = [t \in Threads |-> "idle"]
    /\ dev = [t \in Threads |-> NoDevice] /\ cam = [t \in Threads |-> NoCamera]
    /\ todo = [t \in Threads |-> {}] /\ back = [t \in Threads |-> "idle"]

-----------------------------------------------------------------------------
(***************************************************************************)
(* Helpers                                                                 *)
(***************************************************************************)
Free(l) == lock[l] = NoThread
Goto(t, place) == pc' = [pc EXCEPT ![t] = place]
Take(t, l) == Free(l) /\ lock' = [lock EXCEPT ![l] = t]

\* Handler.post to the listener: dropped once its looper was told to quit.
Post(kind, d) ==
    /\ listenerQueue' = IF listenerQuit THEN listenerQueue
                        ELSE Append(listenerQueue, [kind |-> kind, dev |-> d])
    /\ UNCHANGED listenerQuit

\* notifyAll of mConnectionSync by the listener, which goes to idle: whoever
\* waits must take the lock again.
Woken(place) == CASE place = "selectWait" -> "selectWoken"
                  [] place = "openWait" -> "openWoken"
                  [] place = "closeWait" -> "closeWoken"
                  [] OTHER -> place
NotifyAll == pc' = [pc EXCEPT !["listener"] = "idle", !["helper"] = Woken(@)]

\* The broadcast receiver is registered until destroy unregisters it.
Registered ==
    pc["helper"] \notin {"setDestroyed", "closeConnected", "closeOriginal", "quit", "ended"}
Broadcast(kind, d) ==
    monitorQueue' = IF Registered THEN Append(monitorQueue, [kind |-> kind, dev |-> d])
                    ELSE monitorQueue

\* UVCCamera.open works on a clone of the control block, so a camera that
\* closes locks the clone and not the block of mOpenedCtrlBlocks.  All clones
\* are locked inside CameraInternal.class and all originals inside
\* mOpenedCtrlBlocks: one name for each is enough.
OriginalBlockLock(c) == "original"      \* mutant: the camera works on the original
BlockLock(c) == "clone"

\* The connection of the clone is open.
Connected(c) == mUVCCamera[c] \in {"open", "failed"}
-----------------------------------------------------------------------------
(***************************************************************************)
(* The system                                                              *)
(***************************************************************************)
\* The user answers the permission dialog; a device that is gone is denied.
Answer(d, ok) ==
    /\ d \in asked
    /\ ok => d \in attached
    /\ asked' = asked \ {d}
    /\ granted' = IF ok THEN granted \cup {d} ELSE granted
    /\ Broadcast(IF ok THEN "granted" ELSE "denied", d)
    /\ UNCHANGED <<attached, intentMutable, opened, orphans, mDestroyed, connection, events, cameras,
                   helper, lock, pc, locals>>

\* A device is pulled out: it never comes back under the same id.
Unplug(d) ==
    /\ d \in attached
    /\ attached' = attached \ {d}
    /\ granted' = granted \ {d}
    /\ Broadcast("detach", d)
    /\ UNCHANGED <<asked, intentMutable, opened, orphans, mDestroyed, connection, events, cameras,
                   helper, lock, pc, locals>>
-----------------------------------------------------------------------------
(***************************************************************************)
(* processOpenDevice, by the helper (in selectDevice) or by the monitor    *)
(* (permission granted).  The block of a known device is used again.       *)
(***************************************************************************)
OpenDevice(t) ==
    /\ pc[t] = "openDevice"
    /\ Free("mOpenedCtrlBlocks")
    /\ \/ /\ dev[t] \in opened \cup attached
          /\ opened' = opened \cup {dev[t]}
          /\ Goto(t, "postOpen")
          /\ UNCHANGED <<events, lock>>
       \/ /\ dev[t] \notin opened
          /\ Post("error", dev[t])
          /\ Goto(t, IF t = "helper" THEN "findCamera" ELSE "idle")
          /\ lock' = IF t = "helper" THEN lock
                     ELSE [lock EXCEPT !["USBMonitor"] = NoThread]
          /\ UNCHANGED opened
    /\ UNCHANGED <<system, orphans, mDestroyed, monitorQueue, connection, cameras,
                   helper, locals>>

PostOpen(t) ==
    /\ pc[t] = "postOpen"
    /\ Post("open", dev[t])
    /\ Goto(t, IF t = "helper" THEN "findCamera" ELSE "idle")
    /\ lock' = IF t = "helper" THEN lock ELSE [lock EXCEPT !["USBMonitor"] = NoThread]
    /\ UNCHANGED <<system, monitor, connection, cameras, helper, locals>>
-----------------------------------------------------------------------------
(***************************************************************************)
(* CameraInternal.closeCamera and release, by the helper or the listener   *)
(***************************************************************************)
\* Inside CameraInternal.class: a camera that is not open needs no closing.
CloseCamera(t) ==
    /\ pc[t] = "closeCamera"
    /\ Free("CameraInternal")
    /\ IF mUVCCamera[cam[t]] = "null"
       THEN Goto(t, back[t]) /\ UNCHANGED lock
       ELSE Goto(t, "closeBlock") /\ Take(t, "CameraInternal")
    /\ UNCHANGED <<system, monitor, connection, events, cameras, helper, locals>>

\* UsbControlBlock.close of the clone: its connection is closed and the
\* event posted before mOpenedCtrlBlocks is locked.  A block whose connection
\* never opened does nothing.
CloseBlock(t) ==
    /\ pc[t] = "closeBlock"
    /\ Free(BlockLock(cam[t]))
    /\ IF Connected(cam[t])
       THEN /\ Post("close", device[cam[t]])
            /\ lock' = [lock EXCEPT ![BlockLock(cam[t])] = t]
            /\ Goto(t, "closeEntry")
            /\ UNCHANGED cameras
       ELSE /\ mUVCCamera' = [mUVCCamera EXCEPT ![cam[t]] = "null"]
            /\ lock' = [lock EXCEPT !["CameraInternal"] = NoThread]
            /\ Goto(t, back[t])
            /\ UNCHANGED <<events, device, released>>
    /\ UNCHANGED <<system, monitor, connection, helper, locals>>

\* The entry of the device goes, whichever block it holds: the connection of
\* that block stays open and nobody refers to it any more.
CloseEntry(t) ==
    /\ pc[t] = "closeEntry"
    /\ Free("mOpenedCtrlBlocks")
    /\ opened' = opened \ {device[cam[t]]}
    /\ orphans' = orphans \cup (opened \cap {device[cam[t]]})
    /\ mUVCCamera' = [mUVCCamera EXCEPT ![cam[t]] = "null"]
    /\ lock' = [lock EXCEPT ![BlockLock(cam[t])] = NoThread, !["CameraInternal"] = NoThread]
    /\ Goto(t, back[t])
    /\ UNCHANGED <<system, mDestroyed, monitorQueue, connection, events, device, released,
                   helper, locals>>

\* release: closes the camera if it is open (tested without a lock).
Release(t) ==
    /\ pc[t] = "release"
    /\ \E c \in todo[t] :
         /\ cam' = [cam EXCEPT ![t] = c]
         /\ todo' = [todo EXCEPT ![t] = @ \ {c}]
         /\ back' = [back EXCEPT ![t] = "releaseResource"]
         /\ Goto(t, IF mUVCCamera[c] # "null" THEN "closeCamera" ELSE "releaseResource")
    /\ UNCHANGED <<system, monitor, connection, events, cameras, helper, lock, dev>>

ReleaseResource(t) ==
    /\ pc[t] = "releaseResource"
    /\ Free("CameraInternal")
    /\ released' = [released EXCEPT ![cam[t]] = TRUE]
    /\ Goto(t, "release")
    /\ UNCHANGED <<system, monitor, connection, events, device, mUVCCamera, helper, lock, locals>>

CamerasKept == UNCHANGED mCameras       \* mutant: the released cameras stay listed

\* mConnectionSync is held since the cameras were chosen: the entries to
\* remove are those of the cameras that are released.
ReleasedRemoved ==
    mCameras' = [d \in Devices |->
        IF mCameras[d] # NoCamera /\ released[mCameras[d]] THEN NoCamera ELSE mCameras[d]]
-----------------------------------------------------------------------------
(***************************************************************************)
(* The listener thread: MyOnDeviceConnectListener                          *)
(***************************************************************************)
Incoming(kind) ==
    /\ pc["listener"] = "idle"
    /\ listenerQueue # <<>>
    /\ Head(listenerQueue).kind \in kind
    /\ listenerQueue' = Tail(listenerQueue)
    /\ UNCHANGED listenerQuit

\* onDeviceOpen: addCamera makes a CameraInternal unless the device has one.
AddCamera ==
    /\ Incoming({"open"})
    /\ Free("mConnectionSync")
    /\ LET d == Head(listenerQueue).dev
       IN  IF mCameras[d] # NoCamera THEN UNCHANGED <<mCameras, device>>
           ELSE \E c \in Cameras :
                  /\ device[c] = NoDevice /\ \A e \in 1..(c - 1) : device[e] # NoDevice
                  /\ device' = [device EXCEPT ![c] = d]
                  /\ mCameras' = [mCameras EXCEPT ![d] = c]
    /\ mLastCameraKey' = NoDevice
    /\ NotifyAll
    /\ UNCHANGED <<system, monitor, mUVCCamera, released, helper, lock, locals>>

CancelUnheard ==                        \* mutant: onCancel does not notify
    /\ Incoming({"cancel", "error"})
    /\ Free("mConnectionSync")
    /\ Goto("listener", "idle")
    /\ UNCHANGED <<system, monitor, connection, cameras, helper, lock, locals>>

\* onCancel and onError
CancelOrError ==
    /\ Incoming({"cancel", "error"})
    /\ Free("mConnectionSync")
    /\ NotifyAll
    /\ UNCHANGED <<system, monitor, connection, cameras, helper, lock, locals>>

\* onDeviceClose and onDetach: the detached device is remembered first.
OnCloseOrDetach ==
    /\ Incoming({"close", "detach"})
    /\ dev' = [dev EXCEPT !["listener"] = Head(listenerQueue).dev]
    /\ mDetachedDeviceMap' = IF Head(listenerQueue).kind = "detach"
                             THEN mDetachedDeviceMap \cup {Head(listenerQueue).dev}
                             ELSE mDetachedDeviceMap
    /\ Goto("listener", "removeCamera")
    /\ UNCHANGED <<system, monitor, connection, cameras, mUsbDevice, ops, lock, cam, todo, back>>

RemoveCameraKeepsCamera ==              \* mutant: the camera is kept, not its key
    /\ pc["listener"] = "removeCamera"
    /\ Take("listener", "mConnectionSync")
    /\ mLastCameraKey' = mCameras[dev["listener"]]
    /\ todo' = [todo EXCEPT !["listener"] = {mCameras[dev["listener"]]} \ {NoCamera}]
    /\ Goto("listener", "release")
    /\ UNCHANGED <<system, monitor, mCameras, events, cameras, helper, dev, cam, back>>

RemoveCamera ==
    /\ pc["listener"] = "removeCamera"
    /\ Take("listener", "mConnectionSync")
    /\ mLastCameraKey' = dev["listener"]
    /\ todo' = [todo EXCEPT !["listener"] = {mCameras[dev["listener"]]} \ {NoCamera}]
    /\ Goto("listener", "release")
    /\ UNCHANGED <<system, monitor, mCameras, events, cameras, helper, dev, cam, back>>

CameraRemoved ==
    /\ pc["listener"] = "release" /\ todo["listener"] = {}
    /\ ReleasedRemoved
    /\ lock' = [lock EXCEPT !["mConnectionSync"] = NoThread]
    /\ NotifyAll
    /\ UNCHANGED <<system, monitor, mLastCameraKey, events, cameras, helper, locals>>
-----------------------------------------------------------------------------
(***************************************************************************)
(* The monitor thread: the broadcast receiver                              *)
(***************************************************************************)
OnReceive ==
    /\ pc["monitor"] = "idle" /\ monitorQueue # <<>>
    /\ monitorQueue' = Tail(monitorQueue)
    /\ dev' = [dev EXCEPT !["monitor"] = Head(monitorQueue).dev]
    /\ Goto("monitor", IF mDestroyed THEN "idle" ELSE Head(monitorQueue).kind)
    /\ UNCHANGED <<system, opened, orphans, mDestroyed, connection, events, cameras, helper,
                   lock, cam, todo, back>>

\* The answer to a permission request is dropped once the monitor is destroyed,
\* and when no device could be filled into the intent, which is immutable from
\* one version of the system on: nothing is posted then.
Dropped == mDestroyed \/ ~intentMutable

\* Permission granted: the device is opened with the monitor locked.
Granted ==
    /\ pc["monitor"] = "granted"
    /\ Free("USBMonitor")
    /\ IF Dropped THEN Goto("monitor", "idle") /\ UNCHANGED lock
       ELSE Goto("monitor", "openDevice") /\ Take("monitor", "USBMonitor")
    /\ UNCHANGED <<system, monitor, connection, events, cameras, helper, locals>>

Denied ==
    /\ pc["monitor"] = "denied"
    /\ Free("USBMonitor")
    /\ IF Dropped THEN UNCHANGED events ELSE Post("cancel", dev["monitor"])
    /\ Goto("monitor", "idle")
    /\ UNCHANGED <<system, monitor, connection, cameras, helper, lock, locals>>

\* Detached: the block is taken from mOpenedCtrlBlocks and closed there.
Detach ==
    /\ pc["monitor"] = "detach"
    /\ Free("mOpenedCtrlBlocks")
    /\ IF dev["monitor"] \in opened
       THEN Goto("monitor", "closeDetached") /\ Take("monitor", "mOpenedCtrlBlocks")
       ELSE Goto("monitor", "postDetach") /\ UNCHANGED lock
    /\ opened' = opened \ {dev["monitor"]}
    /\ UNCHANGED <<system, orphans, mDestroyed, monitorQueue, connection, events, cameras,
                   helper, locals>>

CloseDetached ==
    /\ pc["monitor"] = "closeDetached"
    /\ Free("original")
    /\ Post("close", dev["monitor"])
    /\ lock' = [lock EXCEPT !["mOpenedCtrlBlocks"] = NoThread]
    /\ Goto("monitor", "postDetach")
    /\ UNCHANGED <<system, monitor, connection, cameras, helper, locals>>

PostDetach ==
    /\ pc["monitor"] = "postDetach"
    /\ IF mDestroyed THEN UNCHANGED events ELSE Post("detach", dev["monitor"])
    /\ Goto("monitor", "idle")
    /\ UNCHANGED <<system, monitor, connection, cameras, helper, lock, locals>>
-----------------------------------------------------------------------------
(***************************************************************************)
(* The helper thread: what the application asks of CameraHelper            *)
(***************************************************************************)
\* The next operation; mService is null once the helper has ended.
Begin(place) ==
    /\ pc["helper"] = "idle" /\ ops < MaxOps
    /\ ops' = ops + 1
    /\ Goto("helper", place)
    /\ UNCHANGED <<system, monitor, connection, events, cameras, mDetachedDeviceMap, lock,
                   cam, todo, back>>

BeginSelect ==
    \E d \in Devices \ mDetachedDeviceMap :
        /\ Begin("selectDevice")
        /\ mUsbDevice' = d
        /\ dev' = [dev EXCEPT !["helper"] = d]

\* openCamera and closeCamera are about mUsbDevice.
BeginOpen ==
    /\ mUsbDevice \in Devices \ mDetachedDeviceMap
    /\ Begin("openCheck") /\ UNCHANGED <<mUsbDevice, dev>>

BeginClose ==
    /\ mUsbDevice \in Devices
    /\ Begin("closeCheck") /\ UNCHANGED <<mUsbDevice, dev>>

\* release and releaseAll: what the application does last.
BeginRelease ==
    /\ Begin("releaseAll")
    /\ UNCHANGED <<mUsbDevice, dev>>

\* selectDevice: mConnectionSync is held from before the request until the
\* wait, so that no answer to it is missed.
SelectDevice ==
    /\ pc["helper"] = "selectDevice"
    /\ Take("helper", "mConnectionSync")
    /\ Goto("helper", "requestPermission")
    /\ UNCHANGED <<system, monitor, connection, events, cameras, helper, locals>>

\* requestPermission: a device without permission is asked for, unless the
\* system refuses to ask (an exception, always for a device that is gone).
RequestPermission ==
    /\ pc["helper"] = "requestPermission"
    /\ Free("USBMonitor")
    /\ \/ /\ dev["helper"] \in granted
          /\ Goto("helper", "updateDeviceKeys")
          /\ UNCHANGED <<asked, events>>
       \/ /\ dev["helper"] \in attached \ granted
          /\ asked' = asked \cup {dev["helper"]}
          /\ Goto("helper", "findCamera")
          /\ UNCHANGED events
       \/ /\ dev["helper"] \notin granted
          /\ Post("cancel", dev["helper"])
          /\ Goto("helper", "findCamera")
          /\ UNCHANGED asked
    /\ UNCHANGED <<attached, granted, intentMutable, monitor, connection, cameras, helper, lock, locals>>

UpdateDeviceKeys ==
    /\ pc["helper"] = "updateDeviceKeys"
    /\ Free("USBMonitor")
    /\ Goto("helper", "openDevice")
    /\ UNCHANGED <<system, monitor, connection, events, cameras, helper, lock, locals>>

\* The camera is there, or the helper waits and gives mConnectionSync up.
FindCamera ==
    /\ pc["helper"] = "findCamera"
    /\ Goto("helper", IF mCameras[dev["helper"]] # NoCamera THEN "idle" ELSE "selectWait")
    /\ lock' = [lock EXCEPT !["mConnectionSync"] = NoThread]
    /\ UNCHANGED <<system, monitor, connection, events, cameras, helper, locals>>

\* Woken: selectDevice looks once more and returns or throws.
SelectWoken ==
    /\ pc["helper"] = "selectWoken"
    /\ Free("mConnectionSync")
    /\ Goto("helper", "idle")
    /\ UNCHANGED <<system, monitor, connection, events, cameras, helper, lock, locals>>

\* isCameraOpened, before openCamera and closeCamera: getCamera, not blocking.
IsCameraOpened == LET c == mCameras[mUsbDevice] IN c # NoCamera /\ mUVCCamera[c] # "null"

OpenCheck ==
    /\ pc["helper"] = "openCheck"
    /\ Free("mConnectionSync")
    /\ Goto("helper", IF IsCameraOpened THEN "idle" ELSE "openGet")
    /\ UNCHANGED <<system, monitor, connection, events, cameras, helper, lock, locals>>

CloseCheck ==
    /\ pc["helper"] = "closeCheck"
    /\ Free("mConnectionSync")
    /\ Goto("helper", IF IsCameraOpened THEN "closeGet" ELSE "idle")
    /\ UNCHANGED <<system, monitor, connection, events, cameras, helper, lock, locals>>

\* getCamera, blocking: waits unless the device's camera is there or was the
\* last one removed.  Without a camera the operation throws.
GetCamera(from, absent, next) ==
    /\ pc["helper"] = from
    /\ Free("mConnectionSync")
    /\ cam' = [cam EXCEPT !["helper"] = mCameras[mUsbDevice]]
    /\ \/ /\ mCameras[mUsbDevice] # NoCamera
          /\ Goto("helper", next)
       \/ /\ mCameras[mUsbDevice] = NoCamera
          /\ Goto("helper", IF mUsbDevice # mLastCameraKey THEN absent ELSE "idle")
    /\ back' = [back EXCEPT !["helper"] = "idle"]
    /\ UNCHANGED <<system, monitor, connection, events, cameras, helper, lock, dev, todo>>

OpenGet == GetCamera("openGet", "openWait", "resetUVCCamera")
OpenWoken == GetCamera("openWoken", "idle", "resetUVCCamera")
CloseGet == GetCamera("closeGet", "closeWait", "closeCamera")
CloseWoken == GetCamera("closeWoken", "idle", "closeCamera")

\* openUVCCamera begins with resetUVCCamera.  mUVCCamera is null here; a
\* camera that was released meanwhile has no renderer, and the call throws.
ResetUVCCamera ==
    /\ pc["helper"] = "resetUVCCamera"
    /\ Free("CameraInternal")
    /\ Goto("helper", IF released[cam["helper"]] THEN "idle" ELSE "openUVCCamera")
    /\ UNCHANGED <<system, monitor, connection, events, cameras, helper, lock, locals>>

\* The camera opens, or stays set after a failure: the clone's connection
\* could not be opened, or libuvc did not take it.
OpenUVCCamera ==
    /\ pc["helper"] = "openUVCCamera"
    /\ Free("CameraInternal")
    /\ \E result \in {"open", "failed", "unconnected"} :
         /\ result # "unconnected" => device[cam["helper"]] \in attached
         /\ mUVCCamera' = [mUVCCamera EXCEPT ![cam["helper"]] = result]
    /\ Goto("helper", "idle")
    /\ UNCHANGED <<system, monitor, connection, events, device, released, helper, lock, locals>>

\* releaseCamera of mUsbDevice, or releaseAllCamera.
ReleaseCameras ==
    /\ pc["helper"] = "releaseAll"
    /\ \/ mUsbDevice = NoDevice /\ Goto("helper", "destroy") /\ UNCHANGED <<lock, todo>>
       \/ /\ Take("helper", "mConnectionSync")
          /\ \E ds \in {{mUsbDevice} \cap Devices, Devices} :
               todo' = [todo EXCEPT !["helper"] = {mCameras[d] : d \in ds} \ {NoCamera}]
          /\ Goto("helper", "release")
    /\ UNCHANGED <<system, monitor, connection, events, cameras, helper, dev, cam, back>>

CamerasReleased ==
    /\ pc["helper"] = "release" /\ todo["helper"] = {}
    /\ ReleasedRemoved
    /\ lock' = [lock EXCEPT !["mConnectionSync"] = NoThread]
    /\ Goto("helper", "destroy")
    /\ UNCHANGED <<system, monitor, mLastCameraKey, events, cameras, helper, locals>>

\* USBMonitor.destroy: unregister under the monitor's lock, then mDestroyed.
Destroy ==
    /\ pc["helper"] = "destroy"
    /\ Free("USBMonitor")
    /\ Goto("helper", "setDestroyed")
    /\ UNCHANGED <<system, monitor, connection, events, cameras, helper, lock, locals>>

SetDestroyed ==
    /\ pc["helper"] = "setDestroyed"
    /\ mDestroyed' = TRUE
    /\ Goto("helper", "closeConnected")
    /\ UNCHANGED <<system, opened, orphans, monitorQueue, connection, events, cameras, helper,
                   lock, locals>>

\* The loop removes from the map it iterates over: with a second device the
\* iterator throws, the exception is caught, and the rest is forgotten.
CloseConnected ==
    /\ pc["helper"] = "closeConnected"
    /\ Free("mOpenedCtrlBlocks")
    /\ IF opened = {}
       THEN Goto("helper", "quit") /\ UNCHANGED <<opened, orphans, lock, dev>>
       ELSE \E d \in opened :
              /\ dev' = [dev EXCEPT !["helper"] = d]
              /\ opened' = {} /\ orphans' = orphans \cup (opened \ {d})
              /\ Take("helper", "mOpenedCtrlBlocks")
              /\ Goto("helper", "closeOriginal")
    /\ UNCHANGED <<system, mDestroyed, monitorQueue, connection, events, cameras, helper,
                   cam, todo, back>>

CloseOriginal ==
    /\ pc["helper"] = "closeOriginal"
    /\ Free("original")
    /\ Post("close", dev["helper"])
    /\ lock' = [lock EXCEPT !["mOpenedCtrlBlocks"] = NoThread]
    /\ Goto("helper", "quit")
    /\ UNCHANGED <<system, monitor, connection, cameras, helper, locals>>

\* The loopers of the monitor (at once) and of the listener (when empty) quit.
Quit ==
    /\ pc["helper"] = "quit"
    /\ monitorQueue' = <<>>
    /\ listenerQuit' = TRUE
    /\ Goto("helper", "ended")
    /\ UNCHANGED <<system, opened, orphans, mDestroyed, connection, listenerQueue, cameras,
                   helper, lock, locals>>
-----------------------------------------------------------------------------
Operation == BeginSelect \/ BeginOpen \/ BeginClose \/ BeginRelease

Shared(t) == CloseCamera(t) \/ CloseBlock(t) \/ CloseEntry(t) \/ Release(t) \/ ReleaseResource(t)

HelperStep ==
    \/ Shared("helper") \/ OpenDevice("helper") \/ PostOpen("helper")
    \/ SelectDevice \/ RequestPermission \/ UpdateDeviceKeys \/ FindCamera \/ SelectWoken
    \/ OpenCheck \/ OpenGet \/ OpenWoken \/ ResetUVCCamera \/ OpenUVCCamera
    \/ CloseCheck \/ CloseGet \/ CloseWoken
    \/ ReleaseCameras \/ CamerasReleased \/ Destroy \/ SetDestroyed
    \/ CloseConnected \/ CloseOriginal \/ Quit

MonitorStep ==
    \/ OnReceive \/ Granted \/ OpenDevice("monitor") \/ PostOpen("monitor") \/ Denied
    \/ Detach \/ CloseDetached \/ PostDetach

ListenerStep ==
    \/ Shared("listener") \/ AddCamera \/ CancelOrError \/ OnCloseOrDetach
    \/ RemoveCamera \/ CameraRemoved

SystemStep == \E d \in Devices : Unplug(d) \/ \E ok \in BOOLEAN : Answer(d, ok)

Next == Operation \/ HelperStep \/ MonitorStep \/ ListenerStep \/ SystemStep

Spec == Init /\ [][Next]_vars

(***************************************************************************)
(* Fairness: the three threads run when they can, and the user answers     *)
(* every dialog.  Nothing obliges the application to ask for anything or   *)
(* a device to be pulled out.                                              *)
(***************************************************************************)
Fairness ==
    /\ WF_vars(HelperStep) /\ WF_vars(MonitorStep) /\ WF_vars(ListenerStep)
    /\ \A d \in Devices : WF_vars(\E ok \in BOOLEAN : Answer(d, ok))

FairSpec == Spec /\ Fairness
-----------------------------------------------------------------------------
(***************************************************************************)
(* Properties                                                              *)
(***************************************************************************)
Nothing == "nothing"

\* The lock a thread in the middle of an operation asks for at a place.
Wants(t) ==
    CASE pc[t] \in {"closeCamera", "releaseResource", "resetUVCCamera", "openUVCCamera"}
           -> "CameraInternal"
      [] pc[t] \in {"openDevice", "closeEntry", "detach", "closeConnected"}
           -> "mOpenedCtrlBlocks"
      [] pc[t] \in {"requestPermission", "updateDeviceKeys", "granted", "denied", "destroy"}
           -> "USBMonitor"
      [] pc[t] \in {"selectDevice", "selectWoken", "openCheck", "openGet", "openWoken",
                    "closeCheck", "closeGet", "closeWoken", "releaseAll", "removeCamera"}
           -> "mConnectionSync"
      [] pc[t] = "closeBlock" -> BlockLock(cam[t])
      [] pc[t] \in {"closeDetached", "closeOriginal"} -> "original"
      [] OTHER -> Nothing

\* t waits for a lock that u holds.
WaitsFor(t, u) == Wants(t) # Nothing /\ lock[Wants(t)] = u

\* No circle of threads that wait for each other's locks: the helper takes
\* mConnectionSync and then USBMonitor, or, closing, CameraInternal.class, a
\* block and mOpenedCtrlBlocks; the monitor takes USBMonitor and then
\* mOpenedCtrlBlocks, or mOpenedCtrlBlocks and then a block; the listener
\* closes cameras too.  A block is locked both before and after
\* mOpenedCtrlBlocks: never the same one, because cameras work on clones.
NoCircularWait ==
    \A t, u, v \in Threads :
        /\ ~(WaitsFor(t, u) /\ WaitsFor(u, t))
        /\ ~(WaitsFor(t, u) /\ WaitsFor(u, v) /\ WaitsFor(v, t))

\* When mConnectionSync is free, mCameras lists no camera that was released
\* (it has no renderer: opening it throws) and every camera under the key of
\* its own device: releasing and removing are one step for whoever locks.
ListedCamerasLive ==
    lock["mConnectionSync"] = NoThread =>
        \A d \in Devices : mCameras[d] # NoCamera =>
            /\ device[mCameras[d]] = d
            /\ ~released[mCameras[d]]

\* Every operation of the helper ends: whatever a request for permission leads
\* to (opened at once, granted, denied, an error, a detach while the dialog is
\* up) posts an event whose handler notifies mConnectionSync after the helper
\* began to wait, and no lock is waited for in vain.  There are two exceptions.
\* The wait of getCamera ("add this condition to fix async thread deadlock
\* bug") is for a camera that nobody may be going to add, as in openCamera after
\* a denied permission; the operations behind it wait with it.  And selectDevice
\* waits for an answer that is dropped when the intent was immutable
\* (USBMonitor.java:575).
OperationsEnd ==
    (pc["helper"] \notin {"idle", "ended"}) ~>
        \/ pc["helper"] \in {"idle", "ended", "openWait", "closeWait"}
        \/ pc["helper"] = "selectWait" /\ ~intentMutable
=============================================================================
