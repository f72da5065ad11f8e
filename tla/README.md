# TLA+ specifications of ILook's camera stack

This directory holds TLA+ models of the camera stack in this repository, the TLC
configurations that check them on small instances, and proofs checked by TLAPS.
Everything is written from the source; the file and the lines each definition
stands for are listed in `PROJECT.json` under `map`.

Check a module with `tlc -config MCPreviewPipeline.cfg MCPreview.tla`, its proofs
with `tlapm UVCPreviewProofs.tla`. Every run of `PROJECT.json` names its module, its
configuration and what it is expected to show.

## 1. The system

The repository is an Android application (`:app`, Kotlin) and a USB camera
library (`:libuvccamera`, Java over C++ and C). The application is at an early
stage: splash, selection, instruction, login and one-time password. The library
does the work: it finds USB cameras, opens them, negotiates and receives an
isochronous or bulk stream, assembles payloads into frames, converts and shows
them, passes them to a callback, records them and takes still pictures.

```
 CameraHelper ── handler thread ── CameraConnectionService ── CameraInternal
      │                                     │                     │
      │                               USBMonitor            UVCCamera.java
      │                        (attach, permission,               │ JNI
      │                         shared control blocks)       UVCCamera.cpp
 VideoCapture, ImageCapture                              ┌────────┼──────────┐
      │                                             UVCControl  UVCPreview  callbacks
 RendererHolder (GL thread) <── Surface ─────────────────────────┘│          │
                                                            libuvc stream.c  device.c
                                                                  └── libusb ┘
```

### Components

For each component: its state, its operations, what it interacts with, what is
hard about it, and what makes it correct.

* **Preview pipeline** (`jni/UVCCamera/UVCPreview.cpp`). State: the running and
  capturing flags, both windows, the callback object, the frame pool, the preview
  queue and the one-frame capture queue, three mutexes and two conditions.
  Operations: `setPreviewDisplay`, `startPreview`, `stopPreview`,
  `setFrameCallback`, `setCaptureDisplay`, the libuvc callback, the preview and the
  capture thread. Hard: five threads, flags read without their lock, waits without
  predicates, frames handed from thread to thread. Correct if frames have one
  owner, pool and queues keep their bounds, a stopped preview is quiet, and stop
  and the setters return.
* **libuvc streaming** (`jni/libuvc/src/stream.c`). State of a stream handle:
  `running`, the transfer pointers, the current and the held frame buffer with
  their sequence numbers, the user thread. Operations: open, start, stop, close,
  the transfer callback on libusb's event thread, the user thread that hands out
  frames. Hard: cancellation racing completion, transfers that resubmit
  themselves, frames superseded before they are read, unplugging. Correct if every
  transfer is accounted for before the handle is freed, frames are never mixed or
  handed out twice, and stop returns.
* **libuvc devices and controls** (`device.c`, `ctrl.c`, `ctrl-gen.c`, `init.c`).
  Open and close with an event thread, the status endpoint, descriptor parsing,
  about ninety control requests. Hard: the order of teardown.
* **libuvc frame conversions** (`frame.c`, `frame-mjpeg.c`). Pure data.
* **UVCCamera.cpp**, **UVCControl.cpp** and the JNI registration. `connect` and
  `release` create and destroy the parts above; `release` deletes the callbacks
  before the device is closed. Hard: the order of teardown.
* **Status and button callbacks** (`UVCStatusCallback.cpp`,
  `UVCButtonCallback.cpp`). A Java object that is replaced while libusb's thread
  calls it.
* **CameraHelper, CameraConnectionService, CameraInternal**
  (`com/herohan/uvcapp`). The helper posts every operation to one handler thread.
  The service maps devices to cameras, waits for a camera to be attached and
  dispatches USBMonitor's events. The internal object opens the camera, keeps its
  surfaces and its preview flag. Hard: three threads, `wait`/`notify` with one
  notification for many waiters, failures of open half-way. Correct if a selected
  camera is eventually opened or reported, a released one is closed, and a call
  never waits for an event that cannot come.
* **USBMonitor** (`com/serenegiant/usb`). Attached devices, permissions, one shared
  `UsbControlBlock` per open device. Hard: two locks taken in both orders (`close`
  and the detach handler), destroy while devices are open.
* **VideoCapture** (`com/herohan/uvcapp/VideoCapture.java`). A video and an audio
  encoder thread share a muxer; end-of-stream passes from the caller to the audio
  thread to the video thread. Hard: errors of one thread while the other runs,
  restart beside a recording that has not ended, release.
* **ImageCapture, ImageSaver**. A request to the GL thread, then a file written by
  an executor; the callback is promised exactly once.
* **Renderers** (`CameraRendererHolder`, `RendererHolder`, `EGLTask`). A GL thread
  with slave surfaces added and removed by other threads.
* **Legacy encoder and muxer** (`com/serenegiant/encoder`). Encoders start and stop
  one muxer by counting, and wait for it.
* **Watchdog**, **OpenGL helpers**, **widgets**, **utilities**: diagnostics and
  calls of the platform.
* **App**: screens driven by a workflow document in the preferences, login and
  one-time password, `FirebaseClient`, `MainService`, dependency injection. Hard:
  coroutines resumed by listeners that may never answer, the stored login flag.
* **Vendored**: libusb, libjpeg-turbo, rapidjson, and the Firebase sample code.

`PROJECT.json` lists each of them with its sources, the hazards with the line where
each bites, and the properties that cover it.

## 2. Modules

In this order, the behaviour that matters most first:

1. `UVCPreview`: the native pipeline; proofs in `UVCPreviewProofs` and
   `UVCPreviewFrames`.
2. `FrameMailbox`, `UvcStream`: libuvc's stream handle, and the abstract one-frame
   mailbox that it implements, as a refinement; proofs in `UvcStreamProofs` and
   `UvcStreamFrames`.
3. `CameraConnection`: selecting, opening, closing and releasing cameras over
   `USBMonitor`; proofs in `CameraConnectionProofs`.
4. `CameraRenderer`: preview, surfaces and pictures of one camera with the GL thread;
   proofs in `CameraRendererProofs`.
5. `VideoCapture`: recording with two encoding threads and one muxer; proofs in
   `VideoCaptureProofs` and `VideoCaptureCalm`.

The modules meet where one layer is reduced in the next: `UvcStream` hands frames to
`uvc_preview_frame_callback`, with which `UVCPreview` begins; the native camera is
`running` and `display` in `CameraRenderer`; a camera in `mCameras` of
`CameraConnection` is `listed` there; `BeginClose` of `VideoCapture` is what
`closeCamera` does in the other two.

### Not modelled

* Descriptor parsing, frame conversions, JPEG, JSON, drawing: data, larger than any
  instance that can be enumerated, and without a protocol.
* The control requests (`ctrl.c`, `ctrl-gen.c`, `UVCControl`): each is one blocking USB
  call that keeps no state.
* libuvc's open and close, `UVCCamera.cpp` and the status and button callbacks: their
  result is in `CameraConnection`, their teardown order is not modelled.
* The legacy encoder package: only its own helpers create its muxer, and nothing uses
  those.
* The application: its screens do not use the camera library at this commit; login is
  a sequence of calls of Firebase, whose behaviour is not in the repository.
* libusb, but for its transfers, libjpeg-turbo and rapidjson: third-party code.

### What is proved

Every invariant that a passing run checks is also a theorem, for every value of the
constants that the named assumptions of its module allow (`DecodeFrameAvailable` for
every instance with enough frames), and so is the refinement of `FrameMailbox` by
`UvcStream`. The assumptions say no more than the code: bounds are natural numbers,
constants that stand for "none" differ from the rest, slave surfaces are finitely many
and have integer ids. What is left to TLC is liveness, which is out of the prover's
reach: `SettersReturn`, `FramesDelivered`, `StopReturns` of the stream,
`OperationsEnd`, `OperationsReturn`, `PostedPictureAnswered`, `StoppedAnswered`,
`ClosedReleased`. The runs that expect a violation are about behaviours, not theorems.

Several properties except the interleaving in which the code does fail, and so show
only that it fails in no other way: `WindowsReferenced` (`windowRaced`),
`NoDeadlockFromStopped` and `OperationsReturn` (`Stuck`), `NoStaleSurface`
(`overlap`), `SlavesAsAsked` (`overtaken`, `muddled`), `OperationsEnd` (two waits),
`KeyFrameDecides` (`again`), `ClosedReleased` (`late`), `Survives`, `OwnFile` and
`StoppedAnswered` (`calm`). The failing behaviour is part of the model each time, and
each module's section says what it is. Where the repository promises otherwise, a run
shows the violation instead.

## 3. The preview pipeline: `UVCPreview`

**Threads and actions.** Each thread has a variable with the point it has reached.

| Code | Variable | Actions |
|---|---|---|
| `setPreviewDisplay`, `startPreview`, `stopPreview` (one caller at a time: the Java methods are `synchronized`) | `ctl`, `joining` | `setPreviewDisplay`, `startPreview`, `CreatePreviewThread`, `StartFails`, `stopPreview`, `SignalPreview`, `SignalCapture`, `ReadCaptureHandle`, `JoinCapture`, `JoinPreview`, `StopCleanup` |
| `uvc_preview_frame_callback` on libuvc's thread | `cb` | `uvc_preview_frame_callback`, `DuplicateFails`, `addPreviewFrame` |
| `preview_thread_func`, `prepare_preview`, `do_preview` | `pv` | `PreparePreview` … `StopStreaming` |
| `capture_thread_func`, `do_capture*` | `cap`, `mode`, `using` | `CaptureStep(c)` |
| `setFrameCallback`, `setCaptureDisplay` (callers that are not synchronized) | `callbackSetter`, `displaySetter` | the two setters and `…Woken` |

A critical section that does not wait is one step, so mutexes are not variables. A
thread in `pthread_cond_wait` is a member of `preview_sync` or `capture_sync`;
`pthread_cond_signal` takes out one member, a broadcast all of them. Spurious
wake-ups are left out: with them nothing that is proved here changes, since no
safety property depends on a thread staying asleep. Flags that the code reads
without a lock are read in a step of their own.

`own[p]` is the set of frames that place `p` holds: the heap, the pool, both queues
and each thread's local variables. What a frame contains, and the order in the
queues, is left out; so are sizes, conversions and drawing. That a conversion or an
allocation fails is a choice of the action.

**Runs.** All in `MCPreview`; frames are interchangeable (symmetry), except in the
runs of temporal properties, which use none.

| Run | Shows | Bounds |
|---|---|---|
| `preview_pipeline` | `TypeOK`, `FrameOwnership`, `QueueBounds`, `BoundedLoss`, `QuietWhenStopped`, `WindowsReferenced` | 4 frames, queue of 1, one window and callback; `PipelineSpec`: either one session with each setter called once at any moment, or two sessions without setters |
| `preview_mjpeg` | `DecodeFrameAvailable` | MJPEG, 6 frames: with a queue of 1, the number that all places together can hold while the decoder asks for one |
| `preview_setters` | `SettersReturn` under fairness, `WindowsReferenced` | each setter called twice, two capture windows |
| `preview_wait` | violation of `WaitFinishesCapturing` | as above, 3 frames |
| `preview_stop` | violation of `StopReturns` | 2 frames, no setter |

A queue of one frame is full at once, the pool of `MAX_FRAME + 2` can be exceeded
with four frames, and two sessions are enough to meet what the first one left
behind. Two windows and two calls are enough for one window to replace another
while the capture thread gives up the first; the stop is added in `preview_pipeline`.
`PipelineSpec` (in `MCPreview`) leaves out a client that calls a setter *and* restarts
the preview, which would be too many states. The proofs have no such limit: the six
invariants of `preview_pipeline` are theorems of `Spec`, for any number of sessions
and of calls of the setters in any of them.

`windowRefs` counts the references the object holds to each capture window, from the
caller's `ANativeWindow_fromSurface` to the release. `windowRaced` is history: it is
set when `mCaptureWindow` is changed between the two unlocked accesses with which
`do_capture_surface` gives it up (860), and not used by any action. After that a
window is released twice, or forgotten with its reference; `WindowsReferenced` says
that nothing else can do so. It does not say that no reference is left over:
`setCaptureDisplay` with the window in use keeps the caller's.

`CHECK_DEADLOCK FALSE`: nobody has to call the object, and the bounds on sessions
and setter calls end a behaviour.

**Fairness.** Every thread that can run does run; `onFrame` and the drawing
functions return; the camera goes on sending frames while the stream is open. No
client is obliged to call anything, and no allocation has to fail. `StreamSpec` is
a client that starts the preview once and never stops it: `SettersReturn` depends
on frames that keep arriving, because only the arrival of a frame or the end of a
capture step wakes a waiting setter.

**What the two violations show.**

* `WaitFinishesCapturing`: both setters wait once, without a predicate, on the
  condition that `addCaptureFrame` broadcasts for every frame. The comment says
  "wait finishing capturing" (`UVCPreview.cpp:239` and `698`), but the wait can end
  while the capture thread is inside the callback or drawing, and the object or the
  window it uses is released.
* `StopReturns`: `stopPreview` clears `mIsRunning` and signals without the mutex.
  Between its test of `isRunning()` and its wait the preview thread misses the
  signal; no frame is queued any more, so nobody wakes it, and `pthread_join` never
  returns.

**Proofs** (`UVCPreviewProofs`, `UVCPreviewFrames`), for any sets of frames,
windows and callbacks, any capacity, any number of sessions and setter calls,
from `PreviewAssumption` alone:

* `FramesHaveOneOwner`: `Spec => []FrameOwnership`. The invariant is `FrameOwnership`
  itself with the type of `own`. Lemmas say of each operator on `own` (`Obtain`,
  `Move`, `recycle_frame`, `RecycleAll`, …) that it keeps the places disjoint;
  `OwnStep` has one step per action.
* `TypeCorrect`: `Spec => []TypeOK`.
* `StoppedIsQuiet`: `Spec => []QuietWhenStopped`. This is not inductive: the
  strengthening relates `ctl` and `pv` (the preview thread exists exactly between
  its creation and the join, also through the failing start), `pv` and `streaming`,
  and says that the callback thread holds nothing once the stream is closed. From
  these it follows that nobody can fill a queue after `StopCleanup`.
* `QueuesAreBounded`: `Spec => []QueueBounds`, and `LossIsBounded`:
  `Spec => []BoundedLoss`. Both rest on `FramesInvariant`: cardinalities of the
  thread-local places are at most one, and the number of frames lost is at most the
  number of sessions, minus one while the current session can still lose its frame.

* `DecodeFrameIsAvailable`: `Spec => []DecodeFrameAvailable`, for every instance with
  more than `MAX_FRAME + 4 * MaxSessions + 2` frames. `Frames` stands for the memory
  the heap can supply, and the theorem says how much is enough: the preview queue, the
  slots of the three kinds of threads other than the decoder's own, each with at most
  one frame, and one frame lost for each earlier session. The proof counts: an
  injection from the frames held in slots to the slots (`HeldCount`), the bound of the
  queue from `QueueBounds`, the bound of the lost ones from `BoundedLoss`. The run
  takes the least number that suffices when nobody sets a callback or a capture
  window.
* `WindowsAreReferenced`: `Spec => []WindowsReferenced`. Beside the types it needs that
  a capture thread is new when it is created. The lemmas say which steps touch the
  windows at all (`NobodyElseTouchesWindows`, `CaptureTouchesWindows`) and that
  installing a window that somebody holds a reference for keeps the counts
  (`InstallKeepsReferences`, used for the setter that waited and for the one that did
  not).

**Only model-checked:** `SettersReturn` (liveness), and the two violations.

**Coarser than the code:** `copyToSurface` tests `mCaptureWindow` twice and then reads it
(848, 625, 627), which is one step of `BeginBlit`; the test and the release at 860 are
one step of `FinishSurface`. **Left out:** a `pthread_create` of the capture thread that
fails (563); no property here speaks of a preview without its capture thread. A capture
thread that `stopPreview` does not join, because it reads the handle before the preview
thread has stored it (394), lives on in the model, but no property forbids it. `SettersReturn` is
checked over a first session, in which `mIsCapturing` is clear at the start.

## 4. libuvc streams: `FrameMailbox`, `UvcStream`

`FrameMailbox` is what a stream promises: a mailbox with one frame. `Publish`
replaces it, `Take` copies it if it is newer than the reader's last copy.
`UvcStream` is `libuvc/src/stream.c` over the parts of libusb that submit, cancel,
reap and disconnect transfers (`libusb/io.c`, `os/linux_usbfs.c`: vendored, but
changed in this repository, and the changes matter).

**Threads and actions.**

| Code | Variable | Actions |
|---|---|---|
| `uvc_start_streaming`, `uvc_stop_streaming` | `app`, `next` (loop variable), `running` | `uvc_stream_open_ctrl`, `uvc_stream_start`, `StartFails`, `SubmitTransfer`, `SubmitFails`; `uvc_stream_stop`, `LockStream`, `CancelTransfer`, `Drain`, `JoinUser`, `uvc_stream_close` |
| libusb's event thread, `_uvc_stream_callback`, `_uvc_process_payload` | `ev`, `handled`, `payload` | `ReapPayload`, `ReapNothing`, `ReapEnded`, `Disconnect`; `BeginPayload`, `AppendPayload`, `PublishFrame`, `CheckRunning`, `Resubmit`, `FreeTransfer` |
| `_uvc_user_caller` | `usr`, `last_seq`, `frame` | `WaitForFrame`, `TakeFrame`, `UserCallReturns`, `UserExits` |
| kernel and camera (external) | `usb`, `plugged`, `sent` | `Complete`, `Unplug` |

`usb[t]` says what the kernel and libusb do with transfer `t`: `none`, `flying`
(submitted), `done` (ended, not reaped), `discarded` (cancelled, not reaped), `dead`
(ended by the removal of the device), `callback` (in `_uvc_stream_callback`).
`transfers` is the set of transfer pointers that are not null. `cb_mutex` is held
across steps only by the loop that cancels the transfers (`Locked`); the other
critical sections are one step each. `running` is read without the lock, in a step
of its own: this is the race between `CheckRunning`/`Resubmit` and `CancelTransfer`.

A payload is its number; a frame of the camera is `Parts` numbers, and a buffer is
the set of payloads copied into it. The frame id bit and the end-of-frame mark are
computed from the number; the mark may be missing, and any payload may be lost,
but not two in a row: the bit cannot show that a whole frame is missing, and no
code here tries to. Sequence numbers do not wrap (32 bits in the code, compared for
equality only).

**Runs.**

| Run | Shows | Bounds |
|---|---|---|
| `stream` | `TypeOK`, `WholeFrames`, `TransfersEnded`, `MailboxSpec`, `StopReturns`, `FramesDelivered` | 2 transfers, frames of 2 payloads in a buffer for 3, 4 payloads, 2 streams |
| `stream_unplug` | violation of `NoFreedTransferReaped` | 2 transfers, 1 stream |
| `stream_stop_unplug` | violation of `StopAlwaysReturns` | 2 transfers, 1 stream |

Two transfers are enough for one to be resubmitted while another is cancelled; four
payloads are two frames, so that one can be merged into the other; two streams show
that the second meets nothing of the first. `CHECK_DEADLOCK FALSE`: a closed stream
need not be opened again.

**Fairness.** Each of the three threads goes on when it can, `user_cb` returns, and
each request ends, by an answer or by its timeout of 5 seconds. Nobody has to open
or stop a stream or to unplug the camera. `StopReturns` covers a stop during which
the camera stays, and one that begins after it has gone.

**What the two violations show.**

* `NoFreedTransferReaped`: on an unplugged camera cancelling fails with
  `NO_DEVICE` for each transfer that has not been reaped, those that ended before the
  camera went included. `uvc_stream_stop` frees them at once (`stream.c:1673`); the
  event thread still reaps those and calls `_uvc_stream_callback` with freed memory.
* `StopAlwaysReturns`: `usbi_handle_disconnect` says that it ends all pending
  transfers, but its loop is commented out (`io.c:2810`), so it ends one. A transfer
  that the callback resubmits behind the cancelling loop, with the camera gone
  before the transfer ends, is ended by nobody, and `uvc_stream_stop` waits for it
  forever. `StopReturns` is the part of the promise that holds.

**Proofs** (`UvcStreamProofs`, `UvcStreamFrames`), for any number of transfers, payloads and streams,
from `StreamAssumption`:

* `TransfersAccounted`: `Spec => []TransfersEnded`. The invariant `TransferInv` says
  that a callback works on exactly one transfer and that one is not freed
  (`OneCallback`), that a freed transfer is at rest unless the camera is gone
  (`FreedAtRest`), what is not submitted yet is at rest, and from the end of `Drain`
  to the next start there is no transfer. That a callback is never left with a freed
  transfer is what makes `transfers = {}` imply that no callback runs.
* `TypeCorrect`: `Spec => []TypeOK`, with `RoomInBuffer`: there is room for the next
  payload except when a frame is about to be published.
* `StreamIsMailbox`: `Spec => MailboxSpec`, the refinement of `FrameMailbox`. Each step
  of `UvcStream` is mapped to one of the mailbox or to a stutter. Needed: the two
  buffers differ, the number of the frame that is assembled is the next one, no
  callback runs while the stream is not started (from `TransferInv`), and the user
  thread lives exactly while it is.
* `CopyIsOfPublishedFrame`: `Spec => []Mailbox!CopyIsPublished`, a property of the
  mailbox that the stream inherits by the refinement.
* `WholeFramesHold`: `Spec => []WholeFrames`, whatever `Parts` and `FrameSize` are.
  `WholeFrames` alone says nothing of the buffer in work. `FramesInv` does: the
  newest payload that was received is at most one (two, while another is in work)
  behind the last one sent, and the buffer holds all that was received of its frame
  (`Assembled`), or it is empty and nothing of the next payload's frame was received
  (`NewFrame`); a frame that is published gets no further payload (`Finished`). The
  arithmetic it rests on: after a gap of at most one payload the next is of the same
  frame or of the following one (`NextFrame`, here `Parts >= 2` is needed), which the
  bit tells apart (`BitAlternates`), and a frame with `Parts` payloads has ended
  (`FrameEnds`, here `FrameSize >= Parts` is needed).

**Only model-checked:** both liveness properties, the violations.

**Left out:** polling with `uvc_stream_get_frame`, iSight cameras, payloads without a
header, metadata, several packets in one isochronous transfer.


## 5. Cameras and devices: `CameraConnection`

`CameraHelper`, `CameraConnectionService`, the opening and closing half of
`CameraInternal`, and `USBMonitor` with its control blocks. They are one module
because what can go wrong lies between them: locks of four classes, taken by three
threads, and events that pass from one thread to another.

**Threads and actions.** `pc[t]` is the point thread `t` has reached, `lock[l]` the
owner of lock `l`. A step is what a thread does from one point where it may block,
or where another thread sees the difference, to the next.

| Code | Thread | Actions |
|---|---|---|
| `CameraHelper`: operations posted to `mAsyncHandler` | helper | `BeginSelect`, `BeginOpen`, `BeginClose`, `BeginRelease`; `SelectDevice` … `SelectWoken`; `OpenCheck`, `OpenGet`, `OpenWoken`, `ResetUVCCamera`, `OpenUVCCamera`; `CloseCheck`, `CloseGet`, `CloseWoken`; `ReleaseCameras` … `Quit` |
| `mUsbReceiver.onReceive` on the monitor's handler | monitor | `OnReceive`, `Granted`, `Denied`, `Detach`, `CloseDetached`, `PostDetach` |
| `MyOnDeviceConnectListener` on the connection's handler | listener | `AddCamera`, `CancelOrError`, `OnCloseOrDetach`, `RemoveCamera`, `CameraRemoved` |
| `processOpenDevice` | helper, monitor | `OpenDevice`, `PostOpen` |
| `closeCamera`, `release`, `UsbControlBlock.close` | helper, listener | `CloseCamera`, `CloseBlock`, `CloseEntry`, `Release`, `ReleaseResource` |
| Android (external) | – | `Unplug`, `Answer` |

Locks: `mConnectionSync`, `CameraInternal.class`, the monitor object, its map
`mOpenedCtrlBlocks`, and the control blocks. Of the last there are two kinds, which
matters: the monitor keeps the *original*, `UVCCamera.open` works on a *clone*
(`UVCCamera.java:118`). Devices are keys; a camera is a number, one for each
`onDeviceOpen`. `mUVCCamera` is null, open, failed (set, but its open failed) or
unconnected. `orphans` are connections that are open and that nobody has any more.
`intentMutable` says whether the system can fill the device into the answer to a request
for permission: the intent is mutable up to version 33 and immutable from 34 on
(`USBMonitor.java:224`), and an answer without a device is dropped (575, `Dropped`).

**Run.** `connection`: two devices, three operations, permission granted, denied or
refused with an error, with a mutable intent and with an immutable one, either device
unplugged at any moment. Two devices are what
`destroy` needs to lose one and what a wait needs to be woken for the wrong one;
three operations are select, open and a close or release of the same camera.
`CHECK_DEADLOCK FALSE`: the application need not ask for anything.

| Property | What could break it |
|---|---|
| `NoCircularWait` | `close` takes a block and then the map (`USBMonitor.java:1163`), `destroy` and detaching the map and then a block (183, 597). Only because cameras close clones do these never meet: with the original (the mutant) they do |
| `ListedCamerasLive` | the listener releases a camera while the helper looks it up |
| `OperationsEnd` | a request for permission that ends without notifying the waiting helper. Excepted: the wait in `getCamera`, and a `selectDevice` whose answer is dropped |

**Fairness.** The three threads run when they can, and the user answers a dialog.

**What the model shows besides.** None of this contradicts a statement of the
repository, so there is no run for it; the model contains it and the properties are
stated around it.

* With an immutable intent the answer to a request for permission carries no device. It
  is dropped without an event, and `selectDevice`, which waits for one without a limit,
  waits forever, unless another event happens to notify it: the second exception in
  `OperationsEnd`. The same would follow for a device that the filters refuse
  (`USBMonitor.java:609`).
* After a denied permission, or when another camera was added or removed meanwhile,
  `openCamera` (and likewise `closeCamera`) waits in `getCamera` for a camera that nobody adds, and with it every
  later operation: the condition at `CameraConnectionService.java:135` covers the
  last camera only. It is the first exception in `OperationsEnd`.
* Closing a clone removes the entry of the *original* from the map (1164), whose
  connection stays open and is missed by `destroy`. With two entries the loop of
  `destroy` ends after the first, with an exception that is caught.
* A permission granted between `unregister` and `mDestroyed = true` opens a device
  after the monitor was destroyed.
* `selectDevice` that races a detach leaves a `CameraInternal` for a device that is
  gone; a close event that arrives late removes a camera that was opened again.

**Proofs** (`CameraConnectionProofs`), for any number of devices and operations:
`TypeCorrect`, `NoCircularWaitHolds`, `ListedCamerasLiveHolds`. The invariant has,
besides the types, `Located` (the references a thread uses are not null),
`LocksHeld` (for each lock, at which places its owner can be: this is what
excludes the circles) and `ReleasedLocked` (a camera that was released and is still
listed: its thread holds `mConnectionSync`).

**Only model-checked:** `OperationsEnd`.

**Left out:** devices that are attached later and the periodic device check, device
filters (all devices match), registering listeners, surfaces, which are in the next
module.


## 6. One camera and its renderer: `CameraRenderer`

The other half of `CameraInternal` (preview, size, surfaces, pictures),
`CameraRendererHolder`, `RendererHolder`, `ImageCapture`. The connection of the
camera is reduced to `listed` and `removal`; the native camera to its size, whether
it previews, and whether its surface is the one the renderer draws (`display`).

**Threads and actions.**

| Code | Thread | Actions |
|---|---|---|
| `CameraHelper`'s operations on an opened camera | client | `BeginOpen` … `BeginPicture`, `SetPreviewSize`; `ResetUVCCamera`, `WaitTimeout`, `OpenUVCCamera`, `CreateCaptures`, `CloseCamera`, `DropCaptures`, `StopPreview`, `AddSlaveSurface`, `RemoveSlaveSurface`, `UseCapture`, `PostCapture` |
| `RendererHandler.handleMessage` | gl | `HandleReCreatePrimarySurface`, `ReleasePrimary`, `CreatePrimary`, `OnPrimarySurfaceCreate`, `PrimaryCreated`; the other `Handle…`; `CheckSurfaceThrows`; `LoopEnds`; `OnFrameAvailable`, `DrawFails` |
| `CameraInternal.startPreview` | client, gl | `StartPreview`, `Resize`, `CheckPrimarySurface`, `CheckValid`, `RequestSurface`, `Relock`, `ReadSurface`, `SetPreviewDisplay` |
| `removeCamera` → `release` | listener | `RemoveCamera`, `CloseCamera`, `DropCaptures`, `ReleaseResource` |
| the executor of `ImageSaver` | – | `SaveImage` |
| the executor of `VideoCapture`, after a recording | – | `CleanUp` |
| application, USB (external) | – | `Invalidate`, `Detach` |

That `startPreview` runs on two threads is the point of the module: the GL thread
calls it from the callback of a new primary surface, with `mLock` held, and the
client calls it with `CameraInternal.class` held and then needs `mLock`.

Slave surfaces have two requesters. The application adds and removes its own; the
surface of a video encoder (`RecordSurfaces`) is added by `startRecording` and removed
by the clean-up on the executor, whose request the client knows nothing of, though its
notification wakes the client's wait as any other does. `added` is what was asked last.
The ids are the integers by which `mSlaveSurfaces`, a `SparseArray`, is sorted:
`Checked` needs them, since `checkSurface` removes by index.

**Runs.** `renderer`: two sizes, two surfaces of which one is a recording's, one picture,
three operations, one frame that cannot be drawn, from a camera just selected and from
one that previews. The second initial state stands for the operations that lead to it,
so that three more reach a resize of a running preview and a restart. With two surfaces
a `checkSurface` that meets two invalid ones always has an index beyond the end, and the
process ends; that it removes a valid surface needs three. The proofs cover any finite
set. `picture`: no surfaces and one size, which the picture does not depend on.
`CHECK_DEADLOCK FALSE`: the application need not go on, the process may end, and the
deadlocks below are reachable.

| Property | What it says |
|---|---|
| `NoDeadlockFromStopped` | a `startPreview` that begins on a stopped preview never meets the GL thread |
| `NoStaleSurface` | the camera writes into the surface that is drawn |
| `SlavesAsAsked` | while no request about it is due, the renderer mirrors on a surface just if that was asked last and it is valid; but for the two ways in which requests get lost (`overtaken`, `muddled`) |
| `OperationsReturn` | operations return, but for the two deadlocks |
| `PostedPictureAnswered` | a picture whose request reached the renderer before it quit is answered, also if the camera is closed before it is taken |
| `PictureAnswered` (violated) | every picture that was asked for is answered |

**Fairness.** The client (a wait of a second ends, by the notification or by its
timeout), the listener, the GL thread and the executor go on when they can.

**What the model shows besides.**

* *Embrace.* `startPreview` with a changed size while `mIsPreviewing`: the client holds
  `CameraInternal.class` and awaits the new surface; the GL thread, with `mLock`,
  calls `startPreview` again because the preview was on, and waits for
  `CameraInternal.class`. The comment at `CameraInternal.java:65` expects just this
  second call. Through `closeCamera`, which leaves `mIsPreviewing` set, the same
  happens after a new opening.
* *SelfWait.* The size is changed during a preview and then a frame cannot be drawn:
  the GL thread's own `startPreview` awaits a surface that only the GL thread makes.
* The await at `RendererHolder.java:152` has no predicate: an earlier recreation
  wakes the client, and the second one destroys the surface it has just read
  (`overlap`: the exception in `NoStaleSurface`).
* `addSlaveSurface` and `removeSlaveSurface` look into `mSlaveSurfaces` (225, 246) to see
  whether there is something to do. When the wait of an earlier request ran out, or was
  ended by another requester's notification, that request may still be due: the next one
  finds the state before it, sends no message, and is lost (`overtaken`).
* `checkSurface` collects the indexes of invalid surfaces and then removes at them in
  ascending order (`RendererHolder.java:616`). With two invalid surfaces the second
  removal takes the surface one place further on, a valid one perhaps, or an index beyond
  the end: an exception that nobody catches (`CheckSurfaceThrows`). Both set `muddled`.
* `checkPrimarySurface` reads `mPrimarySurface` twice without the lock (146); a release
  between the two is a null pointer, and this `startPreview` ends with an exception.

**What the violation shows.** `PictureAnswered`: `takePicture` promises its callback
"only once for every invocation" (`ImageCapture.java:130`). A camera that is closed or
unplugged between the test of `mImageCapture` and the post has a renderer that was told
to quit. Its handler drops the request, nobody looks at what `post` returns
(`CameraRendererHolder.java:58`), and the callback is never called.

**Proofs** (`CameraRendererProofs`), for any sizes, surfaces, pictures and bounds.

`TypeCorrect` and `NoDeadlockFromStoppedHolds`: the invariant adds `CameraLocked` (who holds
`CameraInternal.class` at which place of `startPreview`) and `CalmKept` (while the
client's calm `startPreview` runs, the flag stays off and the GL thread is not in
`startPreview`: the flag is written under the lock the client holds).

`SlavesAsAskedHolds` and `NoStaleSurfaceHolds` rest on a second invariant,
`RendererInv`, about the messages that are under way. Lemmas say once what posting and
handling a message does to "no message of these kinds is due" (`NoneOf`) and "at most
one is" (`OneOf`).

* The set of slave surfaces is changed by the GL thread, what was asked for by the
  client and the executor. `SlavesKept`, for each surface whose last request was not lost:
  the last message about it asks for what was asked last, and if none is due, it is
  mirrored on as asked. What `checkSurface` removes is shown from the order of the ids:
  with at most one invalid surface its index is right (`Checked` is then the valid ones;
  `PositionsDiffer`). `HolderKept` is needed so that a message to a renderer that is still
  there is always handled.
* `FreshKept` is `NoStaleSurface` for the moments at which neither thread is at work on
  the surface. It is not inductive by itself: that the client gets to `startPreview`'s
  end with the current surface depends on where the GL thread is, which `AloneKept`
  says for each place of the client: at most one recreation is due, the one the client
  asked for; it has been handled when the client is woken; none is due while the client
  reads and passes on the surface. `GlPlaced` ties the GL thread's places to `mLock`,
  so that the client cannot be between its own locked places meanwhile.

`RendererInv` was checked by TLC, with four operations and two failures, before it was
proved.

**Only model-checked:** `OperationsReturn`, `PostedPictureAnswered` (liveness), and the violation.

**Left out:** drawing, rotation and mirroring, controls, recording (next module), an
open that fails (see `CameraConnection`), the capture holder of `CameraRendererHolder`
(without it a picture is answered with an error, which `HandleCapture` always allows).


## 7. Recording: `VideoCapture`

**Threads and actions.**

| Code | Thread | Actions |
|---|---|---|
| `startRecording`, `stopRecording`, `setConfig` | client | `BeginStart`, `RefuseStart`, `StartAudioInput`, `StartEncoders`, `InitMediaMuxer`, `PostEncoding`; `BeginStop`; `BeginSetConfig`, `Setup…` |
| `release`, from `closeCamera` | listener | `BeginClose`, `ReleaseCapture` |
| `videoEncode` | video | `BeginVideo`, `CheckVideoSignal`, `VideoFormatChanged`, `WriteVideo`, `DequeueVideo`, `StopVideoEncoder`, `StopMuxer`, `FinishVideo`, `AnswerVideo` |
| `audioEncode` | audio | `BeginAudio`, `CheckAudioSignal`, `DequeueAudio`, `AudioFormatChanged`, `StopAudio` |
| the clean-up: `mRecordingFuture` | executor | `CallFuture`, `SetupVideo`, `SetupAudio`, `SetupEnd` |

Codecs, recorder and muxer have the states Android documents; a call in a wrong
state, or on null, throws. Where the exception goes is part of the code and of the
model: an encoding thread does not catch it (`Die`: the process ends),
`CameraHelper` logs those of the client, a `FutureTask` keeps those of the clean-up.
`muxerOf` and the second component of a track are history: which recording a file
and a track belong to.

The end of a recording is passed on: `stopRecording` signals audio, audio signals
video when it has ended, video stops the muxer, sets `mEndOfAudioVideoSignal`, runs
the clean-up and answers. Without audio, video is signalled at once.

**Run.** `video`: two recordings, three operations (closing the camera counts as
one), one call of Android that fails, with and without audio. A second recording is
what shows that the first one left something behind. `CHECK_DEADLOCK FALSE`: nobody
has to call, and the process may end.

`calm` says that no call failed, that no recording was started before the last
clean-up was over, and that nothing was released during a start: VideoCapture does
not cope with these, and the model contains what happens then.

| Property | When |
|---|---|
| `Survives`: no encoding thread ends the process | `calm` |
| `OwnFile`: a file has tracks of its own recording only | `calm` |
| `KeyFrameDecides`: saved only with a key frame, too short only without one | with failures too; "too short" is excepted when `startRecording` was called during the recording (`again`) |
| `StoppedAnswered`: a recording told to stop is answered | `calm` |
| `ClosedReleased`: a closed capture releases what it holds | `calm`, and the clean-up not yet over |

**Fairness.** The five threads go on when they can; the codecs deliver the end of a
stream they were told to end. Nobody has to start or stop a recording.

**What the model shows besides.**

* `startRecording` resets the key-frame flag (298) before it refuses because a
  recording is in progress (336): the recording that runs is then reported too short,
  and its file deleted, unless another key frame follows (`again`).
* A renderer that is gone is answered at once (`RendererGone`): VideoCapture has a weak
  reference only, which may be null once the camera was closed.
* Three ways to fail end a start without the clean-up and without an answer: a microphone
  that throws, after which the null recorder is asked for its state (359), output options
  that make `initMediaMuxer` throw something other than an `IOException` (417), and, with
  the recording already marked as begun, a renderer that goes away before line 431.
* A video error with audio on: the muxer is set to null while the audio thread goes
  on, and `addTrack` ends the process; so does a codec exception in `audioEncode`.
* A microphone that fails leaves `mAudioEncoder` null: this recording goes on without
  sound; the next set-up throws, the FutureTask keeps the exception, and a later
  `startRecording` throws without an answer.
* `release` after a finished recording finds `mRecordingFuture` set, leaves the work to
  a clean-up that is over, and nothing is released (`late`).

**Proofs** (`VideoCaptureProofs`), for any bounds: `TypeCorrect` and
`KeyFrameDecidesHolds`. `KeyFrameDecides` speaks of answers; it is inductive only
with `FlagOK` (the flag is that of the recording being encoded), `WorkOK` (whoever
encodes serves a recording that was started), `OneAtATime` (no start passes
`Refused` while one is encoded: `mEndOfAudioVideoSignal` is tested and cleared by
the client alone) and `FreshOK` (of a recording that nobody has encoded there is
neither a key frame nor an answer "short").

`VideoCaptureCalm` proves `SurvivesHolds` and `OwnFileHolds`. Neither says anything of
the state once `calm` is over, so the invariant is `CalmInv == calm => Parts`, next to
that of `VideoCaptureProofs`. `Parts` follows one recording from its start to its
clean-up: `Lifecycle` (one clean-up follows each recording; what is released stays
unused), `SetUp` (the codecs stand ready between recordings) and `Recorded`: while a
recording is encoded, `EncodeOK` gives the order in which its threads, codecs and muxer
end (the audio thread before the video is told to end, the video before the muxer
stops, the muxer before the clean-up), and `Own` says that every piece of work and
every track is of the recording whose file the muxer writes. A call of null or in a
wrong state contradicts `EncodeOK`, a track of another recording contradicts `Own`.

**Only model-checked:** `StoppedAnswered`, `ClosedReleased` (liveness).

**Left out:** a change of the configuration during a recording (the code does not
prevent it, `BeginSetConfig` waits for the end), codecs that cannot be created,
formats and sizes, timestamps, the media scanner.


## Limits

Liveness and anything that mentions fairness is checked by TLC only. The data of
frames, controls and descriptors is not modelled, nor is the code of the kernel, the
Java runtime, OpenGL and the codecs: where the models need them, they are written
from how this repository uses them and marked external in `PROJECT.json`.
