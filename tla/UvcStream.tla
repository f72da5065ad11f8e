------------------------------ MODULE UvcStream ------------------------------
(***************************************************************************)
(* A video stream of libuvc (libuvc/src/stream.c) over libusb's transfers  *)
(* (libusb/libusb/io.c, os/linux_usbfs.c).                                 *)
(*                                                                         *)
(* Threads and the variable that holds the point each one has reached:     *)
(*   app  the caller of uvc_start_streaming and uvc_stop_streaming;        *)
(*   ev   libusb's event thread, in _uvc_stream_callback;                  *)
(*   usr  _uvc_user_caller, which hands frames to the user.                *)
(* running is read and written without a lock.  cb_mutex is held by app in *)
(* the loop that cancels the transfers (Locked); the other critical        *)
(* sections are single steps.  A thread in pthread_cond_wait is a member   *)
(* of cb_cond.                                                             *)
(*                                                                         *)
(* The camera sends numbered payloads, Parts of them for each frame.  Every*)
(* payload carries the frame's alternating bit, the last one may carry the *)
(* end-of-frame mark.  A buffer is the set of payloads copied into it.     *)
(***************************************************************************)
EXTENDS Naturals, FiniteSets

CONSTANTS
    NumTransfers,    \* LIBUVC_NUM_TRANSFER_BUFS
    Parts,           \* payloads the camera sends for each frame
    FrameSize,       \* payloads that dwMaxVideoFrameSize has room for
    MaxPayloads,     \* bound: payloads the camera sends
    MaxStreams       \* bound: streams opened

\* One lost payload must not hide a whole frame from the alternating bit.
ASSUME StreamAssumption ==
    /\ NumTransfers \in Nat \ {0}
    /\ Parts \in Nat \ {0, 1}
    /\ FrameSize \in Nat /\ FrameSize >= Parts
    /\ MaxPayloads \in Nat /\ MaxStreams \in Nat

VARIABLES
    app, next,       \* next: the loop variable of app
    streams,         \* streams opened so far
    running,
    transfers,       \* the transfers whose pointer is not NULL
    usb,             \* what libusb and the kernel do with each transfer
    plugged, disconnected,
    ev, handled, payload,   \* the transfer and the payload ev works on
    fid, seq, got, outbuf, holdbuf, hold_seq, buffer,
    cb_cond,         \* threads asleep in pthread_cond_wait
    usr, last_seq, frame,
    sent, arrived    \* payloads sent, and those the stream has received

appVars == <<app, next, streams, running>>
evVars == <<ev, handled, payload>>
bufferVars == <<seq, got, outbuf, holdbuf, hold_seq, buffer>>
usrVars == <<usr, last_seq, frame>>
deviceVars == <<plugged, disconnected>>
cameraVars == <<sent, arrived>>

vars == <<appVars, transfers, usb, deviceVars, evVars, fid, bufferVars, cb_cond,
          usrVars, cameraVars>>

-----------------------------------------------------------------------------
Transfers == 1 .. NumTransfers
Payloads == 1 .. MaxPayloads

FrameOf(x) == (x - 1) \div Parts
BitOf(x) == FrameOf(x) % 2
LastOfFrame(x) == x % Parts = 0

App == "app"
User == "usr"

\* app holds cb_mutex across steps.
Locked == app \in {"cancel", "drain"}

NoPayload == [id |-> 0, eof |-> FALSE]

Init ==
    /\ app = "closed" /\ next = 1 /\ streams = 0 /\ running = FALSE
    /\ transfers = {} /\ usb = [t \in Transfers |-> "none"]
    /\ plugged = TRUE /\ disconnected = FALSE
    /\ ev = "idle" /\ handled = 1 /\ payload = NoPayload
    /\ fid = 0 /\ seq = 0 /\ got = 0 /\ hold_seq = 0
    /\ outbuf = 1 /\ holdbuf = 2 /\ buffer = [b \in {1, 2} |-> {}]
    /\ cb_cond = {}
    /\ usr = "none" /\ last_seq = 0 /\ frame = {}
    /\ sent = 0 /\ arrived = {}

-----------------------------------------------------------------------------
(***************************************************************************)
(* uvc_start_streaming: open the stream, then start it.                    *)
(***************************************************************************)

\* calloc clears the handle.
uvc_stream_open_ctrl ==
    /\ app = "closed" /\ plugged
    /\ streams < MaxStreams
    /\ streams' = streams + 1
    /\ app' = "opened"
    /\ fid' = 0 /\ seq' = 0 /\ got' = 0 /\ hold_seq' = 0
    /\ outbuf' = 1 /\ holdbuf' = 2 /\ buffer' = [b \in {1, 2} |-> {}]
    /\ last_seq' = 0 /\ frame' = {}
    /\ arrived' = {}
    /\ UNCHANGED <<next, running, transfers, usb, deviceVars, evVars, cb_cond, usr, sent>>

\* The frames are numbered from 1: number 0 is "no frame yet".
FirstSeq == 1

uvc_stream_start ==
    /\ app = "opened"
    /\ running' = TRUE
    /\ seq' = FirstSeq /\ fid' = 0
    /\ transfers' = Transfers
    /\ usr' = "check"
    /\ next' = 1 /\ app' = "submit"
    /\ UNCHANGED <<streams, usb, deviceVars, evVars, got, outbuf, holdbuf, hold_seq,
                   buffer, cb_cond, last_seq, frame, cameraVars>>

\* The format is unknown, no alternate setting fits or selecting one fails:
\* uvc_start_streaming closes the stream.
StartFails ==
    /\ app = "opened"
    /\ app' = "closed"
    /\ UNCHANGED <<next, streams, running, transfers, usb, deviceVars, evVars, fid,
                   bufferVars, cb_cond, usrVars, cameraVars>>

AppUnchanged == UNCHANGED <<streams, deviceVars, evVars, fid, bufferVars, usrVars,
                            cameraVars>>

\* Mutant: the loops run once too often.
PastLastTransfer == next > NumTransfers

LastTransfer == next = NumTransfers

SubmitTransfer ==
    /\ app = "submit" /\ plugged
    /\ usb' = [usb EXCEPT ![next] = "flying"]
    /\ IF LastTransfer THEN app' = "streaming" /\ UNCHANGED next
                       ELSE next' = next + 1 /\ UNCHANGED app
    /\ UNCHANGED <<running, transfers, cb_cond>>
    /\ AppUnchanged

\* The transfers not submitted are freed; the call still succeeds.
SubmitFails ==
    /\ app = "submit"
    /\ transfers' = transfers \ (next .. NumTransfers)
    /\ app' = "streaming"
    /\ UNCHANGED <<next, running, usb, cb_cond>>
    /\ AppUnchanged

-----------------------------------------------------------------------------
(***************************************************************************)
(* uvc_stop_streaming, uvc_stream_close, uvc_stream_stop.                  *)
(***************************************************************************)

\* running is cleared before cb_mutex is taken.
uvc_stream_stop ==
    /\ app = "streaming"
    /\ running' = FALSE
    /\ app' = "lock"
    /\ UNCHANGED <<next, transfers, usb, cb_cond>>
    /\ AppUnchanged

LockStream ==
    /\ app = "lock"
    /\ app' = "cancel" /\ next' = 1
    /\ UNCHANGED <<running, transfers, usb, cb_cond>>
    /\ AppUnchanged

\* The kernel discards a pending request only while the device is there.
Discards(t) == usb[t] = "flying" /\ plugged

\* Mutant: LIBUSB_ERROR_NOT_FOUND counts as a failure, too.
CancelFailsOnNotFound(t) == usb[t] \in {"done", "callback"}

\* libusb_cancel_transfer returns an error other than LIBUSB_ERROR_NOT_FOUND:
\* the device is gone and the transfer has not been taken up by ev.
CancelFails(t) == ~plugged /\ usb[t] \in {"done", "dead"}

CancelTransfer ==
    /\ app = "cancel"
    /\ IF next \notin transfers THEN UNCHANGED <<usb, transfers>>
       ELSE /\ usb' = IF Discards(next) THEN [usb EXCEPT ![next] = "discarded"] ELSE usb
            /\ transfers' = IF CancelFails(next) THEN transfers \ {next} ELSE transfers
    /\ IF LastTransfer THEN app' = "drain" /\ UNCHANGED next
                       ELSE next' = next + 1 /\ UNCHANGED app
    /\ UNCHANGED <<running, cb_cond>>
    /\ AppUnchanged

\* app has cb_mutex, from the loop above or again after a wake-up.
Drain ==
    /\ \/ app = "drain"
       \/ app = "draining" /\ App \notin cb_cond
    /\ IF transfers = {}
       THEN app' = "join" /\ cb_cond' = {}
       ELSE app' = "draining" /\ cb_cond' = cb_cond \cup {App}
    /\ UNCHANGED <<next, running, transfers, usb>>
    /\ AppUnchanged

JoinUser ==
    /\ app = "join" /\ usr = "done"
    /\ app' = "close"
    /\ UNCHANGED <<next, running, transfers, usb, cb_cond>>
    /\ AppUnchanged

\* uvc_stream_close frees the handle and its buffers.
uvc_stream_close ==
    /\ app = "close"
    /\ app' = "closed"
    /\ usr' = "none"
    /\ UNCHANGED <<next, streams, running, transfers, usb, deviceVars, evVars, fid,
                   bufferVars, cb_cond, last_seq, frame, cameraVars>>

-----------------------------------------------------------------------------
(***************************************************************************)
(* The kernel, libusb and the camera.                                      *)
(***************************************************************************)
KernelUnchanged == UNCHANGED <<appVars, transfers, evVars, fid, bufferVars, cb_cond,
                               usrVars, cameraVars>>

\* A request is answered, fails, or its 5 seconds have passed.
Complete(t) ==
    /\ usb[t] = "flying"
    /\ usb' = [usb EXCEPT ![t] = "done"]
    /\ UNCHANGED deviceVars
    /\ KernelUnchanged

\* The requests that are pending end with ESHUTDOWN.
Unplug ==
    /\ plugged
    /\ plugged' = FALSE
    /\ usb' = [t \in Transfers |-> IF usb[t] = "flying" THEN "dead" ELSE usb[t]]
    /\ UNCHANGED disconnected
    /\ KernelUnchanged

-----------------------------------------------------------------------------
(***************************************************************************)
(* libusb's event thread: _uvc_stream_callback and what it calls.          *)
(***************************************************************************)
EvUnchanged == UNCHANGED <<appVars, plugged, usrVars>>

\* The requests that end before the device is gone can be reaped until libusb
\* has removed the device.  What reaping a freed transfer does is undefined.
CanReap(t) ==
    /\ ev = "idle" /\ ~disconnected
    /\ usb[t] \in {"done", "discarded"}
    /\ t \in transfers

BeginCallback(t) ==
    /\ handled' = t
    /\ usb' = [usb EXCEPT ![t] = "callback"]
    /\ UNCHANGED <<transfers, fid, bufferVars, cb_cond>>
    /\ EvUnchanged

\* LIBUSB_TRANSFER_COMPLETED, with the next payload of the camera.
ReapPayload(t) ==
    /\ CanReap(t) /\ usb[t] = "done" /\ sent < MaxPayloads
    /\ sent' = sent + 1
    /\ arrived' = arrived \cup {sent + 1}
    /\ \E eof \in {FALSE, LastOfFrame(sent + 1)} :
           payload' = [id |-> sent + 1, eof |-> eof]
    /\ ev' = "payload"
    /\ UNCHANGED disconnected
    /\ BeginCallback(t)

\* TIMED_OUT, STALL, OVERFLOW, a bad packet or one with the error bit: a payload
\* may be lost, but not two in a row.
ReapNothing(t) ==
    /\ CanReap(t) /\ usb[t] = "done"
    /\ \/ UNCHANGED sent
       \/ sent < MaxPayloads /\ sent \in arrived /\ sent' = sent + 1
    /\ ev' = "resubmit"
    /\ UNCHANGED <<payload, arrived, disconnected>>
    /\ BeginCallback(t)

\* CANCELLED or ERROR.
ReapEnded(t) ==
    /\ CanReap(t)
    /\ ev' = "free"
    /\ UNCHANGED <<payload, cameraVars, disconnected>>
    /\ BeginCallback(t)

\* usbi_handle_disconnect ends one of the pending transfers with NO_DEVICE (those
\* without a timeout come last in its list); the device is not polled any more.
Disconnect ==
    /\ ev = "idle" /\ ~plugged /\ ~disconnected
    /\ \A t \in transfers : usb[t] \notin {"done", "discarded"}
    /\ disconnected' = TRUE
    /\ UNCHANGED <<payload, cameraVars>>
    /\ \/ /\ \A t \in transfers : usb[t] # "dead"
          /\ UNCHANGED <<ev, handled, usb, transfers, fid, bufferVars, cb_cond>>
          /\ EvUnchanged
       \/ \E t \in transfers :
             /\ usb[t] = "dead"
             /\ ev' = "free"
             /\ BeginCallback(t)

\* Mutant: the two buffers are not exchanged.
SwapSequenceOnly ==
    /\ hold_seq' = seq
    /\ seq' = seq + 1
    /\ got' = 0
    /\ cb_cond' = {}
    /\ holdbuf' = outbuf
    /\ UNCHANGED <<outbuf, buffer>>

\* Mutant: the user is not told of the frame.
SwapUnnoticed ==
    /\ outbuf' = holdbuf /\ holdbuf' = outbuf
    /\ hold_seq' = seq
    /\ seq' = seq + 1
    /\ got' = 0
    /\ UNCHANGED <<buffer, cb_cond>>

_uvc_swap_buffers ==
    /\ outbuf' = holdbuf /\ holdbuf' = outbuf
    /\ hold_seq' = seq
    /\ seq' = seq + 1
    /\ got' = 0
    /\ cb_cond' = {}
    /\ UNCHANGED buffer

\* Mutant: the alternating bit is ignored.
IgnoreBit(x) == FALSE

\* The bit has flipped and the camera did not send the end-of-frame mark.
FrameEndMissed(x) == fid # BitOf(x) /\ got # 0

BeginPayload ==
    /\ ev = "payload"
    /\ IF FrameEndMissed(payload.id)
       THEN ~Locked /\ _uvc_swap_buffers
       ELSE UNCHANGED <<bufferVars, cb_cond>>
    /\ fid' = BitOf(payload.id)
    /\ ev' = "append"
    /\ UNCHANGED <<handled, payload, transfers, usb, disconnected, cameraVars>>
    /\ EvUnchanged

\* The first payload of a frame overwrites what the buffer held before.
AppendPayload ==
    LET data == IF got = 0 THEN {} ELSE buffer[outbuf]
    IN  /\ ev = "append"
        /\ buffer' = [buffer EXCEPT ![outbuf] = data \cup {payload.id}]
        /\ got' = got + 1
        /\ ev' = IF payload.eof \/ got' = FrameSize THEN "publish" ELSE "resubmit"
        /\ UNCHANGED <<handled, payload, transfers, usb, disconnected, cameraVars,
                       fid, seq, outbuf, holdbuf, hold_seq, cb_cond>>
        /\ EvUnchanged

PublishFrame ==
    /\ ev = "publish" /\ ~Locked
    /\ _uvc_swap_buffers
    /\ ev' = "resubmit"
    /\ UNCHANGED <<handled, payload, transfers, usb, disconnected, cameraVars, fid>>
    /\ EvUnchanged

\* running is read without cb_mutex ...
CheckRunning ==
    /\ ev = "resubmit"
    /\ ev' = IF running THEN "submit" ELSE "free"
    /\ UNCHANGED <<handled, payload, transfers, usb, disconnected, cameraVars, fid,
                   bufferVars, cb_cond>>
    /\ EvUnchanged

\* ... so uvc_stream_stop may have passed this transfer when it is submitted.
Resubmit ==
    /\ ev = "submit"
    /\ \/ /\ plugged
          /\ usb' = [usb EXCEPT ![handled] = "flying"]
          /\ ev' = "idle"
       \/ ev' = "free" /\ UNCHANGED usb
    /\ UNCHANGED <<handled, payload, transfers, disconnected, cameraVars, fid,
                   bufferVars, cb_cond>>
    /\ EvUnchanged

\* Mutant: uvc_stream_stop is not told that a transfer has ended.
NoBroadcast(sleepers) == sleepers

Broadcast(sleepers) == {}

FreeTransfer ==
    /\ ev = "free" /\ ~Locked
    /\ transfers' = transfers \ {handled}
    /\ usb' = [usb EXCEPT ![handled] = "none"]
    /\ cb_cond' = Broadcast(cb_cond)
    /\ ev' = "idle"
    /\ UNCHANGED <<handled, payload, disconnected, cameraVars, fid, bufferVars>>
    /\ EvUnchanged

-----------------------------------------------------------------------------
(***************************************************************************)
(* _uvc_user_caller.                                                       *)
(***************************************************************************)
UsrUnchanged == UNCHANGED <<appVars, transfers, usb, deviceVars, evVars, fid, bufferVars,
                            cameraVars>>

\* The thread has cb_mutex, at the head of its loop or after a wake-up.
UserAwake ==
    /\ ~Locked
    /\ usr = "check" \/ (usr = "asleep" /\ User \notin cb_cond)

WaitForFrame ==
    /\ UserAwake
    /\ running /\ last_seq = hold_seq
    /\ usr' = "asleep"
    /\ cb_cond' = cb_cond \cup {User}
    /\ UNCHANGED <<last_seq, frame>>
    /\ UsrUnchanged

TakeFrame ==
    /\ UserAwake
    /\ running /\ last_seq # hold_seq
    /\ last_seq' = hold_seq
    /\ frame' = buffer[holdbuf]
    /\ usr' = "calling"
    /\ UNCHANGED cb_cond
    /\ UsrUnchanged

UserCallReturns ==
    /\ usr = "calling"
    /\ usr' = "check"
    /\ UNCHANGED <<last_seq, frame, cb_cond>>
    /\ UsrUnchanged

UserExits ==
    /\ UserAwake
    /\ ~running
    /\ usr' = "done"
    /\ UNCHANGED <<last_seq, frame, cb_cond>>
    /\ UsrUnchanged

-----------------------------------------------------------------------------
AppStep ==
    \/ uvc_stream_start \/ StartFails \/ SubmitTransfer \/ SubmitFails
    \/ LockStream \/ CancelTransfer \/ Drain \/ JoinUser \/ uvc_stream_close

EvStep ==
    \/ \E t \in Transfers : ReapPayload(t) \/ ReapNothing(t) \/ ReapEnded(t)
    \/ Disconnect
    \/ BeginPayload \/ AppendPayload \/ PublishFrame
    \/ CheckRunning \/ Resubmit \/ FreeTransfer

UserStep == WaitForFrame \/ TakeFrame \/ UserCallReturns \/ UserExits

\* Nothing obliges the client to open or stop a stream, or the camera to go.
Environment == uvc_stream_open_ctrl \/ uvc_stream_stop \/ Unplug

Next ==
    \/ Environment
    \/ AppStep \/ EvStep \/ UserStep
    \/ \E t \in Transfers : Complete(t)

Spec == Init /\ [][Next]_vars

\* Every thread that can run does, user_cb returns, and every request ends: it
\* is answered or times out.
Fairness ==
    /\ WF_vars(AppStep) /\ WF_vars(EvStep) /\ WF_vars(UserStep)
    /\ \A t \in Transfers : WF_vars(Complete(t))

FairSpec == Spec /\ Fairness

-----------------------------------------------------------------------------
(***************************************************************************)
(* Properties.                                                             *)
(***************************************************************************)
AppStates == {"closed", "opened", "submit", "streaming", "lock", "cancel", "drain",
              "draining", "join", "close"}
EvStates == {"idle", "payload", "append", "publish", "resubmit", "submit", "free"}
UsbStates == {"none", "flying", "done", "discarded", "dead", "callback"}
UsrStates == {"none", "check", "asleep", "calling", "done"}

\* Every variable keeps its type; got never exceeds dwMaxVideoFrameSize.
TypeOK ==
    /\ app \in AppStates /\ next \in Transfers
    /\ streams \in 0 .. MaxStreams /\ running \in BOOLEAN
    /\ transfers \subseteq Transfers
    /\ usb \in [Transfers -> UsbStates]
    /\ plugged \in BOOLEAN /\ disconnected \in BOOLEAN
    /\ ev \in EvStates /\ handled \in Transfers
    /\ payload \in [id : 0 .. MaxPayloads, eof : BOOLEAN]
    /\ fid \in {0, 1} /\ seq \in Nat /\ hold_seq \in Nat
    /\ got \in 0 .. FrameSize
    /\ outbuf \in {1, 2} /\ holdbuf \in {1, 2}
    /\ buffer \in [{1, 2} -> SUBSET Payloads]
    /\ cb_cond \subseteq {App, User}
    /\ usr \in UsrStates /\ last_seq \in Nat /\ frame \subseteq Payloads
    /\ sent \in 0 .. MaxPayloads /\ arrived \subseteq 1 .. sent

\* The user gets whole frames: the payloads of one frame of the camera, all of
\* them that the stream has received.
Whole(data) == \E n \in {FrameOf(x) : x \in data} : data = {x \in arrived : FrameOf(x) = n}

WholeFrames == usr = "calling" => Whole(frame)

\* Once uvc_stream_stop has seen all transfers ended, no callback runs and libusb
\* will start none with the stream that is going to be freed.
TransfersEnded ==
    app \in {"join", "close", "closed", "opened"} =>
        /\ transfers = {} /\ ev = "idle"
        /\ \A t \in Transfers : usb[t] \notin {"flying", "discarded", "callback"}
        /\ plugged => \A t \in Transfers : usb[t] = "none"

\* The stream is a mailbox for the newest frame.
Cell == [seq |-> hold_seq, data |-> buffer[holdbuf]]
Copy == [seq |-> last_seq, data |-> frame]
Reader == CASE usr \in {"none", "done"} -> "off"
            [] usr = "calling" -> "reading"
            [] OTHER -> "waiting"

Mailbox == INSTANCE FrameMailbox WITH
    Data <- SUBSET Payloads, cell <- Cell, copy <- Copy, reader <- Reader

MailboxSpec == Mailbox!Spec

\* uvc_stream_stop returns, whatever transfers are pending or resubmitted at the
\* same time, unless the camera goes while it runs; it may have gone before.
StopReturns ==
    \A present \in BOOLEAN :
        app = "lock" /\ plugged = present ~> app = "closed" \/ plugged # present

\* While the stream runs, every published frame or a newer one reaches the user.
FramesDelivered ==
    \A n \in Payloads : (running /\ hold_seq = n) ~> (last_seq >= n \/ ~running)

\* "It is not legal to free an active transfer (one which has been submitted and
\* has not yet completed)": libusb reaps no transfer that has been freed.
NoFreedTransferReaped ==
    \A t \in Transfers :
        usb[t] \in {"done", "discarded"} /\ ~disconnected => t \in transfers

\* usbi_handle_disconnect: "terminate all pending transfers with the
\* LIBUSB_TRANSFER_NO_DEVICE status code": uvc_stream_stop, which waits for them,
\* returns even when the camera goes while it runs.
StopAlwaysReturns == app = "lock" ~> app = "closed"
=============================================================================
