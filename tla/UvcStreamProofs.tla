--------------------------- MODULE UvcStreamProofs ---------------------------
(***************************************************************************)
(* Theorems of UvcStream, for any number of transfers, payloads and        *)
(* streams.                                                                *)
(***************************************************************************)
EXTENDS UvcStream, TLAPS

-----------------------------------------------------------------------------
(***************************************************************************)
(* Transfers: which of them libusb or the kernel may still work on.        *)
(***************************************************************************)
TransferTypes ==
    /\ app \in AppStates
    /\ next \in Transfers
    /\ transfers \subseteq Transfers
    /\ usb \in [Transfers -> UsbStates]
    /\ plugged \in BOOLEAN
    /\ ev \in EvStates
    /\ handled \in Transfers

\* The callback works on a transfer that is not freed, and on one only.
OneCallback ==
    /\ ev # "idle" => handled \in transfers /\ usb[handled] = "callback"
    /\ \A t \in Transfers : usb[t] = "callback" => ev # "idle" /\ t = handled

\* A freed transfer is at rest, unless the camera is gone.
FreedAtRest ==
    \A t \in Transfers :
        t \notin transfers =>
            \/ usb[t] = "none"
            \/ ~plugged /\ usb[t] \in {"done", "dead"}

\* What is not submitted yet is at rest.
NotYetSubmitted ==
    /\ app = "opened" => \A t \in Transfers : usb[t] = "none"
    /\ app = "submit" =>
         \A t \in Transfers : t >= next => t \in transfers /\ usb[t] = "none"

NoneAllocated == app \in {"join", "close", "closed", "opened"} => transfers = {}

TransferInv ==
    /\ TransferTypes
    /\ OneCallback /\ FreedAtRest /\ NotYetSubmitted /\ NoneAllocated

\* The variables that TransferInv is about.
transferVars == <<app, next, transfers, usb, plugged, ev, handled>>

LEMMA TransferInit == Init => TransferInv
BY StreamAssumption DEF Init, TransferInv, TransferTypes, OneCallback, FreedAtRest,
   NotYetSubmitted, NoneAllocated, Transfers, AppStates, UsbStates, EvStates

\* No callback runs and no transfer is pending once all of them are freed.
LEMMA EndedWhenFreed == TransferInv => TransfersEnded
BY DEF TransferInv, TransferTypes, OneCallback, FreedAtRest, NoneAllocated,
   TransfersEnded, Transfers

\* The callback, the user and the kernel keep TransferInv when they change nothing
\* that it is about but ev.
LEMMA TransferStutter ==
    ASSUME TransferInv, UNCHANGED transferVars
    PROVE  TransferInv'
BY DEF TransferInv, TransferTypes, OneCallback, FreedAtRest, NotYetSubmitted,
   NoneAllocated, transferVars

LEMMA CallbackStutter ==
    ASSUME TransferInv, UNCHANGED <<app, next, transfers, usb, plugged, handled>>,
           ev # "idle", ev' \in EvStates \ {"idle"}
    PROVE  TransferInv'
BY DEF TransferInv, TransferTypes, OneCallback, FreedAtRest, NotYetSubmitted,
   NoneAllocated

-----------------------------------------------------------------------------
\* uvc_start_streaming and uvc_stop_streaming.
LEMMA AppTransferStep ==
    ASSUME TransferInv,
           uvc_stream_open_ctrl \/ uvc_stream_stop \/ AppStep
    PROVE  TransferInv'
<1> USE StreamAssumption
       DEF TransferInv, TransferTypes, OneCallback, FreedAtRest, NotYetSubmitted,
           NoneAllocated, Transfers, evVars, deviceVars
<1>1. CASE uvc_stream_open_ctrl
  BY <1>1 DEF uvc_stream_open_ctrl, AppStates
<1>2. CASE uvc_stream_stop
  BY <1>2 DEF uvc_stream_stop, AppUnchanged, AppStates
<1>3. CASE uvc_stream_start
  BY <1>3 DEF uvc_stream_start, AppStates
<1>4. CASE StartFails
  BY <1>4 DEF StartFails, AppStates
<1>5. CASE SubmitTransfer
  BY <1>5 DEF SubmitTransfer, AppUnchanged, LastTransfer, AppStates, UsbStates
<1>6. CASE SubmitFails
  BY <1>6 DEF SubmitFails, AppUnchanged, AppStates
<1>7. CASE LockStream
  BY <1>7 DEF LockStream, AppUnchanged, AppStates
<1>8. CASE CancelTransfer
  <2>1. /\ app = "cancel" /\ app' \in {"cancel", "drain"}
        /\ next' \in Transfers
        /\ UNCHANGED <<plugged, ev, handled>>
    BY <1>8 DEF CancelTransfer, AppUnchanged, LastTransfer
  <2>2. CASE UNCHANGED <<usb, transfers>>
    BY <2>1, <2>2 DEF AppStates
  <2>3. CASE /\ usb[next] = "flying" /\ next \in transfers
             /\ usb' = [usb EXCEPT ![next] = "discarded"]
             /\ UNCHANGED transfers
    BY <2>1, <2>3 DEF AppStates, UsbStates
  <2>4. CASE /\ ~plugged /\ usb[next] \in {"done", "dead"}
             /\ transfers' = transfers \ {next}
             /\ UNCHANGED usb
    BY <2>1, <2>4 DEF AppStates
  <2> QED
    BY <1>8, <2>2, <2>3, <2>4 DEF CancelTransfer, Discards, CancelFails
<1>9. CASE Drain
  BY <1>9 DEF Drain, AppUnchanged, AppStates
<1>10. CASE JoinUser
  BY <1>10 DEF JoinUser, AppUnchanged, AppStates
<1>11. CASE uvc_stream_close
  BY <1>11 DEF uvc_stream_close, AppStates
<1> QED
  BY <1>1, <1>2, <1>3, <1>4, <1>5, <1>6, <1>7, <1>8, <1>9, <1>10, <1>11 DEF AppStep

\* The kernel.
LEMMA KernelTransferStep ==
    ASSUME TransferInv,
           Unplug \/ \E t \in Transfers : Complete(t)
    PROVE  TransferInv'
<1> USE DEF TransferInv, TransferTypes, OneCallback, FreedAtRest, NotYetSubmitted,
           NoneAllocated, KernelUnchanged, appVars, evVars, deviceVars, UsbStates
<1>1. CASE Unplug
  BY <1>1 DEF Unplug
<1>2. ASSUME NEW t \in Transfers, Complete(t) PROVE TransferInv'
  BY <1>2 DEF Complete
<1> QED
  BY <1>1, <1>2

\* libusb starts a callback for a transfer that is not freed.
LEMMA CallbackBegins ==
    ASSUME TransferInv, NEW t \in transfers, ev = "idle", usb[t] # "none",
           ev' \in EvStates \ {"idle"}, BeginCallback(t)
    PROVE  TransferInv'
BY DEF TransferInv, TransferTypes, OneCallback, FreedAtRest, NotYetSubmitted,
   NoneAllocated, BeginCallback, EvUnchanged, appVars, UsbStates

\* libusb's event thread.
LEMMA EvTransferStep ==
    ASSUME TransferInv, EvStep
    PROVE  TransferInv'
<1>1. ASSUME NEW t \in Transfers, ReapPayload(t) \/ ReapNothing(t) \/ ReapEnded(t)
      PROVE  TransferInv'
  <2>1. t \in transfers /\ ev = "idle" /\ usb[t] # "none" /\ BeginCallback(t)
    BY <1>1 DEF ReapPayload, ReapNothing, ReapEnded, CanReap
  <2>2. ev' \in EvStates \ {"idle"}
    BY <1>1 DEF ReapPayload, ReapNothing, ReapEnded, EvStates
  <2> QED
    BY <2>1, <2>2, CallbackBegins
<1>2. CASE Disconnect
  <2>1. CASE UNCHANGED transferVars
    BY <2>1, TransferStutter
  <2>2. ASSUME NEW t \in transfers, ev = "idle", usb[t] = "dead", ev' = "free", BeginCallback(t)
        PROVE  TransferInv'
    BY <2>2, CallbackBegins DEF EvStates
  <2> QED
    BY <1>2, <2>1, <2>2 DEF Disconnect, EvUnchanged, appVars, transferVars
<1>3. CASE BeginPayload
  BY <1>3, CallbackStutter DEF BeginPayload, EvUnchanged, appVars, EvStates
<1>4. CASE AppendPayload
  BY <1>4, CallbackStutter DEF AppendPayload, EvUnchanged, appVars, EvStates
<1>5. CASE PublishFrame
  BY <1>5, CallbackStutter DEF PublishFrame, EvUnchanged, appVars, EvStates
<1>6. CASE CheckRunning
  BY <1>6, CallbackStutter DEF CheckRunning, EvUnchanged, appVars, EvStates
<1>7. CASE Resubmit
  <2>1. CASE ev' = "free" /\ UNCHANGED usb
    BY <1>7, <2>1, CallbackStutter DEF Resubmit, EvUnchanged, appVars, EvStates
  <2>2. CASE /\ plugged
             /\ usb' = [usb EXCEPT ![handled] = "flying"]
             /\ ev' = "idle"
    BY <1>7, <2>2 DEF Resubmit, EvUnchanged, appVars, TransferInv, TransferTypes,
       OneCallback, FreedAtRest, NotYetSubmitted, NoneAllocated, EvStates, UsbStates
  <2> QED
    BY <1>7, <2>1, <2>2 DEF Resubmit
<1>8. CASE FreeTransfer
  BY <1>8 DEF FreeTransfer, EvUnchanged, appVars, TransferInv, TransferTypes,
     OneCallback, FreedAtRest, NotYetSubmitted, NoneAllocated, EvStates, UsbStates
<1> QED
  BY <1>1, <1>2, <1>3, <1>4, <1>5, <1>6, <1>7, <1>8 DEF EvStep

\* _uvc_user_caller.
LEMMA UserTransferStep ==
    ASSUME TransferInv, UserStep
    PROVE  TransferInv'
BY TransferStutter DEF UserStep, WaitForFrame, TakeFrame, UserCallReturns, UserExits,
   UsrUnchanged, appVars, evVars, deviceVars, transferVars

LEMMA TransferNext ==
    ASSUME TransferInv, [Next]_vars
    PROVE  TransferInv'
<1>1. CASE UNCHANGED vars
  BY <1>1, TransferStutter DEF vars, appVars, evVars, deviceVars, transferVars
<1> QED
  BY <1>1, AppTransferStep, KernelTransferStep, EvTransferStep, UserTransferStep
  DEF Next, Environment

-----------------------------------------------------------------------------
\* Whatever libusb, the camera and the user's thread do at the same time: when
\* uvc_stream_stop has seen all transfers freed, none is pending and no callback
\* runs, so the stream handle may be freed.
THEOREM TransfersAccounted == Spec => []TransfersEnded
<1>1. Init => TransferInv
  BY TransferInit
<1>2. TransferInv /\ [Next]_vars => TransferInv'
  BY TransferNext
<1>3. TransferInv => TransfersEnded
  BY EndedWhenFreed
<1> QED
  BY <1>1, <1>2, <1>3, PTL DEF Spec

-----------------------------------------------------------------------------
(***************************************************************************)
(* Types.                                                                  *)
(***************************************************************************)

\* The payload that is appended is one the camera has sent.
PayloadSent == ev \in {"payload", "append"} => payload.id \in Payloads

\* The current buffer has room, but for a frame that is about to be published.
RoomInBuffer == ev # "publish" => got < FrameSize

TypeInv == TypeOK /\ PayloadSent /\ RoomInBuffer

LEMMA BitIsBit == ASSUME NEW x \in Payloads PROVE BitOf(x) \in {0, 1}
<1>1. Parts \in Nat /\ Parts > 0 /\ x - 1 \in Nat
  BY StreamAssumption DEF Payloads
<1>2. FrameOf(x) \in Nat
  BY <1>1, SMT DEF FrameOf
<1> QED
  BY <1>2, SMT DEF BitOf

LEMMA TypeInit == Init => TypeInv
<1> SUFFICES ASSUME Init PROVE TypeInv
  OBVIOUS
<1> USE StreamAssumption DEF Init
<1>1. /\ app \in AppStates /\ ev \in EvStates /\ usr \in UsrStates
      /\ usb \in [Transfers -> UsbStates]
  BY DEF AppStates, EvStates, UsrStates, UsbStates
<1>2. /\ next \in Transfers /\ handled \in Transfers /\ transfers \subseteq Transfers
      /\ streams \in 0 .. MaxStreams /\ fid \in {0, 1}
      /\ seq \in Nat /\ hold_seq \in Nat /\ last_seq \in Nat
  BY DEF Transfers
<1>3. /\ running \in BOOLEAN /\ plugged \in BOOLEAN /\ disconnected \in BOOLEAN
  OBVIOUS
<1>4. /\ outbuf \in {1, 2} /\ holdbuf \in {1, 2}
      /\ buffer \in [{1, 2} -> SUBSET Payloads]
      /\ cb_cond \subseteq {App, User} /\ frame \subseteq Payloads
  OBVIOUS
<1>5. /\ got \in 0 .. FrameSize /\ got < FrameSize
      /\ sent \in 0 .. MaxPayloads /\ arrived \subseteq 1 .. sent
  OBVIOUS
<1>6. payload \in [id : 0 .. MaxPayloads, eof : BOOLEAN]
  BY DEF NoPayload
<1>7. ev = "idle"
  OBVIOUS
<1> HIDE DEF Init
<1> QED
  BY <1>1, <1>2, <1>3, <1>4, <1>5, <1>6, <1>7 DEF TypeInv, TypeOK, PayloadSent, RoomInBuffer

LEMMA AppTypeStep ==
    ASSUME TypeInv, uvc_stream_open_ctrl \/ uvc_stream_stop \/ AppStep
    PROVE  TypeInv'
<1> USE StreamAssumption
       DEF TypeInv, TypeOK, PayloadSent, RoomInBuffer, evVars, deviceVars, usrVars,
           bufferVars, cameraVars, App, User
<1>1. CASE uvc_stream_open_ctrl
  BY <1>1 DEF uvc_stream_open_ctrl, AppStates
<1>2. CASE uvc_stream_stop
  BY <1>2 DEF uvc_stream_stop, AppUnchanged, AppStates
<1>3. CASE uvc_stream_start
  BY <1>3 DEF uvc_stream_start, FirstSeq, AppStates, UsrStates, Transfers
<1>4. CASE StartFails
  BY <1>4 DEF StartFails, AppStates
<1>5. CASE SubmitTransfer
  BY <1>5 DEF SubmitTransfer, AppUnchanged, LastTransfer, AppStates, UsbStates, Transfers
<1>6. CASE SubmitFails
  BY <1>6 DEF SubmitFails, AppUnchanged, AppStates
<1>7. CASE LockStream
  BY <1>7 DEF LockStream, AppUnchanged, AppStates, Transfers
<1>8. CASE CancelTransfer
  <2>1. usb' \in [Transfers -> UsbStates] /\ transfers' \subseteq Transfers
    BY <1>8 DEF CancelTransfer, UsbStates
  <2>2. app' \in AppStates /\ next' \in Transfers
    BY <1>8 DEF CancelTransfer, LastTransfer, AppStates, Transfers
  <2> QED
    BY <1>8, <2>1, <2>2 DEF CancelTransfer, AppUnchanged
<1>9. CASE Drain
  BY <1>9, ZenonT(60) DEF Drain, AppUnchanged, AppStates
<1>10. CASE JoinUser
  BY <1>10 DEF JoinUser, AppUnchanged, AppStates
<1>11. CASE uvc_stream_close
  BY <1>11 DEF uvc_stream_close, AppStates, UsrStates
<1> QED
  BY <1>1, <1>2, <1>3, <1>4, <1>5, <1>6, <1>7, <1>8, <1>9, <1>10, <1>11 DEF AppStep

LEMMA KernelTypeStep ==
    ASSUME TypeInv, Unplug \/ \E t \in Transfers : Complete(t)
    PROVE  TypeInv'
BY ZenonT(60) DEF Unplug, Complete, KernelUnchanged, TypeInv, TypeOK, PayloadSent, RoomInBuffer,
   appVars, evVars, deviceVars, usrVars, bufferVars, cameraVars, UsbStates

\* The swap of the buffers keeps their types.
LEMMA SwapTypes ==
    ASSUME TypeInv, _uvc_swap_buffers
    PROVE  /\ seq' \in Nat /\ hold_seq' \in Nat /\ got' = 0
           /\ outbuf' \in {1, 2} /\ holdbuf' \in {1, 2}
           /\ buffer' \in [{1, 2} -> SUBSET Payloads]
           /\ cb_cond' \subseteq {App, User}
BY DEF _uvc_swap_buffers, TypeInv, TypeOK

LEMMA EvTypeStep ==
    ASSUME TypeInv, EvStep
    PROVE  TypeInv'
<1> USE StreamAssumption
       DEF TypeInv, TypeOK, PayloadSent, RoomInBuffer, EvUnchanged, appVars, usrVars, App, User
<1>1. ASSUME NEW t \in Transfers, ReapPayload(t) PROVE TypeInv'
  <2>1. sent' \in Payloads /\ sent' \in 0 .. MaxPayloads /\ arrived' \subseteq 1 .. sent'
    BY <1>1 DEF ReapPayload, Payloads
  <2>2. payload' \in [id : 0 .. MaxPayloads, eof : BOOLEAN] /\ payload'.id \in Payloads
    <3>1. PICK eof \in {FALSE, LastOfFrame(sent + 1)} :
              payload' = [id |-> sent + 1, eof |-> eof]
      BY <1>1 DEF ReapPayload
    <3>2. eof \in BOOLEAN
      BY <3>1, Zenon DEF LastOfFrame
    <3>3. sent + 1 \in Payloads /\ sent + 1 \in 0 .. MaxPayloads
      BY <1>1 DEF ReapPayload, Payloads
    <3> HIDE DEF TypeInv
    <3> QED
      BY <3>1, <3>2, <3>3
  <2>3. usb' \in [Transfers -> UsbStates] /\ handled' \in Transfers
    BY <1>1 DEF ReapPayload, BeginCallback, UsbStates
  <2>4. ev' = "payload" /\ ev' \in EvStates /\ ev = "idle"
    BY <1>1 DEF ReapPayload, CanReap, EvStates
  <2> QED
    BY <1>1, <2>1, <2>2, <2>3, <2>4 DEF ReapPayload, BeginCallback, bufferVars
<1>2. ASSUME NEW t \in Transfers, ReapNothing(t) PROVE TypeInv'
  <2>1. sent' \in 0 .. MaxPayloads /\ arrived' \subseteq 1 .. sent'
    BY <1>2 DEF ReapNothing
  <2>2. usb' \in [Transfers -> UsbStates] /\ handled' \in Transfers
    BY <1>2 DEF ReapNothing, BeginCallback, UsbStates
  <2>3. ev' = "resubmit" /\ ev' \in EvStates /\ ev = "idle"
    BY <1>2 DEF ReapNothing, CanReap, EvStates
  <2> QED
    BY <1>2, <2>1, <2>2, <2>3 DEF ReapNothing, BeginCallback, bufferVars
<1>3. ASSUME NEW t \in Transfers, ReapEnded(t) PROVE TypeInv'
  <2>1. usb' \in [Transfers -> UsbStates] /\ handled' \in Transfers
    BY <1>3 DEF ReapEnded, BeginCallback, UsbStates
  <2>2. ev' = "free" /\ ev' \in EvStates /\ ev = "idle"
    BY <1>3 DEF ReapEnded, CanReap, EvStates
  <2> QED
    BY <1>3, <2>1, <2>2 DEF ReapEnded, BeginCallback, bufferVars, cameraVars
<1>4. CASE Disconnect
  <2>1. usb' \in [Transfers -> UsbStates] /\ handled' \in Transfers
    BY <1>4 DEF Disconnect, BeginCallback, UsbStates
  <2>2. ev' \in {"idle", "free"} /\ ev' \in EvStates /\ ev = "idle"
    BY <1>4 DEF Disconnect, EvStates
  <2>3. /\ UNCHANGED <<transfers, fid, bufferVars, cb_cond, appVars, plugged, usrVars,
                       payload, cameraVars>>
        /\ disconnected' = TRUE
    BY <1>4 DEF Disconnect, BeginCallback
  <2> QED
    BY <2>1, <2>2, <2>3 DEF bufferVars, cameraVars
<1>5. CASE BeginPayload
  <2>1. fid' \in {0, 1}
    BY <1>5, BitIsBit DEF BeginPayload
  <2>2. CASE _uvc_swap_buffers
    BY <1>5, <2>1, <2>2, SwapTypes DEF BeginPayload, EvStates, cameraVars
  <2>3. CASE UNCHANGED <<bufferVars, cb_cond>>
    BY <1>5, <2>1, <2>3 DEF BeginPayload, EvStates, cameraVars, bufferVars
  <2> QED
    BY <1>5, <2>2, <2>3 DEF BeginPayload
<1>6. CASE AppendPayload
  <2>1. buffer' \in [{1, 2} -> SUBSET Payloads]
    BY <1>6 DEF AppendPayload
  <2>2. got' \in 0 .. FrameSize /\ (got' # FrameSize => got' < FrameSize)
    BY <1>6 DEF AppendPayload
  <2>3. /\ ev' \in {"publish", "resubmit"} /\ ev' \in EvStates
        /\ ev' = "resubmit" => got' # FrameSize
    BY <1>6 DEF AppendPayload, EvStates
  <2> QED
    BY <1>6, <2>1, <2>2, <2>3 DEF AppendPayload, cameraVars
<1>7. CASE PublishFrame
  BY <1>7, SwapTypes DEF PublishFrame, EvStates, cameraVars
<1>8. CASE CheckRunning
  BY <1>8 DEF CheckRunning, EvStates, cameraVars, bufferVars
<1>9. CASE Resubmit
  <2>1. usb' \in [Transfers -> UsbStates]
    BY <1>9 DEF Resubmit, UsbStates
  <2>2. ev' \in {"idle", "free"} /\ ev' \in EvStates /\ ev = "submit"
    BY <1>9 DEF Resubmit, EvStates
  <2> QED
    BY <1>9, <2>1, <2>2 DEF Resubmit, cameraVars, bufferVars
<1>10. CASE FreeTransfer
  BY <1>10 DEF FreeTransfer, EvStates, UsbStates, Broadcast, cameraVars, bufferVars
<1> QED
  BY <1>1, <1>2, <1>3, <1>4, <1>5, <1>6, <1>7, <1>8, <1>9, <1>10 DEF EvStep

LEMMA UserTypeStep ==
    ASSUME TypeInv, UserStep
    PROVE  TypeInv'
BY ZenonT(60) DEF UserStep, WaitForFrame, TakeFrame, UserCallReturns, UserExits, UsrUnchanged,
   TypeInv, TypeOK, PayloadSent, RoomInBuffer, appVars, evVars, deviceVars, bufferVars,
   cameraVars, UsrStates, App, User

LEMMA TypeNext ==
    ASSUME TypeInv, [Next]_vars
    PROVE  TypeInv'
<1>1. CASE UNCHANGED vars
  BY <1>1 DEF vars, TypeInv, TypeOK, PayloadSent, RoomInBuffer, appVars, evVars,
     deviceVars, bufferVars, usrVars, cameraVars
<1> QED
  BY <1>1, AppTypeStep, KernelTypeStep, EvTypeStep, UserTypeStep DEF Next, Environment

\* Every variable keeps its type; in particular a frame never outgrows its buffer.
THEOREM TypeCorrect == Spec => []TypeOK
<1>1. Init => TypeInv
  BY TypeInit
<1>2. TypeInv /\ [Next]_vars => TypeInv'
  BY TypeNext
<1>3. TypeInv => TypeOK
  BY DEF TypeInv
<1> QED
  BY <1>1, <1>2, <1>3, PTL DEF Spec

-----------------------------------------------------------------------------
(***************************************************************************)
(* The stream implements FrameMailbox.                                     *)
(***************************************************************************)

\* The frame that is assembled is not the one that is held.
TwoBuffers == outbuf # holdbuf

\* The frame that is assembled is the next one after the one that is held.
NextNumber == app \notin {"closed", "opened"} => seq = hold_seq + 1

\* The user thread lives while the stream is started, and has ended when it is closed.
UserThread ==
    /\ usr = "none" <=> app \in {"closed", "opened"}
    /\ app = "close" => usr = "done"

\* A stream that is not started has no frame.
NoFrameYet ==
    app = "opened" => hold_seq = 0 /\ buffer[holdbuf] = {} /\ last_seq = 0 /\ frame = {}

MailboxInv == TwoBuffers /\ NextNumber /\ UserThread /\ NoFrameYet

StreamInv == TransferInv /\ TypeInv /\ MailboxInv

LEMMA MailboxInit == Init => MailboxInv /\ Mailbox!Init
BY DEF Init, MailboxInv, TwoBuffers, NextNumber, UserThread, NoFrameYet, Mailbox!Init,
   Mailbox!NoFrame, Cell, Copy, Reader

mailboxVars == <<app, outbuf, holdbuf, buffer, seq, hold_seq, usr, last_seq, frame>>

LEMMA MailboxStutter ==
    ASSUME MailboxInv, UNCHANGED mailboxVars
    PROVE  MailboxInv' /\ UNCHANGED Mailbox!mailbox
BY DEF MailboxInv, TwoBuffers, NextNumber, UserThread, NoFrameYet, mailboxVars,
   Mailbox!mailbox, Cell, Copy, Reader

LEMMA OpenIsOpen ==
    ASSUME MailboxInv, uvc_stream_open_ctrl
    PROVE  MailboxInv' /\ Mailbox!Open
BY DEF uvc_stream_open_ctrl, MailboxInv, TwoBuffers, NextNumber, UserThread, NoFrameYet,
   Mailbox!Open, Mailbox!NoFrame, Cell, Copy, Reader

LEMMA StartIsStart ==
    ASSUME MailboxInv, uvc_stream_start
    PROVE  MailboxInv' /\ Mailbox!Start
BY DEF uvc_stream_start, FirstSeq, MailboxInv, TwoBuffers, NextNumber, UserThread,
   NoFrameYet, Mailbox!Start, Mailbox!NoFrame, Cell, Copy, Reader

\* The other steps of the caller change no frame.
LEMMA AppMailboxStep ==
    ASSUME MailboxInv,
           \/ uvc_stream_stop \/ StartFails \/ SubmitTransfer \/ SubmitFails
           \/ LockStream \/ CancelTransfer \/ Drain \/ JoinUser \/ uvc_stream_close
    PROVE  MailboxInv' /\ UNCHANGED Mailbox!mailbox
<1>1. UNCHANGED <<bufferVars, last_seq, frame>>
  BY DEF uvc_stream_stop, StartFails, SubmitTransfer, SubmitFails, LockStream,
     CancelTransfer, Drain, JoinUser, uvc_stream_close, AppUnchanged, usrVars
<1>2. CASE StartFails
  BY <1>1, <1>2 DEF StartFails, usrVars, bufferVars, MailboxInv, TwoBuffers, NextNumber,
     UserThread, NoFrameYet, Mailbox!mailbox, Cell, Copy, Reader
<1>3. CASE uvc_stream_close
  BY <1>1, <1>3 DEF uvc_stream_close, bufferVars, MailboxInv, TwoBuffers, NextNumber,
     UserThread, NoFrameYet, Mailbox!mailbox, Cell, Copy, Reader
<1>4. CASE JoinUser
  BY <1>1, <1>4 DEF JoinUser, AppUnchanged, usrVars, bufferVars, MailboxInv, TwoBuffers,
     NextNumber, UserThread, NoFrameYet, Mailbox!mailbox, Cell, Copy, Reader
<1>5. CASE uvc_stream_stop \/ SubmitTransfer \/ SubmitFails \/ LockStream
           \/ CancelTransfer \/ Drain
  <2>1. /\ app \notin {"closed", "opened", "close"}
        /\ app' \notin {"closed", "opened", "close"}
        /\ UNCHANGED usr
    BY <1>5 DEF uvc_stream_stop, SubmitTransfer, SubmitFails, LockStream,
       CancelTransfer, Drain, AppUnchanged, usrVars
  <2> QED
    BY <1>1, <2>1 DEF bufferVars, MailboxInv, TwoBuffers, NextNumber,
       UserThread, NoFrameYet, Mailbox!mailbox, Cell, Copy, Reader
<1> QED
  BY <1>2, <1>3, <1>4, <1>5

\* A callback runs on a stream that is started only.
LEMMA CallbackWhileStarted ==
    ASSUME TransferInv, ev # "idle"
    PROVE  app \notin {"closed", "opened", "join", "close"}
BY DEF TransferInv, OneCallback, NoneAllocated

LEMMA SwapIsPublish ==
    ASSUME TypeInv, MailboxInv, app \notin {"closed", "opened", "join", "close"},
           _uvc_swap_buffers, UNCHANGED <<app, usr, last_seq, frame>>
    PROVE  MailboxInv' /\ \E data \in SUBSET Payloads : Mailbox!Publish(data)
<1>1. buffer[outbuf] \in SUBSET Payloads /\ hold_seq \in Nat
  BY DEF TypeInv, TypeOK
<1>2. MailboxInv'
  BY <1>1 DEF _uvc_swap_buffers, MailboxInv, TwoBuffers, NextNumber, UserThread, NoFrameYet
<1>3. Cell' = [seq |-> Cell.seq + 1, data |-> buffer[outbuf]]
  BY DEF _uvc_swap_buffers, MailboxInv, NextNumber, Cell
<1>4. UNCHANGED <<Copy, Reader>>
  BY DEF Copy, Reader
<1> QED
  BY <1>1, <1>2, <1>3, <1>4 DEF Mailbox!Publish

LEMMA EvMailboxStep ==
    ASSUME TransferInv, TypeInv, MailboxInv, EvStep
    PROVE  /\ MailboxInv'
           /\ \/ \E data \in SUBSET Payloads : Mailbox!Publish(data)
              \/ UNCHANGED Mailbox!mailbox
<1> USE DEF EvUnchanged, appVars, usrVars
<1>1. CASE BeginPayload
  <2>1. app \notin {"closed", "opened", "join", "close"}
    BY <1>1, CallbackWhileStarted DEF BeginPayload
  <2>2. CASE _uvc_swap_buffers
    BY <1>1, <2>1, <2>2, SwapIsPublish DEF BeginPayload
  <2>3. CASE UNCHANGED <<bufferVars, cb_cond>>
    BY <1>1, <2>3, MailboxStutter DEF BeginPayload, bufferVars, mailboxVars
  <2> QED
    BY <1>1, <2>2, <2>3 DEF BeginPayload
<1>2. CASE PublishFrame
  <2>1. app \notin {"closed", "opened", "join", "close"}
    BY <1>2, CallbackWhileStarted DEF PublishFrame
  <2> QED
    BY <1>2, <2>1, SwapIsPublish DEF PublishFrame
<1>3. CASE AppendPayload
  <2>1. buffer'[holdbuf] = buffer[holdbuf]
    BY <1>3 DEF AppendPayload, MailboxInv, TwoBuffers, TypeInv, TypeOK
  <2> QED
    BY <1>3, <2>1 DEF AppendPayload, MailboxInv, TwoBuffers, NextNumber,
       UserThread, NoFrameYet, Mailbox!mailbox, Cell, Copy, Reader
<1>4. ASSUME \/ \E t \in Transfers : ReapPayload(t) \/ ReapNothing(t) \/ ReapEnded(t)
             \/ Disconnect \/ CheckRunning \/ Resubmit \/ FreeTransfer
      PROVE  UNCHANGED mailboxVars
  BY <1>4 DEF ReapPayload, ReapNothing, ReapEnded, BeginCallback, Disconnect,
     CheckRunning, Resubmit, FreeTransfer, bufferVars, mailboxVars
<1> QED
  BY <1>1, <1>2, <1>3, <1>4, MailboxStutter DEF EvStep

LEMMA UserMailboxStep ==
    ASSUME TransferInv, MailboxInv, UserStep
    PROVE  /\ MailboxInv'
           /\ \/ Mailbox!Take \/ Mailbox!Done \/ Mailbox!Stop
              \/ UNCHANGED Mailbox!mailbox
<1> USE DEF UsrUnchanged, appVars, bufferVars, MailboxInv, TwoBuffers, NextNumber,
            UserThread, NoFrameYet, UserAwake
<1>1. CASE WaitForFrame
  BY <1>1 DEF WaitForFrame, Mailbox!mailbox, Cell, Copy, Reader
<1>2. CASE TakeFrame
  BY <1>2 DEF TakeFrame, Mailbox!Take, Cell, Copy, Reader
<1>3. CASE UserCallReturns
  BY <1>3 DEF UserCallReturns, Mailbox!Done, Cell, Copy, Reader
<1>4. CASE UserExits
  BY <1>4 DEF UserExits, Mailbox!Stop, Cell, Copy, Reader
<1> QED
  BY <1>1, <1>2, <1>3, <1>4 DEF UserStep

LEMMA MailboxStep ==
    ASSUME TransferInv, TypeInv, MailboxInv, [Next]_vars
    PROVE  MailboxInv' /\ [Mailbox!Next]_(Mailbox!mailbox)
<1>1. CASE UNCHANGED vars
  BY <1>1, MailboxStutter DEF vars, appVars, bufferVars, usrVars, mailboxVars
<1>2. CASE Unplug \/ \E t \in Transfers : Complete(t)
  <2>1. UNCHANGED mailboxVars
    BY <1>2 DEF Unplug, Complete, KernelUnchanged, appVars, bufferVars, usrVars, mailboxVars
  <2> QED
    BY <2>1, MailboxStutter
<1>3. CASE uvc_stream_open_ctrl
  BY <1>3, OpenIsOpen DEF Mailbox!Next
<1>4. CASE uvc_stream_start
  BY <1>4, StartIsStart DEF Mailbox!Next
<1>5. CASE EvStep
  BY <1>5, EvMailboxStep DEF Mailbox!Next
<1>6. CASE UserStep
  BY <1>6, UserMailboxStep DEF Mailbox!Next
<1> QED
  BY <1>1, <1>2, <1>3, <1>4, <1>5, <1>6, AppMailboxStep DEF Next, Environment, AppStep

\* The stream is a mailbox: each publication replaces the held frame as a whole and
\* the user is handed a copy of the newest one, never twice and never mixed with
\* the frame that is being assembled.
THEOREM StreamIsMailbox == Spec => MailboxSpec
<1>1. Init => StreamInv /\ Mailbox!Init
  BY TransferInit, TypeInit, MailboxInit DEF StreamInv
<1>2. StreamInv /\ [Next]_vars => StreamInv' /\ [Mailbox!Next]_(Mailbox!mailbox)
  BY TransferNext, TypeNext, MailboxStep DEF StreamInv
<1> QED
  BY <1>1, <1>2, PTL DEF Spec, MailboxSpec, Mailbox!Spec

\* What a mailbox guarantees, for the stream.
CopyInv == Cell.seq \in Nat /\ Copy.seq \in Nat /\ Mailbox!CopyIsPublished

LEMMA MailboxCopyStep ==
    ASSUME CopyInv, [Mailbox!Next]_(Mailbox!mailbox)
    PROVE  CopyInv'
<1> USE DEF CopyInv, Mailbox!CopyIsPublished
<1>1. CASE UNCHANGED Mailbox!mailbox
  BY <1>1 DEF Mailbox!mailbox
<1>2. CASE Mailbox!Open
  BY <1>2 DEF Mailbox!Open, Mailbox!NoFrame
<1>3. CASE Mailbox!Start
  BY <1>3 DEF Mailbox!Start
<1>4. ASSUME NEW data \in SUBSET Payloads, Mailbox!Publish(data) PROVE CopyInv'
  <2>1. Cell'.seq = Cell.seq + 1 /\ Copy' = Copy
    BY <1>4 DEF Mailbox!Publish
  <2> QED
    BY <2>1
<1>5. CASE Mailbox!Take
  BY <1>5 DEF Mailbox!Take
<1>6. CASE Mailbox!Done
  BY <1>6 DEF Mailbox!Done
<1>7. CASE Mailbox!Stop
  BY <1>7 DEF Mailbox!Stop
<1> QED
  BY <1>1, <1>2, <1>3, <1>4, <1>5, <1>6, <1>7 DEF Mailbox!Next

\* The user's copy is never newer than the held frame, and a user that has seen the
\* newest number has the data published under it.
THEOREM CopyIsOfPublishedFrame == Spec => []Mailbox!CopyIsPublished
<1>1. Mailbox!Init => CopyInv
  BY DEF Mailbox!Init, Mailbox!NoFrame, CopyInv, Mailbox!CopyIsPublished
<1>2. CopyInv /\ [Mailbox!Next]_(Mailbox!mailbox) => CopyInv'
  BY MailboxCopyStep
<1>3. CopyInv => Mailbox!CopyIsPublished
  BY DEF CopyInv
<1> QED
  BY <1>1, <1>2, <1>3, StreamIsMailbox, PTL DEF MailboxSpec, Mailbox!Spec
=============================================================================
