--------------------------- MODULE UvcStreamFrames ---------------------------
(***************************************************************************)
(* A proof about UvcStream: the user gets whole frames, however many       *)
(* payloads make a frame.                                                  *)
(*                                                                         *)
(* What arrives is numbered in order, and no two payloads in a row are     *)
(* lost: the newest payload is of the frame in the buffer or of the next   *)
(* one, and the alternating bit tells the two apart.                       *)
(***************************************************************************)
EXTENDS UvcStreamProofs

\* The number of the last payload before frame n.
Start(n) == Parts * n

\* What has arrived of frame n, but for the payload the callback works on.
PartsOf(n, received) == {x \in received : FrameOf(x) = n}

\* The payload in work is the newest one.
Pending == ev \in {"payload", "append"}
Before == arrived \ {sent}

NewestInWork ==
    /\ ev \in {"payload", "append", "publish"} => sent \in arrived
    /\ Pending => payload.id = sent /\ (payload.eof => LastOfFrame(sent))

\* q is the newest payload received; the buffer holds what there is of its frame.
Assembled(q, received) ==
    /\ q \in received /\ \A y \in received : y <= q
    /\ buffer[outbuf] = PartsOf(FrameOf(q), received)
    /\ fid = BitOf(q)
    /\ got <= q - Start(FrameOf(q))

\* Nothing of the frame of payload x has been received.
NewFrame(x, received) == \A y \in received : FrameOf(y) < FrameOf(x)

Assembly ==
    /\ ev \notin {"payload", "append", "publish"} =>
          IF got = 0 THEN NewFrame(sent + 1, arrived)
          ELSE \E q \in arrived : sent <= q + 1 /\ Assembled(q, arrived)
    /\ ev = "payload" =>
          IF got = 0 THEN NewFrame(sent, Before)
          ELSE \E q \in Before : sent <= q + 2 /\ Assembled(q, Before)
    /\ ev = "append" =>
          /\ fid = BitOf(sent)
          /\ IF got = 0 THEN NewFrame(sent, Before)
             ELSE /\ buffer[outbuf] = PartsOf(FrameOf(sent), Before)
                  /\ got < sent - Start(FrameOf(sent))
    /\ ev = "publish" =>
          /\ buffer[outbuf] = PartsOf(FrameOf(sent), arrived)
          /\ NewFrame(sent + 1, arrived)

\* All that was received of one frame, of which nothing more will arrive: last is
\* the last payload sent.
Finished(data, received, last) ==
    \E n \in Nat : /\ data # {} /\ data = PartsOf(n, received)
                   /\ n < FrameOf(last + 1)

Published ==
    /\ hold_seq # 0 => Finished(buffer[holdbuf], arrived, sent)
    /\ hold_seq = 0 => last_seq = 0
    /\ usr = "calling" => Finished(frame, arrived, sent)

NothingYet == app = "opened" => got = 0

FramesInv == NewestInWork /\ Assembly /\ Published /\ NothingYet

\* The variables that FramesInv is about, but for app, ev and usr.
framesVars == <<payload, fid, got, outbuf, holdbuf, hold_seq, buffer, last_seq, frame,
                sent, arrived>>

-----------------------------------------------------------------------------
(***************************************************************************)
(* Numbers of payloads and frames.                                         *)
(***************************************************************************)
LEMMA PartsPositive == Parts \in Nat /\ Parts >= 2
BY StreamAssumption

\* Where the payloads of a frame are.
LEMMA FrameRange ==
    ASSUME NEW x \in Nat, x > 0
    PROVE  /\ FrameOf(x) \in Nat
           /\ Start(FrameOf(x)) \in Nat
           /\ Start(FrameOf(x)) < x
           /\ x <= Start(FrameOf(x)) + Parts
<1>1. x - 1 \in Nat OBVIOUS
<1>2. \A p, y \in Nat : p >= 2 =>
         /\ y \div p \in Nat
         /\ p * (y \div p) \in Nat
         /\ p * (y \div p) <= y
         /\ y < p * (y \div p) + p
  BY SMTT(30)
<1> QED BY <1>1, <1>2, PartsPositive DEF FrameOf, Start

LEMMA StartOfNext ==
    ASSUME NEW n \in Nat
    PROVE  Start(n) \in Nat /\ Start(n + 1) = Start(n) + Parts
BY PartsPositive DEF Start

\* A later frame begins after the end of an earlier one.
LEMMA FramesApart ==
    ASSUME NEW n \in Nat, NEW m \in Nat, n < m
    PROVE  Start(n) + Parts <= Start(m)
<1>1. \A p \in Nat : p >= 2 => p * n + p <= p * m BY SMTT(30)
<1> QED BY <1>1, PartsPositive DEF Start

LEMMA FramesOrdered ==
    ASSUME NEW x \in Nat, NEW y \in Nat, 0 < x, x <= y
    PROVE  FrameOf(x) <= FrameOf(y)
<1>1. CASE FrameOf(y) < FrameOf(x)
  <2>1. Start(FrameOf(y)) + Parts <= Start(FrameOf(x))
    BY <1>1, FrameRange, FramesApart
  <2> QED BY <2>1, FrameRange, PartsPositive
<1> QED BY <1>1, FrameRange

\* With one payload lost, the next is of the same frame or of the next one.
LEMMA NextFrame ==
    ASSUME NEW x \in Nat, NEW y \in Nat, 0 < x, x <= y, y <= x + 2
    PROVE  FrameOf(y) \in {FrameOf(x), FrameOf(x) + 1}
<1>1. CASE FrameOf(x) + 1 < FrameOf(y)
  <2>1. Start(FrameOf(x) + 1) + Parts <= Start(FrameOf(y))
    BY <1>1, FrameRange, FramesApart
  <2>2. Start(FrameOf(x) + 1) = Start(FrameOf(x)) + Parts
    BY FrameRange, StartOfNext
  <2>3. x <= Start(FrameOf(x)) + Parts /\ Start(FrameOf(x)) \in Nat
    BY FrameRange
  <2>4. Start(FrameOf(y)) < y /\ Start(FrameOf(y)) \in Nat
    BY FrameRange
  <2> QED BY <2>1, <2>2, <2>3, <2>4, PartsPositive
<1> QED BY <1>1, FrameRange, FramesOrdered

\* The alternating bit tells a frame from the next one.
LEMMA BitAlternates ==
    ASSUME NEW n \in Nat
    PROVE  n % 2 # (n + 1) % 2
BY SMT

\* The frame ends with x: by its number, or because it is full.
LEMMA FrameEnds ==
    ASSUME NEW x \in Nat, 0 < x, LastOfFrame(x) \/ Parts <= x - Start(FrameOf(x))
    PROVE  FrameOf(x) < FrameOf(x + 1)
<1>1. /\ FrameOf(x) \in Nat /\ Start(FrameOf(x)) \in Nat
      /\ Start(FrameOf(x)) < x /\ x <= Start(FrameOf(x)) + Parts
  BY FrameRange
<1>2. x = Start(FrameOf(x)) + Parts
  <2>1. CASE LastOfFrame(x)
    <3>1. PICK k \in Nat : x = Start(k)
      <4>1. \A p, y \in Nat : p >= 2 /\ y % p = 0 => y = p * (y \div p) /\ y \div p \in Nat
        BY SMTT(30)
      <4> QED BY <2>1, <4>1, PartsPositive DEF LastOfFrame, Start
    <3>2. CASE k < FrameOf(x)
      <4>1. Start(k) + Parts <= Start(FrameOf(x)) BY <1>1, <3>2, FramesApart
      <4> QED BY <1>1, <3>1, <4>1, PartsPositive
    <3>3. CASE FrameOf(x) < k
      <4>1. Start(FrameOf(x)) + Parts <= Start(k) BY <1>1, <3>3, FramesApart
      <4> QED BY <1>1, <3>1, <4>1, PartsPositive
    <3> QED BY <1>1, <3>1, <3>2, <3>3
  <2>2. CASE Parts <= x - Start(FrameOf(x))
    BY <1>1, <2>2, PartsPositive
  <2> QED BY <2>1, <2>2
<1>3. /\ FrameOf(x + 1) \in Nat /\ Start(FrameOf(x + 1)) \in Nat
      /\ x + 1 <= Start(FrameOf(x + 1)) + Parts
  BY FrameRange
<1>4. CASE FrameOf(x + 1) = FrameOf(x)
  BY <1>2, <1>3, <1>4
<1> QED BY <1>1, <1>3, <1>4, FramesOrdered

-----------------------------------------------------------------------------
(***************************************************************************)
(* Steps that concern no payload.                                          *)
(***************************************************************************)
Quiet == {"idle", "resubmit", "submit", "free"}

LEMMA FramesInit == Init => FramesInv
<1> SUFFICES ASSUME Init PROVE FramesInv
  OBVIOUS
<1> QED
  BY DEF Init, FramesInv, NewestInWork, Pending, Assembly, NewFrame, Published, NothingYet

\* No payload, buffer or frame changes.
LEMMA FramesStutter ==
    ASSUME FramesInv, UNCHANGED framesVars,
           ev' = ev \/ (ev \in Quiet /\ ev' \in Quiet),
           usr' = usr \/ usr' # "calling",
           app' = "opened" => app = "opened"
    PROVE  FramesInv'
<1>1. NewestInWork'
  BY DEF FramesInv, framesVars, NewestInWork, Pending, Quiet
<1>2. Assembly'
  <2>1. CASE ev' = ev
    BY <2>1 DEF FramesInv, framesVars, Assembly, Assembled, NewFrame, Before
  <2>2. CASE ev \in Quiet /\ ev' \in Quiet
    BY <2>2 DEF FramesInv, framesVars, Assembly, Assembled, NewFrame, Quiet
  <2> QED BY <2>1, <2>2
<1>3. Published'
  BY DEF FramesInv, framesVars, Published
<1>4. NothingYet'
  BY DEF FramesInv, framesVars, NothingYet
<1> QED BY <1>1, <1>2, <1>3, <1>4 DEF FramesInv

\* uvc_start_streaming clears what an earlier stream has left.
LEMMA OpenFrames ==
    ASSUME StreamInv, FramesInv, uvc_stream_open_ctrl
    PROVE  FramesInv'
<1>1. ev = "idle" /\ usr = "none"
  BY EndedWhenFreed DEF StreamInv, TransfersEnded, MailboxInv, UserThread, uvc_stream_open_ctrl
<1> QED
  BY <1>1 DEF uvc_stream_open_ctrl, evVars, FramesInv, NewestInWork, Pending, Assembly,
     NewFrame, Published, NothingYet

LEMMA StartFrames ==
    ASSUME StreamInv, FramesInv, uvc_stream_start
    PROVE  FramesInv'
<1>1. ev = "idle" /\ got = 0
  BY EndedWhenFreed DEF StreamInv, TransfersEnded, FramesInv, NothingYet, uvc_stream_start
<1> QED
  BY <1>1 DEF uvc_stream_start, evVars, cameraVars, FramesInv, NewestInWork, Pending,
     Assembly, NewFrame, Published, NothingYet

LEMMA AppFrames ==
    ASSUME StreamInv, FramesInv,
           uvc_stream_open_ctrl \/ uvc_stream_stop \/ AppStep
    PROVE  FramesInv'
<1>1. ASSUME \/ uvc_stream_stop \/ StartFails \/ SubmitTransfer \/ SubmitFails
             \/ LockStream \/ CancelTransfer \/ Drain \/ JoinUser \/ uvc_stream_close
      PROVE  FramesInv'
  <2>1. UNCHANGED framesVars /\ ev' = ev
    BY <1>1 DEF uvc_stream_stop, StartFails, SubmitTransfer, SubmitFails, LockStream,
       CancelTransfer, Drain, JoinUser, uvc_stream_close, AppUnchanged, evVars,
       bufferVars, usrVars, cameraVars, framesVars
  <2>2. usr' = usr \/ usr' # "calling"
    BY <1>1 DEF uvc_stream_stop, StartFails, SubmitTransfer, SubmitFails, LockStream,
       CancelTransfer, Drain, JoinUser, uvc_stream_close, AppUnchanged, usrVars
  <2>3. app' # "opened"
    BY <1>1 DEF uvc_stream_stop, StartFails, SubmitTransfer, SubmitFails, LockStream,
       CancelTransfer, Drain, JoinUser, uvc_stream_close
  <2> QED BY <2>1, <2>2, <2>3, FramesStutter
<1> QED BY <1>1, OpenFrames, StartFrames DEF AppStep

LEMMA KernelFrames ==
    ASSUME FramesInv, Unplug \/ \E t \in Transfers : Complete(t)
    PROVE  FramesInv'
BY FramesStutter DEF Unplug, Complete, KernelUnchanged, appVars, evVars, bufferVars,
   usrVars, cameraVars, framesVars

-----------------------------------------------------------------------------
(***************************************************************************)
(* The callback.                                                           *)
(***************************************************************************)
\* What has arrived are payloads that were sent.
LEMMA ArrivedWasSent ==
    ASSUME StreamInv
    PROVE  /\ sent \in Nat
           /\ \A y \in arrived : y \in Nat /\ 0 < y /\ y <= sent
BY DEF StreamInv, TypeInv, TypeOK

\* A finished frame remains one when the next payload is sent.
LEMMA FinishedStays ==
    ASSUME StreamInv, NEW data, Finished(data, arrived, sent),
           NEW received \in {arrived, arrived \cup {sent + 1}}
    PROVE  Finished(data, received, sent + 1)
<1>1. PICK n \in Nat : data # {} /\ data = PartsOf(n, arrived) /\ n < FrameOf(sent + 1)
  BY DEF Finished
<1>2. FrameOf(sent + 1) \in Nat /\ FrameOf(sent + 1 + 1) \in Nat
      /\ FrameOf(sent + 1) <= FrameOf(sent + 1 + 1)
  BY ArrivedWasSent, FrameRange, FramesOrdered
<1>3. PartsOf(n, received) = PartsOf(n, arrived)
  BY <1>1, <1>2 DEF PartsOf
<1>4. n < FrameOf(sent + 1 + 1)
  BY <1>1, <1>2
<1> QED BY <1>1, <1>3, <1>4 DEF Finished

LEMMA ReapPayloadFrames ==
    ASSUME StreamInv, FramesInv, NEW t \in Transfers, ReapPayload(t)
    PROVE  FramesInv'
<1> USE DEF FramesInv
<1>1. /\ ev = "idle" /\ ev' = "payload"
      /\ sent' = sent + 1 /\ arrived' = arrived \cup {sent + 1}
      /\ UNCHANGED <<app, fid, got, outbuf, holdbuf, hold_seq, buffer, usr, last_seq, frame>>
  BY DEF ReapPayload, CanReap, BeginCallback, EvUnchanged, appVars, bufferVars, usrVars
<1>2. NewestInWork'
  <2>1. PICK eof \in {FALSE, LastOfFrame(sent + 1)} :
            payload' = [id |-> sent + 1, eof |-> eof]
    BY DEF ReapPayload
  <2>2. payload'.id = sent' /\ (payload'.eof => LastOfFrame(sent'))
    BY <1>1, <2>1
  <2> QED BY <1>1, <2>2 DEF NewestInWork, Pending, LastOfFrame
<1>3. Before' = arrived
  BY <1>1, ArrivedWasSent DEF Before
<1>4. Assembly'
  <2>1. CASE got = 0
    <3>1. NewFrame(sent + 1, arrived)
      BY <1>1, <2>1 DEF Assembly
    <3> QED BY <1>1, <1>3, <2>1, <3>1 DEF Assembly, NewFrame
  <2>2. CASE got # 0
    <3>1. PICK q \in arrived : sent <= q + 1 /\ Assembled(q, arrived)
      BY <1>1, <2>2 DEF Assembly
    <3>2. sent' <= q + 2
      BY <1>1, <3>1, ArrivedWasSent
    <3>3. Assembled(q, Before)'
      BY <1>1, <1>3, <3>1 DEF Assembled
    <3> QED BY <1>1, <1>3, <2>2, <3>2, <3>3 DEF Assembly
  <2> QED BY <2>1, <2>2
<1>5. Published'
  BY <1>1, FinishedStays DEF Published
<1>6. NothingYet'
  BY <1>1 DEF NothingYet
<1> QED BY <1>2, <1>4, <1>5, <1>6

LEMMA ReapNothingFrames ==
    ASSUME StreamInv, FramesInv, NEW t \in Transfers, ReapNothing(t)
    PROVE  FramesInv'
<1>1. /\ ev = "idle" /\ ev' = "resubmit"
      /\ UNCHANGED <<payload, arrived>>
      /\ UNCHANGED <<app, fid, got, outbuf, holdbuf, hold_seq, buffer, usr, last_seq, frame>>
  BY DEF ReapNothing, CanReap, BeginCallback, EvUnchanged, appVars, bufferVars, usrVars
<1>2. CASE sent' = sent
  BY <1>1, <1>2, FramesStutter DEF framesVars, Quiet
<1>3. CASE sent \in arrived /\ sent' = sent + 1
  <2> USE DEF FramesInv
  <2>1. NewestInWork'
    BY <1>1 DEF NewestInWork, Pending
  <2>2. Assembly'
    <3>1. CASE got = 0
      <4>1. NewFrame(sent + 1, arrived)
        BY <1>1, <3>1 DEF Assembly
      <4>2. FrameOf(sent + 1) <= FrameOf(sent + 1 + 1)
        BY ArrivedWasSent, FramesOrdered
      <4>3. \A y \in arrived : FrameOf(y) \in Nat
        BY ArrivedWasSent, FrameRange
      <4>4. FrameOf(sent + 1) \in Nat /\ FrameOf(sent + 1 + 1) \in Nat
        BY ArrivedWasSent, FrameRange
      <4>5. NewFrame(sent + 1 + 1, arrived)
        BY <4>1, <4>2, <4>3, <4>4 DEF NewFrame
      <4> QED BY <1>1, <1>3, <3>1, <4>5 DEF Assembly, NewFrame
    <3>2. CASE got # 0
      <4>1. PICK q \in arrived : Assembled(q, arrived)
        BY <1>1, <3>2 DEF Assembly
      <4>2. sent' <= q + 1
        BY <1>3, <4>1, ArrivedWasSent DEF Assembled
      <4>3. Assembled(q, arrived)'
        BY <1>1, <4>1 DEF Assembled
      <4> QED BY <1>1, <3>2, <4>2, <4>3 DEF Assembly
    <3> QED BY <3>1, <3>2
  <2>3. Published'
    BY <1>1, <1>3, FinishedStays DEF Published
  <2>4. NothingYet'
    BY <1>1 DEF NothingYet
  <2> QED BY <2>1, <2>2, <2>3, <2>4
<1> QED BY <1>2, <1>3 DEF ReapNothing

-----------------------------------------------------------------------------
\* The numbers of the frames of a callback's stream start at 1.
LEMMA SeqPositive == ASSUME StreamInv, ev # "idle" PROVE seq # 0
<1>1. app \notin {"closed", "opened", "join", "close"}
  BY CallbackWhileStarted DEF StreamInv
<1>2. seq = hold_seq + 1 /\ hold_seq \in Nat
  BY <1>1 DEF StreamInv, MailboxInv, NextNumber, TypeInv, TypeOK
<1> QED BY <1>2

\* The buffers are exchanged when the frame in work is finished.
LEMMA SwapFrames ==
    ASSUME StreamInv, FramesInv, ev # "idle", _uvc_swap_buffers,
           UNCHANGED <<sent, arrived, usr, last_seq, frame>>,
           Finished(buffer[outbuf], arrived, sent)
    PROVE  Published'
BY SeqPositive DEF _uvc_swap_buffers, FramesInv, Published

LEMMA BeginPayloadFrames ==
    ASSUME StreamInv, FramesInv, BeginPayload
    PROVE  FramesInv'
<1>1. /\ ev = "payload" /\ ev' = "append" /\ fid' = BitOf(payload.id)
      /\ UNCHANGED <<payload, sent, arrived, app, usr, last_seq, frame>>
  BY DEF BeginPayload, EvUnchanged, appVars, usrVars, cameraVars
<1>2. /\ sent \in arrived /\ payload.id = sent
      /\ payload.eof => LastOfFrame(sent)
  BY <1>1 DEF FramesInv, NewestInWork, Pending
<1>3. /\ sent \in Nat /\ 0 < sent
      /\ \A y \in Before : y \in Nat /\ 0 < y /\ y < sent
  BY <1>2, ArrivedWasSent DEF Before
<1>4. NewestInWork'
  BY <1>1, <1>2 DEF NewestInWork, Pending, LastOfFrame
<1>5. UNCHANGED Before /\ fid' = BitOf(sent)
  BY <1>1, <1>2 DEF Before
<1>6. FrameOf(sent) \in Nat /\ Start(FrameOf(sent)) \in Nat
  BY <1>3, FrameRange
<1>7. app # "opened"
  BY <1>1, CallbackWhileStarted DEF StreamInv
<1>8. CASE got = 0
  <2>1. UNCHANGED <<got, buffer, outbuf, holdbuf, hold_seq>>
    BY <1>8 DEF BeginPayload, FrameEndMissed, bufferVars
  <2>2. NewFrame(sent, Before)
    BY <1>1, <1>8 DEF FramesInv, Assembly
  <2>3. Assembly'
    BY <1>1, <1>5, <1>8, <2>1, <2>2 DEF Assembly, NewFrame, BitOf, FrameOf
  <2> QED BY <1>1, <1>4, <1>7, <2>1, <2>3 DEF FramesInv, Published, NothingYet
<1>9. CASE got # 0
  <2>1. PICK q \in Before : sent <= q + 2 /\ Assembled(q, Before)
    BY <1>1, <1>9 DEF FramesInv, Assembly
  <2>2. /\ q \in Nat /\ 0 < q /\ q < sent /\ fid = BitOf(q)
        /\ buffer[outbuf] = PartsOf(FrameOf(q), Before)
        /\ got <= q - Start(FrameOf(q))
        /\ \A y \in Before : y <= q
    BY <1>3, <2>1 DEF Assembled
  <2>3. FrameOf(q) \in Nat /\ FrameOf(sent) \in {FrameOf(q), FrameOf(q) + 1}
    BY <1>3, <2>1, <2>2, FrameRange, NextFrame
  <2>4. CASE fid # BitOf(sent)
    <3>1. _uvc_swap_buffers
      BY <1>2, <1>9, <2>4 DEF BeginPayload, FrameEndMissed
    <3>2. FrameOf(sent) = FrameOf(q) + 1
      BY <2>2, <2>3, <2>4 DEF BitOf
    <3>3. NewFrame(sent, Before)
      <4> SUFFICES ASSUME NEW y \in Before PROVE FrameOf(y) < FrameOf(sent)
        BY DEF NewFrame
      <4>1. FrameOf(y) <= FrameOf(q) /\ FrameOf(y) \in Nat
        BY <1>3, <2>2, FramesOrdered, FrameRange
      <4> QED BY <2>3, <3>2, <4>1
    <3>4. Finished(buffer[outbuf], arrived, sent)
      <4>1. PartsOf(FrameOf(q), Before) = PartsOf(FrameOf(q), arrived)
        BY <2>3, <3>2 DEF PartsOf, Before
      <4>2. q \in PartsOf(FrameOf(q), arrived)
        BY <2>1 DEF PartsOf, Before
      <4>3. FrameOf(sent) <= FrameOf(sent + 1) /\ FrameOf(sent + 1) \in Nat
        BY <1>3, FramesOrdered, FrameRange
      <4>4. FrameOf(q) < FrameOf(sent + 1)
        BY <2>3, <3>2, <4>3
      <4> QED BY <2>2, <2>3, <4>1, <4>2, <4>4 DEF Finished
    <3>5. Published'
      BY <1>1, <3>1, <3>4, SwapFrames
    <3>6. got' = 0
      BY <3>1 DEF _uvc_swap_buffers
    <3>7. Assembly'
      BY <1>1, <1>5, <3>3, <3>6 DEF Assembly, NewFrame, BitOf, FrameOf
    <3> QED BY <1>4, <3>5, <3>6, <3>7 DEF FramesInv, NothingYet
  <2>5. CASE fid = BitOf(sent)
    <3>1. UNCHANGED <<got, buffer, outbuf, holdbuf, hold_seq>>
      BY <1>2, <2>5 DEF BeginPayload, FrameEndMissed, bufferVars
    <3>2. FrameOf(sent) = FrameOf(q)
      BY <2>2, <2>3, <2>5, BitAlternates DEF BitOf
    <3>3. got < sent - Start(FrameOf(sent))
      <4>1. got \in Nat
        BY StreamAssumption DEF StreamInv, TypeInv, TypeOK
      <4> QED BY <1>3, <1>6, <2>2, <3>2, <4>1
    <3>4. Assembly'
      BY <1>1, <1>5, <1>9, <2>2, <3>1, <3>2, <3>3 DEF Assembly
    <3> QED BY <1>1, <1>4, <1>7, <3>1, <3>4 DEF FramesInv, Published, NothingYet
  <2> QED BY <2>4, <2>5
<1> QED BY <1>8, <1>9

LEMMA AppendPayloadFrames ==
    ASSUME StreamInv, FramesInv, AppendPayload
    PROVE  FramesInv'
<1>1. /\ ev = "append" /\ ev' \in {"publish", "resubmit"} /\ got' = got + 1
      /\ ev' = "publish" => payload.eof \/ got' = FrameSize
      /\ UNCHANGED <<payload, sent, arrived, app, fid, outbuf, holdbuf, hold_seq,
                     usr, last_seq, frame>>
  BY DEF AppendPayload, EvUnchanged, appVars, usrVars, cameraVars
<1>2. /\ sent \in arrived /\ payload.id = sent
      /\ payload.eof => LastOfFrame(sent)
      /\ fid = BitOf(sent)
  BY <1>1 DEF FramesInv, NewestInWork, Pending, Assembly
<1>3. /\ sent \in Nat /\ 0 < sent
      /\ \A y \in arrived : y \in Nat /\ 0 < y /\ y <= sent
      /\ got \in Nat /\ got' # 0
  BY <1>1, <1>2, ArrivedWasSent, StreamAssumption DEF StreamInv, TypeInv, TypeOK
<1>4. /\ FrameOf(sent) \in Nat /\ Start(FrameOf(sent)) \in Nat
      /\ Start(FrameOf(sent)) < sent
  BY <1>3, FrameRange
<1>5. /\ buffer'[outbuf] = PartsOf(FrameOf(sent), arrived)
      /\ got' <= sent - Start(FrameOf(sent))
  <2>1. buffer'[outbuf] = (IF got = 0 THEN {} ELSE buffer[outbuf]) \cup {sent}
    BY <1>2 DEF AppendPayload, StreamInv, TypeInv, TypeOK
  <2>2. CASE got = 0
    <3>1. NewFrame(sent, Before)
      BY <1>1, <2>2 DEF FramesInv, Assembly
    <3>2. \A y \in Before : FrameOf(y) # FrameOf(sent)
      BY <1>4, <3>1 DEF NewFrame
    <3>3. PartsOf(FrameOf(sent), arrived) = {sent}
      BY <1>2, <3>2 DEF PartsOf, Before
    <3> QED BY <1>1, <1>3, <1>4, <2>1, <2>2, <3>3
  <2>3. CASE got # 0
    <3>1. /\ buffer[outbuf] = PartsOf(FrameOf(sent), Before)
          /\ got < sent - Start(FrameOf(sent))
      BY <1>1, <2>3 DEF FramesInv, Assembly
    <3>2. PartsOf(FrameOf(sent), arrived) = PartsOf(FrameOf(sent), Before) \cup {sent}
      BY <1>2 DEF PartsOf, Before
    <3> QED BY <1>1, <1>3, <1>4, <2>1, <2>3, <3>1, <3>2
  <2> QED BY <2>2, <2>3
<1>6. NewestInWork'
  BY <1>1, <1>2 DEF NewestInWork, Pending
<1>7. Assembly'
  <2>1. CASE ev' = "publish"
    <3>1. LastOfFrame(sent) \/ Parts <= sent - Start(FrameOf(sent))
      BY <1>1, <1>2, <1>3, <1>4, <1>5, <2>1, StreamAssumption
    <3>2. FrameOf(sent) < FrameOf(sent + 1) /\ FrameOf(sent + 1) \in Nat
      BY <1>3, <3>1, FrameEnds, FrameRange
    <3>3. NewFrame(sent + 1, arrived)
      <4> SUFFICES ASSUME NEW y \in arrived PROVE FrameOf(y) < FrameOf(sent + 1)
        BY DEF NewFrame
      <4>1. FrameOf(y) <= FrameOf(sent) /\ FrameOf(y) \in Nat
        BY <1>3, FramesOrdered, FrameRange
      <4> QED BY <1>4, <3>2, <4>1
    <3> QED BY <1>1, <1>5, <2>1, <3>3 DEF Assembly, NewFrame
  <2>2. CASE ev' = "resubmit"
    <3>1. Assembled(sent, arrived)'
      BY <1>1, <1>2, <1>3, <1>5 DEF Assembled
    <3>2. sent' <= sent + 1 /\ sent \in arrived'
      BY <1>1, <1>2, <1>3
    <3>3. \E q \in arrived' : sent' <= q + 1 /\ Assembled(q, arrived)'
      BY <1>1, <3>1, <3>2
    <3> QED BY <1>3, <2>2, <3>3 DEF Assembly
  <2> QED BY <1>1, <2>1, <2>2
<1>8. Published'
  <2>1. buffer'[holdbuf] = buffer[holdbuf]
    BY DEF AppendPayload, StreamInv, MailboxInv, TwoBuffers, TypeInv, TypeOK
  <2> QED BY <1>1, <2>1 DEF FramesInv, Published
<1>9. NothingYet'
  <2>1. app # "opened"
    BY <1>1, CallbackWhileStarted DEF StreamInv
  <2> QED BY <1>1, <2>1 DEF NothingYet
<1> QED BY <1>6, <1>7, <1>8, <1>9 DEF FramesInv

LEMMA PublishFrames ==
    ASSUME StreamInv, FramesInv, PublishFrame
    PROVE  FramesInv'
<1>1. /\ ev = "publish" /\ ev' = "resubmit" /\ _uvc_swap_buffers
      /\ UNCHANGED <<payload, sent, arrived, app, fid, usr, last_seq, frame>>
  BY DEF PublishFrame, EvUnchanged, appVars, usrVars, cameraVars
<1>2. /\ sent \in arrived /\ buffer[outbuf] = PartsOf(FrameOf(sent), arrived)
      /\ NewFrame(sent + 1, arrived)
  BY <1>1 DEF FramesInv, NewestInWork, Assembly
<1>3. got' = 0
  BY <1>1 DEF _uvc_swap_buffers
<1>4. Finished(buffer[outbuf], arrived, sent)
  <2>1. sent \in PartsOf(FrameOf(sent), arrived) /\ FrameOf(sent) < FrameOf(sent + 1)
    BY <1>2 DEF PartsOf, NewFrame
  <2>2. FrameOf(sent) \in Nat
    BY <1>2, ArrivedWasSent, FrameRange
  <2> QED BY <1>2, <2>1, <2>2 DEF Finished
<1>5. Published'
  BY <1>1, <1>4, SwapFrames
<1>6. Assembly'
  BY <1>1, <1>2, <1>3 DEF Assembly, NewFrame
<1> QED
  BY <1>1, <1>3, <1>5, <1>6 DEF FramesInv, NewestInWork, Pending, NothingYet

LEMMA EvFrames ==
    ASSUME StreamInv, FramesInv, EvStep
    PROVE  FramesInv'
<1>1. ASSUME \/ \E t \in Transfers : ReapEnded(t)
             \/ Disconnect \/ CheckRunning \/ Resubmit \/ FreeTransfer
      PROVE  FramesInv'
  <2>1. UNCHANGED framesVars /\ app' = app /\ usr' = usr
    BY <1>1 DEF ReapEnded, BeginCallback, Disconnect, CheckRunning, Resubmit,
       FreeTransfer, EvUnchanged, appVars, bufferVars, usrVars, cameraVars, framesVars
  <2>2. ev' = ev \/ (ev \in Quiet /\ ev' \in Quiet)
    BY <1>1 DEF ReapEnded, CanReap, Disconnect, CheckRunning, Resubmit, FreeTransfer, Quiet
  <2> QED BY <2>1, <2>2, FramesStutter
<1> QED
  BY <1>1, ReapPayloadFrames, ReapNothingFrames, BeginPayloadFrames, AppendPayloadFrames,
     PublishFrames DEF EvStep

-----------------------------------------------------------------------------
LEMMA UserFrames ==
    ASSUME StreamInv, FramesInv, UserStep
    PROVE  FramesInv'
<1>1. CASE TakeFrame
  <2>1. /\ usr' = "calling" /\ frame' = buffer[holdbuf]
        /\ last_seq # hold_seq /\ last_seq' = hold_seq
        /\ UNCHANGED <<app, ev, payload, fid, got, outbuf, holdbuf, hold_seq, buffer,
                       sent, arrived>>
    BY <1>1 DEF TakeFrame, UsrUnchanged, appVars, evVars, bufferVars, cameraVars
  <2>2. Published'
    BY <2>1 DEF FramesInv, Published
  <2>3. NewestInWork' /\ Assembly' /\ NothingYet'
    BY <2>1 DEF FramesInv, NewestInWork, Pending, Assembly, Assembled, NewFrame, Before,
       NothingYet
  <2> QED BY <2>2, <2>3 DEF FramesInv
<1>2. CASE WaitForFrame \/ UserCallReturns \/ UserExits
  BY <1>2, FramesStutter DEF WaitForFrame, UserCallReturns, UserExits, UsrUnchanged,
     appVars, evVars, bufferVars, cameraVars, framesVars
<1> QED BY <1>1, <1>2 DEF UserStep

LEMMA FramesNext ==
    ASSUME StreamInv, FramesInv, [Next]_vars
    PROVE  FramesInv'
<1>1. CASE UNCHANGED vars
  BY <1>1, FramesStutter DEF vars, appVars, evVars, bufferVars, usrVars, cameraVars,
     framesVars
<1> QED
  BY <1>1, AppFrames, KernelFrames, EvFrames, UserFrames DEF Next, Environment

LEMMA FinishedIsWhole ==
    ASSUME NEW data, Finished(data, arrived, sent)
    PROVE  Whole(data)
<1>1. PICK n \in Nat : data # {} /\ data = PartsOf(n, arrived)
  BY DEF Finished
<1>2. PICK x \in data : FrameOf(x) = n
  BY <1>1 DEF PartsOf
<1> QED BY <1>1, <1>2 DEF PartsOf, Whole

\* The user is never handed a torn frame: although payloads are lost, the end-of-
\* frame mark is optional and the buffers are exchanged while the user copies,
\* user_cb gets all that the stream has received of one frame, and nothing else.
THEOREM WholeFramesHold == Spec => []WholeFrames
<1>1. Init => StreamInv /\ FramesInv
  BY TransferInit, TypeInit, MailboxInit, FramesInit DEF StreamInv
<1>2. StreamInv /\ FramesInv /\ [Next]_vars => StreamInv' /\ FramesInv'
  BY TransferNext, TypeNext, MailboxStep, FramesNext DEF StreamInv
<1>3. StreamInv /\ FramesInv => WholeFrames
  BY FinishedIsWhole DEF FramesInv, Published, WholeFrames
<1> QED
  BY <1>1, <1>2, <1>3, PTL DEF Spec
=============================================================================
