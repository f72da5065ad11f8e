--------------------------- MODULE VideoCaptureCalm ---------------------------
(***************************************************************************)
(* Proofs of Survives and OwnFile, for any number of recordings,           *)
(* operations and failures.                                                *)
(*                                                                         *)
(* Both are about behaviours in which nothing happened that VideoCapture   *)
(* does not cope with (calm).  Parts says how the threads then depend on   *)
(* each other: one clean-up follows each recording and sets the codecs up  *)
(* for the next (OneCleanUp, FutureOK, Ready); what is released stays      *)
(* unused (Gone, WaitOK); while a recording is encoded its codecs run, the *)
(* audio ends before the video is told to end, and the muxer waits for     *)
(* every track (Encoding threads: EncodeOK, Own).                          *)
(***************************************************************************)
EXTENDS VideoCaptureProofs

SetupPlaces == {"setupVideo", "setupAudio", "setupEnd"}

Alive == ~died

\* The encoding threads are told to quit when all work is over.
Quit == quit # {}

Gone == Quit =>
    /\ closed /\ tasks = <<>> /\ \A t \in Threads : pc[t] = "idle"
    /\ \A e \in Encoding : posted[e] = <<>>

\* The clean-up of a recording is due or under way.
Cleaning == pc["video"] = "answer" \/ tasks # <<>> \/ pc["executor"] # "idle"

OneCleanUp ==
    /\ Cleaning => mEndOfAudioVideoSignal /\ pc["client"] \in {"idle", "check"}
    /\ pc["video"] = "answer" => tasks = <<>> /\ pc["executor"] = "idle"
    /\ tasks # <<>> => pc["executor"] = "idle" /\ tasks = <<mRecordingFuture>>
    /\ pc["client"] \in SetupPlaces => mEndOfAudioVideoSignal
    /\ pc["executor"] \in SetupPlaces \cup {"idle"}
    /\ pc["client"] \in StartPlaces \cup SetupPlaces \cup {"idle"}

\* The last clean-up made is the one that will run, and it has not run yet.
FutureOK ==
    /\ \A r \in begun : r <= mRecordingFuture
    /\ mRecordingFuture <= starts
    /\ pc["client"] = "check" => mRecordingFuture < starts
    /\ \/ ~mEndOfAudioVideoSignal \/ pc["video"] = "answer" \/ tasks # <<>>
       \/ pc["client"] \in {"encoders", "muxer"}
       => mRecordingFuture \notin begun /\ mRecordingFuture # 0
    /\ pc["executor"] # "idle" => mRecordingFuture # 0

\* A capture that waits for a clean-up to release it, or that is closed, starts
\* nothing more.
WaitOK ==
    /\ RendererGone => pc["client"] = "idle"
    /\ mRecordingWaitRelease => closed /\ pc["client"] = "idle" /\ pc["listener"] = "idle"
    /\ pc["listener"] # "idle" => closed

Lifecycle == Alive /\ Gone /\ OneCleanUp /\ FutureOK /\ WaitOK

\* Codecs are there until they are released, and what setupEncoder has done so far.
CodecsOK ==
    /\ ~Quit => mVideoEncoder # "null" /\ mAudioEncoder # "null"
    /\ pc["client"] \notin {"setupVideo", "setupAudio"} =>
         /\ mIsAudioEnabled = mConfig
         /\ mConfig /\ ~Quit => mAudioRecorder # "null"
    /\ \A t \in Setters :
         /\ pc[t] \in {"setupAudio", "setupEnd"} =>
              mVideoEncoder = "configured" /\ mCameraSurface
         /\ pc[t] = "setupEnd" /\ mConfig => mAudioEncoder = "configured"

\* Between recordings all is set up for the next.
Ready ==
    mEndOfAudioVideoSignal /\ ~Cleaning /\ ~Quit =>
        /\ pc["client"] \in {"idle", "check", "encoders"} =>
             /\ mVideoEncoder = "configured"
             /\ mConfig => mAudioEncoder = "configured"
        /\ pc["client"] \notin SetupPlaces =>
             mCameraSurface /\ ~mVideoTrackIndex /\ ~mAudioTrackIndex

SetUp == CodecsOK /\ Ready

\* The video is still encoded, the audio is, or the client is about to post it.
InLoop == posted["video"] # <<>> \/ pc["video"] \in {"check", "dequeue"}
AudioWork == posted["audio"] # <<>> \/ pc["audio"] # "idle"
AudioDue == AudioWork \/ (mIsAudioEnabled /\ pc["client"] \in {"muxer", "attach"})

\* The video does not end before the audio has ended, and the muxer does not start
\* before both have announced their format.
EncodeOK ==
    /\ pc["client"] = "attach" => mCameraSurface
    /\ AudioWork => mIsAudioEnabled /\ InLoop
    /\ AudioDue => /\ mAudioEncoder = "executing" /\ mVideoEncoder = "executing"
                   /\ pc["client"] = "muxer" \/ ~mEndOfVideoStreamSignal
                   /\ mAudioTrackIndex => "audio" \in announced
    /\ InLoop \/ pc["client"] \in {"muxer", "attach"} =>
         /\ mVideoEncoder \in {"executing", "draining"}
         /\ mVideoTrackIndex => "video" \in announced
    /\ InLoop \/ pc["client"] = "attach" =>
         /\ mMuxer \in {"created", "started"}
         /\ mMuxer = "started" => /\ "video" \in announced
                                  /\ AudioDue => "audio" \in announced

\* Both threads work for the recording that the muxer was made for.
Own ==
    /\ \A track \in tracks : track[2] = muxerOf
    /\ \A e \in Encoding : /\ posted[e] \in {<<>>, <<muxerOf>>}
                           /\ pc[e] \in {"check", "dequeue"} => serves[e] = muxerOf
    /\ pc["audio"] # "idle" => posted["audio"] = <<>>
    /\ pc["client"] = "attach" => muxerOf = starts

Recorded == EncodeOK /\ Own

Parts == Lifecycle /\ SetUp /\ Recorded

\* The inductive invariant, with the one of VideoCaptureProofs.
CalmInv == calm => Parts

\* What the steps rely on of the invariant of VideoCaptureProofs.
Base == FlagTypes /\ ResourceFlags /\ StatesOK /\ WorkTypes /\ WorkOK /\ OneAtATime

-----------------------------------------------------------------------------
(***************************************************************************)
(* Queues of at most one element.                                          *)
(***************************************************************************)
LEMMA OneElement ==
  ASSUME NEW x
  PROVE  Head(<<x>>) = x /\ Tail(<<x>>) = <<>> /\ Append(<<>>, x) = <<x>> /\ <<x>> # <<>>
OBVIOUS

\* Nobody encodes while the client is between recordings or attaches one.
LEMMA NoAudioYet ==
  ASSUME Base, Parts, mEndOfAudioVideoSignal \/ pc["client"] = "attach"
  PROVE  ~InLoop /\ ~AudioWork
BY DEF Base, Parts, Recorded, EncodeOK, OneAtATime, InLoop, StatesOK, Threads

\* The audio thread, when it changes the audio codec and the microphone, changes what
\* no set-up relies on.
LEMMA AudioKeepsSetUp ==
  ASSUME SetUp, \A t \in Threads \ {"audio"} : pc'[t] = pc[t],
         UNCHANGED <<mVideoEncoder, mCameraSurface, quit, mConfig, mIsAudioEnabled, tasks,
                     mEndOfAudioVideoSignal, mVideoTrackIndex>>,
         mEndOfAudioVideoSignal => UNCHANGED mAudioTrackIndex,
         \/ UNCHANGED <<mAudioEncoder, mAudioRecorder>>
         \/ /\ mAudioEncoder' # "null" /\ mAudioRecorder' # "null"
            /\ ~mEndOfAudioVideoSignal
            /\ pc["client"] \notin SetupPlaces /\ pc["executor"] = "idle"
  PROVE  SetUp'
BY DEF SetUp, CodecsOK, Ready, Cleaning, Quit, SetupPlaces, Threads, Setters

-----------------------------------------------------------------------------
(***************************************************************************)
(* One lemma for each action: as long as it stays calm, the action keeps   *)
(* Parts.  What the lemmas expand is the same for all of them.             *)
(***************************************************************************)
USE DEF Base, FlagTypes, ResourceFlags, StatesOK, WorkTypes, OneAtATime, WorkOK, StartPlaces,
        Recordings, flags, signals, config, codecs, muxer, cleanup, threads, control, bounds,
        ends, history, At, Goto, Threads, Setters, Encoding, NoFailure, Failure, Die,
        ReleaseAudioInputResource,
        Parts, Lifecycle, SetUp, Recorded, Alive, Gone, OneCleanUp, FutureOK, WaitOK,
        RendererGone, CodecsOK, Ready, EncodeOK, Own, SetupPlaces, Quit, Cleaning, InLoop,
        AudioWork, AudioDue

-----------------------------------------------------------------------------
\* The application and the client.
LEMMA CalmBeginStart ==
  ASSUME Base, Parts, calm, calm', BeginStart
  PROVE  Parts'
<1> USE DEF BeginStart, Begin
<1>1. Lifecycle' OBVIOUS
<1>2. SetUp' OBVIOUS
<1>3. Recorded' OBVIOUS
<1> QED BY <1>1, <1>2, <1>3

LEMMA CalmBeginStop ==
  ASSUME Base, Parts, calm, calm', BeginStop
  PROVE  Parts'
<1> USE DEF BeginStop, Begin, StopRecording
<1>1. Lifecycle' OBVIOUS
<1>2. SetUp' OBVIOUS
<1>3. Recorded' OBVIOUS
<1> QED BY <1>1, <1>2, <1>3

LEMMA CalmBeginSetConfig ==
  ASSUME Base, Parts, calm, calm', BeginSetConfig
  PROVE  Parts'
<1> USE DEF BeginSetConfig, Begin, Busy
<1>1. Lifecycle' OBVIOUS
<1>2. SetUp' OBVIOUS
<1>3. Recorded' OBVIOUS
<1> QED BY <1>1, <1>2, <1>3

LEMMA CalmBeginClose ==
  ASSUME Base, Parts, calm, calm', BeginClose
  PROVE  Parts'
<1> USE DEF BeginClose, StopRecording
<1>1. Lifecycle' OBVIOUS
<1>2. SetUp' OBVIOUS
<1>3. Recorded' OBVIOUS
<1> QED BY <1>1, <1>2, <1>3

LEMMA CalmRefuseStart ==
  ASSUME Base, Parts, calm, calm', RefuseStart
  PROVE  Parts'
<1> USE DEF RefuseStart
<1>1. Lifecycle' OBVIOUS
<1>2. SetUp' OBVIOUS
<1>3. Recorded' OBVIOUS
<1> QED BY <1>1, <1>2, <1>3

LEMMA CalmStartAudioInput ==
  ASSUME Base, Parts, calm, calm', StartAudioInput
  PROVE  Parts'
<1> USE DEF StartAudioInput, Refused, Busy
<1>1. Lifecycle' OBVIOUS
<1>2. SetUp' OBVIOUS
<1>3. Recorded' OBVIOUS
<1> QED BY <1>1, <1>2, <1>3

LEMMA CalmStartEncoders ==
  ASSUME Base, Parts, calm, calm', StartEncoders
  PROVE  Parts'
<1> USE DEF StartEncoders, StartFails
<1>1. Lifecycle' OBVIOUS
<1>2. SetUp' OBVIOUS
<1>3. Recorded' OBVIOUS
<1> QED BY <1>1, <1>2, <1>3

LEMMA CalmInitMediaMuxer ==
  ASSUME Base, Parts, calm, calm', InitMediaMuxer
  PROVE  Parts'
<1> USE DEF InitMediaMuxer, ResetSignals, StartFails
<1>1. Lifecycle' OBVIOUS
<1>2. SetUp' OBVIOUS
<1>3. Recorded' OBVIOUS
<1> QED BY <1>1, <1>2, <1>3

LEMMA CalmPostEncoding ==
  ASSUME Base, Parts, calm, calm', PostEncoding
  PROVE  Parts'
<1>a. ~RendererGone
  BY DEF PostEncoding, Parts, Lifecycle, WaitOK, At
<1> USE <1>a DEF PostEncoding
<1>1. Lifecycle' OBVIOUS
<1>2. SetUp' OBVIOUS
<1>3. Recorded'
  <2>1. /\ posted["audio"] = <<>> /\ posted["video"] = <<>> /\ quit = {} /\ mCameraSurface
        /\ muxerOf = starts /\ pc["audio"] = "idle"
    BY NoAudioYet
  <2>2. Append(<<>>, starts) = <<starts>> /\ <<starts>> # <<>>
    BY OneElement
  <2>3. /\ posted'["video"] = <<starts>>
        /\ posted'["audio"] = IF mIsAudioEnabled THEN <<starts>> ELSE <<>>
    BY <2>1, <2>2
  <2>4. /\ pc' = [pc EXCEPT !["client"] = "idle"]
        /\ UNCHANGED <<mIsAudioEnabled, signals, codecs, muxer, serves, starts>>
    OBVIOUS
  <2>5. EncodeOK' BY <2>1, <2>2, <2>3, <2>4
  <2>6. Own' BY <2>1, <2>3, <2>4
  <2> QED BY <2>5, <2>6
<1> QED BY <1>1, <1>2, <1>3

-----------------------------------------------------------------------------
\* The listener, the executor, and setupEncoder.
LEMMA CalmReleaseCapture ==
  ASSUME Base, Parts, calm, calm', ReleaseCapture
  PROVE  Parts'
<1> USE DEF ReleaseCapture, StopRecording, ReleaseResources
<1>1. Lifecycle' OBVIOUS
<1>2. SetUp' BY ZenonT(60)
<1>3. Recorded' OBVIOUS
<1> QED BY <1>1, <1>2, <1>3

LEMMA CalmCallFuture ==
  ASSUME Base, Parts, calm, calm', CallFuture
  PROVE  Parts'
<1> USE DEF CallFuture, ReleaseResources
<1>0. /\ pc["client"] \in {"idle", "check"} /\ tasks # <<>> /\ tasks' = <<>>
      /\ Head(tasks) = mRecordingFuture /\ mRecordingFuture \notin begun
      /\ pc["video"] = "idle" /\ pc["audio"] = "idle"
      /\ posted["video"] = <<>> /\ posted["audio"] = <<>>
  BY OneElement, NoAudioYet
<1>1. Lifecycle'
  <2>1. CASE mRecordingWaitRelease
    BY <1>0, <2>1
  <2>2. CASE ~mRecordingWaitRelease
    BY <1>0, <2>2
  <2> QED BY <2>1, <2>2
<1>2. SetUp'
  <2>1. CASE mRecordingWaitRelease
    BY <1>0, <2>1
  <2>2. CASE ~mRecordingWaitRelease
    <3>1. /\ pc' = [pc EXCEPT !["executor"] = "setupVideo"]
          /\ UNCHANGED <<mVideoEncoder, mAudioEncoder, mAudioRecorder, mCameraSurface, quit>>
      BY <1>0, <2>2
    <3> QED BY <1>0, <3>1
  <2> QED BY <2>1, <2>2
<1>3. Recorded' OBVIOUS
<1> QED BY <1>1, <1>2, <1>3

LEMMA CalmSetupVideo ==
  ASSUME Base, Parts, calm, calm', NEW t \in Setters, SetupVideo(t)
  PROVE  Parts'
<1> USE DEF SetupVideo
<1>1. Lifecycle' OBVIOUS
<1>2. SetUp' OBVIOUS
<1>3. Recorded' OBVIOUS
<1> QED BY <1>1, <1>2, <1>3

LEMMA CalmSetupAudio ==
  ASSUME Base, Parts, calm, calm', NEW t \in Setters, SetupAudio(t)
  PROVE  Parts'
<1> USE DEF SetupAudio
<1>1. Lifecycle' OBVIOUS
<1>2. SetUp' OBVIOUS
<1>3. Recorded' OBVIOUS
<1> QED BY <1>1, <1>2, <1>3

LEMMA CalmSetupEnd ==
  ASSUME Base, Parts, calm, calm', NEW t \in Setters, SetupEnd(t)
  PROVE  Parts'
<1> USE DEF SetupEnd
<1>1. Lifecycle' OBVIOUS
<1>2. SetUp' OBVIOUS
<1>3. Recorded' OBVIOUS
<1> QED BY <1>1, <1>2, <1>3

-----------------------------------------------------------------------------
\* The video thread.
LEMMA CalmBeginVideo ==
  ASSUME Base, Parts, calm, calm', BeginVideo
  PROVE  Parts'
<1> USE DEF BeginVideo
<1>1. Lifecycle' OBVIOUS
<1>2. SetUp' OBVIOUS
<1>3. Recorded'
  <2>1. /\ posted["video"] = <<muxerOf>> /\ posted'["video"] = <<>>
        /\ serves'["video"] = muxerOf
    BY OneElement
  <2>2. /\ \A e \in Encoding \ {"video"} : posted'[e] = posted[e] /\ serves'[e] = serves[e]
        /\ posted["video"] # <<>>
    BY <2>1, OneElement
  <2> QED BY <2>1, <2>2
<1> QED BY <1>1, <1>2, <1>3

LEMMA CalmCheckVideoSignal ==
  ASSUME Base, Parts, calm, calm', CheckVideoSignal
  PROVE  Parts'
<1> USE DEF CheckVideoSignal, EncodeFails
<1>1. Lifecycle' OBVIOUS
<1>2. SetUp' OBVIOUS
<1>3. Recorded' OBVIOUS
<1> QED BY <1>1, <1>2, <1>3

LEMMA CalmVideoFormatChanged ==
  ASSUME Base, Parts, calm, calm', VideoFormatChanged
  PROVE  Parts'
<1> USE DEF VideoFormatChanged, MuxerStarts, EncodeFails
<1>1. Lifecycle' OBVIOUS
<1>2. SetUp' OBVIOUS
<1>3. Recorded' OBVIOUS
<1> QED BY <1>1, <1>2, <1>3

LEMMA CalmWriteVideo ==
  ASSUME Base, Parts, calm, calm', WriteVideo
  PROVE  Parts'
<1> USE DEF WriteVideo
<1>1. Lifecycle' OBVIOUS
<1>2. SetUp' OBVIOUS
<1>3. Recorded' OBVIOUS
<1> QED BY <1>1, <1>2, <1>3

LEMMA CalmDequeueVideo ==
  ASSUME Base, Parts, calm, calm', DequeueVideo
  PROVE  Parts'
<1> USE DEF DequeueVideo, EncodeFails
<1>1. Lifecycle' OBVIOUS
<1>2. SetUp' OBVIOUS
<1>3. Recorded' OBVIOUS
<1> QED BY <1>1, <1>2, <1>3

LEMMA CalmStopVideoEncoder ==
  ASSUME Base, Parts, calm, calm', StopVideoEncoder
  PROVE  Parts'
<1> USE DEF StopVideoEncoder
<1>1. Lifecycle' OBVIOUS
<1>2. SetUp' OBVIOUS
<1>3. Recorded' OBVIOUS
<1> QED BY <1>1, <1>2, <1>3

LEMMA CalmStopMuxer ==
  ASSUME Base, Parts, calm, calm', StopMuxer
  PROVE  Parts'
<1> USE DEF StopMuxer
<1>1. Lifecycle' OBVIOUS
<1>2. SetUp' OBVIOUS
<1>3. Recorded' OBVIOUS
<1> QED BY <1>1, <1>2, <1>3

LEMMA CalmFinishVideo ==
  ASSUME Base, Parts, calm, calm', FinishVideo
  PROVE  Parts'
<1> USE DEF FinishVideo
<1>1. Lifecycle' OBVIOUS
<1>2. SetUp' OBVIOUS
<1>3. Recorded' OBVIOUS
<1> QED BY <1>1, <1>2, <1>3

LEMMA CalmAnswerVideo ==
  ASSUME Base, Parts, calm, calm', AnswerVideo
  PROVE  Parts'
<1> USE DEF AnswerVideo
<1>1. Lifecycle' OBVIOUS
<1>2. SetUp' OBVIOUS
<1>3. Recorded' OBVIOUS
<1> QED BY <1>1, <1>2, <1>3

-----------------------------------------------------------------------------
\* The audio thread.
LEMMA CalmBeginAudio ==
  ASSUME Base, Parts, calm, calm', BeginAudio
  PROVE  Parts'
<1> USE DEF BeginAudio
<1>1. Lifecycle' OBVIOUS
<1>2. SetUp' OBVIOUS
<1>3. Recorded'
  <2>1. /\ posted["audio"] = <<muxerOf>> /\ posted'["audio"] = <<>>
        /\ serves'["audio"] = muxerOf
    BY OneElement
  <2>2. /\ \A e \in Encoding \ {"audio"} : posted'[e] = posted[e] /\ serves'[e] = serves[e]
        /\ posted["audio"] # <<>>
    BY <2>1, OneElement
  <2> QED BY <2>1, <2>2
<1> QED BY <1>1, <1>2, <1>3

LEMMA CalmCheckAudioSignal ==
  ASSUME Base, Parts, calm, calm', CheckAudioSignal
  PROVE  Parts'
<1> USE DEF CheckAudioSignal
<1>1. Lifecycle' OBVIOUS
<1>2. SetUp'
  <2>1. /\ \A t \in Threads \ {"audio"} : pc'[t] = pc[t]
        /\ UNCHANGED <<mVideoEncoder, mCameraSurface, quit, mConfig, mIsAudioEnabled, tasks,
                       mEndOfAudioVideoSignal, mVideoTrackIndex>>
        /\ UNCHANGED <<mAudioEncoder, mAudioRecorder>>
        /\ mEndOfAudioVideoSignal => UNCHANGED mAudioTrackIndex
    BY NoAudioYet
  <2> QED BY <2>1, AudioKeepsSetUp
<1>3. Recorded' OBVIOUS
<1> QED BY <1>1, <1>2, <1>3

LEMMA CalmDequeueAudio ==
  ASSUME Base, Parts, calm, calm', DequeueAudio
  PROVE  Parts'
<1> USE DEF DequeueAudio
<1>1. Lifecycle' OBVIOUS
<1>2. SetUp'
  <2>1. /\ \A t \in Threads \ {"audio"} : pc'[t] = pc[t]
        /\ UNCHANGED <<mVideoEncoder, mCameraSurface, quit, mConfig, mIsAudioEnabled, tasks,
                       mEndOfAudioVideoSignal, mVideoTrackIndex>>
        /\ UNCHANGED <<mAudioEncoder, mAudioRecorder>>
        /\ mEndOfAudioVideoSignal => UNCHANGED mAudioTrackIndex
    BY NoAudioYet
  <2> QED BY <2>1, AudioKeepsSetUp
<1>3. Recorded' OBVIOUS
<1> QED BY <1>1, <1>2, <1>3

LEMMA CalmAudioFormatChanged ==
  ASSUME Base, Parts, calm, calm', AudioFormatChanged
  PROVE  Parts'
<1> USE DEF AudioFormatChanged, MuxerStarts
<1>1. Lifecycle' OBVIOUS
<1>2. SetUp'
  <2>1. /\ \A t \in Threads \ {"audio"} : pc'[t] = pc[t]
        /\ UNCHANGED <<mVideoEncoder, mCameraSurface, quit, mConfig, mIsAudioEnabled, tasks,
                       mEndOfAudioVideoSignal, mVideoTrackIndex>>
        /\ UNCHANGED <<mAudioEncoder, mAudioRecorder>>
        /\ mEndOfAudioVideoSignal => UNCHANGED mAudioTrackIndex
    BY NoAudioYet
  <2> QED BY <2>1, AudioKeepsSetUp
<1>3. Recorded' OBVIOUS
<1> QED BY <1>1, <1>2, <1>3

LEMMA CalmStopAudio ==
  ASSUME Base, Parts, calm, calm', StopAudio
  PROVE  Parts'
<1> USE DEF StopAudio
<1>0. /\ mAudioRecorder # "null" /\ mAudioEncoder # "null"
      /\ ~Quit /\ mIsAudioEnabled /\ InLoop /\ posted["audio"] = <<>>
      /\ pc["client"] \in {"idle", "check"}
  <2>1. AudioWork /\ ~Quit OBVIOUS
  <2>2. InLoop /\ mIsAudioEnabled BY <2>1
  <2>3. ~mEndOfAudioVideoSignal /\ pc["client"] # "attach" BY <2>1, NoAudioYet
  <2>4. pc["client"] \in {"idle", "check"} BY <2>3
  <2> QED BY <2>1, <2>2, <2>4
<1>1. Lifecycle' BY <1>0
<1>2. SetUp'
  <2>1. /\ \A t \in Threads \ {"audio"} : pc'[t] = pc[t]
        /\ UNCHANGED <<mVideoEncoder, mCameraSurface, quit, mConfig, mIsAudioEnabled, tasks,
                       mEndOfAudioVideoSignal, mVideoTrackIndex, mAudioTrackIndex>>
        /\ mAudioEncoder' # "null" /\ mAudioRecorder' # "null" /\ ~mEndOfAudioVideoSignal
        /\ pc["client"] \notin SetupPlaces /\ pc["executor"] = "idle"
    BY <1>0, NoAudioYet
  <2> QED BY <2>1, AudioKeepsSetUp
<1>3. Recorded'
  <2>1. /\ pc' = [pc EXCEPT !["audio"] = "idle"] /\ posted'["audio"] = <<>>
        /\ UNCHANGED <<posted, muxer, mVideoEncoder, mCameraSurface, mIsAudioEnabled, starts>>
        /\ "video" \in announced <=> "video" \in announced'
        /\ serves'["video"] = serves["video"]
    BY <1>0
  <2>2. ~AudioDue'
    BY <1>0, <2>1
  <2> QED BY <1>0, <2>1, <2>2
<1> QED BY <1>1, <1>2, <1>3

HIDE DEF Base, FlagTypes, ResourceFlags, StatesOK, WorkTypes, OneAtATime, WorkOK, StartPlaces,
        Recordings, flags, signals, config, codecs, muxer, cleanup, threads, control, bounds,
        ends, history, At, Goto, Threads, Setters, Encoding, NoFailure, Failure, Die,
        ReleaseAudioInputResource,
        Parts, Lifecycle, SetUp, Recorded, Alive, Gone, OneCleanUp, FutureOK, WaitOK,
        RendererGone, CodecsOK, Ready, EncodeOK, Own, SetupPlaces, Quit, Cleaning, InLoop,
        AudioWork, AudioDue

-----------------------------------------------------------------------------
LEMMA CalmInit == Init => CalmInv
<1> SUFFICES ASSUME Init PROVE Parts
  BY DEF CalmInv
<1> USE BoundsAssumption DEF Init, Threads, Setters, Encoding
<1>1. Lifecycle
  BY DEF Lifecycle, Alive, Gone, OneCleanUp, FutureOK, WaitOK, RendererGone, Quit, Cleaning,
     SetupPlaces, StartPlaces
<1>2. SetUp
  BY DEF SetUp, CodecsOK, Ready, SetupPlaces
<1>3. Recorded
  BY DEF Recorded, EncodeOK, Own, InLoop, AudioWork, AudioDue
<1> QED BY <1>1, <1>2, <1>3 DEF Parts

\* What is not calm does not become calm again.
LEMMA StaysUncalm == ASSUME [Next]_vars, calm', EndTypes PROVE calm
<1> USE DEF history, EndTypes, Failure, NoFailure
<1>1. CASE BeginStart BY <1>1 DEF BeginStart, Begin
<1>2. CASE BeginStop BY <1>2 DEF BeginStop, Begin
<1>3. CASE BeginSetConfig BY <1>3 DEF BeginSetConfig, Begin
<1>4. CASE BeginClose BY <1>4 DEF BeginClose
<1>5. CASE RefuseStart BY <1>5 DEF RefuseStart
<1>6. CASE StartAudioInput BY <1>6 DEF StartAudioInput
<1>7. CASE StartEncoders BY <1>7 DEF StartEncoders, StartFails
<1>8. CASE InitMediaMuxer BY <1>8 DEF InitMediaMuxer, StartFails
<1>9. CASE PostEncoding BY <1>9 DEF PostEncoding
<1>10. CASE ReleaseCapture BY <1>10 DEF ReleaseCapture
<1>11. CASE CallFuture BY <1>11 DEF CallFuture
<1>12. ASSUME NEW t \in Setters, SetupVideo(t) PROVE calm BY <1>12 DEF SetupVideo
<1>13. ASSUME NEW t \in Setters, SetupAudio(t) PROVE calm BY <1>13 DEF SetupAudio
<1>14. ASSUME NEW t \in Setters, SetupEnd(t) PROVE calm BY <1>14 DEF SetupEnd
<1>15. CASE BeginVideo BY <1>15 DEF BeginVideo
<1>16. CASE CheckVideoSignal BY <1>16 DEF CheckVideoSignal, EncodeFails
<1>17. CASE VideoFormatChanged BY <1>17 DEF VideoFormatChanged, EncodeFails
<1>18. CASE WriteVideo BY <1>18 DEF WriteVideo
<1>19. CASE DequeueVideo BY <1>19 DEF DequeueVideo, EncodeFails
<1>20. CASE StopVideoEncoder BY <1>20 DEF StopVideoEncoder
<1>21. CASE StopMuxer BY <1>21 DEF StopMuxer
<1>22. CASE FinishVideo BY <1>22 DEF FinishVideo
<1>23. CASE AnswerVideo BY <1>23 DEF AnswerVideo
<1>24. CASE BeginAudio BY <1>24 DEF BeginAudio
<1>25. CASE CheckAudioSignal BY <1>25 DEF CheckAudioSignal
<1>26. CASE DequeueAudio BY <1>26 DEF DequeueAudio
<1>27. CASE AudioFormatChanged BY <1>27 DEF AudioFormatChanged
<1>28. CASE StopAudio BY <1>28 DEF StopAudio
<1>29. CASE UNCHANGED vars BY <1>29 DEF vars
<1> HIDE DEF history, EndTypes, Failure, NoFailure
<1> QED BY <1>1, <1>2, <1>3, <1>4, <1>5, <1>6, <1>7, <1>8, <1>9, <1>10, <1>11, <1>12,
    <1>13, <1>14, <1>15, <1>16, <1>17, <1>18, <1>19, <1>20, <1>21, <1>22, <1>23, <1>24,
    <1>25, <1>26, <1>27, <1>28, <1>29 DEF Next, Application, Client,
    Executor, Video, Audio, Setters

\* As long as it stays calm, every step keeps Parts.
LEMMA CalmNext ==
  ASSUME Base, EndTypes, CalmInv, [Next]_vars
  PROVE  CalmInv'
<1> SUFFICES ASSUME calm' PROVE Parts'
  BY DEF CalmInv
<1>1. calm
  BY StaysUncalm
<1>2. Parts
  BY <1>1 DEF CalmInv
<1>3. CASE UNCHANGED vars
  <2> USE DEF vars, flags, signals, config, codecs, muxer, cleanup, threads, control, bounds,
      ends, history
  <2>1. Lifecycle'
    BY <1>2, <1>3 DEF Parts, Lifecycle, Alive, Gone, OneCleanUp, FutureOK, WaitOK,
      RendererGone, Quit, Cleaning
  <2>2. SetUp'
    BY <1>2, <1>3 DEF Parts, SetUp, CodecsOK, Ready, Quit, Cleaning
  <2>3. Recorded'
    BY <1>2, <1>3 DEF Parts, Recorded, EncodeOK, Own, InLoop, AudioWork, AudioDue
  <2> QED BY <2>1, <2>2, <2>3 DEF Parts
<1> QED BY <1>1, <1>2, <1>3, CalmBeginStart, CalmBeginStop, CalmBeginSetConfig,
    CalmBeginClose, CalmRefuseStart, CalmStartAudioInput, CalmStartEncoders,
    CalmInitMediaMuxer, CalmPostEncoding, CalmReleaseCapture, CalmCallFuture,
    CalmSetupVideo, CalmSetupAudio, CalmSetupEnd, CalmBeginVideo, CalmCheckVideoSignal,
    CalmVideoFormatChanged, CalmWriteVideo, CalmDequeueVideo, CalmStopVideoEncoder,
    CalmStopMuxer, CalmFinishVideo, CalmAnswerVideo, CalmBeginAudio,
    CalmCheckAudioSignal, CalmDequeueAudio, CalmAudioFormatChanged, CalmStopAudio DEF Next, Application, Client,
    Executor, Video, Audio, Setters

-----------------------------------------------------------------------------
\* The inductive invariant holds in every state of every behaviour.
LEMMA CalmInvariance == Spec => []CalmInv
<1>1. IInv => Base /\ EndTypes
  BY DEF IInv, TypeOK, Base, FlagTypes, ResourceFlags, StatesOK, WorkTypes, EndTypes
<1>2. IInv /\ CalmInv /\ [Next]_vars => CalmInv'
  BY <1>1, CalmNext
<1> QED BY Invariance, CalmInit, <1>2, PTL DEF Spec

\* The process survives: as long as nothing fails, no recording is started before the
\* last clean-up is over and the capture is not released during a start, no encoding
\* thread meets a codec, microphone or muxer that another thread has released, and
\* none adds a track to a muxer that runs (VideoCapture.java:907, 764).
THEOREM SurvivesHolds == Spec => []Survives
<1>1. CalmInv => Survives BY DEF CalmInv, Parts, Lifecycle, Alive, Survives
<1> QED BY CalmInvariance, <1>1, PTL

\* A file holds tracks of its own recording only: when the muxer of the next recording
\* is made, the audio thread of the last one has ended (VideoCapture.java:853).
THEOREM OwnFileHolds == Spec => []OwnFile
<1>1. CalmInv => OwnFile BY DEF CalmInv, Parts, Recorded, Own, OwnFile
<1> QED BY CalmInvariance, <1>1, PTL
=============================================================================
