----------------------------- MODULE VideoCapture -----------------------------
(***************************************************************************)
(* Recording (VideoCapture.java): the helper thread ("client") starts and  *)
(* stops recordings and changes the configuration, a video and an audio    *)
(* thread encode into one muxer, the executor cleans up after a recording  *)
(* and prepares the next, and the listener thread releases the capture     *)
(* when the camera is closed.                                              *)
(*                                                                         *)
(* Codecs, recorder and muxer are modelled by the states Android documents *)
(* for them: a call in a wrong state throws, a call on null throws.  An    *)
(* exception the video or audio thread does not catch ends the process     *)
(* ("died"); CameraHelper catches and logs those of the client; a          *)
(* FutureTask keeps those of the executor.  Samples, files and sizes are   *)
(* abstracted, but for the first key frame.                                *)
(***************************************************************************)
EXTENDS Naturals, Sequences

CONSTANTS
    MaxStarts,      \* bound: calls of startRecording
    MaxOps,         \* bound: operations of the application, and closing the camera
    MaxFailures     \* bound: calls of Android that fail

ASSUME BoundsAssumption == MaxStarts \in Nat /\ MaxOps \in Nat /\ MaxFailures \in Nat

Recordings == 1..MaxStarts
Threads == {"client", "listener", "video", "audio", "executor"}
Setters == {"client", "executor"}           \* who runs setupEncoder
Encoding == {"video", "audio"}

VARIABLES
    \* flags and fields of VideoCapture; the two init statuses say "failed"
    mIsRecording, mIsAudioEnabled, mIsFirstVideoKeyFrameWrite,
    mEndOfVideoStreamSignal, mEndOfAudioStreamSignal, mEndOfAudioVideoSignal,
    mVideoEncoderInitStatus, mAudioEncoderInitStatus, mConfig,
    \* codecs (null, or the state the codec is in), microphone, input surface,
    \* and the codecs that have announced their format since they started
    mVideoEncoder, mAudioEncoder, mAudioRecorder, mCameraSurface, announced,
    \* the muxer, the recording it was made for, its tracks, and what
    \* VideoCapture knows about them
    mMuxer, muxerOf, tracks, mMuxerStarted, mVideoTrackIndex, mAudioTrackIndex,
    \* the last clean-up made (0: none), those the executor has to run, those
    \* that have begun, and mRecordingWaitRelease
    mRecordingFuture, tasks, begun, mRecordingWaitRelease,
    \* the recordings posted to the encoding threads, and which threads quit
    posted, quit,
    \* where every thread is, the recording an encoding thread works for, and
    \* errorOccurred of videoEncode
    pc, serves, errorOccurred,
    \* bounds, whether the process ended, and whether release() was called and
    \* the resources were released
    starts, ops, failures, died, closed, released,
    \* history: what each callback was told, recordings with a key frame in the
    \* file, recordings told to stop; whether nothing happened that VideoCapture
    \* does not cope with (calm), whether startRecording was called during a
    \* recording (again), and release() after the last clean-up (late)
    answers, keyed, stopped, calm, again, late

flags == <<mIsRecording, mIsAudioEnabled, mIsFirstVideoKeyFrameWrite>>
signals == <<mEndOfVideoStreamSignal, mEndOfAudioStreamSignal, mEndOfAudioVideoSignal>>
config == <<mVideoEncoderInitStatus, mAudioEncoderInitStatus, mConfig>>
codecs == <<mVideoEncoder, mAudioEncoder, mAudioRecorder, mCameraSurface, announced>>
muxer == <<mMuxer, muxerOf, tracks, mMuxerStarted, mVideoTrackIndex, mAudioTrackIndex>>
cleanup == <<mRecordingFuture, tasks, begun, mRecordingWaitRelease>>
threads == <<posted, quit>>
control == <<pc, serves, errorOccurred>>
bounds == <<starts, ops, failures>>
ends == <<died, closed, released>>
history == <<answers, keyed, stopped, calm, again, late>>
vars == <<flags, signals, config, codecs, muxer, cleanup, threads, control, bounds,
          ends, history>>

Codecs == {"null", "uninitialized", "configured", "executing", "draining"}
Answers == {"saved", "error", "short"}
Places == {"idle", "check", "encoders", "muxer", "attach", "setupVideo",
           "setupAudio", "setupEnd", "dequeue", "stopEncoder", "stopMuxer", "finish",
           "answer", "stopAudio", "release"}

TypeOK ==
    /\ mIsRecording \in BOOLEAN /\ mIsAudioEnabled \in BOOLEAN
    /\ mIsFirstVideoKeyFrameWrite \in BOOLEAN
    /\ mEndOfVideoStreamSignal \in BOOLEAN /\ mEndOfAudioStreamSignal \in BOOLEAN
    /\ mEndOfAudioVideoSignal \in BOOLEAN
    /\ mVideoEncoderInitStatus \in BOOLEAN /\ mAudioEncoderInitStatus \in BOOLEAN
    /\ mConfig \in BOOLEAN
    /\ mVideoEncoder \in Codecs /\ mAudioEncoder \in Codecs \ {"draining"}
    /\ mAudioRecorder \in {"null", "initialized", "recording"}
    /\ mCameraSurface \in BOOLEAN /\ announced \subseteq Encoding
    /\ mMuxer \in {"null", "created", "started"} /\ muxerOf \in 0..MaxStarts
    /\ tracks \subseteq Encoding \X Recordings
    /\ mMuxerStarted \in BOOLEAN
    /\ mVideoTrackIndex \in BOOLEAN /\ mAudioTrackIndex \in BOOLEAN
    /\ mRecordingFuture \in 0..MaxStarts /\ tasks \in Seq(0..MaxStarts)
    /\ begun \subseteq 0..MaxStarts /\ mRecordingWaitRelease \in BOOLEAN
    /\ posted \in [Encoding -> Seq(Recordings)] /\ quit \subseteq Encoding
    /\ pc \in [Threads -> Places] /\ serves \in [Encoding -> 0..MaxStarts]
    /\ errorOccurred \in BOOLEAN
    /\ starts \in 0..MaxStarts /\ ops \in 0..MaxOps /\ failures \in 0..MaxFailures
    /\ died \in BOOLEAN /\ closed \in BOOLEAN /\ released \in BOOLEAN
    /\ answers \in [Recordings -> SUBSET Answers]
    /\ keyed \subseteq Recordings /\ stopped \subseteq Recordings
    /\ calm \in BOOLEAN /\ again \in BOOLEAN /\ late \in BOOLEAN

\* After the constructor: initVideoAudioEncoder and setupEncoder are done, with
\* or without audio.
Init ==
    /\ mConfig \in BOOLEAN /\ mIsAudioEnabled = mConfig
    /\ mIsRecording = FALSE /\ mIsFirstVideoKeyFrameWrite = FALSE
    /\ mEndOfVideoStreamSignal = TRUE /\ mEndOfAudioStreamSignal = TRUE
    /\ mEndOfAudioVideoSignal = TRUE
    /\ mVideoEncoderInitStatus = FALSE /\ mAudioEncoderInitStatus = FALSE
    /\ mVideoEncoder = "configured"
    /\ mAudioEncoder = IF mConfig THEN "configured" ELSE "uninitialized"
    /\ mAudioRecorder = IF mConfig THEN "initialized" ELSE "null"
    /\ mCameraSurface = TRUE /\ announced = {}
    /\ mMuxer = "null" /\ muxerOf = 0 /\ tracks = {} /\ mMuxerStarted = FALSE
    /\ mVideoTrackIndex = FALSE /\ mAudioTrackIndex = FALSE
    /\ mRecordingFuture = 0 /\ tasks = <<>> /\ begun = {} /\ mRecordingWaitRelease = FALSE
    /\ posted = [e \in Encoding |-> <<>>] /\ quit = {}
    /\ pc = [t \in Threads |-> "idle"] /\ serves = [e \in Encoding |-> 0]
    /\ errorOccurred = FALSE
    /\ starts = 0 /\ ops = 0 /\ failures = 0
    /\ died = FALSE /\ closed = FALSE /\ released = FALSE
    /\ answers = [r \in Recordings |-> {}] /\ keyed = {} /\ stopped = {}
    /\ calm = TRUE /\ again = FALSE /\ late = FALSE

-----------------------------------------------------------------------------
(***************************************************************************)
(* Helpers                                                                 *)
(***************************************************************************)
At(t, place) == ~died /\ pc[t] = place
Goto(t, place) == pc' = [pc EXCEPT ![t] = place]
Answer(r, a) == answers' = [answers EXCEPT ![r] = @ \cup {a}]
\* A call of Android fails.
Failure == failures < MaxFailures /\ failures' = failures + 1 /\ calm' = FALSE
NoFailure == UNCHANGED <<failures, calm>>

Die == died' = TRUE

\* A recording is under way or its clean-up is not over.
Busy == ~mEndOfAudioVideoSignal \/ pc["video"] # "idle" \/ pc["executor"] # "idle"
        \/ tasks # <<>>

\* stopRecording: it ends the audio stream, whose end will end the video, or
\* the video stream.
StopRecording ==
    IF mIsRecording
    THEN /\ IF mIsAudioEnabled
            THEN mEndOfAudioStreamSignal' = TRUE /\ UNCHANGED mEndOfVideoStreamSignal
            ELSE mEndOfVideoStreamSignal' = TRUE /\ UNCHANGED mEndOfAudioStreamSignal
         /\ stopped' = IF mEndOfAudioVideoSignal THEN stopped ELSE stopped \cup {muxerOf}
    ELSE UNCHANGED <<mEndOfVideoStreamSignal, mEndOfAudioStreamSignal, stopped>>

\* releaseAudioInputResource ends the audio thread, too.
ReleaseAudioInputResource ==
    mAudioEncoder' = "null" /\ mAudioRecorder' = "null"

ReleaseResources ==
    /\ quit' = Encoding
    /\ ReleaseAudioInputResource
    /\ mVideoEncoder' = IF mCameraSurface THEN "null" ELSE mVideoEncoder
    /\ mCameraSurface' = FALSE
    /\ released' = TRUE
-----------------------------------------------------------------------------
(***************************************************************************)
(* startRecording                                                          *)
(***************************************************************************)
Begin(place) ==
    /\ At("client", "idle") /\ ~closed
    /\ ops < MaxOps /\ ops' = ops + 1
    /\ Goto("client", place)

\* A key frame flag is reset before anything is tested.
BeginStart ==
    /\ starts < MaxStarts
    /\ Begin("check")
    /\ starts' = starts + 1
    /\ mIsFirstVideoKeyFrameWrite' = FALSE
    /\ again' = (again \/ ~mEndOfAudioVideoSignal)
    /\ UNCHANGED <<mIsRecording, mIsAudioEnabled, signals, config, codecs, muxer, cleanup,
                   threads, serves, errorOccurred, failures, ends, answers, keyed, stopped,
                   calm, late>>

\* The renderer of a closed camera may have been collected: only a weak
\* reference to it is held.
RendererGone == closed /\ pc["listener"] = "idle"

\* Before anything starts: a renderer that is gone, a codec that could not be
\* set up, or a recording under way, is answered.
Refused == mVideoEncoderInitStatus \/ mAudioEncoderInitStatus \/ ~mEndOfAudioVideoSignal

RefuseStart ==
    /\ At("client", "check")
    /\ Refused \/ RendererGone
    /\ Answer(starts, "error")
    /\ Goto("client", "idle")
    /\ UNCHANGED <<flags, signals, config, codecs, muxer, cleanup, threads, serves,
                   errorOccurred, bounds, ends, keyed, stopped, calm, again, late>>

\* The microphone is started; if it does not record, audio is given up.  Then
\* the clean-up of this recording is made.  No microphone is a null pointer,
\* also when it was given up because it threw: the start ends there.
StartAudioInput ==
    /\ At("client", "check")
    /\ ~Refused
    /\ \/ /\ mIsAudioEnabled /\ mAudioRecorder = "null"
          /\ Goto("client", "idle")
          /\ UNCHANGED <<mIsAudioEnabled, mAudioEncoder, mAudioRecorder, quit,
                         mRecordingFuture, failures>>
       \/ /\ mIsAudioEnabled /\ mAudioRecorder # "null"
          /\ mAudioRecorder' = "recording"
          /\ mRecordingFuture' = starts /\ Goto("client", "encoders")
          /\ UNCHANGED <<mIsAudioEnabled, mAudioEncoder, quit, failures>>
       \/ /\ mIsAudioEnabled /\ mAudioRecorder # "null"
          /\ failures < MaxFailures /\ failures' = failures + 1
          /\ mIsAudioEnabled' = FALSE
          /\ ReleaseAudioInputResource /\ quit' = quit \cup {"audio"}
          /\ \/ mRecordingFuture' = starts /\ Goto("client", "encoders")
             \/ UNCHANGED mRecordingFuture /\ Goto("client", "idle")
       \/ /\ ~mIsAudioEnabled
          /\ mRecordingFuture' = starts /\ Goto("client", "encoders")
          /\ UNCHANGED <<mIsAudioEnabled, mAudioEncoder, mAudioRecorder, quit, failures>>
    /\ calm' = (calm /\ ~Busy /\ failures' = failures)
    /\ UNCHANGED <<mIsRecording, mIsFirstVideoKeyFrameWrite, signals, config, mVideoEncoder,
                   mCameraSurface, announced, muxer, tasks, begun, mRecordingWaitRelease,
                   posted, serves, errorOccurred, starts, ops, ends, answers, keyed, stopped,
                   again, late>>

\* A start that fails is cleaned up and answered.
StartFails ==
    /\ tasks' = Append(tasks, mRecordingFuture)
    /\ Answer(starts, "error")
    /\ Goto("client", "idle")

\* A codec that is not configured throws; null is a null pointer.
StartEncoders ==
    /\ At("client", "encoders")
    /\ \E video, audio \in BOOLEAN :        \* which of them start
         /\ video => mVideoEncoder = "configured"
         /\ audio => video /\ mIsAudioEnabled /\ mAudioEncoder = "configured"
         /\ mVideoEncoder' = IF video THEN "executing" ELSE mVideoEncoder
         /\ mAudioEncoder' = IF audio THEN "executing" ELSE mAudioEncoder
         /\ LET refused == IF video THEN mAudioEncoder ELSE mVideoEncoder IN
            \/ video /\ (audio \/ ~mIsAudioEnabled)
               /\ Goto("client", "muxer") /\ UNCHANGED <<tasks, answers>> /\ NoFailure
            \/ ~(video /\ (audio \/ ~mIsAudioEnabled)) /\ refused = "null"
               /\ Goto("client", "idle") /\ UNCHANGED <<tasks, answers>> /\ NoFailure
            \/ ~(video /\ (audio \/ ~mIsAudioEnabled)) /\ refused # "null"
               /\ StartFails /\ IF refused = "configured" THEN Failure ELSE NoFailure
    /\ announced' = {}
    /\ UNCHANGED <<flags, signals, config, mAudioRecorder, mCameraSurface, muxer,
                   mRecordingFuture, begun, mRecordingWaitRelease, threads, serves,
                   errorOccurred, starts, ops, ends, keyed, stopped, again, late>>

ResetSignals ==
    mEndOfVideoStreamSignal' = FALSE /\ mEndOfAudioVideoSignal' = FALSE
    /\ mEndOfAudioStreamSignal' = FALSE

\* With a muxer the recording begins.  Only an IOException is caught: options
\* that name no usable file throw another, which leaves the codecs running.
InitMediaMuxer ==
    /\ At("client", "muxer")
    /\ \/ /\ mMuxer' = "created" /\ muxerOf' = starts /\ tracks' = {}
          /\ ResetSignals
          /\ mIsRecording' = TRUE
          /\ Goto("client", "attach")
          /\ UNCHANGED <<tasks, answers>> /\ NoFailure
       \/ /\ StartFails \/ (Goto("client", "idle") /\ UNCHANGED <<tasks, answers>>)
          /\ Failure
          /\ UNCHANGED <<mMuxer, muxerOf, tracks, signals, mIsRecording>>
    /\ UNCHANGED <<mIsAudioEnabled, mIsFirstVideoKeyFrameWrite, config, codecs, mMuxerStarted,
                   mVideoTrackIndex, mAudioTrackIndex, mRecordingFuture, begun,
                   mRecordingWaitRelease, threads, serves, errorOccurred, starts, ops, ends,
                   keyed, stopped, again, late>>

\* The surface goes to the renderer, the work to the threads that have not
\* quit.  No surface and no renderer are null pointers.
PostEncoding ==
    /\ At("client", "attach")
    /\ LET started == {e \in Encoding : mCameraSurface /\ (e = "audio" => mIsAudioEnabled)}
       IN  \/ posted' = [e \in Encoding |-> IF e \in started \ quit
                                            THEN Append(posted[e], starts) ELSE posted[e]]
           \/ RendererGone /\ UNCHANGED posted
    /\ Goto("client", "idle")
    /\ UNCHANGED <<flags, signals, config, codecs, muxer, cleanup, quit, serves,
                   errorOccurred, bounds, ends, history>>

-----------------------------------------------------------------------------
(***************************************************************************)
(* stopRecording, setConfig and setResolution, release                     *)
(***************************************************************************)
BeginStop ==
    /\ Begin("idle")
    /\ mIsRecording
    /\ StopRecording
    /\ UNCHANGED <<flags, mEndOfAudioVideoSignal, config, codecs, muxer, cleanup, threads,
                   serves, errorOccurred, starts, failures, ends, answers, keyed, calm, again,
                   late>>

\* The configuration or the size changes: only between recordings, which the
\* application has to see to, since nothing asks.  initVideoAudioEncoder makes
\* new codecs, and setupEncoder follows.
BeginSetConfig ==
    /\ Begin("setupVideo")
    /\ ~Busy
    /\ mConfig' \in BOOLEAN
    /\ mVideoEncoder' = "uninitialized" /\ mAudioEncoder' = "uninitialized"
    /\ mCameraSurface' = FALSE
    /\ UNCHANGED <<flags, signals, mVideoEncoderInitStatus, mAudioEncoderInitStatus,
                   mAudioRecorder, announced, muxer, cleanup, threads, serves,
                   errorOccurred, starts, failures, ends, history>>

\* CameraInternal.closeCamera: stopRecording, and later release.
BeginClose ==
    /\ At("listener", "idle") /\ ~closed
    /\ ops < MaxOps /\ ops' = ops + 1
    /\ closed' = TRUE
    /\ StopRecording
    /\ Goto("listener", "release")
    /\ UNCHANGED <<flags, mEndOfAudioVideoSignal, config, codecs, muxer, cleanup, threads,
                   serves, errorOccurred, starts, failures, died, released, answers, keyed,
                   calm, again, late>>

LeavesItToCleanUp ==                        \* mutant: does not look for a clean-up
    /\ At("listener", "release")
    /\ StopRecording
    /\ mRecordingWaitRelease' = TRUE
    /\ calm' = (calm /\ pc["client"] = "idle")
    /\ late' = (late \/ mRecordingFuture \in begun)
    /\ Goto("listener", "idle")
    /\ UNCHANGED <<flags, mEndOfAudioVideoSignal, config, codecs, muxer, mRecordingFuture,
                   tasks, begun, threads, serves, errorOccurred, bounds, ends, answers,
                   keyed, again>>

\* With a clean-up made, release leaves the rest to it, also if it has run.
ReleaseCapture ==
    /\ At("listener", "release")
    /\ StopRecording
    /\ IF mRecordingFuture # 0
       THEN mRecordingWaitRelease' = TRUE /\ UNCHANGED <<quit, codecs, released>>
       ELSE ReleaseResources /\ UNCHANGED <<mRecordingWaitRelease, announced>>
    /\ calm' = (calm /\ pc["client"] = "idle")
    /\ late' = (late \/ mRecordingFuture \in begun)
    /\ Goto("listener", "idle")
    /\ UNCHANGED <<flags, mEndOfAudioVideoSignal, config, muxer, mRecordingFuture, tasks,
                   begun, posted, serves, errorOccurred, bounds, died, closed, answers, keyed,
                   again>>

-----------------------------------------------------------------------------
(***************************************************************************)
(* The executor: the clean-up of a recording; and setupEncoder             *)
(***************************************************************************)
\* A FutureTask runs once.  It releases, if that was asked for, or sets up the
\* codecs for the next recording.
CallFuture ==
    /\ At("executor", "idle")
    /\ tasks # <<>>
    /\ tasks' = Tail(tasks)
    /\ begun' = begun \cup {Head(tasks)}
    /\ LET first == Head(tasks) \notin begun IN
       /\ Goto("executor", IF first /\ ~mRecordingWaitRelease THEN "setupVideo" ELSE "idle")
       /\ IF first /\ mRecordingWaitRelease
          THEN /\ mRecordingWaitRelease' = FALSE
               /\ ReleaseResources
               /\ mIsRecording' = FALSE
          ELSE UNCHANGED <<mRecordingWaitRelease, mVideoEncoder, mAudioEncoder,
                           mAudioRecorder, mCameraSurface, mIsRecording, quit, released>>
    /\ UNCHANGED <<mIsAudioEnabled, mIsFirstVideoKeyFrameWrite, signals, config, announced,
                   muxer, mRecordingFuture, posted, serves, errorOccurred, bounds, died,
                   closed, history>>

\* The video half of setupEncoder; a codec that was released meanwhile throws.
SetupVideo(t) ==
    /\ At(t, "setupVideo")
    /\ \/ /\ mVideoEncoder = "null"
          /\ Goto(t, "idle")
          /\ UNCHANGED <<mVideoEncoder, mCameraSurface, mVideoEncoderInitStatus>> /\ NoFailure
       \/ /\ mVideoEncoder # "null"
          /\ mVideoEncoder' = "configured" /\ mCameraSurface' = TRUE
          /\ mVideoEncoderInitStatus' = FALSE
          /\ Goto(t, "setupAudio") /\ NoFailure
       \/ /\ mVideoEncoder # "null"
          /\ mVideoEncoder' = "uninitialized" /\ UNCHANGED mCameraSurface
          /\ mVideoEncoderInitStatus' = TRUE
          /\ Goto(t, "idle") /\ Failure
    /\ UNCHANGED <<flags, signals, mAudioEncoderInitStatus, mConfig, mAudioEncoder,
                   mAudioRecorder, announced, muxer, cleanup, threads, serves, errorOccurred,
                   starts, ops, ends, answers, keyed, stopped, again, late>>

\* The audio half: without an audio codec it ends with an exception.  A
\* microphone that is not available disables audio.
SetupAudio(t) ==
    /\ At(t, "setupAudio")
    /\ mIsAudioEnabled' = mConfig
    /\ \/ /\ ~mConfig
          /\ Goto(t, "setupEnd")
          /\ UNCHANGED <<mAudioEncoder, mAudioRecorder, mAudioEncoderInitStatus>> /\ NoFailure
       \/ /\ mConfig /\ mAudioEncoder = "null"
          /\ Goto(t, "idle")
          /\ UNCHANGED <<mAudioEncoder, mAudioRecorder, mAudioEncoderInitStatus>> /\ NoFailure
       \/ /\ mConfig /\ mAudioEncoder # "null"
          /\ mAudioEncoder' = "configured"
          /\ Goto(t, "setupEnd") /\ UNCHANGED mAudioEncoderInitStatus
          /\ \/ mAudioRecorder' = "initialized" /\ NoFailure
             \/ mAudioRecorder' = "null" /\ Failure
       \/ /\ mConfig /\ mAudioEncoder # "null"
          /\ mAudioEncoder' = "uninitialized" /\ mAudioEncoderInitStatus' = TRUE
          /\ Goto(t, "idle") /\ UNCHANGED mAudioRecorder
          /\ Failure
    /\ UNCHANGED <<mIsRecording, mIsFirstVideoKeyFrameWrite, signals, mVideoEncoderInitStatus,
                   mConfig, mVideoEncoder, mCameraSurface, announced, muxer, cleanup, threads,
                   serves, errorOccurred, starts, ops, ends, answers, keyed, stopped, again,
                   late>>

SetupEnd(t) ==
    /\ At(t, "setupEnd")
    /\ mIsAudioEnabled' = (mIsAudioEnabled /\ mAudioRecorder # "null")
    /\ mVideoTrackIndex' = FALSE /\ mAudioTrackIndex' = FALSE
    /\ mIsRecording' = FALSE
    /\ Goto(t, "idle")
    /\ UNCHANGED <<mIsFirstVideoKeyFrameWrite, signals, config, codecs, mMuxer, muxerOf,
                   tracks, mMuxerStarted, cleanup, threads, serves, errorOccurred, bounds,
                   ends, history>>

-----------------------------------------------------------------------------
(***************************************************************************)
(* The video thread: videoEncode                                           *)
(***************************************************************************)
BeginVideo ==
    /\ At("video", "idle")
    /\ posted["video"] # <<>>
    /\ serves' = [serves EXCEPT !["video"] = Head(posted["video"])]
    /\ posted' = [posted EXCEPT !["video"] = Tail(@)]
    /\ Goto("video", "check")
    /\ UNCHANGED <<flags, signals, config, codecs, muxer, cleanup, quit, errorOccurred,
                   bounds, ends, history>>

\* An IllegalStateException of the loop is reported and ends it.
EncodeFails == /\ errorOccurred' = TRUE
               /\ Answer(serves["video"], "error")
               /\ Goto("video", "stopEncoder")

CheckVideoSignal ==
    /\ At("video", "check")
    /\ \/ /\ ~mEndOfVideoStreamSignal
          /\ Goto("video", "dequeue")
          /\ UNCHANGED <<mEndOfVideoStreamSignal, mVideoEncoder, errorOccurred, answers,
                         died>>
       \/ /\ mEndOfVideoStreamSignal /\ mVideoEncoder \in {"executing", "draining"}
          /\ mVideoEncoder' = "draining"
          /\ mEndOfVideoStreamSignal' = FALSE
          /\ Goto("video", "dequeue")
          /\ UNCHANGED <<errorOccurred, answers, died>>
       \/ /\ mEndOfVideoStreamSignal /\ mVideoEncoder \in {"configured", "uninitialized"}
          /\ EncodeFails
          /\ UNCHANGED <<mEndOfVideoStreamSignal, mVideoEncoder, died>>
       \/ /\ mEndOfVideoStreamSignal /\ mVideoEncoder = "null"
          /\ Die
          /\ UNCHANGED <<mEndOfVideoStreamSignal, mVideoEncoder, errorOccurred, answers, pc>>
    /\ UNCHANGED <<flags, mEndOfAudioStreamSignal, mEndOfAudioVideoSignal, config,
                   mAudioEncoder, mAudioRecorder, mCameraSurface, announced, muxer, cleanup,
                   threads, serves, bounds, closed, released, keyed, stopped, calm, again,
                   late>>

\* The muxer starts when it has every track it waits for.
MuxerStarts(ready) ==
    IF ready THEN mMuxer' = "started" /\ mMuxerStarted' = TRUE
    ELSE UNCHANGED <<mMuxer, mMuxerStarted>>

\* A format that changes once more while the muxer runs is an error, which is
\* reported; the track is added all the same, which throws.
VideoFormatChanged ==
    /\ At("video", "dequeue")
    /\ mVideoEncoder \in {"executing", "draining"}
    /\ announced' = announced \cup {"video"}
    /\ IF "video" \in announced THEN Failure ELSE NoFailure
    /\ \/ /\ mMuxer = "created"
          /\ tracks' = tracks \cup {<<"video", serves["video"]>>}
          /\ mVideoTrackIndex' = TRUE
          /\ MuxerStarts(~mIsAudioEnabled \/ mAudioTrackIndex)
          /\ Goto("video", "check")
          /\ UNCHANGED <<errorOccurred, answers, died>>
       \/ /\ mMuxer = "started"
          /\ EncodeFails
          /\ UNCHANGED <<tracks, mVideoTrackIndex, mMuxer, mMuxerStarted, died>>
       \/ /\ mMuxer = "null"
          /\ Die
          /\ UNCHANGED <<tracks, mVideoTrackIndex, mMuxer, mMuxerStarted, errorOccurred,
                         answers, pc>>
    /\ UNCHANGED <<flags, signals, config, mVideoEncoder, mAudioEncoder, mAudioRecorder,
                   mCameraSurface, muxerOf, mAudioTrackIndex, cleanup, threads, serves,
                   starts, ops, closed, released, keyed, stopped, again, late>>

\* writeVideoEncodedBuffer of a key frame; before the muxer has started, and
\* for a later frame, nothing changes.  A codec that was told to end has
\* finitely many frames left: those that change nothing are left out.
WriteVideo ==
    /\ At("video", "dequeue")
    /\ LET first == mMuxerStarted /\ ~mIsFirstVideoKeyFrameWrite /\ mMuxer = "started" IN
       /\ mVideoEncoder = "executing" \/ (mVideoEncoder = "draining" /\ first)
       /\ IF first THEN /\ mIsFirstVideoKeyFrameWrite' = TRUE
                        /\ keyed' = keyed \cup {serves["video"]}
          ELSE UNCHANGED <<mIsFirstVideoKeyFrameWrite, keyed>>
    /\ Goto("video", "check")
    /\ UNCHANGED <<mIsRecording, mIsAudioEnabled, signals, config, codecs, muxer, cleanup,
                   threads, serves, errorOccurred, bounds, ends, answers, stopped, calm,
                   again, late>>

\* INFO_TRY_AGAIN_LATER, the end of a stream that was told to end, or a codec
\* that is not executing or fails.
DequeueVideo ==
    /\ At("video", "dequeue")
    /\ \/ /\ mVideoEncoder = "executing"
          /\ Goto("video", "check")
          /\ UNCHANGED <<errorOccurred, answers, died>> /\ NoFailure
       \/ /\ mVideoEncoder = "draining"
          /\ Goto("video", "stopEncoder")
          /\ UNCHANGED <<errorOccurred, answers, died>> /\ NoFailure
       \/ /\ mVideoEncoder \in {"configured", "uninitialized"}
          /\ EncodeFails
          /\ UNCHANGED died /\ NoFailure
       \/ /\ mVideoEncoder \in {"executing", "draining"}
          /\ EncodeFails
          /\ UNCHANGED died /\ Failure
       \/ /\ mVideoEncoder = "null"
          /\ Die
          /\ UNCHANGED <<errorOccurred, answers, pc>> /\ NoFailure
    /\ UNCHANGED <<flags, signals, config, codecs, muxer, cleanup, threads, serves, starts,
                   ops, closed, released, keyed, stopped, again, late>>

StopVideoEncoder ==
    /\ At("video", "stopEncoder")
    /\ \/ /\ mVideoEncoder # "null"
          /\ mVideoEncoder' = "uninitialized" /\ announced' = announced \ {"video"}
          /\ Goto("video", "stopMuxer")
          /\ \/ UNCHANGED <<errorOccurred, answers>> /\ NoFailure
             \/ errorOccurred' = TRUE /\ Answer(serves["video"], "error") /\ Failure
          /\ UNCHANGED died
       \/ /\ mVideoEncoder = "null"
          /\ Die
          /\ UNCHANGED <<mVideoEncoder, announced, errorOccurred, answers, pc>> /\ NoFailure
    /\ UNCHANGED <<flags, signals, config, mAudioEncoder, mAudioRecorder, mCameraSurface,
                   muxer, cleanup, threads, serves, starts, ops, closed, released,
                   keyed, stopped, again, late>>

SavesWithoutKeyFrame ==                     \* mutant: the key frame is not asked for
    /\ At("video", "stopMuxer")
    /\ mMuxer' = "null"
    /\ Goto("video", "finish")
    /\ UNCHANGED <<flags, signals, config, codecs, muxerOf, tracks, mMuxerStarted,
                   mVideoTrackIndex, mAudioTrackIndex, cleanup, threads, serves,
                   errorOccurred, bounds, ends, history>>

\* A muxer that started without a sample throws when it is stopped, and stays.
\* The key frame decides what is reported.
StopMuxer ==
    /\ At("video", "stopMuxer")
    /\ \/ /\ mMuxer' = "null" /\ tracks' = {}
          /\ IF mIsFirstVideoKeyFrameWrite THEN UNCHANGED <<errorOccurred, answers>>
             ELSE errorOccurred' = TRUE /\ Answer(serves["video"], "short")
          /\ NoFailure
       \/ /\ mMuxer # "null" /\ mMuxerStarted
          /\ UNCHANGED <<mMuxer, tracks>>
          /\ errorOccurred' = TRUE
          /\ Answer(serves["video"], IF mIsFirstVideoKeyFrameWrite THEN "error" ELSE "short")
          /\ IF serves["video"] \in keyed THEN Failure ELSE NoFailure
    /\ Goto("video", "finish")
    /\ UNCHANGED <<flags, signals, config, codecs, muxerOf, mMuxerStarted, mVideoTrackIndex,
                   mAudioTrackIndex, cleanup, threads, serves, starts, ops, ends, keyed,
                   stopped, again, late>>

FinishVideo ==
    /\ At("video", "finish")
    /\ mMuxerStarted' = FALSE
    /\ mEndOfAudioVideoSignal' = TRUE
    /\ mIsFirstVideoKeyFrameWrite' = FALSE
    /\ Goto("video", "answer")
    /\ UNCHANGED <<mIsRecording, mIsAudioEnabled, mEndOfVideoStreamSignal,
                   mEndOfAudioStreamSignal, config, codecs, mMuxer, muxerOf, tracks,
                   mVideoTrackIndex, mAudioTrackIndex, cleanup, threads, serves,
                   errorOccurred, bounds, ends, history>>

\* The last clean-up made is run, be it of this recording or not.
AnswerVideo ==
    /\ At("video", "answer")
    /\ IF errorOccurred THEN UNCHANGED answers ELSE Answer(serves["video"], "saved")
    /\ tasks' = Append(tasks, mRecordingFuture)
    /\ serves' = [serves EXCEPT !["video"] = 0]
    /\ errorOccurred' = FALSE
    /\ Goto("video", "idle")
    /\ UNCHANGED <<flags, signals, config, codecs, muxer, mRecordingFuture, begun,
                   mRecordingWaitRelease, threads, bounds, ends, keyed, stopped, calm, again,
                   late>>

-----------------------------------------------------------------------------
(***************************************************************************)
(* The audio thread: audioEncode                                           *)
(***************************************************************************)
BeginAudio ==
    /\ At("audio", "idle")
    /\ posted["audio"] # <<>>
    /\ serves' = [serves EXCEPT !["audio"] = Head(posted["audio"])]
    /\ posted' = [posted EXCEPT !["audio"] = Tail(@)]
    /\ Goto("audio", "check")
    /\ UNCHANGED <<flags, signals, config, codecs, muxer, cleanup, quit, errorOccurred,
                   bounds, ends, history>>

SignalsVideoFirst ==                        \* mutant: the video ends before the audio
    /\ At("audio", "check")
    /\ IF mIsRecording
       THEN /\ Goto("audio", "dequeue")
            /\ mEndOfAudioStreamSignal' = FALSE
            /\ mEndOfVideoStreamSignal' = (mEndOfVideoStreamSignal \/ mEndOfAudioStreamSignal)
            /\ mIsRecording' = ~mEndOfAudioStreamSignal
       ELSE /\ Goto("audio", "stopAudio")
            /\ UNCHANGED <<mEndOfAudioStreamSignal, mEndOfVideoStreamSignal, mIsRecording>>
    /\ UNCHANGED <<mIsAudioEnabled, mIsFirstVideoKeyFrameWrite, mEndOfAudioVideoSignal,
                   config, codecs, muxer, cleanup, threads, serves, errorOccurred, bounds,
                   ends, history>>

AudioDrains ==                              \* mutant: the audio codec is told its end, too
    /\ At("audio", "check")
    /\ IF mIsRecording
       THEN /\ Goto("audio", "dequeue")
            /\ mEndOfAudioStreamSignal' = FALSE
            /\ mIsRecording' = ~mEndOfAudioStreamSignal
            /\ mAudioEncoder' = IF mEndOfAudioStreamSignal THEN "draining" ELSE mAudioEncoder
       ELSE /\ Goto("audio", "stopAudio")
            /\ UNCHANGED <<mEndOfAudioStreamSignal, mIsRecording, mAudioEncoder>>
    /\ UNCHANGED <<mIsAudioEnabled, mIsFirstVideoKeyFrameWrite, mEndOfVideoStreamSignal,
                   mEndOfAudioVideoSignal, config, mVideoEncoder, mAudioRecorder,
                   mCameraSurface, announced, muxer, cleanup, threads, serves, errorOccurred,
                   bounds, ends, history>>

CheckAudioSignal ==
    /\ At("audio", "check")
    /\ IF mIsRecording
       THEN /\ Goto("audio", "dequeue")
            /\ mEndOfAudioStreamSignal' = FALSE
            /\ mIsRecording' = ~mEndOfAudioStreamSignal
       ELSE Goto("audio", "stopAudio") /\ UNCHANGED <<mEndOfAudioStreamSignal, mIsRecording>>
    /\ UNCHANGED <<mIsAudioEnabled, mIsFirstVideoKeyFrameWrite, mEndOfVideoStreamSignal,
                   mEndOfAudioVideoSignal, config, codecs, muxer, cleanup, threads, serves,
                   errorOccurred, bounds, ends, history>>

\* dequeueOutputBuffer and addTrack throw uncaught; writing does not.
DequeueAudio ==
    /\ At("audio", "dequeue")
    /\ LET usable == mAudioEncoder # "null" /\ mAudioRecorder # "null" IN
       \/ Goto("audio", "check") /\ UNCHANGED died /\ NoFailure
          /\ (usable => mAudioEncoder = "executing")
       \/ usable /\ mAudioEncoder # "executing" /\ Die /\ UNCHANGED pc /\ NoFailure
       \/ usable /\ mAudioEncoder = "executing" /\ Die /\ UNCHANGED pc /\ Failure
    /\ UNCHANGED <<flags, signals, config, codecs, muxer, cleanup, threads, serves,
                   errorOccurred, starts, ops, closed, released, answers, keyed, stopped,
                   again, late>>

AudioFormatChanged ==
    /\ At("audio", "dequeue")
    /\ mAudioEncoder = "executing" /\ mAudioRecorder # "null"
    /\ announced' = announced \cup {"audio"}
    /\ IF "audio" \in announced THEN Failure ELSE NoFailure
    /\ \/ /\ mMuxer = "created"
          /\ tracks' = tracks \cup {<<"audio", serves["audio"]>>}
          /\ mAudioTrackIndex' = TRUE
          /\ MuxerStarts(mVideoTrackIndex)
          /\ Goto("audio", "check")
          /\ UNCHANGED died
       \/ /\ mMuxer # "created"
          /\ Die
          /\ UNCHANGED <<tracks, mAudioTrackIndex, mMuxer, mMuxerStarted, pc>>
    /\ UNCHANGED <<flags, signals, config, mVideoEncoder, mAudioEncoder, mAudioRecorder,
                   mCameraSurface, muxerOf, mVideoTrackIndex, cleanup, threads, serves,
                   errorOccurred, starts, ops, closed, released, answers, keyed, stopped,
                   again, late>>

AudioEndsSilently ==                        \* mutant: the video is not told to end
    /\ At("audio", "stopAudio")
    /\ mAudioRecorder' = "initialized" /\ mAudioEncoder' = "uninitialized"
    /\ announced' = announced \ {"audio"}
    /\ serves' = [serves EXCEPT !["audio"] = 0]
    /\ Goto("audio", "idle")
    /\ UNCHANGED <<flags, signals, config, mVideoEncoder, mCameraSurface, muxer, cleanup,
                   threads, errorOccurred, bounds, ends, history>>

\* The microphone and the codec stop, then the video is told to end.
StopAudio ==
    /\ At("audio", "stopAudio")
    /\ \/ /\ mAudioRecorder # "null" /\ mAudioEncoder # "null"
          /\ mAudioRecorder' = "initialized" /\ mAudioEncoder' = "uninitialized"
          /\ announced' = announced \ {"audio"}
          /\ mEndOfVideoStreamSignal' = TRUE
          /\ \/ UNCHANGED answers /\ NoFailure
             \/ Answer(serves["audio"], "error") /\ Failure
          /\ serves' = [serves EXCEPT !["audio"] = 0]
          /\ Goto("audio", "idle")
          /\ UNCHANGED died
       \/ /\ ~(mAudioRecorder # "null" /\ mAudioEncoder # "null")
          /\ Die
          /\ UNCHANGED <<mAudioRecorder, mAudioEncoder, announced, mEndOfVideoStreamSignal,
                         answers, pc, serves>>
          /\ NoFailure
    /\ UNCHANGED <<flags, mEndOfAudioStreamSignal, mEndOfAudioVideoSignal, config,
                   mVideoEncoder, mCameraSurface, muxer, cleanup, threads,
                   errorOccurred, starts, ops, closed, released, keyed, stopped, again, late>>

-----------------------------------------------------------------------------
Application == BeginStart \/ BeginStop \/ BeginSetConfig \/ BeginClose

Client ==
    \/ RefuseStart \/ StartAudioInput \/ StartEncoders \/ InitMediaMuxer
    \/ PostEncoding
    \/ SetupVideo("client") \/ SetupAudio("client") \/ SetupEnd("client")

Executor == CallFuture \/ SetupVideo("executor") \/ SetupAudio("executor")
            \/ SetupEnd("executor")

Video ==
    \/ BeginVideo \/ CheckVideoSignal \/ VideoFormatChanged \/ WriteVideo \/ DequeueVideo
    \/ StopVideoEncoder \/ StopMuxer \/ FinishVideo \/ AnswerVideo

Audio == BeginAudio \/ CheckAudioSignal \/ DequeueAudio \/ AudioFormatChanged \/ StopAudio

Next == Application \/ Client \/ ReleaseCapture \/ Executor \/ Video \/ Audio

Spec == Init /\ [][Next]_vars

Fairness ==
    /\ WF_vars(Client) /\ WF_vars(ReleaseCapture) /\ WF_vars(Executor)
    /\ WF_vars(Video) /\ WF_vars(Audio)
FairSpec == Spec /\ Fairness
-----------------------------------------------------------------------------
\* calm: no call of Android failed, no recording was started before the last
\* clean-up was over, and the capture was not released during a start.

\* The process survives: no encoding thread uses a codec, microphone or muxer
\* that another thread has released, and none adds a track to a muxer that
\* runs (VideoCapture.java:907, 764).
Survives == calm => ~died

\* A file holds tracks of its own recording only: the audio thread of a
\* recording is never left behind to write into the next one's file
\* (VideoCapture.java:853).
OwnFile == calm => \A track \in tracks : track[2] = muxerOf

\* A recording is reported saved only if its file has a key frame, and too
\* short only if it has none, unless startRecording was called meanwhile,
\* which resets the flag first (VideoCapture.java:298, 815).
KeyFrameDecides ==
    \A r \in Recordings :
        /\ "saved" \in answers[r] => r \in keyed
        /\ "short" \in answers[r] /\ ~again => r \notin keyed

\* A recording told to stop is answered, whichever of audio and video it has
\* (VideoCapture.java:454, 463).
StoppedAnswered ==
    \A r \in Recordings : r \in stopped ~> (answers[r] # {} \/ ~calm)

\* A capture that is closed releases what it holds, during a recording too:
\* unless its clean-up had run before (VideoCapture.java:476).
ClosedReleased == closed ~> (released \/ ~calm \/ late)
=============================================================================
