-------------------------- MODULE VideoCaptureProofs --------------------------
(***************************************************************************)
(* Proofs about VideoCapture for any number of recordings, operations and  *)
(* failures: types, and KeyFrameDecides.                                   *)
(*                                                                         *)
(* The inductive invariant says, besides the types, that whoever works for *)
(* a recording works for one that was started (WorkOK); that one recording *)
(* at a time is under way, since mEndOfAudioVideoSignal is tested and      *)
(* cleared by the client only (OneAtATime); that the key frame flag is     *)
(* that of the recording the video thread encodes (FlagOK); and that a     *)
(* recording nobody has encoded yet has no key frame and no answer that    *)
(* says so (FreshOK).                                                      *)
(***************************************************************************)
EXTENDS VideoCapture, SequenceTheorems, TLAPS

StartPlaces == {"check", "encoders", "muxer", "attach"}
VideoLoop == {"check", "dequeue", "stopEncoder", "stopMuxer"}

\* Whoever works for a recording has one.
WorkOK ==
    /\ pc["client"] \in StartPlaces => starts # 0
    /\ \A e \in Encoding : pc[e] # "idle" => serves[e] # 0
    /\ ~mEndOfAudioVideoSignal => muxerOf # 0

\* One recording at a time is begun, posted or encoded.
OneAtATime ==
    /\ pc["client"] \in {"encoders", "muxer"} => mEndOfAudioVideoSignal
    /\ mEndOfAudioVideoSignal => /\ pc["client"] # "attach"
                                 /\ posted["video"] = <<>>
                                 /\ pc["video"] \in {"idle", "answer"}
    /\ pc["client"] = "attach" => posted["video"] = <<>> /\ pc["video"] \in {"idle", "answer"}
    /\ posted["video"] # <<>> => Len(posted["video"]) = 1 /\ pc["video"] \in {"idle", "answer"}

\* What the key frame flag says, and what is left of it at the end.
FlagOK ==
    /\ mIsFirstVideoKeyFrameWrite =>
        pc["video"] \in VideoLoop \cup {"finish"} /\ serves["video"] \in keyed
    /\ pc["video"] \in {"finish", "answer"} /\ ~errorOccurred => serves["video"] \in keyed

\* A recording with neither a key frame nor an answer about it.
Fresh(r) == r \notin keyed /\ "short" \notin answers[r]

FreshOK ==
    /\ serves["video"] <= starts
    /\ \A r \in Recordings : starts < r => Fresh(r)
    /\ pc["client"] \in StartPlaces => Fresh(starts)
    /\ pc["client"] = "check" => serves["video"] < starts
    /\ posted["video"] # <<>> =>
        /\ Fresh(Head(posted["video"])) /\ Head(posted["video"]) <= starts
        /\ pc["client"] = "check" => Head(posted["video"]) < starts
    /\ pc["video"] \in VideoLoop =>
        /\ "short" \notin answers[serves["video"]]
        /\ serves["video"] \in keyed => again \/ mIsFirstVideoKeyFrameWrite

\* The types: of the flags, of the resources and the threads, of how it ends,
\* and of what there is to do.
FlagTypes ==
    /\ mIsRecording \in BOOLEAN /\ mIsAudioEnabled \in BOOLEAN
    /\ mIsFirstVideoKeyFrameWrite \in BOOLEAN
    /\ mEndOfVideoStreamSignal \in BOOLEAN /\ mEndOfAudioStreamSignal \in BOOLEAN
    /\ mEndOfAudioVideoSignal \in BOOLEAN
    /\ mVideoEncoderInitStatus \in BOOLEAN /\ mAudioEncoderInitStatus \in BOOLEAN
    /\ mConfig \in BOOLEAN
ResourceFlags ==
    /\ mCameraSurface \in BOOLEAN /\ mMuxerStarted \in BOOLEAN
    /\ mVideoTrackIndex \in BOOLEAN /\ mAudioTrackIndex \in BOOLEAN
    /\ mRecordingWaitRelease \in BOOLEAN /\ errorOccurred \in BOOLEAN
EndTypes ==
    /\ died \in BOOLEAN /\ closed \in BOOLEAN /\ released \in BOOLEAN
    /\ calm \in BOOLEAN /\ again \in BOOLEAN /\ late \in BOOLEAN
StatesOK ==
    /\ mVideoEncoder \in Codecs /\ mAudioEncoder \in Codecs \ {"draining"}
    /\ mAudioRecorder \in {"null", "initialized", "recording"}
    /\ announced \subseteq Encoding
    /\ mMuxer \in {"null", "created", "started"} /\ muxerOf \in 0..MaxStarts
    /\ tracks \subseteq Encoding \X Recordings /\ quit \subseteq Encoding
    /\ pc \in [Threads -> Places] /\ serves \in [Encoding -> 0..MaxStarts]
WorkTypes ==
    /\ mRecordingFuture \in 0..MaxStarts /\ tasks \in Seq(0..MaxStarts)
    /\ begun \subseteq 0..MaxStarts /\ posted \in [Encoding -> Seq(Recordings)]
    /\ starts \in 0..MaxStarts /\ ops \in 0..MaxOps /\ failures \in 0..MaxFailures
    /\ answers \in [Recordings -> SUBSET Answers]
    /\ keyed \subseteq Recordings /\ stopped \subseteq Recordings

\* The inductive invariant.
IInv == TypeOK /\ WorkOK /\ OneAtATime /\ FlagOK /\ FreshOK /\ KeyFrameDecides

\* What a step may add to the answers.
AnswersAdd ==
    /\ answers' \in [Recordings -> SUBSET Answers]
    /\ \A r \in Recordings :
        /\ "saved" \in answers'[r] =>
            \/ "saved" \in answers[r]
            \/ /\ pc["video"] = "answer" /\ pc'["video"] = "idle"
               /\ r = serves["video"] /\ ~errorOccurred
        /\ "short" \in answers'[r] =>
            \/ "short" \in answers[r]
            \/ /\ pc["video"] = "stopMuxer" /\ pc'["video"] = "finish"
               /\ r = serves["video"] /\ ~mIsFirstVideoKeyFrameWrite

\* Answer adds one answer to one recording.
LEMMA AnswerAdds ==
  ASSUME NEW r \in Recordings, NEW a \in Answers, WorkTypes, Answer(r, a)
  PROVE  /\ answers' \in [Recordings -> SUBSET Answers]
         /\ \A s \in Recordings : \A b \in Answers :
                b \in answers'[s] => b \in answers[s] \/ (s = r /\ b = a)
<1>1. answers \in [Recordings -> SUBSET Answers] BY DEF WorkTypes
<1>2. answers' = [answers EXCEPT ![r] = @ \cup {a}] BY DEF Answer
<1> QED BY <1>1, <1>2

\* An error is an answer that KeyFrameDecides does not speak of.
LEMMA ErrorAdds ==
  ASSUME WorkTypes, (\E r \in Recordings : Answer(r, "error")) \/ UNCHANGED answers
  PROVE  AnswersAdd
<1>1. CASE \E r \in Recordings : Answer(r, "error")
  <2>1. PICK r \in Recordings : Answer(r, "error") BY <1>1
  <2>2. "error" \in Answers /\ "saved" \in Answers /\ "short" \in Answers BY DEF Answers
  <2> QED BY <2>1, <2>2, AnswerAdds DEF AnswersAdd
<1>2. CASE UNCHANGED answers BY <1>2 DEF AnswersAdd, WorkTypes
<1> QED BY <1>1, <1>2

\* What the threads take from their queues, and what stopRecording tells.
LEMMA PostedHead ==
  ASSUME NEW e \in Encoding, WorkTypes, posted[e] # <<>>
  PROVE  Head(posted[e]) \in Recordings /\ Tail(posted[e]) \in Seq(Recordings)
<1>1. posted[e] \in Seq(Recordings) BY DEF WorkTypes
<1> QED BY <1>1

LEMMA ServedNext ==
  ASSUME NEW e \in Encoding, WorkTypes, posted[e] # <<>>
  PROVE  Head(posted[e]) \in 0..MaxStarts
<1>1. Head(posted[e]) \in Recordings BY PostedHead
<1> QED BY <1>1, BoundsAssumption DEF Recordings

LEMMA TasksHead ==
  ASSUME WorkTypes, tasks # <<>>
  PROVE  Head(tasks) \in 0..MaxStarts /\ Tail(tasks) \in Seq(0..MaxStarts)
<1>1. tasks \in Seq(0..MaxStarts) BY DEF WorkTypes
<1> QED BY <1>1, tasks # <<>>, HeadTailProperties

LEMMA TasksAppend ==
  ASSUME WorkTypes
  PROVE  Append(tasks, mRecordingFuture) \in Seq(0..MaxStarts)
BY DEF WorkTypes

\* A step that neither starts a recording nor takes one over, nor ends the
\* encoding of one, leaves the fresh recordings fresh.
LEMMA FreshKept ==
  ASSUME StatesOK, WorkTypes, WorkOK, FreshOK, AnswersAdd,
         UNCHANGED <<starts, keyed, again>>,
         UNCHANGED mIsFirstVideoKeyFrameWrite \/ pc'["video"] \notin VideoLoop,
         posted'["video"] = posted["video"], serves'["video"] = serves["video"],
         pc'["client"] # pc["client"] =>
            pc'["client"] # "check"
            /\ (pc["client"] \in StartPlaces \/ pc'["client"] \notin StartPlaces),
         pc["video"] # "stopMuxer" \/ pc'["video"] # "finish",
         pc'["video"] \in VideoLoop => pc["video"] \in VideoLoop
  PROVE  FreshOK'
<1>1. \A r \in Recordings : Fresh(r) => Fresh(r)'
  BY DEF AnswersAdd, Fresh
<1>2. pc'["client"] \in StartPlaces => pc["client"] \in StartPlaces
  BY DEF StartPlaces
<1>3. pc["client"] \in StartPlaces => starts \in Recordings
  BY BoundsAssumption DEF WorkOK, WorkTypes, Recordings
<1>4. posted["video"] # <<>> => Head(posted["video"]) \in Recordings
  BY PostedHead DEF Encoding
<1>5. pc["video"] \in VideoLoop => serves["video"] \in Recordings
  BY BoundsAssumption DEF WorkOK, StatesOK, Recordings, Encoding, VideoLoop
<1>6. pc["video"] \in VideoLoop /\ "short" \notin answers[serves["video"]]
        => "short" \notin answers'[serves["video"]]
  BY <1>5 DEF AnswersAdd
<1>7. pc'["client"] = "check" => pc["client"] = "check" OBVIOUS
<1>8. \A r \in Recordings : starts' < r => Fresh(r)' BY <1>1 DEF FreshOK
<1>9. pc'["client"] \in StartPlaces => Fresh(starts)' BY <1>1, <1>2, <1>3 DEF FreshOK, Fresh
<1>10. posted'["video"] # <<>> =>
        /\ Fresh(Head(posted["video"]))' /\ Head(posted'["video"]) <= starts'
        /\ pc'["client"] = "check" => Head(posted'["video"]) < starts'
  BY <1>1, <1>4, <1>7 DEF FreshOK, Fresh
<1>11. pc'["video"] \in VideoLoop =>
        /\ "short" \notin answers'[serves'["video"]]
        /\ serves'["video"] \in keyed' => again' \/ mIsFirstVideoKeyFrameWrite'
  BY <1>6 DEF FreshOK
<1> QED BY <1>7, <1>8, <1>9, <1>10, <1>11 DEF FreshOK, Fresh

LEMMA StopTells ==
  ASSUME StatesOK, WorkTypes, WorkOK, StopRecording
  PROVE  stopped' \subseteq Recordings
<1>1. CASE UNCHANGED stopped BY <1>1 DEF WorkTypes
<1>2. CASE ~mEndOfAudioVideoSignal /\ stopped' = stopped \cup {muxerOf}
  <2>1. muxerOf \in Recordings BY <1>2, BoundsAssumption DEF WorkOK, StatesOK, Recordings
  <2> QED BY <1>2, <2>1 DEF WorkTypes
<1> QED BY <1>1, <1>2 DEF StopRecording

\* The steps that start a recording, hand it over, encode it and end it.
LEMMA FreshStart ==
  ASSUME StatesOK, WorkTypes, OneAtATime, FreshOK, BeginStart
  PROVE  FreshOK'
<1>1. /\ starts' = starts + 1 /\ starts < MaxStarts
      /\ UNCHANGED <<answers, keyed, posted, serves>>
      /\ again' = (again \/ ~mEndOfAudioVideoSignal)
      /\ pc'["video"] = pc["video"] /\ starts \in 0..MaxStarts
  BY DEF BeginStart, Begin, Goto, control, threads, StatesOK, WorkTypes, Threads
<1>2. starts' \in Recordings BY <1>1, BoundsAssumption DEF Recordings
<1>3. \A r \in Recordings : Fresh(r)' <=> Fresh(r) BY <1>1 DEF Fresh
<1>4. \A r \in Recordings : starts < r => Fresh(r)' BY <1>3 DEF FreshOK
<1>5. Fresh(starts)' /\ \A r \in Recordings : starts' < r => Fresh(r)'
  <2>1. Fresh(starts') BY <1>1, <1>2, BoundsAssumption DEF FreshOK, Recordings
  <2>2. Fresh(starts)' BY <2>1, <1>1 DEF Fresh
  <2>3. \A r \in Recordings : starts' < r => starts < r
    BY <1>1, BoundsAssumption DEF Recordings
  <2> QED BY <2>2, <2>3, <1>4
<1>6. serves["video"] <= starts /\ serves["video"] \in 0..MaxStarts
  BY DEF FreshOK, StatesOK, Encoding
<1>7. serves'["video"] < starts' /\ serves'["video"] <= starts'
  BY <1>1, <1>6, BoundsAssumption
<1>8. posted'["video"] # <<>> =>
        /\ Fresh(Head(posted["video"]))' /\ Head(posted'["video"]) <= starts'
        /\ Head(posted'["video"]) < starts'
  <2>1. SUFFICES ASSUME posted["video"] # <<>>
                 PROVE  /\ Fresh(Head(posted["video"]))' /\ Head(posted["video"]) <= starts'
                        /\ Head(posted["video"]) < starts'
    BY <1>1
  <2>2. Head(posted["video"]) \in Recordings BY <2>1, PostedHead DEF Encoding
  <2>3. Fresh(Head(posted["video"])) /\ Head(posted["video"]) <= starts BY <2>1 DEF FreshOK
  <2>4. Fresh(Head(posted["video"]))' BY <2>3, <1>1 DEF Fresh
  <2> QED BY <2>2, <2>3, <2>4, <1>1, BoundsAssumption DEF Recordings
<1>9. pc'["video"] \in VideoLoop =>
        /\ "short" \notin answers'[serves'["video"]] /\ again'
  BY <1>1 DEF FreshOK, OneAtATime, VideoLoop
<1> QED BY <1>5, <1>7, <1>8, <1>9, <1>1 DEF FreshOK, Fresh

\* What is posted: nothing, or the recording behind what waits already.
LEMMA PostedStep ==
  ASSUME WorkTypes, PostEncoding
  PROVE  /\ posted' = [e \in Encoding |-> posted'[e]]
         /\ \A e \in Encoding : posted'[e] \in {posted[e], Append(posted[e], starts)}
<1>1. posted = [e \in Encoding |-> posted[e]]
  BY DEF WorkTypes
<1>2. CASE posted' = posted
  BY <1>1, <1>2
<1>3. CASE posted' # posted
  <2>1. PICK S : posted' = [e \in Encoding |-> IF e \in S THEN Append(posted[e], starts)
                                                          ELSE posted[e]]
    BY <1>3 DEF PostEncoding
  <2> QED BY <2>1
<1> QED BY <1>2, <1>3

LEMMA FreshPost ==
  ASSUME StatesOK, WorkTypes, WorkOK, OneAtATime, FreshOK, PostEncoding
  PROVE  FreshOK'
<1>1. /\ UNCHANGED <<starts, keyed, again, answers, serves, mIsFirstVideoKeyFrameWrite>>
      /\ pc["client"] = "attach" /\ pc'["client"] = "idle" /\ pc'["video"] = pc["video"]
  BY DEF PostEncoding, At, Goto, flags, bounds, history, StatesOK, Threads
<1>2. posted["video"] = <<>> BY <1>1 DEF OneAtATime
<1>3. posted'["video"] = <<>> \/ posted'["video"] = Append(<<>>, starts)
  BY <1>2 DEF PostEncoding, Encoding
<1>4. Head(Append(<<>>, starts)) = starts OBVIOUS
<1>5. starts <= starts BY DEF WorkTypes
<1>6. Fresh(starts)' BY <1>1 DEF FreshOK, Fresh, StartPlaces
<1>7. \A r \in Recordings : starts' < r => Fresh(r)' BY <1>1 DEF FreshOK, Fresh
<1>8. pc'["client"] \notin StartPlaces BY <1>1 DEF StartPlaces
<1>9. pc'["video"] \in VideoLoop =>
        /\ "short" \notin answers'[serves'["video"]]
        /\ serves'["video"] \in keyed' => again' \/ mIsFirstVideoKeyFrameWrite'
  BY <1>1 DEF FreshOK
<1>10. serves'["video"] <= starts' BY <1>1 DEF FreshOK
<1>11. posted'["video"] # <<>> =>
        Fresh(Head(posted["video"]))' /\ Head(posted'["video"]) <= starts'
  BY <1>1, <1>3, <1>4, <1>5, <1>6 DEF Fresh
<1> QED BY <1>1, <1>7, <1>8, <1>9, <1>10, <1>11 DEF FreshOK, Fresh, StartPlaces

LEMMA FreshBegin ==
  ASSUME StatesOK, WorkTypes, OneAtATime, FreshOK, BeginVideo
  PROVE  FreshOK'
<1>1. /\ UNCHANGED <<starts, keyed, answers, again, mIsFirstVideoKeyFrameWrite>>
      /\ posted["video"] # <<>> /\ posted'["video"] = Tail(posted["video"])
      /\ serves'["video"] = Head(posted["video"]) /\ pc'["client"] = pc["client"]
  BY DEF BeginVideo, Goto, flags, bounds, history, StatesOK, WorkTypes, Threads, Encoding
<1>2. posted'["video"] = <<>>
  <2>1. posted["video"] \in Seq(Recordings) /\ Len(posted["video"]) = 1
    BY <1>1 DEF WorkTypes, OneAtATime, Encoding
  <2>2. Tail(posted["video"]) \in Seq(Recordings) /\ Len(Tail(posted["video"])) = 0
    BY <1>1, <2>1, HeadTailProperties
  <2> QED BY <1>1, <2>2, EmptySeq
<1>3. /\ Fresh(Head(posted["video"])) /\ Head(posted["video"]) <= starts
      /\ pc["client"] = "check" => Head(posted["video"]) < starts
  BY <1>1 DEF FreshOK
<1>4. \A r \in Recordings : starts' < r => Fresh(r)' BY <1>1 DEF FreshOK, Fresh
<1>5. pc'["client"] \in StartPlaces => Fresh(starts)' BY <1>1 DEF FreshOK, Fresh
<1>6. "short" \notin answers'[serves'["video"]] /\ serves'["video"] \notin keyed'
  BY <1>1, <1>3 DEF Fresh
<1> QED BY <1>1, <1>2, <1>3, <1>4, <1>5, <1>6 DEF FreshOK, Fresh

\* Nobody starts or waits with a recording while the video thread encodes one,
\* but for a start that will be refused.
LEMMA EncodingAlone ==
  ASSUME OneAtATime, FreshOK, pc["video"] \in VideoLoop
  PROVE  /\ posted["video"] = <<>>
         /\ pc["client"] \in StartPlaces => serves["video"] < starts
<1>1. pc["video"] \notin {"idle", "answer"} BY DEF VideoLoop
<1>2. posted["video"] = <<>> /\ pc["client"] \notin {"encoders", "muxer", "attach"}
  BY <1>1 DEF OneAtATime
<1> QED BY <1>2 DEF FreshOK, StartPlaces

LEMMA FreshWrite ==
  ASSUME StatesOK, WorkTypes, OneAtATime, FreshOK, WriteVideo
  PROVE  FreshOK'
<1>1. /\ UNCHANGED <<starts, again, answers, posted, serves>>
      /\ pc["video"] = "dequeue" /\ pc'["client"] = pc["client"]
  BY DEF WriteVideo, At, Goto, threads, bounds, StatesOK, Threads
<1>2. \/ UNCHANGED <<keyed, mIsFirstVideoKeyFrameWrite>>
      \/ keyed' = keyed \cup {serves["video"]} /\ mIsFirstVideoKeyFrameWrite'
  BY DEF WriteVideo
<1>3. pc["video"] \in VideoLoop BY <1>1 DEF VideoLoop
<1>4. /\ posted["video"] = <<>>
      /\ pc["client"] \in StartPlaces => serves["video"] < starts
  BY <1>3, EncodingAlone
<1>5. serves["video"] <= starts /\ serves["video"] \in 0..MaxStarts /\ starts \in 0..MaxStarts
  BY DEF FreshOK, StatesOK, WorkTypes, Encoding
<1>6. \A r \in Recordings : r # serves["video"] /\ Fresh(r) => Fresh(r)'
  BY <1>1, <1>2 DEF Fresh
<1>7. \A r \in Recordings : starts' < r => Fresh(r)'
  <2>1. \A r \in Recordings : starts < r => r # serves["video"]
    BY <1>5, BoundsAssumption DEF Recordings
  <2> QED BY <1>1, <1>6, <2>1 DEF FreshOK
<1>8. pc'["client"] \in StartPlaces => Fresh(starts)'
  <2>1. pc["client"] \in StartPlaces => starts # serves["video"]
    BY <1>4, <1>5, BoundsAssumption
  <2> QED BY <1>1, <1>2, <2>1 DEF FreshOK, Fresh
<1>9. "short" \notin answers'[serves'["video"]] BY <1>1, <1>3 DEF FreshOK
<1>10. serves'["video"] \in keyed' => again' \/ mIsFirstVideoKeyFrameWrite'
  BY <1>1, <1>2, <1>3 DEF FreshOK
<1>11. pc'["client"] = "check" => serves'["video"] < starts' BY <1>1, <1>4 DEF StartPlaces
<1> QED BY <1>1, <1>4, <1>5, <1>7, <1>8, <1>9, <1>10, <1>11 DEF FreshOK, Fresh

LEMMA FreshStop ==
  ASSUME StatesOK, WorkTypes, OneAtATime, FreshOK, AnswersAdd, StopMuxer
  PROVE  FreshOK'
<1>1. /\ UNCHANGED <<starts, again, keyed, posted, serves>>
      /\ pc["video"] = "stopMuxer" /\ pc'["video"] = "finish" /\ pc'["client"] = pc["client"]
  BY DEF StopMuxer, At, Goto, threads, StatesOK, Threads
<1>2. pc["video"] \in VideoLoop /\ pc'["video"] \notin VideoLoop BY <1>1 DEF VideoLoop
<1>3. /\ posted["video"] = <<>>
      /\ pc["client"] \in StartPlaces => serves["video"] < starts
  BY <1>2, EncodingAlone
<1>4. serves["video"] <= starts /\ serves["video"] \in 0..MaxStarts /\ starts \in 0..MaxStarts
  BY DEF FreshOK, StatesOK, WorkTypes, Encoding
<1>5. \A r \in Recordings : r # serves["video"] /\ Fresh(r) => Fresh(r)'
  BY <1>1 DEF Fresh, AnswersAdd
<1>6. \A r \in Recordings : starts' < r => Fresh(r)'
  <2>1. \A r \in Recordings : starts < r => r # serves["video"]
    BY <1>4, BoundsAssumption DEF Recordings
  <2> QED BY <1>1, <1>5, <2>1 DEF FreshOK
<1>7. pc'["client"] \in StartPlaces => Fresh(starts)'
  <2>1. SUFFICES ASSUME pc["client"] \in StartPlaces PROVE Fresh(starts)' BY <1>1
  <2>2. starts \in Recordings /\ starts # serves["video"]
    BY <2>1, <1>3, <1>4, BoundsAssumption DEF Recordings
  <2>3. Fresh(starts) BY <2>1 DEF FreshOK
  <2>4. starts' = starts BY <1>1
  <2> QED BY <2>2, <2>3, <2>4, <1>5 DEF Fresh
<1>8. pc'["client"] = "check" => serves'["video"] < starts' BY <1>1, <1>3 DEF StartPlaces
<1> QED BY <1>1, <1>2, <1>3, <1>4, <1>6, <1>7, <1>8 DEF FreshOK, Fresh

LEMMA FreshAnswer ==
  ASSUME StatesOK, WorkTypes, WorkOK, FreshOK, AnswersAdd, AnswerVideo
  PROVE  FreshOK'
<1>1. /\ UNCHANGED <<starts, again, keyed, posted>> /\ serves'["video"] = 0
      /\ pc["video"] = "answer" /\ pc'["video"] = "idle" /\ pc'["client"] = pc["client"]
  BY DEF AnswerVideo, At, Goto, threads, bounds, StatesOK, Threads, Encoding
<1>2. \A r \in Recordings : Fresh(r) => Fresh(r)' BY <1>1 DEF Fresh, AnswersAdd
<1>3. starts \in 0..MaxStarts /\ (pc["client"] \in StartPlaces => starts \in Recordings)
  BY BoundsAssumption DEF WorkTypes, WorkOK, Recordings
<1>4. 0 <= starts /\ (pc["client"] = "check" => 0 < starts)
  BY <1>3, BoundsAssumption DEF Recordings, StartPlaces
<1>5. \A r \in Recordings : starts' < r => Fresh(r)' BY <1>1, <1>2 DEF FreshOK
<1>6. pc'["client"] \in StartPlaces => Fresh(starts)'
  BY <1>1, <1>2, <1>3 DEF FreshOK, Fresh
<1>7. posted["video"] # <<>> => Head(posted["video"]) \in Recordings
  BY PostedHead DEF Encoding
<1>8. posted'["video"] # <<>> =>
        /\ Fresh(Head(posted["video"]))' /\ Head(posted'["video"]) <= starts'
        /\ pc'["client"] = "check" => Head(posted'["video"]) < starts'
  BY <1>1, <1>2, <1>7 DEF FreshOK, Fresh
<1>9. pc'["video"] \notin VideoLoop BY <1>1 DEF VideoLoop
<1> QED BY <1>1, <1>4, <1>5, <1>6, <1>8, <1>9 DEF FreshOK, Fresh

\* Every step keeps the types of the flags.
LEMMA FlagTypesStep ==
  ASSUME FlagTypes, [Next]_vars
  PROVE  FlagTypes'
<1> USE DEF flags, signals, config, codecs, muxer, cleanup, threads, control, bounds,
    ends, history, FlagTypes
<1>1. CASE BeginStart
  BY <1>1 DEF BeginStart
<1>2. CASE BeginStop
  BY <1>2 DEF BeginStop, StopRecording
<1>3. CASE BeginSetConfig
  BY <1>3 DEF BeginSetConfig
<1>4. CASE BeginClose
  BY <1>4 DEF BeginClose, StopRecording
<1>5. CASE RefuseStart
  BY <1>5 DEF RefuseStart
<1>6. CASE StartAudioInput
  BY <1>6 DEF StartAudioInput, Refused
<1>7. CASE StartEncoders
  BY <1>7 DEF StartEncoders, StartFails
<1>8. CASE InitMediaMuxer
  BY <1>8 DEF InitMediaMuxer, ResetSignals, StartFails
<1>9. CASE PostEncoding
  BY <1>9 DEF PostEncoding
<1>10. CASE ReleaseCapture
  BY <1>10 DEF ReleaseCapture, StopRecording, ReleaseResources
<1>11. CASE CallFuture
  BY <1>11 DEF CallFuture, ReleaseResources
<1>12. ASSUME NEW t \in Setters, SetupVideo(t) PROVE FlagTypes'
  BY <1>12 DEF SetupVideo
<1>13. ASSUME NEW t \in Setters, SetupAudio(t) PROVE FlagTypes'
  BY <1>13 DEF SetupAudio
<1>14. ASSUME NEW t \in Setters, SetupEnd(t) PROVE FlagTypes'
  BY <1>14 DEF SetupEnd
<1>15. CASE BeginVideo
  BY <1>15 DEF BeginVideo
<1>16. CASE CheckVideoSignal
  BY <1>16 DEF CheckVideoSignal, EncodeFails, Die
<1>17. CASE VideoFormatChanged
  BY <1>17 DEF VideoFormatChanged, MuxerStarts, EncodeFails, Die
<1>18. CASE WriteVideo
  BY <1>18 DEF WriteVideo
<1>19. CASE DequeueVideo
  BY <1>19 DEF DequeueVideo, EncodeFails, Die
<1>20. CASE StopVideoEncoder
  BY <1>20 DEF StopVideoEncoder, Die
<1>21. CASE StopMuxer
  BY <1>21 DEF StopMuxer
<1>22. CASE FinishVideo
  BY <1>22 DEF FinishVideo
<1>23. CASE AnswerVideo
  BY <1>23 DEF AnswerVideo
<1>24. CASE BeginAudio
  BY <1>24 DEF BeginAudio
<1>25. CASE CheckAudioSignal
  BY <1>25 DEF CheckAudioSignal
<1>26. CASE DequeueAudio
  BY <1>26 DEF DequeueAudio, Die
<1>27. CASE AudioFormatChanged
  BY <1>27 DEF AudioFormatChanged, MuxerStarts, Die
<1>28. CASE StopAudio
  BY <1>28 DEF StopAudio, Die
<1>29. CASE UNCHANGED vars
  BY <1>29 DEF vars
<1> HIDE DEF flags, signals, config, codecs, muxer, cleanup, threads, control, bounds,
    ends, history, FlagTypes
<1> QED BY <1>1, <1>2, <1>3, <1>4, <1>5, <1>6, <1>7, <1>8, <1>9, <1>10, <1>11, <1>12,
    <1>13, <1>14, <1>15, <1>16, <1>17, <1>18, <1>19, <1>20, <1>21, <1>22, <1>23, <1>24,
    <1>25, <1>26, <1>27, <1>28, <1>29 DEF Next, Application, Client, Executor, Video,
    Audio, Setters

\* Every step keeps the types of what is known of the resources.
LEMMA ResourceFlagsStep ==
  ASSUME FlagTypes, ResourceFlags, [Next]_vars
  PROVE  ResourceFlags'
<1> USE DEF flags, signals, config, codecs, muxer, cleanup, threads, control, bounds,
    ends, history, FlagTypes, ResourceFlags
<1>1. CASE BeginStart
  BY <1>1 DEF BeginStart
<1>2. CASE BeginStop
  BY <1>2 DEF BeginStop, StopRecording
<1>3. CASE BeginSetConfig
  BY <1>3 DEF BeginSetConfig
<1>4. CASE BeginClose
  BY <1>4 DEF BeginClose, StopRecording
<1>5. CASE RefuseStart
  BY <1>5 DEF RefuseStart
<1>6. CASE StartAudioInput
  BY <1>6 DEF StartAudioInput, Refused
<1>7. CASE StartEncoders
  BY <1>7 DEF StartEncoders, StartFails
<1>8. CASE InitMediaMuxer
  BY <1>8 DEF InitMediaMuxer, ResetSignals, StartFails
<1>9. CASE PostEncoding
  BY <1>9 DEF PostEncoding
<1>10. CASE ReleaseCapture
  BY <1>10 DEF ReleaseCapture, StopRecording, ReleaseResources
<1>11. CASE CallFuture
  BY <1>11 DEF CallFuture, ReleaseResources
<1>12. ASSUME NEW t \in Setters, SetupVideo(t) PROVE ResourceFlags'
  BY <1>12 DEF SetupVideo
<1>13. ASSUME NEW t \in Setters, SetupAudio(t) PROVE ResourceFlags'
  BY <1>13 DEF SetupAudio
<1>14. ASSUME NEW t \in Setters, SetupEnd(t) PROVE ResourceFlags'
  BY <1>14 DEF SetupEnd
<1>15. CASE BeginVideo
  BY <1>15 DEF BeginVideo
<1>16. CASE CheckVideoSignal
  BY <1>16 DEF CheckVideoSignal, EncodeFails, Die
<1>17. CASE VideoFormatChanged
  BY <1>17 DEF VideoFormatChanged, MuxerStarts, EncodeFails, Die
<1>18. CASE WriteVideo
  BY <1>18 DEF WriteVideo
<1>19. CASE DequeueVideo
  BY <1>19 DEF DequeueVideo, EncodeFails, Die
<1>20. CASE StopVideoEncoder
  BY <1>20 DEF StopVideoEncoder, Die
<1>21. CASE StopMuxer
  BY <1>21 DEF StopMuxer
<1>22. CASE FinishVideo
  BY <1>22 DEF FinishVideo
<1>23. CASE AnswerVideo
  BY <1>23 DEF AnswerVideo
<1>24. CASE BeginAudio
  BY <1>24 DEF BeginAudio
<1>25. CASE CheckAudioSignal
  BY <1>25 DEF CheckAudioSignal
<1>26. CASE DequeueAudio
  BY <1>26 DEF DequeueAudio, Die
<1>27. CASE AudioFormatChanged
  BY <1>27 DEF AudioFormatChanged, MuxerStarts, Die
<1>28. CASE StopAudio
  BY <1>28 DEF StopAudio, Die
<1>29. CASE UNCHANGED vars
  BY <1>29 DEF vars
<1> HIDE DEF flags, signals, config, codecs, muxer, cleanup, threads, control, bounds,
    ends, history, FlagTypes, ResourceFlags
<1> QED BY <1>1, <1>2, <1>3, <1>4, <1>5, <1>6, <1>7, <1>8, <1>9, <1>10, <1>11, <1>12,
    <1>13, <1>14, <1>15, <1>16, <1>17, <1>18, <1>19, <1>20, <1>21, <1>22, <1>23, <1>24,
    <1>25, <1>26, <1>27, <1>28, <1>29 DEF Next, Application, Client, Executor, Video,
    Audio, Setters

\* Every step keeps the types of how it ends.
LEMMA EndTypesStep ==
  ASSUME FlagTypes, EndTypes, [Next]_vars
  PROVE  EndTypes'
<1> USE DEF flags, signals, config, codecs, muxer, cleanup, threads, control, bounds,
    ends, history, FlagTypes, EndTypes
<1>1. CASE BeginStart
  BY <1>1 DEF BeginStart
<1>2. CASE BeginStop
  BY <1>2 DEF BeginStop, StopRecording
<1>3. CASE BeginSetConfig
  BY <1>3 DEF BeginSetConfig
<1>4. CASE BeginClose
  BY <1>4 DEF BeginClose, StopRecording
<1>5. CASE RefuseStart
  BY <1>5 DEF RefuseStart
<1>6. CASE StartAudioInput
  BY <1>6 DEF StartAudioInput, Refused
<1>7. CASE StartEncoders
  BY <1>7 DEF StartEncoders, StartFails, Failure, NoFailure
<1>8. CASE InitMediaMuxer
  BY <1>8 DEF InitMediaMuxer, ResetSignals, StartFails, Failure, NoFailure
<1>9. CASE PostEncoding
  BY <1>9 DEF PostEncoding
<1>10. CASE ReleaseCapture
  BY <1>10 DEF ReleaseCapture, StopRecording, ReleaseResources
<1>11. CASE CallFuture
  BY <1>11 DEF CallFuture, ReleaseResources
<1>12. ASSUME NEW t \in Setters, SetupVideo(t) PROVE EndTypes'
  BY <1>12 DEF SetupVideo, Failure, NoFailure
<1>13. ASSUME NEW t \in Setters, SetupAudio(t) PROVE EndTypes'
  BY <1>13 DEF SetupAudio, Failure, NoFailure
<1>14. ASSUME NEW t \in Setters, SetupEnd(t) PROVE EndTypes'
  BY <1>14 DEF SetupEnd
<1>15. CASE BeginVideo
  BY <1>15 DEF BeginVideo
<1>16. CASE CheckVideoSignal
  BY <1>16 DEF CheckVideoSignal, EncodeFails, Die
<1>17. CASE VideoFormatChanged
  BY <1>17 DEF VideoFormatChanged, MuxerStarts, EncodeFails, Die, Failure, NoFailure
<1>18. CASE WriteVideo
  BY <1>18 DEF WriteVideo
<1>19. CASE DequeueVideo
  BY <1>19 DEF DequeueVideo, EncodeFails, Die, Failure, NoFailure
<1>20. CASE StopVideoEncoder
  BY <1>20 DEF StopVideoEncoder, Die, Failure, NoFailure
<1>21. CASE StopMuxer
  BY <1>21 DEF StopMuxer, Failure, NoFailure
<1>22. CASE FinishVideo
  BY <1>22 DEF FinishVideo
<1>23. CASE AnswerVideo
  BY <1>23 DEF AnswerVideo
<1>24. CASE BeginAudio
  BY <1>24 DEF BeginAudio
<1>25. CASE CheckAudioSignal
  BY <1>25 DEF CheckAudioSignal
<1>26. CASE DequeueAudio
  BY <1>26 DEF DequeueAudio, Die, Failure, NoFailure
<1>27. CASE AudioFormatChanged
  BY <1>27 DEF AudioFormatChanged, MuxerStarts, Die, Failure, NoFailure
<1>28. CASE StopAudio
  BY <1>28 DEF StopAudio, Die, Failure, NoFailure
<1>29. CASE UNCHANGED vars
  BY <1>29 DEF vars
<1> HIDE DEF flags, signals, config, codecs, muxer, cleanup, threads, control, bounds,
    ends, history, FlagTypes, EndTypes
<1> QED BY <1>1, <1>2, <1>3, <1>4, <1>5, <1>6, <1>7, <1>8, <1>9, <1>10, <1>11, <1>12,
    <1>13, <1>14, <1>15, <1>16, <1>17, <1>18, <1>19, <1>20, <1>21, <1>22, <1>23, <1>24,
    <1>25, <1>26, <1>27, <1>28, <1>29 DEF Next, Application, Client, Executor, Video,
    Audio, Setters

\* No step says saved or short but the last two of the video thread.
LEMMA AnswersStep ==
  ASSUME StatesOK, WorkTypes, WorkOK, [Next]_vars
  PROVE  AnswersAdd
<1>1. CASE BeginStart
  BY <1>1, ErrorAdds DEF BeginStart, history
<1>2. CASE BeginStop
  BY <1>2, ErrorAdds DEF BeginStop, history
<1>3. CASE BeginSetConfig
  BY <1>3, ErrorAdds DEF BeginSetConfig, history
<1>4. CASE BeginClose
  BY <1>4, ErrorAdds DEF BeginClose, history
<1>5. CASE RefuseStart
  <2>1. starts \in Recordings
    BY <1>5, BoundsAssumption DEF RefuseStart, WorkOK, StatesOK, WorkTypes, Recordings,
       At, StartPlaces, Threads
  <2>2. Answer(starts, "error") \/ UNCHANGED answers
    BY <1>5 DEF RefuseStart, history
  <2> QED BY <2>1, <2>2, ErrorAdds
<1>6. CASE StartAudioInput
  BY <1>6, ErrorAdds DEF StartAudioInput, history
<1>7. CASE StartEncoders
  <2>1. starts \in Recordings
    BY <1>7, BoundsAssumption DEF StartEncoders, WorkOK, StatesOK, WorkTypes,
       Recordings, At, StartPlaces, Threads
  <2>2. Answer(starts, "error") \/ UNCHANGED answers
    BY <1>7 DEF StartEncoders, StartFails, history
  <2> QED BY <2>1, <2>2, ErrorAdds
<1>8. CASE InitMediaMuxer
  <2>1. starts \in Recordings
    BY <1>8, BoundsAssumption DEF InitMediaMuxer, WorkOK, StatesOK, WorkTypes,
       Recordings, At, StartPlaces, Threads
  <2>2. Answer(starts, "error") \/ UNCHANGED answers
    BY <1>8 DEF InitMediaMuxer, StartFails, history
  <2> QED BY <2>1, <2>2, ErrorAdds
<1>9. CASE PostEncoding
  BY <1>9, ErrorAdds DEF PostEncoding, history
<1>10. CASE ReleaseCapture
  BY <1>10, ErrorAdds DEF ReleaseCapture, history
<1>11. CASE CallFuture
  BY <1>11, ErrorAdds DEF CallFuture, history
<1>12. ASSUME NEW t \in Setters, SetupVideo(t) PROVE AnswersAdd
  BY <1>12, ErrorAdds DEF SetupVideo, history
<1>13. ASSUME NEW t \in Setters, SetupAudio(t) PROVE AnswersAdd
  BY <1>13, ErrorAdds DEF SetupAudio, history
<1>14. ASSUME NEW t \in Setters, SetupEnd(t) PROVE AnswersAdd
  BY <1>14, ErrorAdds DEF SetupEnd, history
<1>15. CASE BeginVideo
  BY <1>15, ErrorAdds DEF BeginVideo, history
<1>16. CASE CheckVideoSignal
  <2>1. serves["video"] \in Recordings
    BY <1>16, BoundsAssumption DEF CheckVideoSignal, WorkOK, StatesOK, WorkTypes,
       Recordings, At, Threads, Encoding
  <2>2. Answer(serves["video"], "error") \/ UNCHANGED answers
    BY <1>16 DEF CheckVideoSignal, EncodeFails, history
  <2> QED BY <2>1, <2>2, ErrorAdds
<1>17. CASE VideoFormatChanged
  <2>1. serves["video"] \in Recordings
    BY <1>17, BoundsAssumption DEF VideoFormatChanged, WorkOK, StatesOK, WorkTypes,
       Recordings, At, Threads, Encoding
  <2>2. Answer(serves["video"], "error") \/ UNCHANGED answers
    BY <1>17 DEF VideoFormatChanged, EncodeFails, history
  <2> QED BY <2>1, <2>2, ErrorAdds
<1>18. CASE WriteVideo
  BY <1>18, ErrorAdds DEF WriteVideo, history
<1>19. CASE DequeueVideo
  <2>1. serves["video"] \in Recordings
    BY <1>19, BoundsAssumption DEF DequeueVideo, WorkOK, StatesOK, WorkTypes,
       Recordings, At, Threads, Encoding
  <2>2. Answer(serves["video"], "error") \/ UNCHANGED answers
    BY <1>19 DEF DequeueVideo, EncodeFails, history
  <2> QED BY <2>1, <2>2, ErrorAdds
<1>20. CASE StopVideoEncoder
  <2>1. serves["video"] \in Recordings
    BY <1>20, BoundsAssumption DEF StopVideoEncoder, WorkOK, StatesOK, WorkTypes,
       Recordings, At, Threads, Encoding
  <2>2. Answer(serves["video"], "error") \/ UNCHANGED answers
    BY <1>20 DEF StopVideoEncoder, history
  <2> QED BY <2>1, <2>2, ErrorAdds
<1>21. CASE StopMuxer
  <2>1. serves["video"] \in Recordings
    BY <1>21, BoundsAssumption DEF StopMuxer, WorkOK, StatesOK, Recordings, At, Threads,
       Encoding
  <2>2. pc["video"] = "stopMuxer" /\ pc'["video"] = "finish"
    BY <1>21 DEF StopMuxer, At, Goto, StatesOK, Threads
  <2>3. CASE Answer(serves["video"], "error") \/ UNCHANGED answers BY <2>1, <2>3, ErrorAdds
  <2>4. CASE ~mIsFirstVideoKeyFrameWrite /\ Answer(serves["video"], "short")
    <3>1. "saved" \in Answers /\ "short" \in Answers BY DEF Answers
    <3> QED BY <2>1, <2>2, <2>4, <3>1, AnswerAdds DEF AnswersAdd
  <2> QED BY <1>21, <2>3, <2>4 DEF StopMuxer
<1>22. CASE FinishVideo
  BY <1>22, ErrorAdds DEF FinishVideo, history
<1>23. CASE AnswerVideo
  <2>1. serves["video"] \in Recordings
    BY <1>23, BoundsAssumption DEF AnswerVideo, WorkOK, StatesOK, Recordings, At,
       Threads, Encoding
  <2>2. pc["video"] = "answer" /\ pc'["video"] = "idle"
    BY <1>23 DEF AnswerVideo, At, Goto, StatesOK, Threads
  <2>3. CASE UNCHANGED answers BY <2>3, ErrorAdds
  <2>4. CASE ~errorOccurred /\ Answer(serves["video"], "saved")
    <3>1. "saved" \in Answers /\ "short" \in Answers BY DEF Answers
    <3> QED BY <2>1, <2>2, <2>4, <3>1, AnswerAdds DEF AnswersAdd
  <2> QED BY <1>23, <2>3, <2>4 DEF AnswerVideo
<1>24. CASE BeginAudio
  BY <1>24, ErrorAdds DEF BeginAudio, history
<1>25. CASE CheckAudioSignal
  BY <1>25, ErrorAdds DEF CheckAudioSignal, history
<1>26. CASE DequeueAudio
  BY <1>26, ErrorAdds DEF DequeueAudio, history
<1>27. CASE AudioFormatChanged
  BY <1>27, ErrorAdds DEF AudioFormatChanged, history
<1>28. CASE StopAudio
  <2>1. serves["audio"] \in Recordings
    BY <1>28, BoundsAssumption DEF StopAudio, WorkOK, StatesOK, WorkTypes, Recordings,
       At, Threads, Encoding
  <2>2. Answer(serves["audio"], "error") \/ UNCHANGED answers
    BY <1>28 DEF StopAudio, history
  <2> QED BY <2>1, <2>2, ErrorAdds
<1>29. CASE UNCHANGED vars
  BY <1>29, ErrorAdds DEF vars, history
<1> QED BY <1>1, <1>2, <1>3, <1>4, <1>5, <1>6, <1>7, <1>8, <1>9, <1>10, <1>11, <1>12,
    <1>13, <1>14, <1>15, <1>16, <1>17, <1>18, <1>19, <1>20, <1>21, <1>22, <1>23, <1>24,
    <1>25, <1>26, <1>27, <1>28, <1>29 DEF Next, Application, Client, Executor, Video,
    Audio, Setters

\* Every step keeps the types of the codecs, the muxer and the threads.
LEMMA StatesStep ==
  ASSUME StatesOK, WorkTypes, WorkOK, [Next]_vars
  PROVE  StatesOK'
<1> USE BoundsAssumption DEF flags, signals, config, codecs, muxer, cleanup, threads,
    control, bounds, ends, history, At, Goto, Threads, Setters, Encoding, Recordings,
    Codecs, Answers, Places, StatesOK, WorkTypes, WorkOK
<1>1. CASE BeginStart
  BY <1>1 DEF BeginStart, Begin
<1>2. CASE BeginStop
  BY <1>2 DEF BeginStop, Begin, StopRecording
<1>3. CASE BeginSetConfig
  BY <1>3 DEF BeginSetConfig, Begin
<1>4. CASE BeginClose
  BY <1>4 DEF BeginClose, StopRecording
<1>5. CASE RefuseStart
  BY <1>5 DEF RefuseStart
<1>6. CASE StartAudioInput
  BY <1>6, ZenonT(60) DEF StartAudioInput, ReleaseAudioInputResource, Refused
<1>7. CASE StartEncoders
  BY <1>7 DEF StartEncoders, StartFails
<1>8. CASE InitMediaMuxer
  BY <1>8 DEF InitMediaMuxer, ResetSignals, StartFails
<1>9. CASE PostEncoding
  BY <1>9 DEF PostEncoding
<1>10. CASE ReleaseCapture
  BY <1>10 DEF ReleaseCapture, StopRecording, ReleaseResources,
      ReleaseAudioInputResource
<1>11. CASE CallFuture
  BY <1>11 DEF CallFuture, ReleaseResources, ReleaseAudioInputResource
<1>12. ASSUME NEW t \in Setters, SetupVideo(t) PROVE StatesOK'
  BY <1>12 DEF SetupVideo
<1>13. ASSUME NEW t \in Setters, SetupAudio(t) PROVE StatesOK'
  BY <1>13 DEF SetupAudio
<1>14. ASSUME NEW t \in Setters, SetupEnd(t) PROVE StatesOK'
  BY <1>14 DEF SetupEnd
<1>15. CASE BeginVideo
  <2>1. Head(posted["video"]) \in 0..MaxStarts
    BY <1>15, ServedNext DEF BeginVideo
  <2> QED BY <1>15, <2>1 DEF BeginVideo
<1>16. CASE CheckVideoSignal
  BY <1>16 DEF CheckVideoSignal, EncodeFails, Die
<1>17. CASE VideoFormatChanged
  BY <1>17 DEF VideoFormatChanged, MuxerStarts, EncodeFails, Die
<1>18. CASE WriteVideo
  BY <1>18 DEF WriteVideo
<1>19. CASE DequeueVideo
  BY <1>19 DEF DequeueVideo, EncodeFails, Die
<1>20. CASE StopVideoEncoder
  <2>1. CASE UNCHANGED <<mVideoEncoder, announced, pc>>
    BY <1>20, <2>1 DEF StopVideoEncoder
  <2>2. CASE /\ mVideoEncoder' = "uninitialized" /\ announced' = announced \ {"video"}
             /\ Goto("video", "stopMuxer")
    BY <1>20, <2>2 DEF StopVideoEncoder
  <2> QED BY <1>20, <2>1, <2>2 DEF StopVideoEncoder
<1>21. CASE StopMuxer
  BY <1>21 DEF StopMuxer
<1>22. CASE FinishVideo
  BY <1>22 DEF FinishVideo
<1>23. CASE AnswerVideo
  BY <1>23 DEF AnswerVideo
<1>24. CASE BeginAudio
  <2>1. Head(posted["audio"]) \in 0..MaxStarts
    BY <1>24, ServedNext DEF BeginAudio
  <2> QED BY <1>24, <2>1 DEF BeginAudio
<1>25. CASE CheckAudioSignal
  BY <1>25 DEF CheckAudioSignal
<1>26. CASE DequeueAudio
  BY <1>26 DEF DequeueAudio, Die
<1>27. CASE AudioFormatChanged
  BY <1>27 DEF AudioFormatChanged, MuxerStarts, Die
<1>28. CASE StopAudio
  <2>1. CASE UNCHANGED <<mAudioRecorder, mAudioEncoder, announced, pc, serves>>
    BY <1>28, <2>1 DEF StopAudio
  <2>2. CASE /\ mAudioRecorder' = "initialized" /\ mAudioEncoder' = "uninitialized"
             /\ announced' = announced \ {"audio"} /\ Goto("audio", "idle")
             /\ serves' = [serves EXCEPT !["audio"] = 0]
    BY <1>28, <2>2 DEF StopAudio
  <2> QED BY <1>28, <2>1, <2>2 DEF StopAudio
<1>29. CASE UNCHANGED vars
  BY <1>29 DEF vars
<1> HIDE DEF flags, signals, config, codecs, muxer, cleanup, threads, control, bounds,
    ends, history, At, Goto, Threads, Setters, Encoding, Recordings, Codecs, Answers,
    Places, StatesOK, WorkTypes, WorkOK
<1> QED BY <1>1, <1>2, <1>3, <1>4, <1>5, <1>6, <1>7, <1>8, <1>9, <1>10, <1>11, <1>12,
    <1>13, <1>14, <1>15, <1>16, <1>17, <1>18, <1>19, <1>20, <1>21, <1>22, <1>23, <1>24,
    <1>25, <1>26, <1>27, <1>28, <1>29 DEF Next, Application, Client, Executor, Video,
    Audio, Setters

\* Every step keeps the types of what there is to do and of the history.
LEMMA WorkTypesStep ==
  ASSUME StatesOK, WorkTypes, WorkOK, [Next]_vars
  PROVE  WorkTypes'
<1> USE BoundsAssumption DEF flags, signals, config, codecs, muxer, cleanup, threads,
    control, bounds, ends, history, At, Goto, Threads, Setters, Encoding, Recordings,
    Codecs, Answers, Places, WorkTypes, StatesOK, WorkOK
<1>1. CASE BeginStart
  BY <1>1 DEF BeginStart, Begin
<1>2. CASE BeginStop
  BY <1>2 DEF BeginStop, Begin, StopRecording
<1>3. CASE BeginSetConfig
  BY <1>3 DEF BeginSetConfig, Begin
<1>4. CASE BeginClose
  BY <1>4, StopTells DEF BeginClose
<1>5. CASE RefuseStart
  BY <1>5 DEF RefuseStart, Answer
<1>6. CASE StartAudioInput
  BY <1>6 DEF StartAudioInput, ReleaseAudioInputResource, Refused
<1>7. CASE StartEncoders
  <2>1. failures' \in 0..MaxFailures BY <1>7 DEF StartEncoders, Failure, NoFailure
  <2>2. tasks' \in Seq(0..MaxStarts) BY <1>7, TasksAppend DEF StartEncoders, StartFails
  <2> QED BY <1>7, <2>1, <2>2, AnswersStep DEF StartEncoders, AnswersAdd
<1>8. CASE InitMediaMuxer
  <2>1. failures' \in 0..MaxFailures BY <1>8 DEF InitMediaMuxer, Failure, NoFailure
  <2>2. tasks' \in Seq(0..MaxStarts) BY <1>8, TasksAppend DEF InitMediaMuxer, StartFails
  <2> QED BY <1>8, <2>1, <2>2, AnswersStep DEF InitMediaMuxer, AnswersAdd
<1>9. CASE PostEncoding
  <2>1. \A e \in Encoding : Append(posted[e], starts) \in Seq(Recordings)
    <3>1. starts \in Recordings BY <1>9 DEF PostEncoding, StartPlaces
    <3> QED BY <3>1
  <2>2. posted' \in [Encoding -> Seq(Recordings)]
    <3>1. /\ posted' = [e \in Encoding |-> posted'[e]]
          /\ \A e \in Encoding : posted'[e] \in {posted[e], Append(posted[e], starts)}
      BY <1>9, PostedStep
    <3>2. \A e \in Encoding : posted[e] \in Seq(Recordings)
      OBVIOUS
    <3> HIDE DEF Encoding, Recordings
    <3>3. \A e \in Encoding : posted'[e] \in Seq(Recordings)
      BY <2>1, <3>1, <3>2
    <3> QED BY <3>1, <3>3
  <2> QED BY <1>9, <2>2 DEF PostEncoding
<1>10. CASE ReleaseCapture
  BY <1>10, StopTells DEF ReleaseCapture
<1>11. CASE CallFuture
  BY <1>11, TasksHead DEF CallFuture
<1>12. ASSUME NEW t \in Setters, SetupVideo(t) PROVE WorkTypes'
  BY <1>12 DEF SetupVideo, Failure, NoFailure
<1>13. ASSUME NEW t \in Setters, SetupAudio(t) PROVE WorkTypes'
  BY <1>13 DEF SetupAudio, Failure, NoFailure
<1>14. ASSUME NEW t \in Setters, SetupEnd(t) PROVE WorkTypes'
  BY <1>14 DEF SetupEnd
<1>15. CASE BeginVideo
  BY <1>15 DEF BeginVideo
<1>16. CASE CheckVideoSignal
  <2> QED BY <1>16, AnswersStep DEF CheckVideoSignal, AnswersAdd
<1>17. CASE VideoFormatChanged
  <2>1. failures' \in 0..MaxFailures BY <1>17 DEF VideoFormatChanged, Failure, NoFailure
  <2> QED BY <1>17, <2>1, AnswersStep DEF VideoFormatChanged, AnswersAdd
<1>18. CASE WriteVideo
  <2>1. serves["video"] \in Recordings BY <1>18 DEF WriteVideo
  <2>2. keyed' \subseteq Recordings BY <1>18, <2>1 DEF WriteVideo
  <2> QED BY <1>18, <2>2 DEF WriteVideo
<1>19. CASE DequeueVideo
  <2>1. failures' \in 0..MaxFailures BY <1>19 DEF DequeueVideo, Failure, NoFailure
  <2> QED BY <1>19, <2>1, AnswersStep DEF DequeueVideo, AnswersAdd
<1>20. CASE StopVideoEncoder
  <2>1. failures' \in 0..MaxFailures BY <1>20 DEF StopVideoEncoder, Failure, NoFailure
  <2> QED BY <1>20, <2>1, AnswersStep DEF StopVideoEncoder, AnswersAdd
<1>21. CASE StopMuxer
  <2>1. failures' \in 0..MaxFailures BY <1>21 DEF StopMuxer, Failure, NoFailure
  <2> QED BY <1>21, <2>1, AnswersStep DEF StopMuxer, AnswersAdd
<1>22. CASE FinishVideo
  BY <1>22 DEF FinishVideo
<1>23. CASE AnswerVideo
  BY <1>23, TasksAppend, AnswersStep DEF AnswerVideo, AnswersAdd
<1>24. CASE BeginAudio
  BY <1>24 DEF BeginAudio
<1>25. CASE CheckAudioSignal
  BY <1>25 DEF CheckAudioSignal
<1>26. CASE DequeueAudio
  BY <1>26 DEF DequeueAudio, Die, Failure, NoFailure
<1>27. CASE AudioFormatChanged
  BY <1>27 DEF AudioFormatChanged, MuxerStarts, Die, Failure, NoFailure
<1>28. CASE StopAudio
  <2>1. failures' \in 0..MaxFailures BY <1>28 DEF StopAudio, Failure, NoFailure
  <2> QED BY <1>28, <2>1, AnswersStep DEF StopAudio, AnswersAdd
<1>29. CASE UNCHANGED vars
  BY <1>29 DEF vars
<1> HIDE DEF flags, signals, config, codecs, muxer, cleanup, threads, control, bounds,
    ends, history, At, Goto, Threads, Setters, Encoding, Recordings, Codecs, Answers,
    Places, WorkTypes, StatesOK, WorkOK
<1> QED BY <1>1, <1>2, <1>3, <1>4, <1>5, <1>6, <1>7, <1>8, <1>9, <1>10, <1>11, <1>12,
    <1>13, <1>14, <1>15, <1>16, <1>17, <1>18, <1>19, <1>20, <1>21, <1>22, <1>23, <1>24,
    <1>25, <1>26, <1>27, <1>28, <1>29 DEF Next, Application, Client, Executor, Video,
    Audio, Setters

\* Every step keeps the work of the threads assigned.
LEMMA WorkStep ==
  ASSUME StatesOK, WorkTypes, WorkOK, [Next]_vars
  PROVE  WorkOK'
<1> USE BoundsAssumption DEF flags, signals, config, codecs, muxer, cleanup, threads,
    control, bounds, ends, history, At, Goto, Threads, Setters, Encoding, Recordings,
    Places, StatesOK, WorkTypes, WorkOK, StartPlaces
<1>1. CASE BeginStart
  BY <1>1 DEF BeginStart, Begin
<1>2. CASE BeginStop
  BY <1>2 DEF BeginStop, Begin, StopRecording
<1>3. CASE BeginSetConfig
  BY <1>3 DEF BeginSetConfig, Begin
<1>4. CASE BeginClose
  BY <1>4 DEF BeginClose, StopRecording
<1>5. CASE RefuseStart
  BY <1>5 DEF RefuseStart
<1>6. CASE StartAudioInput
  BY <1>6 DEF StartAudioInput, ReleaseAudioInputResource, Refused
<1>7. CASE StartEncoders
  BY <1>7 DEF StartEncoders, StartFails
<1>8. CASE InitMediaMuxer
  BY <1>8 DEF InitMediaMuxer, ResetSignals, StartFails
<1>9. CASE PostEncoding
  BY <1>9 DEF PostEncoding
<1>10. CASE ReleaseCapture
  BY <1>10 DEF ReleaseCapture, StopRecording, ReleaseResources,
      ReleaseAudioInputResource
<1>11. CASE CallFuture
  BY <1>11 DEF CallFuture, ReleaseResources, ReleaseAudioInputResource
<1>12. ASSUME NEW t \in Setters, SetupVideo(t) PROVE WorkOK'
  BY <1>12 DEF SetupVideo
<1>13. ASSUME NEW t \in Setters, SetupAudio(t) PROVE WorkOK'
  BY <1>13 DEF SetupAudio
<1>14. ASSUME NEW t \in Setters, SetupEnd(t) PROVE WorkOK'
  BY <1>14 DEF SetupEnd
<1>15. CASE BeginVideo
  BY <1>15 DEF BeginVideo
<1>16. CASE CheckVideoSignal
  BY <1>16 DEF CheckVideoSignal, EncodeFails, Die
<1>17. CASE VideoFormatChanged
  BY <1>17 DEF VideoFormatChanged, MuxerStarts, EncodeFails, Die
<1>18. CASE WriteVideo
  BY <1>18 DEF WriteVideo
<1>19. CASE DequeueVideo
  BY <1>19 DEF DequeueVideo, EncodeFails, Die
<1>20. CASE StopVideoEncoder
  BY <1>20 DEF StopVideoEncoder, Die
<1>21. CASE StopMuxer
  BY <1>21 DEF StopMuxer
<1>22. CASE FinishVideo
  BY <1>22 DEF FinishVideo
<1>23. CASE AnswerVideo
  BY <1>23 DEF AnswerVideo
<1>24. CASE BeginAudio
  BY <1>24 DEF BeginAudio
<1>25. CASE CheckAudioSignal
  BY <1>25 DEF CheckAudioSignal
<1>26. CASE DequeueAudio
  BY <1>26 DEF DequeueAudio, Die
<1>27. CASE AudioFormatChanged
  BY <1>27 DEF AudioFormatChanged, MuxerStarts, Die
<1>28. CASE StopAudio
  BY <1>28 DEF StopAudio, Die
<1>29. CASE UNCHANGED vars
  BY <1>29 DEF vars
<1> HIDE DEF flags, signals, config, codecs, muxer, cleanup, threads, control, bounds,
    ends, history, At, Goto, Threads, Setters, Encoding, Recordings, Places, StatesOK,
    WorkTypes, WorkOK, StartPlaces
<1> QED BY <1>1, <1>2, <1>3, <1>4, <1>5, <1>6, <1>7, <1>8, <1>9, <1>10, <1>11, <1>12,
    <1>13, <1>14, <1>15, <1>16, <1>17, <1>18, <1>19, <1>20, <1>21, <1>22, <1>23, <1>24,
    <1>25, <1>26, <1>27, <1>28, <1>29 DEF Next, Application, Client, Executor, Video,
    Audio, Setters

\* Every step keeps the recordings one at a time.
LEMMA OneStep ==
  ASSUME StatesOK, WorkTypes, OneAtATime, [Next]_vars
  PROVE  OneAtATime'
<1> USE DEF flags, signals, config, codecs, muxer, cleanup, threads, control, bounds,
    ends, history, At, Goto, Threads, Setters, Encoding, Places, StatesOK, WorkTypes,
    OneAtATime
<1>1. CASE BeginStart
  BY <1>1 DEF BeginStart, Begin
<1>2. CASE BeginStop
  BY <1>2 DEF BeginStop, Begin, StopRecording
<1>3. CASE BeginSetConfig
  BY <1>3 DEF BeginSetConfig, Begin
<1>4. CASE BeginClose
  BY <1>4 DEF BeginClose, StopRecording
<1>5. CASE RefuseStart
  BY <1>5 DEF RefuseStart
<1>6. CASE StartAudioInput
  BY <1>6 DEF StartAudioInput, ReleaseAudioInputResource, Refused
<1>7. CASE StartEncoders
  BY <1>7 DEF StartEncoders, StartFails
<1>8. CASE InitMediaMuxer
  BY <1>8 DEF InitMediaMuxer, ResetSignals, StartFails
<1>9. CASE PostEncoding
  <2>1. posted'["video"] \in {posted["video"], Append(posted["video"], starts)}
    BY <1>9, PostedStep
  <2>2. pc["client"] = "attach" /\ pc' = [pc EXCEPT !["client"] = "idle"] /\ UNCHANGED signals
    BY <1>9 DEF PostEncoding
  <2>3. posted["video"] = <<>> /\ Len(Append(<<>>, starts)) = 1
    BY <2>2
  <2> QED BY <2>1, <2>2, <2>3
<1>10. CASE ReleaseCapture
  BY <1>10 DEF ReleaseCapture, StopRecording, ReleaseResources,
      ReleaseAudioInputResource
<1>11. CASE CallFuture
  BY <1>11 DEF CallFuture, ReleaseResources, ReleaseAudioInputResource
<1>12. ASSUME NEW t \in Setters, SetupVideo(t) PROVE OneAtATime'
  BY <1>12 DEF SetupVideo
<1>13. ASSUME NEW t \in Setters, SetupAudio(t) PROVE OneAtATime'
  BY <1>13 DEF SetupAudio
<1>14. ASSUME NEW t \in Setters, SetupEnd(t) PROVE OneAtATime'
  BY <1>14 DEF SetupEnd
<1>15. CASE BeginVideo
  BY <1>15 DEF BeginVideo
<1>16. CASE CheckVideoSignal
  BY <1>16 DEF CheckVideoSignal, EncodeFails, Die
<1>17. CASE VideoFormatChanged
  BY <1>17 DEF VideoFormatChanged, MuxerStarts, EncodeFails, Die
<1>18. CASE WriteVideo
  BY <1>18 DEF WriteVideo
<1>19. CASE DequeueVideo
  BY <1>19 DEF DequeueVideo, EncodeFails, Die
<1>20. CASE StopVideoEncoder
  BY <1>20 DEF StopVideoEncoder, Die
<1>21. CASE StopMuxer
  BY <1>21 DEF StopMuxer
<1>22. CASE FinishVideo
  BY <1>22 DEF FinishVideo
<1>23. CASE AnswerVideo
  BY <1>23 DEF AnswerVideo
<1>24. CASE BeginAudio
  BY <1>24 DEF BeginAudio
<1>25. CASE CheckAudioSignal
  BY <1>25 DEF CheckAudioSignal
<1>26. CASE DequeueAudio
  BY <1>26 DEF DequeueAudio, Die
<1>27. CASE AudioFormatChanged
  BY <1>27 DEF AudioFormatChanged, MuxerStarts, Die
<1>28. CASE StopAudio
  BY <1>28 DEF StopAudio, Die
<1>29. CASE UNCHANGED vars
  BY <1>29 DEF vars
<1> HIDE DEF flags, signals, config, codecs, muxer, cleanup, threads, control, bounds,
    ends, history, At, Goto, Threads, Setters, Encoding, Places, StatesOK, WorkTypes,
    OneAtATime
<1> QED BY <1>1, <1>2, <1>3, <1>4, <1>5, <1>6, <1>7, <1>8, <1>9, <1>10, <1>11, <1>12,
    <1>13, <1>14, <1>15, <1>16, <1>17, <1>18, <1>19, <1>20, <1>21, <1>22, <1>23, <1>24,
    <1>25, <1>26, <1>27, <1>28, <1>29 DEF Next, Application, Client, Executor, Video,
    Audio, Setters

\* Every step keeps the meaning of the key frame flag.
LEMMA FlagStep ==
  ASSUME StatesOK, WorkTypes, OneAtATime, FlagOK, [Next]_vars
  PROVE  FlagOK'
<1> USE DEF flags, signals, config, codecs, muxer, cleanup, threads, control, bounds,
    ends, history, At, Goto, Threads, Setters, Encoding, Places, StatesOK, WorkTypes,
    OneAtATime, FlagOK, VideoLoop
<1>1. CASE BeginStart
  BY <1>1 DEF BeginStart, Begin
<1>2. CASE BeginStop
  BY <1>2 DEF BeginStop, Begin, StopRecording
<1>3. CASE BeginSetConfig
  BY <1>3 DEF BeginSetConfig, Begin
<1>4. CASE BeginClose
  BY <1>4 DEF BeginClose, StopRecording
<1>5. CASE RefuseStart
  BY <1>5 DEF RefuseStart
<1>6. CASE StartAudioInput
  BY <1>6 DEF StartAudioInput, ReleaseAudioInputResource, Refused
<1>7. CASE StartEncoders
  BY <1>7 DEF StartEncoders, StartFails
<1>8. CASE InitMediaMuxer
  BY <1>8 DEF InitMediaMuxer, ResetSignals, StartFails
<1>9. CASE PostEncoding
  BY <1>9 DEF PostEncoding
<1>10. CASE ReleaseCapture
  BY <1>10 DEF ReleaseCapture, StopRecording, ReleaseResources,
      ReleaseAudioInputResource
<1>11. CASE CallFuture
  BY <1>11 DEF CallFuture, ReleaseResources, ReleaseAudioInputResource
<1>12. ASSUME NEW t \in Setters, SetupVideo(t) PROVE FlagOK'
  BY <1>12 DEF SetupVideo
<1>13. ASSUME NEW t \in Setters, SetupAudio(t) PROVE FlagOK'
  BY <1>13 DEF SetupAudio
<1>14. ASSUME NEW t \in Setters, SetupEnd(t) PROVE FlagOK'
  BY <1>14 DEF SetupEnd
<1>15. CASE BeginVideo
  BY <1>15 DEF BeginVideo
<1>16. CASE CheckVideoSignal
  BY <1>16 DEF CheckVideoSignal, EncodeFails, Die
<1>17. CASE VideoFormatChanged
  BY <1>17 DEF VideoFormatChanged, MuxerStarts, EncodeFails, Die
<1>18. CASE WriteVideo
  BY <1>18 DEF WriteVideo
<1>19. CASE DequeueVideo
  BY <1>19 DEF DequeueVideo, EncodeFails, Die
<1>20. CASE StopVideoEncoder
  BY <1>20 DEF StopVideoEncoder, Die
<1>21. CASE StopMuxer
  BY <1>21 DEF StopMuxer
<1>22. CASE FinishVideo
  BY <1>22 DEF FinishVideo
<1>23. CASE AnswerVideo
  BY <1>23 DEF AnswerVideo
<1>24. CASE BeginAudio
  BY <1>24 DEF BeginAudio
<1>25. CASE CheckAudioSignal
  BY <1>25 DEF CheckAudioSignal
<1>26. CASE DequeueAudio
  BY <1>26 DEF DequeueAudio, Die
<1>27. CASE AudioFormatChanged
  BY <1>27 DEF AudioFormatChanged, MuxerStarts, Die
<1>28. CASE StopAudio
  BY <1>28 DEF StopAudio, Die
<1>29. CASE UNCHANGED vars
  BY <1>29 DEF vars
<1> HIDE DEF flags, signals, config, codecs, muxer, cleanup, threads, control, bounds,
    ends, history, At, Goto, Threads, Setters, Encoding, Places, StatesOK, WorkTypes,
    OneAtATime, FlagOK, VideoLoop
<1> QED BY <1>1, <1>2, <1>3, <1>4, <1>5, <1>6, <1>7, <1>8, <1>9, <1>10, <1>11, <1>12,
    <1>13, <1>14, <1>15, <1>16, <1>17, <1>18, <1>19, <1>20, <1>21, <1>22, <1>23, <1>24,
    <1>25, <1>26, <1>27, <1>28, <1>29 DEF Next, Application, Client, Executor, Video,
    Audio, Setters

\* Every step keeps the recordings fresh that nobody has encoded.
LEMMA FreshStep ==
  ASSUME StatesOK, WorkTypes, WorkOK, OneAtATime, FreshOK, [Next]_vars
  PROVE  FreshOK'
<1> USE DEF flags, signals, config, codecs, muxer, cleanup, threads, control, bounds,
    ends, history, At, Goto, Threads, Setters, Encoding, StatesOK, WorkTypes,
    StartPlaces, VideoLoop
<1>1. CASE BeginStart
  BY <1>1, AnswersStep, FreshStart
<1>2. CASE BeginStop
  <2>1. /\ UNCHANGED <<starts, keyed, again, mIsFirstVideoKeyFrameWrite>>
        /\ posted'["video"] = posted["video"] /\ serves'["video"] = serves["video"]
    BY <1>2 DEF BeginStop, Begin
  <2>2. /\ pc'["client"] # pc["client"] =>
            pc'["client"] # "check"
            /\ (pc["client"] \in StartPlaces \/ pc'["client"] \notin StartPlaces)
        /\ pc["video"] # "stopMuxer" \/ pc'["video"] # "finish"
        /\ pc'["video"] \in VideoLoop => pc["video"] \in VideoLoop
    BY <1>2 DEF BeginStop, Begin
  <2> QED BY <2>1, <2>2, AnswersStep, FreshKept
<1>3. CASE BeginSetConfig
  <2>1. /\ UNCHANGED <<starts, keyed, again, mIsFirstVideoKeyFrameWrite>>
        /\ posted'["video"] = posted["video"] /\ serves'["video"] = serves["video"]
    BY <1>3 DEF BeginSetConfig, Begin
  <2>2. /\ pc'["client"] # pc["client"] =>
            pc'["client"] # "check"
            /\ (pc["client"] \in StartPlaces \/ pc'["client"] \notin StartPlaces)
        /\ pc["video"] # "stopMuxer" \/ pc'["video"] # "finish"
        /\ pc'["video"] \in VideoLoop => pc["video"] \in VideoLoop
    BY <1>3 DEF BeginSetConfig, Begin
  <2> QED BY <2>1, <2>2, AnswersStep, FreshKept
<1>4. CASE BeginClose
  <2>1. /\ UNCHANGED <<starts, keyed, again, mIsFirstVideoKeyFrameWrite>>
        /\ posted'["video"] = posted["video"] /\ serves'["video"] = serves["video"]
    BY <1>4 DEF BeginClose
  <2>2. /\ pc'["client"] # pc["client"] =>
            pc'["client"] # "check"
            /\ (pc["client"] \in StartPlaces \/ pc'["client"] \notin StartPlaces)
        /\ pc["video"] # "stopMuxer" \/ pc'["video"] # "finish"
        /\ pc'["video"] \in VideoLoop => pc["video"] \in VideoLoop
    BY <1>4 DEF BeginClose
  <2> QED BY <2>1, <2>2, AnswersStep, FreshKept
<1>5. CASE RefuseStart
  <2>1. /\ UNCHANGED <<starts, keyed, again, mIsFirstVideoKeyFrameWrite>>
        /\ posted'["video"] = posted["video"] /\ serves'["video"] = serves["video"]
    BY <1>5 DEF RefuseStart
  <2>2. /\ pc'["client"] # pc["client"] =>
            pc'["client"] # "check"
            /\ (pc["client"] \in StartPlaces \/ pc'["client"] \notin StartPlaces)
        /\ pc["video"] # "stopMuxer" \/ pc'["video"] # "finish"
        /\ pc'["video"] \in VideoLoop => pc["video"] \in VideoLoop
    BY <1>5 DEF RefuseStart
  <2> QED BY <2>1, <2>2, AnswersStep, FreshKept
<1>6. CASE StartAudioInput
  <2>1. /\ UNCHANGED <<starts, keyed, again, mIsFirstVideoKeyFrameWrite>>
        /\ posted'["video"] = posted["video"] /\ serves'["video"] = serves["video"]
    BY <1>6 DEF StartAudioInput
  <2>2. /\ pc'["client"] # pc["client"] =>
            pc'["client"] # "check"
            /\ (pc["client"] \in StartPlaces \/ pc'["client"] \notin StartPlaces)
        /\ pc["video"] # "stopMuxer" \/ pc'["video"] # "finish"
        /\ pc'["video"] \in VideoLoop => pc["video"] \in VideoLoop
    BY <1>6 DEF StartAudioInput
  <2> QED BY <2>1, <2>2, AnswersStep, FreshKept
<1>7. CASE StartEncoders
  <2>1. /\ UNCHANGED <<starts, keyed, again, mIsFirstVideoKeyFrameWrite>>
        /\ posted'["video"] = posted["video"] /\ serves'["video"] = serves["video"]
    BY <1>7 DEF StartEncoders
  <2>2. /\ pc'["client"] # pc["client"] =>
            pc'["client"] # "check"
            /\ (pc["client"] \in StartPlaces \/ pc'["client"] \notin StartPlaces)
        /\ pc["video"] # "stopMuxer" \/ pc'["video"] # "finish"
        /\ pc'["video"] \in VideoLoop => pc["video"] \in VideoLoop
    BY <1>7 DEF StartEncoders, StartFails
  <2> QED BY <2>1, <2>2, AnswersStep, FreshKept
<1>8. CASE InitMediaMuxer
  <2>1. /\ UNCHANGED <<starts, keyed, again, mIsFirstVideoKeyFrameWrite>>
        /\ posted'["video"] = posted["video"] /\ serves'["video"] = serves["video"]
    BY <1>8 DEF InitMediaMuxer
  <2>2. /\ pc'["client"] # pc["client"] =>
            pc'["client"] # "check"
            /\ (pc["client"] \in StartPlaces \/ pc'["client"] \notin StartPlaces)
        /\ pc["video"] # "stopMuxer" \/ pc'["video"] # "finish"
        /\ pc'["video"] \in VideoLoop => pc["video"] \in VideoLoop
    BY <1>8 DEF InitMediaMuxer, StartFails
  <2> QED BY <2>1, <2>2, AnswersStep, FreshKept
<1>9. CASE PostEncoding
  BY <1>9, AnswersStep, FreshPost
<1>10. CASE ReleaseCapture
  <2>1. /\ UNCHANGED <<starts, keyed, again, mIsFirstVideoKeyFrameWrite>>
        /\ posted'["video"] = posted["video"] /\ serves'["video"] = serves["video"]
    BY <1>10 DEF ReleaseCapture
  <2>2. /\ pc'["client"] # pc["client"] =>
            pc'["client"] # "check"
            /\ (pc["client"] \in StartPlaces \/ pc'["client"] \notin StartPlaces)
        /\ pc["video"] # "stopMuxer" \/ pc'["video"] # "finish"
        /\ pc'["video"] \in VideoLoop => pc["video"] \in VideoLoop
    BY <1>10 DEF ReleaseCapture
  <2> QED BY <2>1, <2>2, AnswersStep, FreshKept
<1>11. CASE CallFuture
  <2>1. /\ UNCHANGED <<starts, keyed, again, mIsFirstVideoKeyFrameWrite>>
        /\ posted'["video"] = posted["video"] /\ serves'["video"] = serves["video"]
    BY <1>11 DEF CallFuture
  <2>2. /\ pc'["client"] # pc["client"] =>
            pc'["client"] # "check"
            /\ (pc["client"] \in StartPlaces \/ pc'["client"] \notin StartPlaces)
        /\ pc["video"] # "stopMuxer" \/ pc'["video"] # "finish"
        /\ pc'["video"] \in VideoLoop => pc["video"] \in VideoLoop
    BY <1>11 DEF CallFuture
  <2> QED BY <2>1, <2>2, AnswersStep, FreshKept
<1>12. ASSUME NEW t \in Setters, SetupVideo(t) PROVE FreshOK'
  <2>1. /\ UNCHANGED <<starts, keyed, again, mIsFirstVideoKeyFrameWrite>>
        /\ posted'["video"] = posted["video"] /\ serves'["video"] = serves["video"]
    BY <1>12 DEF SetupVideo
  <2>2. /\ pc'["client"] # pc["client"] =>
            pc'["client"] # "check"
            /\ (pc["client"] \in StartPlaces \/ pc'["client"] \notin StartPlaces)
        /\ pc["video"] # "stopMuxer" \/ pc'["video"] # "finish"
        /\ pc'["video"] \in VideoLoop => pc["video"] \in VideoLoop
    BY <1>12 DEF SetupVideo
  <2> QED BY <2>1, <2>2, AnswersStep, FreshKept
<1>13. ASSUME NEW t \in Setters, SetupAudio(t) PROVE FreshOK'
  <2>1. /\ UNCHANGED <<starts, keyed, again, mIsFirstVideoKeyFrameWrite>>
        /\ posted'["video"] = posted["video"] /\ serves'["video"] = serves["video"]
    BY <1>13 DEF SetupAudio
  <2>2. /\ pc'["client"] # pc["client"] =>
            pc'["client"] # "check"
            /\ (pc["client"] \in StartPlaces \/ pc'["client"] \notin StartPlaces)
        /\ pc["video"] # "stopMuxer" \/ pc'["video"] # "finish"
        /\ pc'["video"] \in VideoLoop => pc["video"] \in VideoLoop
    BY <1>13 DEF SetupAudio
  <2> QED BY <2>1, <2>2, AnswersStep, FreshKept
<1>14. ASSUME NEW t \in Setters, SetupEnd(t) PROVE FreshOK'
  <2>1. /\ UNCHANGED <<starts, keyed, again, mIsFirstVideoKeyFrameWrite>>
        /\ posted'["video"] = posted["video"] /\ serves'["video"] = serves["video"]
    BY <1>14 DEF SetupEnd
  <2>2. /\ pc'["client"] # pc["client"] =>
            pc'["client"] # "check"
            /\ (pc["client"] \in StartPlaces \/ pc'["client"] \notin StartPlaces)
        /\ pc["video"] # "stopMuxer" \/ pc'["video"] # "finish"
        /\ pc'["video"] \in VideoLoop => pc["video"] \in VideoLoop
    BY <1>14 DEF SetupEnd
  <2> QED BY <2>1, <2>2, AnswersStep, FreshKept
<1>15. CASE BeginVideo
  BY <1>15, AnswersStep, FreshBegin
<1>16. CASE CheckVideoSignal
  <2>1. /\ UNCHANGED <<starts, keyed, again, mIsFirstVideoKeyFrameWrite>>
        /\ posted'["video"] = posted["video"] /\ serves'["video"] = serves["video"]
    BY <1>16 DEF CheckVideoSignal
  <2>2. /\ pc'["client"] # pc["client"] =>
            pc'["client"] # "check"
            /\ (pc["client"] \in StartPlaces \/ pc'["client"] \notin StartPlaces)
        /\ pc["video"] # "stopMuxer" \/ pc'["video"] # "finish"
        /\ pc'["video"] \in VideoLoop => pc["video"] \in VideoLoop
    BY <1>16 DEF CheckVideoSignal, EncodeFails
  <2> QED BY <2>1, <2>2, AnswersStep, FreshKept
<1>17. CASE VideoFormatChanged
  <2>1. /\ UNCHANGED <<starts, keyed, again, mIsFirstVideoKeyFrameWrite>>
        /\ posted'["video"] = posted["video"] /\ serves'["video"] = serves["video"]
    BY <1>17 DEF VideoFormatChanged
  <2>2. /\ pc'["client"] # pc["client"] =>
            pc'["client"] # "check"
            /\ (pc["client"] \in StartPlaces \/ pc'["client"] \notin StartPlaces)
        /\ pc["video"] # "stopMuxer" \/ pc'["video"] # "finish"
        /\ pc'["video"] \in VideoLoop => pc["video"] \in VideoLoop
    BY <1>17 DEF VideoFormatChanged, MuxerStarts, EncodeFails
  <2> QED BY <2>1, <2>2, AnswersStep, FreshKept
<1>18. CASE WriteVideo
  BY <1>18, AnswersStep, FreshWrite
<1>19. CASE DequeueVideo
  <2>1. /\ UNCHANGED <<starts, keyed, again, mIsFirstVideoKeyFrameWrite>>
        /\ posted'["video"] = posted["video"] /\ serves'["video"] = serves["video"]
    BY <1>19 DEF DequeueVideo
  <2>2. /\ pc'["client"] # pc["client"] =>
            pc'["client"] # "check"
            /\ (pc["client"] \in StartPlaces \/ pc'["client"] \notin StartPlaces)
        /\ pc["video"] # "stopMuxer" \/ pc'["video"] # "finish"
        /\ pc'["video"] \in VideoLoop => pc["video"] \in VideoLoop
    BY <1>19 DEF DequeueVideo, EncodeFails
  <2> QED BY <2>1, <2>2, AnswersStep, FreshKept
<1>20. CASE StopVideoEncoder
  <2>1. /\ UNCHANGED <<starts, keyed, again, mIsFirstVideoKeyFrameWrite>>
        /\ posted'["video"] = posted["video"] /\ serves'["video"] = serves["video"]
    BY <1>20 DEF StopVideoEncoder
  <2>2. /\ pc'["client"] # pc["client"] =>
            pc'["client"] # "check"
            /\ (pc["client"] \in StartPlaces \/ pc'["client"] \notin StartPlaces)
        /\ pc["video"] # "stopMuxer" \/ pc'["video"] # "finish"
        /\ pc'["video"] \in VideoLoop => pc["video"] \in VideoLoop
    BY <1>20 DEF StopVideoEncoder
  <2> QED BY <2>1, <2>2, AnswersStep, FreshKept
<1>21. CASE StopMuxer
  BY <1>21, AnswersStep, FreshStop
<1>22. CASE FinishVideo
  <2>1. /\ UNCHANGED <<starts, keyed, again>>
        /\ posted'["video"] = posted["video"] /\ serves'["video"] = serves["video"]
    BY <1>22 DEF FinishVideo
  <2>2. /\ pc'["client"] # pc["client"] =>
            pc'["client"] # "check"
            /\ (pc["client"] \in StartPlaces \/ pc'["client"] \notin StartPlaces)
        /\ pc["video"] # "stopMuxer" \/ pc'["video"] # "finish"
        /\ pc'["video"] \notin VideoLoop
    BY <1>22 DEF FinishVideo
  <2> QED BY <2>1, <2>2, AnswersStep, FreshKept
<1>23. CASE AnswerVideo
  BY <1>23, AnswersStep, FreshAnswer
<1>24. CASE BeginAudio
  <2>1. /\ UNCHANGED <<starts, keyed, again, mIsFirstVideoKeyFrameWrite>>
        /\ posted'["video"] = posted["video"] /\ serves'["video"] = serves["video"]
    BY <1>24 DEF BeginAudio
  <2>2. /\ pc'["client"] # pc["client"] =>
            pc'["client"] # "check"
            /\ (pc["client"] \in StartPlaces \/ pc'["client"] \notin StartPlaces)
        /\ pc["video"] # "stopMuxer" \/ pc'["video"] # "finish"
        /\ pc'["video"] \in VideoLoop => pc["video"] \in VideoLoop
    BY <1>24 DEF BeginAudio
  <2> QED BY <2>1, <2>2, AnswersStep, FreshKept
<1>25. CASE CheckAudioSignal
  <2>1. /\ UNCHANGED <<starts, keyed, again, mIsFirstVideoKeyFrameWrite>>
        /\ posted'["video"] = posted["video"] /\ serves'["video"] = serves["video"]
    BY <1>25 DEF CheckAudioSignal
  <2>2. /\ pc'["client"] # pc["client"] =>
            pc'["client"] # "check"
            /\ (pc["client"] \in StartPlaces \/ pc'["client"] \notin StartPlaces)
        /\ pc["video"] # "stopMuxer" \/ pc'["video"] # "finish"
        /\ pc'["video"] \in VideoLoop => pc["video"] \in VideoLoop
    BY <1>25 DEF CheckAudioSignal
  <2> QED BY <2>1, <2>2, AnswersStep, FreshKept
<1>26. CASE DequeueAudio
  <2>1. /\ UNCHANGED <<starts, keyed, again, mIsFirstVideoKeyFrameWrite>>
        /\ posted'["video"] = posted["video"] /\ serves'["video"] = serves["video"]
    BY <1>26 DEF DequeueAudio
  <2>2. /\ pc'["client"] # pc["client"] =>
            pc'["client"] # "check"
            /\ (pc["client"] \in StartPlaces \/ pc'["client"] \notin StartPlaces)
        /\ pc["video"] # "stopMuxer" \/ pc'["video"] # "finish"
        /\ pc'["video"] \in VideoLoop => pc["video"] \in VideoLoop
    BY <1>26 DEF DequeueAudio
  <2> QED BY <2>1, <2>2, AnswersStep, FreshKept
<1>27. CASE AudioFormatChanged
  <2>1. /\ UNCHANGED <<starts, keyed, again, mIsFirstVideoKeyFrameWrite>>
        /\ posted'["video"] = posted["video"] /\ serves'["video"] = serves["video"]
    BY <1>27 DEF AudioFormatChanged
  <2>2. /\ pc'["client"] # pc["client"] =>
            pc'["client"] # "check"
            /\ (pc["client"] \in StartPlaces \/ pc'["client"] \notin StartPlaces)
        /\ pc["video"] # "stopMuxer" \/ pc'["video"] # "finish"
        /\ pc'["video"] \in VideoLoop => pc["video"] \in VideoLoop
    BY <1>27 DEF AudioFormatChanged, MuxerStarts
  <2> QED BY <2>1, <2>2, AnswersStep, FreshKept
<1>28. CASE StopAudio
  <2>1. /\ UNCHANGED <<starts, keyed, again, mIsFirstVideoKeyFrameWrite>>
        /\ posted'["video"] = posted["video"] /\ serves'["video"] = serves["video"]
    BY <1>28 DEF StopAudio
  <2>2. /\ pc'["client"] # pc["client"] =>
            pc'["client"] # "check"
            /\ (pc["client"] \in StartPlaces \/ pc'["client"] \notin StartPlaces)
        /\ pc["video"] # "stopMuxer" \/ pc'["video"] # "finish"
        /\ pc'["video"] \in VideoLoop => pc["video"] \in VideoLoop
    BY <1>28 DEF StopAudio
  <2> QED BY <2>1, <2>2, AnswersStep, FreshKept
<1>29. CASE UNCHANGED vars
  BY <1>29, AnswersStep, FreshKept DEF vars
<1> HIDE DEF flags, signals, config, codecs, muxer, cleanup, threads, control, bounds,
    ends, history, At, Goto, Threads, Setters, Encoding, StatesOK, WorkTypes,
    StartPlaces, VideoLoop
<1> QED BY <1>1, <1>2, <1>3, <1>4, <1>5, <1>6, <1>7, <1>8, <1>9, <1>10, <1>11, <1>12,
    <1>13, <1>14, <1>15, <1>16, <1>17, <1>18, <1>19, <1>20, <1>21, <1>22, <1>23, <1>24,
    <1>25, <1>26, <1>27, <1>28, <1>29 DEF Next, Application, Client, Executor, Video,
    Audio, Setters

\* Every step keeps what the answers say of the key frame.
LEMMA KeyFrameStep ==
  ASSUME StatesOK, WorkTypes, WorkOK, OneAtATime, FlagOK, FreshOK, KeyFrameDecides, [Next]_vars
  PROVE  KeyFrameDecides'
<1> USE DEF flags, signals, config, codecs, muxer, cleanup, threads, control, bounds,
    ends, history, At, Goto, Threads, Setters, Encoding, Recordings, WorkOK, StatesOK,
    WorkTypes, FlagOK, FreshOK, Fresh, VideoLoop, KeyFrameDecides
<1>1. CASE BeginStart
  BY <1>1, AnswersStep DEF BeginStart, Begin, AnswersAdd
<1>2. CASE BeginStop
  BY <1>2, AnswersStep DEF BeginStop, Begin, StopRecording, AnswersAdd
<1>3. CASE BeginSetConfig
  BY <1>3, AnswersStep DEF BeginSetConfig, Begin, AnswersAdd
<1>4. CASE BeginClose
  BY <1>4, AnswersStep DEF BeginClose, StopRecording, AnswersAdd
<1>5. CASE RefuseStart
  BY <1>5, AnswersStep DEF RefuseStart, AnswersAdd
<1>6. CASE StartAudioInput
  BY <1>6, AnswersStep DEF StartAudioInput, AnswersAdd
<1>7. CASE StartEncoders
  BY <1>7, AnswersStep DEF StartEncoders, StartFails, AnswersAdd
<1>8. CASE InitMediaMuxer
  BY <1>8, AnswersStep DEF InitMediaMuxer, ResetSignals, StartFails, AnswersAdd
<1>9. CASE PostEncoding
  BY <1>9, AnswersStep DEF PostEncoding, AnswersAdd
<1>10. CASE ReleaseCapture
  BY <1>10, AnswersStep DEF ReleaseCapture, StopRecording, ReleaseResources, AnswersAdd
<1>11. CASE CallFuture
  BY <1>11, AnswersStep DEF CallFuture, ReleaseResources, AnswersAdd
<1>12. ASSUME NEW t \in Setters, SetupVideo(t) PROVE KeyFrameDecides'
  BY <1>12, AnswersStep DEF SetupVideo, AnswersAdd
<1>13. ASSUME NEW t \in Setters, SetupAudio(t) PROVE KeyFrameDecides'
  BY <1>13, AnswersStep DEF SetupAudio, AnswersAdd
<1>14. ASSUME NEW t \in Setters, SetupEnd(t) PROVE KeyFrameDecides'
  BY <1>14, AnswersStep DEF SetupEnd, AnswersAdd
<1>15. CASE BeginVideo
  BY <1>15, AnswersStep DEF BeginVideo, AnswersAdd
<1>16. CASE CheckVideoSignal
  BY <1>16, AnswersStep DEF CheckVideoSignal, EncodeFails, AnswersAdd
<1>17. CASE VideoFormatChanged
  BY <1>17, AnswersStep DEF VideoFormatChanged, MuxerStarts, EncodeFails, AnswersAdd
<1>18. CASE WriteVideo
  BY <1>18, AnswersStep DEF WriteVideo, AnswersAdd
<1>19. CASE DequeueVideo
  BY <1>19, AnswersStep DEF DequeueVideo, EncodeFails, AnswersAdd
<1>20. CASE StopVideoEncoder
  BY <1>20, AnswersStep DEF StopVideoEncoder, AnswersAdd
<1>21. CASE StopMuxer
  BY <1>21, AnswersStep DEF StopMuxer, AnswersAdd
<1>22. CASE FinishVideo
  BY <1>22, AnswersStep DEF FinishVideo, AnswersAdd
<1>23. CASE AnswerVideo
  BY <1>23, AnswersStep DEF AnswerVideo, AnswersAdd
<1>24. CASE BeginAudio
  BY <1>24, AnswersStep DEF BeginAudio, AnswersAdd
<1>25. CASE CheckAudioSignal
  BY <1>25, AnswersStep DEF CheckAudioSignal, AnswersAdd
<1>26. CASE DequeueAudio
  BY <1>26, AnswersStep DEF DequeueAudio, AnswersAdd
<1>27. CASE AudioFormatChanged
  BY <1>27, AnswersStep DEF AudioFormatChanged, MuxerStarts, AnswersAdd
<1>28. CASE StopAudio
  BY <1>28, AnswersStep DEF StopAudio, AnswersAdd
<1>29. CASE UNCHANGED vars
  BY <1>29 DEF vars
<1> HIDE DEF flags, signals, config, codecs, muxer, cleanup, threads, control, bounds,
    ends, history, At, Goto, Threads, Setters, Encoding, Recordings, WorkOK, StatesOK,
    WorkTypes, FlagOK, FreshOK, Fresh, VideoLoop, KeyFrameDecides
<1> QED BY <1>1, <1>2, <1>3, <1>4, <1>5, <1>6, <1>7, <1>8, <1>9, <1>10, <1>11, <1>12,
    <1>13, <1>14, <1>15, <1>16, <1>17, <1>18, <1>19, <1>20, <1>21, <1>22, <1>23, <1>24,
    <1>25, <1>26, <1>27, <1>28, <1>29 DEF Next, Application, Client, Executor, Video,
    Audio, Setters

\* The initial states satisfy the inductive invariant.
LEMMA InitIInv == Init => IInv
<1> SUFFICES ASSUME Init PROVE IInv OBVIOUS
<1>1. FlagTypes /\ ResourceFlags /\ EndTypes
  BY DEF Init, FlagTypes, ResourceFlags, EndTypes
<1>2. StatesOK
  BY BoundsAssumption DEF Init, StatesOK, Codecs, Encoding, Recordings, Threads, Places
<1>3. WorkTypes
  BY BoundsAssumption DEF Init, WorkTypes, Encoding, Recordings, Answers
<1>4. WorkOK /\ OneAtATime /\ FlagOK
  BY DEF Init, WorkOK, OneAtATime, FlagOK, Encoding, Threads, StartPlaces, VideoLoop
<1>5. FreshOK /\ KeyFrameDecides
  BY BoundsAssumption DEF Init, FreshOK, Fresh, KeyFrameDecides, Encoding, Recordings,
     Threads,
     StartPlaces, VideoLoop
<1> QED
  BY <1>1, <1>2, <1>3, <1>4, <1>5 DEF IInv, TypeOK, FlagTypes, ResourceFlags,
     EndTypes, StatesOK, WorkTypes

\* The inductive invariant holds in every state of every behaviour.
THEOREM Invariance == Spec => []IInv
<1>1. ASSUME IInv, [Next]_vars PROVE IInv'
  <2>1. TypeOK /\ WorkOK /\ OneAtATime /\ FlagOK /\ FreshOK /\ KeyFrameDecides
    BY <1>1 DEF IInv
  <2>0. FlagTypes /\ ResourceFlags /\ EndTypes /\ StatesOK /\ WorkTypes
    BY <2>1 DEF TypeOK, FlagTypes, ResourceFlags, EndTypes, StatesOK, WorkTypes
  <2>2. FlagTypes' /\ ResourceFlags' /\ EndTypes' /\ StatesOK' /\ WorkTypes'
    BY <1>1, <2>0, <2>1, FlagTypesStep, ResourceFlagsStep, EndTypesStep, StatesStep,
       WorkTypesStep
  <2>3. TypeOK' BY <2>2 DEF TypeOK, FlagTypes, ResourceFlags, EndTypes, StatesOK,
                          WorkTypes
  <2>4. WorkOK' /\ OneAtATime' /\ FlagOK' /\ FreshOK' /\ KeyFrameDecides'
    BY <1>1, <2>0, <2>1, WorkStep, OneStep, FlagStep, FreshStep, KeyFrameStep
  <2> QED BY <2>3, <2>4 DEF IInv
<1> QED BY InitIInv, <1>1, PTL DEF Spec

\* Every variable keeps its type.
THEOREM TypeCorrect == Spec => []TypeOK
<1>1. IInv => TypeOK BY DEF IInv
<1> QED BY Invariance, <1>1, PTL

\* However recordings, stops, changes of the configuration, failures and the
\* closing of the camera follow each other, a recording is reported saved only
\* if its file has a key frame, and too short only if it has none, unless
\* startRecording was called during a recording (VideoCapture.java:298, 815).
THEOREM KeyFrameDecidesHolds == Spec => []KeyFrameDecides
<1>1. IInv => KeyFrameDecides BY DEF IInv
<1> QED BY Invariance, <1>1, PTL
=============================================================================
