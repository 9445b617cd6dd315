--------------------------- MODULE VideoPipeline ---------------------------
(***************************************************************************)
(* The video stream: components/video_streamer, as the V3 build runs it.   *)
(* Tasks:                                                                  *)
(*   - the controller, which executes start and stop, one at a time under  *)
(*     s_ctrl_mutex;                                                       *)
(*   - video_codec, the only task that touches the H.264 encoder: it opens *)
(*     it when start asks for it, closes it when the stream is off, and    *)
(*     turns the camera's JPEG frames into H.264 frames;                   *)
(*   - video_upload, which hands encoded frames to WebRTC;                 *)
(*   - the camera's handoff task, which lends frames to the input slots.   *)
(* A frame is the number of the stream in which it passed the gate of      *)
(* submit: its age is all the properties look at.  An input slot is busy   *)
(* from the gate until its frame is released to the camera; slots are      *)
(* counted.  Whether the camera has a frame to offer, WebRTC wants it, a   *)
(* frame is damaged, decoding, encoding or opening fails, and when the     *)
(* waits of 50 ms and of 2 s end, is left open.                            *)
(***************************************************************************)
EXTENDS Naturals, Sequences, FiniteSets

CONSTANTS
    InSlots,    \* VIDEO_SLOT_COUNT
    OutSlots,   \* VIDEO_OUT_SLOT_COUNT
    MaxStreams  \* streams started, a bound of the model

ASSUME InSlotsAssumption == InSlots \in Nat \ {0}
ASSUME OutSlotsAssumption == OutSlots \in Nat \ {0}
ASSUME MaxStreamsAssumption == MaxStreams \in Nat \ {0}

VARIABLES
    \* the control layer
    state,      \* s_video_state
    enabled,    \* s_stream_enabled, the gate
    force,      \* s_force_idr
    requested,  \* s_encoder_open_requested
    notified,   \* the notification of the codec task is pending
    done,       \* s_encoder_open_done
    result,     \* s_encoder_open_result
    ctrl,       \* program counter of the controller
    \* the codec task
    pc,         \* its program counter
    encoder,    \* encoder # NULL
    latest,     \* prefer_latest
    hand,       \* the frame in its hands, None for none
    \* the queues and the other tasks
    inputs,     \* s_input_queue
    ready,      \* s_out_ready
    outFree,    \* length of s_out_free
    busy,       \* input slots marked busy
    filling,    \* the frame submit is putting into its slot, None for none
    upload,     \* the frame video_upload holds, None for none
    \* history
    stream,     \* streams enabled so far
    fresh,      \* no frame was given to the encoder since the last start
    raced       \* the idle check has closed the encoder under a stream

askVars   == <<requested, notified, done, result>>
ctrlVars  == <<state, enabled, force, askVars, ctrl>>
codecVars == <<pc, encoder, latest, hand>>
queueVars == <<inputs, ready, outFree, busy>>
otherVars == <<filling, upload>>
history   == <<stream, fresh, raced>>

vars == <<ctrlVars, codecVars, queueVars, otherVars, history>>

States == {"idle", "starting", "streaming", "stopping", "error"}
Frames == 1..MaxStreams
None == 0
ControlPoints == {"idle", "start", "startOutputs", "askDrain", "ask", "post", "wait",
                  "opened", "forced", "enabled", "fail", "failState", "failInputs",
                  "failOutputs", "stop", "stopInputs", "stopOutputs"}
CodecPoints == {"top", "open", "answer", "receive", "off", "check", "decode",
                "encode", "encoding", "lost", "lostState", "lostInputs",
                "lostOutputs"}

ControlTypeOK ==
    /\ state \in States
    /\ enabled \in BOOLEAN /\ force \in BOOLEAN
    /\ requested \in BOOLEAN /\ notified \in BOOLEAN /\ done \in BOOLEAN
    /\ result \in {"ok", "failed", "invalid"}
    /\ ctrl \in ControlPoints

CodecTypeOK ==
    /\ pc \in CodecPoints
    /\ encoder \in BOOLEAN /\ latest \in BOOLEAN
    /\ fresh \in BOOLEAN /\ raced \in BOOLEAN

FrameTypeOK ==
    /\ stream \in 0..MaxStreams
    /\ hand \in Frames \cup {None}
    /\ filling \in Frames \cup {None}
    /\ upload \in Frames \cup {None}
    /\ inputs \in Seq(Frames) /\ Len(inputs) <= InSlots
    /\ ready \in Seq(Frames) /\ Len(ready) <= OutSlots
    /\ outFree \in 0..OutSlots
    /\ busy \in 0..InSlots

TypeOK == ControlTypeOK /\ CodecTypeOK /\ FrameTypeOK

\* video_streamer_init, and the codec task up to s_codec_ready.
Init ==
    /\ state = "idle" /\ enabled = FALSE /\ force = FALSE
    /\ requested = FALSE /\ notified = FALSE /\ done = FALSE
    /\ result = "invalid"
    /\ ctrl = "idle" /\ pc = "top"
    /\ encoder = FALSE /\ latest = FALSE
    /\ hand = None /\ filling = None /\ upload = None
    /\ inputs = <<>> /\ ready = <<>>
    /\ outFree = OutSlots /\ busy = 0
    /\ stream = 0 /\ fresh = FALSE /\ raced = FALSE
-----------------------------------------------------------------------------
\* Mutant: the queue is not emptied.
DrainInputs_KeepsFrames(counter, here, next) ==
    counter' = next /\ UNCHANGED <<inputs, busy>>

\* What both tasks do: video_drain_input_queue and video_drop_pending_output
\* take and return one slot at a time, until they find the queue empty.
DrainInputs(counter, here, next) ==
    IF inputs = <<>>
    THEN counter' = next /\ UNCHANGED <<inputs, busy>>
    ELSE counter' = here /\ inputs' = Tail(inputs) /\ busy' = busy - 1

DropOutputs(counter, here, next) ==
    IF ready = <<>>
    THEN counter' = next /\ UNCHANGED <<ready, outFree>>
    ELSE counter' = here /\ ready' = Tail(ready) /\ outFree' = outFree + 1
-----------------------------------------------------------------------------
\* The controller: video_streamer_start.  When the stream is on or starting it
\* returns at once, and so does stop when it is off: no step.
Start ==
    /\ ctrl = "idle" /\ state \notin {"starting", "streaming"}
    /\ stream < MaxStreams
    /\ state' = "starting"
    /\ ctrl' = "start"
    /\ UNCHANGED <<enabled, force, askVars, codecVars, queueVars, otherVars, history>>

StartInputs ==
    /\ ctrl = "start"
    /\ DrainInputs(ctrl, "start", "startOutputs")
    /\ UNCHANGED <<state, enabled, force, askVars, codecVars, ready, outFree,
                   otherVars, history>>

StartOutputs ==
    /\ ctrl = "startOutputs"
    /\ DropOutputs(ctrl, "startOutputs", "askDrain")
    /\ UNCHANGED <<state, enabled, force, askVars, codecVars, inputs, busy,
                   otherVars, history>>

\* video_request_encoder_open: the answer to an earlier request is dropped,
AskDrain ==
    /\ ctrl = "askDrain"
    /\ done' = FALSE
    /\ ctrl' = "ask"
    /\ UNCHANGED <<state, enabled, force, requested, notified, result,
                   codecVars, queueVars, otherVars, history>>

Ask ==
    /\ ctrl = "ask"
    /\ result' = "invalid"
    /\ ctrl' = "post"
    /\ UNCHANGED <<state, enabled, force, requested, notified, done,
                   codecVars, queueVars, otherVars, history>>

Post ==
    /\ ctrl = "post"
    /\ requested' = TRUE /\ notified' = TRUE
    /\ ctrl' = "wait"
    /\ UNCHANGED <<state, enabled, force, done, result,
                   codecVars, queueVars, otherVars, history>>

\* and the new one awaited, for at most two seconds.
Opened ==
    /\ ctrl = "wait" /\ done
    /\ done' = FALSE
    /\ ctrl' = IF result = "ok" THEN "opened" ELSE "fail"
    /\ UNCHANGED <<state, enabled, force, requested, notified, result,
                   codecVars, queueVars, otherVars, history>>

OpenTimeout ==
    /\ ctrl = "wait" /\ ~done
    /\ requested' = FALSE
    /\ ctrl' = "fail"
    /\ UNCHANGED <<state, enabled, force, notified, done, result,
                   codecVars, queueVars, otherVars, history>>

\* The first frame is to be an IDR: asked for before the gate opens.
ForceFirst ==
    /\ ctrl = "opened"
    /\ force' = TRUE
    /\ ctrl' = "forced"
    /\ UNCHANGED <<state, enabled, askVars, codecVars, queueVars, otherVars, history>>

Enable ==
    /\ enabled' = TRUE
    /\ stream' = stream + 1
    /\ fresh' = TRUE

StartEnable ==
    /\ ctrl = "forced"
    /\ Enable
    /\ ctrl' = "enabled"
    /\ UNCHANGED <<state, force, askVars, codecVars, queueVars, otherVars, raced>>

StartDone ==
    /\ ctrl = "enabled"
    /\ state' = "streaming"
    /\ ctrl' = "idle"
    /\ UNCHANGED <<enabled, force, askVars, codecVars, queueVars, otherVars, history>>

\* video_ctrl_set_resource_exhausted, called by start.
Fail ==
    /\ ctrl = "fail"
    /\ enabled' = FALSE
    /\ ctrl' = "failState"
    /\ UNCHANGED <<state, force, askVars, codecVars, queueVars, otherVars, history>>

FailState ==
    /\ ctrl = "failState"
    /\ state' = "error"
    /\ ctrl' = "failInputs"
    /\ UNCHANGED <<enabled, force, askVars, codecVars, queueVars, otherVars, history>>

FailInputs ==
    /\ ctrl = "failInputs"
    /\ DrainInputs(ctrl, "failInputs", "failOutputs")
    /\ UNCHANGED <<state, enabled, force, askVars, codecVars, ready, outFree,
                   otherVars, history>>

FailOutputs ==
    /\ ctrl = "failOutputs"
    /\ DropOutputs(ctrl, "failOutputs", "idle")
    /\ UNCHANGED <<state, enabled, force, askVars, codecVars, inputs, busy,
                   otherVars, history>>
-----------------------------------------------------------------------------
\* Mutant: the queues are drained with the gate open.
Stop_DrainsFirst ==
    /\ ctrl = "idle" /\ state # "idle"
    /\ state' = "stopping"
    /\ ctrl' = "stopInputs"
    /\ UNCHANGED <<enabled, force, askVars, codecVars, queueVars, otherVars, history>>

\* The controller: video_streamer_stop.
Stop ==
    /\ ctrl = "idle" /\ state # "idle"
    /\ state' = "stopping"
    /\ ctrl' = "stop"
    /\ UNCHANGED <<enabled, force, askVars, codecVars, queueVars, otherVars, history>>

StopGate ==
    /\ ctrl = "stop"
    /\ enabled' = FALSE
    /\ ctrl' = "stopInputs"
    /\ UNCHANGED <<state, force, askVars, codecVars, queueVars, otherVars, history>>

StopInputs ==
    /\ ctrl = "stopInputs"
    /\ DrainInputs(ctrl, "stopInputs", "stopOutputs")
    /\ UNCHANGED <<state, enabled, force, askVars, codecVars, ready, outFree,
                   otherVars, history>>

StopOutputs ==
    /\ ctrl = "stopOutputs"
    /\ DropOutputs(ctrl, "stopOutputs", "idle")
    /\ state' = IF ready = <<>> THEN "idle" ELSE state
    /\ UNCHANGED <<enabled, force, askVars, codecVars, inputs, busy, otherVars, history>>
-----------------------------------------------------------------------------
\* The codec task.  The notification of start is looked at between two frames.
Top ==
    /\ pc = "top"
    /\ pc' = IF notified /\ requested THEN "open" ELSE "receive"
    /\ notified' = FALSE
    /\ requested' = IF notified THEN FALSE ELSE requested
    /\ UNCHANGED <<state, enabled, force, done, result, ctrl,
                   encoder, latest, hand, queueVars, otherVars, history>>

Open ==
    /\ pc = "open"
    /\ \E ok \in {encoder, TRUE} :
          encoder' = ok /\ result' = IF ok THEN "ok" ELSE "failed"
    /\ pc' = "answer"
    /\ UNCHANGED <<state, enabled, force, requested, notified, done, ctrl,
                   latest, hand, queueVars, otherVars, history>>

Answer ==
    /\ pc = "answer"
    /\ done' = TRUE
    /\ pc' = "receive"
    /\ UNCHANGED <<state, enabled, force, requested, notified, result, ctrl,
                   encoder, latest, hand, queueVars, otherVars, history>>

\* Mutant: the gate is only looked at when a frame arrives.
NothingReceived_NoCheck ==
    /\ pc = "receive" /\ inputs = <<>>
    /\ pc' = "top"
    /\ UNCHANGED <<ctrlVars, encoder, latest, hand, queueVars, otherVars, history>>

\* Nothing arrived for 50 ms: look at the gate, then at the state.
NothingReceived ==
    /\ pc = "receive" /\ inputs = <<>>
    /\ pc' = IF enabled THEN "top" ELSE "off"
    /\ UNCHANGED <<ctrlVars, encoder, latest, hand, queueVars, otherVars, history>>

\* Mutant: a start under way is not looked for.
Off_WhileStarting ==
    /\ pc = "off"
    /\ encoder' = FALSE
    /\ raced' = (raced \/ (encoder /\ enabled))
    /\ pc' = "top"
    /\ UNCHANGED <<ctrlVars, latest, hand, queueVars, otherVars, stream, fresh>>

Off ==
    /\ pc = "off"
    /\ encoder' = (encoder /\ state = "starting")
    /\ raced' = (raced \/ (encoder /\ ~encoder' /\ enabled))
    /\ pc' = "top"
    /\ UNCHANGED <<ctrlVars, latest, hand, queueVars, otherVars, stream, fresh>>

\* After a damaged frame only the latest one is kept (prefer_latest).
Receive ==
    /\ pc = "receive" /\ inputs # <<>>
    /\ IF latest
       THEN /\ hand' = inputs[Len(inputs)]
            /\ inputs' = <<>>
            /\ busy' = busy - (Len(inputs) - 1)
       ELSE /\ hand' = Head(inputs)
            /\ inputs' = Tail(inputs)
            /\ UNCHANGED busy
    /\ latest' = FALSE
    /\ pc' = "check"
    /\ UNCHANGED <<ctrlVars, encoder, ready, outFree, otherVars, history>>

ReleaseInput ==
    /\ hand' = None
    /\ busy' = busy - 1

\* Mutant: a damaged frame is not released.
CheckFails_Leaks ==
    /\ pc = "check"
    /\ hand' = None
    /\ busy' = IF enabled THEN busy ELSE busy - 1
    /\ latest' = (latest \/ enabled)
    /\ pc' = "top"
    /\ UNCHANGED <<ctrlVars, encoder, inputs, ready, outFree, otherVars, history>>

\* The stream was stopped, or the frame is damaged.
CheckFails ==
    /\ pc = "check"
    /\ ReleaseInput
    /\ latest' = (latest \/ enabled)
    /\ pc' = "top"
    /\ UNCHANGED <<ctrlVars, encoder, inputs, ready, outFree, otherVars, history>>

CheckPasses ==
    /\ pc = "check" /\ enabled /\ encoder
    /\ pc' = "decode"
    /\ UNCHANGED <<ctrlVars, encoder, latest, hand, queueVars, otherVars, history>>

\* video_ctrl_set_resource_exhausted, called by the codec task: without
\* s_ctrl_mutex.
CheckFindsNoEncoder ==
    /\ pc = "check" /\ enabled /\ ~encoder
    /\ ReleaseInput
    /\ pc' = "lost"
    /\ UNCHANGED <<ctrlVars, encoder, latest, inputs, ready, outFree, otherVars,
                   history>>

Lost ==
    /\ pc = "lost"
    /\ enabled' = FALSE
    /\ pc' = "lostState"
    /\ UNCHANGED <<state, force, askVars, ctrl, encoder, latest, hand, queueVars,
                   otherVars, history>>

LostState ==
    /\ pc = "lostState"
    /\ state' = "error"
    /\ pc' = "lostInputs"
    /\ UNCHANGED <<enabled, force, askVars, ctrl, encoder, latest, hand, queueVars,
                   otherVars, history>>

LostInputs ==
    /\ pc = "lostInputs"
    /\ DrainInputs(pc, "lostInputs", "lostOutputs")
    /\ UNCHANGED <<ctrlVars, encoder, latest, hand, ready, outFree, otherVars,
                   history>>

LostOutputs ==
    /\ pc = "lostOutputs"
    /\ DropOutputs(pc, "lostOutputs", "top")
    /\ UNCHANGED <<ctrlVars, encoder, latest, hand, inputs, busy, otherVars, history>>

\* The JPEG is decoded, its slot released, the gate looked at again: the stream
\* was stopped, the upload is behind, or decoding failed.
DecodeDrops ==
    /\ pc = "decode"
    /\ ReleaseInput
    /\ \/ (~enabled \/ outFree = 0) /\ UNCHANGED latest
       \/ enabled /\ latest' = TRUE
    /\ pc' = "top"
    /\ UNCHANGED <<ctrlVars, encoder, inputs, ready, outFree, otherVars, history>>

Decode ==
    /\ pc = "decode" /\ enabled /\ outFree > 0
    /\ outFree' = outFree - 1
    /\ busy' = busy - 1
    /\ pc' = "encode"
    /\ UNCHANGED <<ctrlVars, encoder, latest, hand, inputs, ready, otherVars, history>>

Encode ==
    /\ pc = "encode"
    /\ force' = FALSE
    /\ fresh' = FALSE
    /\ pc' = "encoding"
    /\ UNCHANGED <<state, enabled, askVars, ctrl, encoder, latest, hand, queueVars,
                   otherVars, stream, raced>>

Encoded ==
    /\ pc = "encoding"
    /\ ready' = Append(ready, hand)
    /\ hand' = None
    /\ pc' = "top"
    /\ UNCHANGED <<ctrlVars, encoder, latest, inputs, outFree, busy, otherVars,
                   history>>

EncodeFails ==
    /\ pc = "encoding"
    /\ outFree' = outFree + 1
    /\ hand' = None
    /\ pc' = "top"
    /\ UNCHANGED <<ctrlVars, encoder, latest, inputs, ready, busy, otherVars, history>>
-----------------------------------------------------------------------------
\* video_streamer_submit_jpeg_internal: through the gate into a slot; and into
\* the queue, which has a place for every slot.
Offer ==
    /\ filling = None /\ enabled /\ busy < InSlots
    /\ filling' = stream
    /\ busy' = busy + 1
    /\ UNCHANGED <<ctrlVars, codecVars, inputs, ready, outFree, upload, history>>

Submit ==
    /\ filling # None
    /\ inputs' = Append(inputs, filling)
    /\ filling' = None
    /\ UNCHANGED <<ctrlVars, codecVars, ready, outFree, busy, upload, history>>

\* webrtc_whip asks for an IDR (a PLI of the viewer, at most every two seconds).
ForceIdr ==
    /\ ~force /\ force' = TRUE
    /\ UNCHANGED <<state, enabled, askVars, ctrl, codecVars, queueVars, otherVars,
                   history>>

\* video_upload_task: sends the frame, or not when WebRTC is not streaming, and
\* returns its slot.
UploadTake ==
    /\ upload = None /\ ready # <<>>
    /\ upload' = Head(ready)
    /\ ready' = Tail(ready)
    /\ UNCHANGED <<ctrlVars, codecVars, inputs, outFree, busy, filling, history>>

UploadReturn ==
    /\ upload # None
    /\ upload' = None
    /\ outFree' = outFree + 1
    /\ UNCHANGED <<ctrlVars, codecVars, inputs, ready, busy, filling, history>>
-----------------------------------------------------------------------------
ControlStep ==
    \/ StartInputs \/ StartOutputs \/ AskDrain \/ Ask \/ Post
    \/ Opened \/ OpenTimeout \/ ForceFirst \/ StartEnable \/ StartDone
    \/ Fail \/ FailState \/ FailInputs \/ FailOutputs
    \/ StopGate \/ StopInputs \/ StopOutputs

CodecStep ==
    \/ Top \/ Open \/ Answer \/ NothingReceived \/ Off \/ Receive
    \/ CheckFails \/ CheckPasses \/ CheckFindsNoEncoder
    \/ Lost \/ LostState \/ LostInputs \/ LostOutputs
    \/ DecodeDrops \/ Decode \/ Encode \/ Encoded \/ EncodeFails

UploadStep == UploadTake \/ UploadReturn

Next ==
    \/ Start \/ Stop \/ ControlStep
    \/ CodecStep \/ UploadStep
    \/ Offer \/ Submit \/ ForceIdr

Spec == Init /\ [][Next]_vars

\* Calls of start and stop, frames and requests for an IDR may fail to come;
\* the tasks do not stop in the middle of one.
FairSpec ==
    /\ Spec
    /\ WF_vars(ControlStep) /\ WF_vars(CodecStep)
    /\ WF_vars(UploadStep) /\ WF_vars(Submit)
-----------------------------------------------------------------------------
Count(b) == IF b THEN 1 ELSE 0
JpegInHand == pc \in {"check", "decode"}
H264InHand == pc \in {"encode", "encoding"}

\* Every input slot that is marked busy holds exactly one frame, which is being
\* put into it, queued or with the codec task, and every output slot is free,
\* queued, being written or being sent: no frame is lost to the camera and no
\* slot used twice, whoever drained the queues and whenever.
SlotsConserved ==
    /\ busy = Len(inputs) + Count(filling # None) + Count(JpegInHand)
    /\ OutSlots = outFree + Len(ready) + Count(upload # None) + Count(H264InHand)

Old(f) == f # None /\ f < stream
OldIn(queue) == Cardinality({i \in 1..Len(queue) : Old(queue[i])})
OldInputs == OldIn(inputs) + Count(Old(filling)) + Count(JpegInHand /\ Old(hand))
OldOutputs == OldIn(ready) + Count(H264InHand /\ Old(hand))

\* A new stream starts with new pictures, and the first of them is asked to be an
\* IDR frame, for the viewer has no reference: start and stop drain both queues,
\* so that of what was under way before, at most the frame that submit had already
\* let through the gate and the one that was being encoded are left.
FreshStart ==
    enabled => /\ OldInputs <= 1 /\ OldInputs + OldOutputs <= 2
               /\ fresh => force

\* The gate is never opened without an encoder behind it: not by the late answer
\* to a start that timed out, nor by the codec task closing it between start's
\* request and the gate.  The one way to lose it under a stream is the idle
\* check of the codec task, which reads the gate and the state separately; after
\* that its error handling, without the mutex, may overwrite the state of the
\* next start, and the idle check close the encoder of that one too.
GateHasEncoder == enabled /\ ~encoder => raced

\* Every start and every stop returns: the camera cannot keep a drain going.
RequestsEnd == (ctrl # "idle") ~> (ctrl = "idle")

\* A stream that stays off gives everything back: its frames to the camera, its
\* output slots, and the encoder's memory.
StopReleases ==
    (state = "idle") ~> \/ state # "idle"
                        \/ busy = 0 /\ outFree = OutSlots /\ ~encoder
=============================================================================
