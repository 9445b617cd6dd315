----------------------------- MODULE CameraPhoto -----------------------------
(***************************************************************************)
(* Taking a photo: components/camera_photo, and the pool of frame copies   *)
(* of main/camera_driver.c that it shares with the video pipeline.         *)
(* Tasks:                                                                  *)
(*   - the MCP task, which requests a photo (one at a time);               *)
(*   - photo_task, which waits at most 5 s for a frame, saves it to the    *)
(*     SD card, gives the frame back and answers the request;              *)
(*   - the UVC callback, which copies a camera frame into a free slot and  *)
(*     offers it to photo_task and to the video handoff queue;             *)
(*   - the handoff task and the video pipeline, which release slots.       *)
(* Slots are reference counted.  Durations are abstracted: a wait with a   *)
(* timeout may time out at any moment.  A photo is never too large for     *)
(* photo_task: the callback drops the frames above the same limit (512 KB) *)
(* before it copies them.                                                  *)
(***************************************************************************)
EXTENDS Naturals, Sequences, FiniteSets

CONSTANTS
    Slots,      \* the frame copies (3 in the code), also the queue's length
    NoSlot,     \* no frame
    MaxRequests \* photos requested, a bound of the model

ASSUME SlotsAssumption == IsFiniteSet(Slots) /\ NoSlot \notin Slots
ASSUME MaxRequestsAssumption == MaxRequests \in Nat \ {0}

VARIABLES
    \* camera_photo.c
    state,     \* s_state
    data,      \* s_photo_data and its release callback: the slot held
    requests,  \* s_request_queue, of depth 1
    notified,  \* the notification of photo_task is pending
    \* photo_task
    pc, taken, \* "taken": the notification it took, its variable "notified"
    current,   \* the request it works on
    result,    \* the status it will report
    giveBack,  \* the slot whose release callback it will call
    \* the MCP task
    mcpPc, asked,
    answers,   \* request -> "none", or the status it was answered with
    \* camera_driver.c
    refs,      \* reference count of each slot
    uvcPc, uvcSlot, uvcVideo, \* the callback, its slot, video accepts frames
    handoff,   \* s_camera_handoff_queue
    video      \* slots the video pipeline holds

photoVars == <<state, data, notified>>
taskVars  == <<pc, taken, current, result, giveBack>>
mcpVars   == <<mcpPc, asked>>
uvcVars   == <<uvcPc, uvcSlot, uvcVideo>>
videoVars == <<handoff, video>>

vars == <<photoVars, requests, taskVars, mcpVars, answers, refs, uvcVars,
          videoVars>>

Requests == 1..MaxRequests
PhotoStates == {"idle", "requested", "waitFrame", "capturing", "ready",
                "uploading", "done", "failed"}
Statuses == {"ok", "timeout", "noStorage", "saveFailed"}

TypeOK ==
    /\ state \in PhotoStates
    /\ data \in Slots \cup {NoSlot}
    /\ requests \in Seq(Requests) /\ Len(requests) <= 1
    /\ notified \in BOOLEAN
    /\ pc \in {"receive", "wait", "capture", "wait20", "judge", "timeout",
               "save", "saving", "finish", "complete"}
    /\ taken \in BOOLEAN
    /\ current \in 0..MaxRequests
    /\ result \in Statuses
    /\ giveBack \in Slots \cup {NoSlot}
    /\ mcpPc \in {"idle", "send"}
    /\ asked \in 0..MaxRequests
    /\ answers \in [Requests -> Statuses \cup {"none", "busy"}]
    /\ refs \in [Slots -> 0..2]
    /\ uvcPc \in {"idle", "offer", "fill", "notify", "pass"}
    /\ uvcSlot \in Slots \cup {NoSlot}
    /\ uvcVideo \in BOOLEAN
    /\ handoff \in Seq(Slots) /\ Len(handoff) <= Cardinality(Slots)
    /\ video \subseteq Slots

Init ==
    /\ state = "idle" /\ data = NoSlot
    /\ requests = <<>> /\ notified = FALSE
    /\ pc = "receive" /\ taken = FALSE /\ current = 0 /\ result = "ok"
    /\ giveBack = NoSlot
    /\ mcpPc = "idle" /\ asked = 0
    /\ answers = [request \in Requests |-> "none"]
    /\ refs = [slot \in Slots |-> 0]
    /\ uvcPc = "idle" /\ uvcSlot = NoSlot /\ uvcVideo = FALSE
    /\ handoff = <<>> /\ video = {}

-----------------------------------------------------------------------------
(* The MCP task: camera_photo_request, and the refusal of a busy camera.   *)

Free == state = "idle"

Request ==
    /\ mcpPc = "idle"
    /\ asked < MaxRequests
    /\ asked' = asked + 1
    /\ IF Free
       THEN /\ state' = "requested"
            /\ mcpPc' = "send"
            /\ UNCHANGED answers
       ELSE /\ answers' = [answers EXCEPT ![asked + 1] = "busy"]
            /\ UNCHANGED <<state, mcpPc>>
    /\ UNCHANGED <<data, notified, requests, taskVars, refs, uvcVars,
                   videoVars>>

\* Queue the request; a full queue would refuse it.
RequestSend ==
    /\ mcpPc = "send"
    /\ mcpPc' = "idle"
    /\ IF requests = <<>>
       THEN requests' = <<asked>> /\ UNCHANGED <<state, answers>>
       ELSE /\ state' = "idle"
            /\ answers' = [answers EXCEPT ![asked] = "busy"]
            /\ UNCHANGED requests
    /\ UNCHANGED <<data, notified, taskVars, asked, refs, uvcVars,
                   videoVars>>

-----------------------------------------------------------------------------
(* photo_task.                                                             *)

TaskOnly == UNCHANGED <<mcpVars, uvcVars, videoVars>>

TaskMoves(label) ==
    /\ pc' = label
    /\ UNCHANGED <<photoVars, requests, current, result, giveBack, answers,
                   refs>>
    /\ TaskOnly

TaskReceive_Peeks ==
    /\ pc = "receive"
    /\ requests # <<>>
    /\ current' = Head(requests)
    /\ data' = NoSlot
    /\ state' = "waitFrame"
    /\ pc' = "wait"
    /\ UNCHANGED <<requests, notified, taken, result, giveBack, answers, refs>>
    /\ TaskOnly

\* Take a request and start to accept frames.
TaskReceive ==
    /\ pc = "receive"
    /\ requests # <<>>
    /\ current' = Head(requests)
    /\ requests' = <<>>
    /\ data' = NoSlot
    /\ state' = "waitFrame"
    /\ pc' = "wait"
    /\ UNCHANGED <<notified, taken, result, giveBack, answers, refs>>
    /\ TaskOnly

\* A notification ends the wait; so do 5 s.
TaskNotified ==
    /\ pc \in {"wait", "wait20"}
    /\ notified
    /\ notified' = FALSE
    /\ taken' = TRUE
    /\ pc' = "judge"
    /\ UNCHANGED <<state, data, requests, current, result, giveBack,
                   answers, refs>>
    /\ TaskOnly

TaskTimeout ==
    /\ pc \in {"wait", "wait20"}
    /\ taken' = FALSE
    /\ TaskMoves("capture")

CaptureUnderWay_OrNone == state # "ready"

\* At the deadline a capture under way is waited for, 20 ms at a time.
CaptureUnderWay == state = "capturing"

TaskCapture ==
    /\ pc = "capture"
    /\ UNCHANGED taken
    /\ TaskMoves(IF CaptureUnderWay THEN "wait20" ELSE "judge")

\* Read the state once, and the clock: too late is a timeout.
TaskJudge ==
    /\ pc = "judge"
    /\ UNCHANGED taken
    /\ \/ TaskMoves("timeout")
       \/ taken /\ state = "ready" /\ TaskMoves("save")

TaskTimedOut ==
    /\ pc = "timeout"
    /\ state' = "failed"
    /\ result' = "timeout"
    /\ pc' = "finish"
    /\ UNCHANGED <<data, notified, requests, taken, current,
                   giveBack, answers, refs>>
    /\ TaskOnly

TaskSave ==
    /\ pc = "save"
    /\ state' = "uploading"
    /\ pc' = "saving"
    /\ UNCHANGED <<data, notified, requests, taken, current, result,
                   giveBack, answers, refs>>
    /\ TaskOnly

\* The SD card is written, or missing, or fails, or is too slow.
TaskSaved ==
    /\ pc = "saving"
    /\ result' \in {"ok", "timeout", "noStorage", "saveFailed"}
    /\ state' = IF result' = "ok" THEN "done" ELSE "failed"
    /\ pc' = "finish"
    /\ UNCHANGED <<data, notified, requests, taken, current,
                   giveBack, answers, refs>>
    /\ TaskOnly

\* photo_finish_request: forget the frame and be idle ...
TaskFinish ==
    /\ pc = "finish"
    /\ giveBack' = data
    /\ data' = NoSlot
    /\ state' = "idle"
    /\ pc' = "complete"
    /\ UNCHANGED <<notified, requests, taken, current, result,
                   answers, refs>>
    /\ TaskOnly

Release(slot) == [refs EXCEPT ![slot] = @ - 1]

\* ... then release the frame and answer the request.
TaskComplete ==
    /\ pc = "complete"
    /\ refs' = IF giveBack = NoSlot THEN refs ELSE Release(giveBack)
    /\ giveBack' = NoSlot
    /\ answers' = [answers EXCEPT ![current] = result]
    /\ pc' = "receive"
    /\ UNCHANGED <<photoVars, requests, taken, current, result>>
    /\ TaskOnly

PhotoTask ==
    \/ TaskReceive \/ TaskNotified \/ TaskTimeout \/ TaskCapture \/ TaskJudge
    \/ TaskTimedOut \/ TaskSave \/ TaskSaved \/ TaskFinish \/ TaskComplete

-----------------------------------------------------------------------------
(* The UVC callback, camera_frame_cb.                                      *)

UvcOnly == UNCHANGED <<requests, taskVars, mcpVars, answers, video>>

FrameArrives_NotRetained(slot, accepting) ==
    /\ uvcPc = "idle"
    /\ accepting \/ state = "waitFrame"
    /\ refs[slot] = 0
    /\ uvcSlot' = slot
    /\ uvcVideo' = accepting
    /\ refs' = [refs EXCEPT ![slot] = 1]
    /\ uvcPc' = IF state = "waitFrame" THEN "offer" ELSE "pass"
    /\ UNCHANGED <<photoVars, handoff>>
    /\ UvcOnly

\* A frame that the photo or the video wants is copied into a free slot, with
\* a second reference for the photo; without a free slot it is dropped.
FrameArrives(slot, accepting) ==
    /\ uvcPc = "idle"
    /\ accepting \/ state = "waitFrame"
    /\ refs[slot] = 0
    /\ uvcSlot' = slot
    /\ uvcVideo' = accepting
    /\ refs' = [refs EXCEPT ![slot] = IF state = "waitFrame" THEN 2 ELSE 1]
    /\ uvcPc' = IF state = "waitFrame" THEN "offer" ELSE "pass"
    /\ UNCHANGED <<photoVars, handoff>>
    /\ UvcOnly

\* camera_photo_submit_mjpeg_owned: no photo waits any more, or the frame is
\* not a whole JPEG of the right size; the second reference is given back.
SubmitRefused ==
    /\ uvcPc = "offer"
    /\ refs' = Release(uvcSlot)
    /\ uvcPc' = "pass"
    /\ UNCHANGED <<photoVars, uvcSlot, uvcVideo, handoff>>
    /\ UvcOnly

\* Claim the request ...
SubmitClaim ==
    /\ uvcPc = "offer"
    /\ state = "waitFrame"
    /\ state' = "capturing"
    /\ uvcPc' = "fill"
    /\ UNCHANGED <<data, notified, refs, uvcSlot, uvcVideo, handoff>>
    /\ UvcOnly

\* ... hand the slot over ...
SubmitFill ==
    /\ uvcPc = "fill"
    /\ data' = uvcSlot
    /\ state' = "ready"
    /\ uvcPc' = "notify"
    /\ UNCHANGED <<notified, refs, uvcSlot, uvcVideo, handoff>>
    /\ UvcOnly

\* ... and wake photo_task.
SubmitNotify ==
    /\ uvcPc = "notify"
    /\ notified' = TRUE
    /\ uvcPc' = "pass"
    /\ UNCHANGED <<state, data, refs, uvcSlot, uvcVideo, handoff>>
    /\ UvcOnly

\* Queue the slot for the video, or give the first reference back.
PassOn ==
    /\ uvcPc = "pass"
    /\ IF uvcVideo /\ Len(handoff) < Cardinality(Slots)
       THEN handoff' = Append(handoff, uvcSlot) /\ UNCHANGED refs
       ELSE refs' = Release(uvcSlot) /\ UNCHANGED handoff
    /\ uvcPc' = "idle"
    /\ uvcSlot' = NoSlot
    /\ UNCHANGED <<photoVars, uvcVideo>>
    /\ UvcOnly

Uvc ==
    \/ \E slot \in Slots, accepting \in BOOLEAN : FrameArrives(slot, accepting)
    \/ SubmitRefused \/ SubmitClaim \/ SubmitFill \/ SubmitNotify \/ PassOn

-----------------------------------------------------------------------------
(* The handoff task, and the video pipeline that keeps a slot for a while. *)

Handoff ==
    /\ handoff # <<>>
    /\ handoff' = Tail(handoff)
    /\ \/ video' = video \cup {Head(handoff)} /\ UNCHANGED refs
       \/ refs' = Release(Head(handoff)) /\ UNCHANGED video
    /\ UNCHANGED <<photoVars, requests, taskVars, mcpVars, answers, uvcVars>>

VideoRelease(slot) ==
    /\ slot \in video
    /\ video' = video \ {slot}
    /\ refs' = Release(slot)
    /\ UNCHANGED <<photoVars, requests, taskVars, mcpVars, answers, uvcVars,
                   handoff>>

-----------------------------------------------------------------------------
Next ==
    \/ Request \/ RequestSend \/ PhotoTask \/ Uvc
    \/ Handoff
    \/ \E slot \in Slots : VideoRelease(slot)

Spec == Init /\ [][Next]_vars

\* Every task goes on; frames and requests may stop to come.
FairSpec ==
    /\ Spec
    /\ WF_vars(RequestSend) /\ WF_vars(PhotoTask)
    /\ WF_vars(SubmitRefused \/ SubmitFill \/ SubmitNotify \/ PassOn)
    /\ WF_vars(Handoff) /\ \A slot \in Slots : WF_vars(VideoRelease(slot))

-----------------------------------------------------------------------------
(* Properties.                                                             *)

\* How often the slot is in the queue.
Queued(queue, slot) == Cardinality({i \in 1..Len(queue) : queue[i] = slot})

\* Who holds a reference to the slot: the callback (one, or two until the
\* photo has taken or refused its own), the photo, photo_task on its way to
\* release it, the handoff queue, the video.
Holders(slot) ==
    (IF uvcSlot = slot THEN 1 ELSE 0)
    + (IF uvcSlot = slot /\ uvcPc \in {"offer", "fill"} THEN 1 ELSE 0)
    + (IF data = slot THEN 1 ELSE 0)
    + (IF giveBack = slot THEN 1 ELSE 0)
    + Queued(handoff, slot)
    + (IF slot \in video THEN 1 ELSE 0)

\* Every holder has a reference, so that no slot is released twice, or taken for
\* a new frame while the photo or the video still reads it; and the photo being
\* saved is such a slot, handed over for the request under way.
SavedFrameHeld ==
    /\ \A slot \in Slots : refs[slot] >= Holders(slot)
    /\ pc \in {"save", "saving"} => data # NoSlot

\* Every request gets an answer, whatever the camera and the SD card do.
EveryRequestAnswered ==
    \A request \in Requests :
        asked >= request ~> answers[request] # "none"

\* No answer is ever replaced by another: the callback context is freed after
\* the first one.
AnsweredOnce ==
    [][\A request \in Requests :
           answers[request] # "none" => answers'[request] = answers[request]]_vars

\* camera_photo.c:161: if the deadline falls into a capture, "the buffer must
\* not be marked idle before the UVC callback has completely ended".
IdleAfterCapture == uvcPc = "fill" => state = "capturing"

=============================================================================
