----------------------------- MODULE WhipControl ------------------------------
(***************************************************************************)
(* The WebRTC preview (components/webrtc_whip/webrtc_whip.c): a controller  *)
(* task that the start of a session creates and that ends itself with the  *)
(* session, fed through a queue of two commands.  A session suspends the   *)
(* voice pipeline, opens the encoder, starts the camera (CameraStream),    *)
(* waits for its first frame, opens a peer connection, gathers candidates  *)
(* and posts its offer; from any of these places it may be stopped, by the *)
(* server or because the camera is no longer ready.                        *)
(*                                                                         *)
(* The server's requests arrive on the MCP task.  HTTP, ICE and DTLS       *)
(* succeed or fail as they like.  Session 0 is "none": in a stop command   *)
(* it means any session.                                                   *)
(***************************************************************************)
EXTENDS CameraStream

CONSTANT MaxSession   \* bound: sessions the server asks for, 1..MaxSession

ASSUME WhipAssumption == MaxSession \in Nat \ {0}

QueueLen == 2

VARIABLES
    commands,    \* s_commands
    task,        \* s_task # NULL
    state,       \* s_state
    sid,         \* s_session_id
    wpc,         \* where the controller is
    ret,         \* and where stop_session returns to
    pending,     \* start_pending
    credential,  \* the session of pending_credential
    asked,       \* camera_start_requested
    prepared,    \* resources_prepared
    peer,        \* s_peer # NULL
    video,       \* the encoder runs
    suspended,   \* s_audio_suspended
    storage,     \* s_storage_init_done
    mcp,         \* the session the MCP task is about to stop
    \* ghosts
    resumeFailed, \* the voice pipeline could not be resumed at the last stop
    missed       \* a stop because of the camera did not fit into the queue

sharedVars  == <<commands, task, state, sid>>
controlVars == <<wpc, ret>>
localVars   == <<pending, credential, asked, prepared>>
mediaVars   == <<peer, video, suspended, resumeFailed>>

vars == <<cameraVars, sharedVars, controlVars, localVars, mediaVars, storage,
          mcp, missed>>

Sessions == 1..MaxSession

\* A stop may also name a session of which the robot knows nothing (any more).
Stoppable == 1..(MaxSession + 1)
Nobody == MaxSession + 2   \* mcp: the MCP task is not stopping any session

Commands == [type : {"start"}, sid : Sessions]
            \cup [type : {"stop"}, sid : {0} \cup Stoppable]
WhipStates == {"idle", "starting", "connecting", "streaming", "stopping"}
StopPcs == {"video", "peer", "cam", "camwait", "idle", "audio"}
WhipPcs == {"none", "recv", "prepare", "suspend", "resources", "camera",
            "gather", "offer", "loop", "exit"} \cup StopPcs

QueueTypeOK == commands \in Seq(Commands) /\ Len(commands) <= QueueLen

SessionTypeOK ==
    /\ sid \in 0..MaxSession /\ credential \in 0..MaxSession
    /\ mcp \in 0..Nobody

PlaceTypeOK ==
    /\ state \in WhipStates
    /\ wpc \in WhipPcs
    /\ ret \in {"prepare", "camera", "loop", "exit"}

FlagTypeOK ==
    /\ task \in BOOLEAN /\ storage \in BOOLEAN
    /\ pending \in BOOLEAN /\ asked \in BOOLEAN /\ prepared \in BOOLEAN
    /\ peer \in BOOLEAN /\ video \in BOOLEAN /\ suspended \in BOOLEAN
    /\ resumeFailed \in BOOLEAN /\ missed \in BOOLEAN

TypeOK ==
    CameraTypeOK /\ QueueTypeOK /\ SessionTypeOK /\ PlaceTypeOK /\ FlagTypeOK

Init ==
    /\ CameraInit
    /\ commands = <<>> /\ task = FALSE /\ state = "idle" /\ sid = 0
    /\ wpc = "none" /\ ret = "exit"
    /\ pending = FALSE /\ credential = 0 /\ asked = FALSE /\ prepared = FALSE
    /\ peer = FALSE /\ video = FALSE /\ suspended = FALSE /\ storage = FALSE
    /\ mcp = Nobody
    /\ resumeFailed = FALSE /\ missed = FALSE

-----------------------------------------------------------------------------
(* The MCP task, the boot sequence and the readiness of the camera.        *)

\* A command is dropped when the queue is full: nobody waits for room.
Send(command) ==
    commands' = IF Len(commands) < QueueLen THEN Append(commands, command)
                ELSE commands

\* webrtc_whip_request_stop takes no room when there is nothing to stop.
WorthStopping == state # "stopping" /\ (state # "idle" \/ task)

\* webrtc_whip_request_start, under s_guard: refused while a controller runs.
RequestStart(session) ==
    /\ mcp = Nobody
    /\ state = "idle" /\ ~task
    /\ Len(commands) < QueueLen
    /\ Send([type |-> "start", sid |-> session])
    /\ sid' = session
    /\ task' = TRUE
    /\ wpc' = "recv"
    /\ UNCHANGED <<cameraVars, state, ret, localVars, mediaVars, storage, mcp,
                   missed>>

\* The task could not be created.
RequestStartFails ==
    /\ mcp = Nobody
    /\ state = "idle" /\ ~task
    /\ Len(commands) < QueueLen
    /\ commands' = <<>>
    /\ sid' = 0
    /\ UNCHANGED <<cameraVars, task, state, controlVars, localVars, mediaVars,
                   storage, mcp, missed>>

\* webrtc_whip_request_stop: look, then send, without a lock.
RequestStop(session) ==
    /\ mcp = Nobody
    /\ WorthStopping
    /\ mcp' = session
    /\ UNCHANGED <<cameraVars, sharedVars, controlVars, localVars, mediaVars,
                   storage, missed>>

RequestStopSend ==
    /\ mcp # Nobody
    /\ Send([type |-> "stop", sid |-> mcp])
    /\ mcp' = Nobody
    /\ UNCHANGED <<cameraVars, task, state, sid, controlVars, localVars,
                   mediaVars, storage, missed>>

StorageDone ==
    /\ ~storage
    /\ storage' = TRUE
    /\ UNCHANGED <<cameraVars, sharedVars, controlVars, localVars, mediaVars,
                   mcp, missed>>

\* Every other task but the camera's leaves the controller alone.
WhipUnchanged ==
    UNCHANGED <<sharedVars, controlVars, localVars, mediaVars, storage, mcp,
                missed>>

MustStop_OnlyStreaming == ready /\ state = "streaming"

\* webrtc_whip_notify_camera_unready: a session that needed the camera is to
\* stop, once.
MustStop == ready /\ WorthStopping

SendUnready ==
    /\ Send([type |-> "stop", sid |-> 0])
    /\ missed' = (missed \/ Len(commands) = QueueLen)

CamUnready ==
    /\ cam = "unready"
    /\ ready' = FALSE
    /\ IF MustStop THEN cam' = "post" /\ UNCHANGED camRet ELSE CamReturn
    /\ UNCHANGED <<started, hasEvents, events, announced, usb>>
    /\ WhipUnchanged

CamPost ==
    /\ cam = "post"
    /\ SendUnready
    /\ CamReturn
    /\ UNCHANGED <<started, hasEvents, events, announced, ready, usb>>
    /\ UNCHANGED <<task, state, sid, controlVars, localVars, mediaVars, storage,
                   mcp>>

UsbUnready ==
    /\ usb = "unready"
    /\ ready' = FALSE
    /\ usb' = IF MustStop THEN "post" ELSE "set"
    /\ UNCHANGED <<started, cam, camRet, hasEvents, events, announced>>
    /\ WhipUnchanged

UsbPost ==
    /\ usb = "post"
    /\ SendUnready
    /\ usb' = "set"
    /\ UNCHANGED <<started, cam, camRet, hasEvents, events, announced, ready>>
    /\ UNCHANGED <<task, state, sid, controlVars, localVars, mediaVars, storage,
                   mcp>>

-----------------------------------------------------------------------------
(* stop_session, called from many places of the controller.                *)

OthersUnchanged == UNCHANGED <<cameraVars, storage, mcp, missed>>

Goto(place) == wpc' = place /\ UNCHANGED ret

Return == wpc' = ret /\ ret' = "exit"

\* Nothing to do for an idle controller.
CallStop(next) ==
    IF state = "idle"
    THEN Goto(next) /\ UNCHANGED state
    ELSE state' = "stopping" /\ wpc' = "video" /\ ret' = next

\* The encoder is stopped, then the resource is deleted over HTTP.
StopVideo ==
    /\ wpc = "video"
    /\ video' = FALSE
    /\ Goto("peer")
    /\ UNCHANGED <<sharedVars, localVars, peer, suspended,
                   resumeFailed>>
    /\ OthersUnchanged

\* Under s_guard, which the encoder holds while it sends.
StopPeer ==
    /\ wpc = "peer"
    /\ peer' = FALSE
    /\ Goto("cam")
    /\ UNCHANGED <<sharedVars, localVars, video, suspended,
                   resumeFailed>>
    /\ OthersUnchanged

\* rtc_camera_stop: ask the camera task to park.
StopCamera ==
    /\ wpc = "cam"
    /\ IF NeedNotStop
       THEN Goto("idle") /\ UNCHANGED cameraVars
       ELSE Goto("camwait") /\ RequestCameraStop
    /\ UNCHANGED <<sharedVars, localVars, mediaVars, storage, mcp, missed>>

\* And wait until it has, or for five seconds: the session ends either way.
StopCameraWait ==
    /\ wpc = "camwait"
    /\ Goto("idle")
    /\ UNCHANGED <<sharedVars, localVars, mediaVars>>
    /\ OthersUnchanged

StopIdle_KeepsId ==
    /\ wpc = "idle"
    /\ state' = "idle"
    /\ IF suspended THEN Goto("audio") ELSE Return
    /\ UNCHANGED <<commands, task, sid, localVars, mediaVars>>
    /\ OthersUnchanged

StopIdle ==
    /\ wpc = "idle"
    /\ sid' = 0
    /\ state' = "idle"
    /\ IF suspended THEN Goto("audio") ELSE Return
    /\ UNCHANGED <<commands, task, localVars, mediaVars>>
    /\ OthersUnchanged

\* The voice pipeline comes back last, or does not.
StopAudio ==
    /\ wpc = "audio"
    /\ suspended' \in BOOLEAN
    /\ resumeFailed' = suspended'
    /\ Return
    /\ UNCHANGED <<sharedVars, localVars, peer, video>>
    /\ OthersUnchanged

StopSession ==
    \/ StopVideo \/ StopPeer \/ StopCamera \/ StopCameraWait \/ StopIdle
    \/ StopAudio

-----------------------------------------------------------------------------
(* The controller's loop.                                                  *)

\* All that stop_session leaves alone, and the caller of CallStop too.
StopUnchanged == UNCHANGED <<task, mediaVars>>

\* A pending or running session is given up on: drop it and stop.
GiveUp(next) ==
    /\ pending' = FALSE
    /\ credential' = 0
    /\ CallStop(next)
    /\ StopUnchanged

Matches(command) == command.sid = 0 \/ sid = 0 \/ command.sid = sid

ReceiveNothing ==
    /\ wpc = "recv"
    /\ commands = <<>>
    /\ Goto("prepare")
    /\ UNCHANGED <<sharedVars, localVars, mediaVars>>
    /\ OthersUnchanged

ReceiveStop ==
    /\ wpc = "recv"
    /\ commands # <<>> /\ Head(commands).type = "stop"
    /\ commands' = Tail(commands)
    /\ IF ~Matches(Head(commands))
       THEN Goto("prepare") /\ UNCHANGED <<task, state, sid, localVars, mediaVars>>
       ELSE IF pending
       THEN /\ GiveUp("prepare")
            /\ sid' = 0 /\ prepared' = FALSE /\ asked' = FALSE
       ELSE CallStop("prepare") /\ StopUnchanged /\ UNCHANGED <<sid, localVars>>
    /\ OthersUnchanged

ReceiveStart ==
    /\ wpc = "recv"
    /\ commands # <<>> /\ Head(commands).type = "start"
    /\ commands' = Tail(commands)
    /\ IF state = "idle" /\ ~pending
       THEN /\ pending' = TRUE /\ credential' = Head(commands).sid
            /\ asked' = FALSE /\ prepared' = FALSE
       ELSE UNCHANGED localVars
    /\ Goto("prepare")
    /\ UNCHANGED <<task, state, sid, mediaVars>>
    /\ missed' = FALSE
    /\ UNCHANGED <<cameraVars, storage, mcp>>

\* Memory is taken in order: the encoder first, the camera, the peer.
Prepare ==
    /\ wpc = "prepare"
    /\ IF pending /\ ~prepared /\ storage
       THEN state' = "starting" /\ Goto("suspend")
       ELSE Goto("camera") /\ UNCHANGED state
    /\ UNCHANGED <<commands, task, sid, localVars, mediaVars>>
    /\ OthersUnchanged

PrepareSuspend ==
    /\ wpc = "suspend"
    /\ suspended' = TRUE
    /\ resumeFailed' = FALSE
    /\ Goto("resources")
    /\ UNCHANGED <<sharedVars, localVars, peer, video>>
    /\ OthersUnchanged

PrepareResources ==
    /\ wpc = "resources"
    /\ video' = TRUE
    /\ prepared' = TRUE
    /\ Goto("camera")
    /\ UNCHANGED <<sharedVars, pending, credential, asked, peer, suspended,
                   resumeFailed>>
    /\ OthersUnchanged

PrepareFails ==
    /\ wpc \in {"suspend", "resources"}
    /\ GiveUp("camera")
    /\ UNCHANGED <<commands, sid, asked, prepared>>
    /\ OthersUnchanged

\* The rest of the round looks at s_camera_ready twice, and does the same in
\* the next round for what changed in between.
NeedsCamera == pending /\ storage /\ ~ready
MayStart == pending /\ storage /\ ready

NothingToStart ==
    /\ wpc = "camera"
    /\ ~NeedsCamera /\ ~MayStart
    /\ Goto("loop")
    /\ UNCHANGED <<sharedVars, localVars, mediaVars>>
    /\ OthersUnchanged

\* rtc_camera_start.
CameraAsk ==
    /\ wpc = "camera"
    /\ NeedsCamera /\ ~asked
    /\ CreateCamera \/ WakeCamera
    /\ asked' = TRUE
    /\ Goto("loop")
    /\ UNCHANGED <<sharedVars, pending, credential, prepared, mediaVars, storage,
                   mcp, missed>>

\* There is no memory for its task, or no event group yet.
CameraRefused ==
    /\ wpc = "camera"
    /\ NeedsCamera /\ ~asked
    /\ ~started \/ ~hasEvents
    /\ GiveUp("loop")
    /\ sid' = 0 /\ prepared' = FALSE
    /\ UNCHANGED <<commands, asked>>
    /\ OthersUnchanged

CameraNotYet ==
    /\ wpc = "camera"
    /\ NeedsCamera /\ asked
    /\ Goto("loop")
    /\ UNCHANGED <<sharedVars, localVars, mediaVars>>
    /\ OthersUnchanged

\* Sixty seconds without a first frame.
CameraTimeout ==
    /\ wpc = "camera"
    /\ NeedsCamera /\ asked
    /\ GiveUp("loop")
    /\ sid' = 0 /\ asked' = FALSE /\ prepared' = FALSE
    /\ UNCHANGED commands
    /\ OthersUnchanged

\* start_session, up to begin_peer: the credential is fetched, the peer opened.
StartPeer ==
    /\ wpc = "camera"
    /\ MayStart
    /\ state = "starting"
    /\ sid' = credential
    /\ peer' = TRUE
    /\ Goto("gather")
    /\ UNCHANGED <<commands, task, state, localVars, video, suspended, resumeFailed>>
    /\ OthersUnchanged

\* No network, no credential, no peer, or one that makes no offer.
StartFails ==
    /\ wpc = "camera"
    /\ MayStart
    /\ sid' \in {sid, credential}
    /\ peer' \in BOOLEAN
    /\ pending' = FALSE /\ credential' = 0
    /\ CallStop("loop")
    /\ UNCHANGED <<commands, task, asked, prepared, video, suspended, resumeFailed>>
    /\ OthersUnchanged

\* Enough candidates, the offer is frozen.
Gathered ==
    /\ wpc = "gather"
    /\ Goto("offer")
    /\ UNCHANGED <<sharedVars, localVars, mediaVars>>
    /\ OthersUnchanged

\* A stop command, peeked at and left in the queue; or too few candidates.
GatherEnds ==
    /\ wpc = "gather"
    /\ GiveUp("loop")
    /\ UNCHANGED <<commands, sid, asked, prepared>>
    /\ OthersUnchanged

\* The server answers the offer.
OfferAnswered ==
    /\ wpc = "offer"
    /\ state' = "connecting"
    /\ pending' = FALSE /\ credential' = 0
    /\ Goto("loop")
    /\ UNCHANGED <<commands, task, sid, asked, prepared, mediaVars>>
    /\ OthersUnchanged

OfferFails ==
    /\ wpc = "offer"
    /\ GiveUp("loop")
    /\ UNCHANGED <<commands, sid, asked, prepared>>
    /\ OthersUnchanged

\* esp_peer_main_loop calls peer_state, and what that leaves in s_peer_connected
\* and s_peer_failed is looked at before anything else.
PeerStays ==
    /\ wpc = "loop"
    /\ Goto("exit")
    /\ UNCHANGED <<sharedVars, localVars, mediaVars>>
    /\ OthersUnchanged

PeerConnects ==
    /\ wpc = "loop"
    /\ state = "connecting" /\ prepared
    /\ state' = "streaming"
    /\ Goto("exit")
    /\ UNCHANGED <<commands, task, sid, localVars, mediaVars>>
    /\ OthersUnchanged

\* No connection, or not in time.
PeerFails ==
    /\ wpc = "loop"
    /\ state = "connecting"
    /\ CallStop("exit")
    /\ StopUnchanged
    /\ UNCHANGED <<commands, sid, localVars>>
    /\ OthersUnchanged

\* The connection is lost, or given up before the Wi-Fi runs out of DMA memory.
StreamEnds ==
    /\ wpc = "loop"
    /\ state = "streaming"
    /\ CallStop("exit")
    /\ StopUnchanged
    /\ UNCHANGED <<commands, sid, localVars>>
    /\ OthersUnchanged

ExitOrGoOn_IgnoresQueue ==
    /\ wpc = "exit"
    /\ IF state = "idle" /\ ~pending
       THEN /\ task' = FALSE
            /\ wpc' = "none" /\ ret' = "exit"
            /\ asked' = FALSE /\ prepared' = FALSE
       ELSE Goto("recv") /\ UNCHANGED <<task, asked, prepared>>
    /\ UNCHANGED <<commands, state, sid, pending, credential, mediaVars>>
    /\ OthersUnchanged

\* Under s_guard: the task ends unless a command has come in.
ExitOrGoOn ==
    /\ wpc = "exit"
    /\ IF state = "idle" /\ ~pending /\ commands = <<>>
       THEN /\ task' = FALSE
            /\ wpc' = "none" /\ ret' = "exit"
            /\ asked' = FALSE /\ prepared' = FALSE
       ELSE Goto("recv") /\ UNCHANGED <<task, asked, prepared>>
    /\ UNCHANGED <<commands, state, sid, pending, credential, mediaVars>>
    /\ OthersUnchanged

Controller ==
    \/ StopSession
    \/ ReceiveNothing \/ ReceiveStop \/ ReceiveStart
    \/ Prepare \/ PrepareSuspend \/ PrepareResources \/ PrepareFails
    \/ NothingToStart \/ CameraAsk \/ CameraRefused \/ CameraNotYet \/ CameraTimeout
    \/ StartPeer \/ StartFails
    \/ Gathered \/ GatherEnds \/ OfferAnswered \/ OfferFails
    \/ PeerStays \/ PeerConnects \/ PeerFails \/ StreamEnds \/ ExitOrGoOn

Camera ==
    \/ CameraSteps /\ WhipUnchanged
    \/ CamUnready \/ CamPost

Usb ==
    \/ (UsbUnannounce \/ UsbSetBit) /\ WhipUnchanged
    \/ UsbUnready \/ UsbPost

Mcp ==
    \/ \E session \in Sessions : RequestStart(session)
    \/ \E session \in Stoppable : RequestStop(session)
    \/ RequestStartFails \/ RequestStopSend

Next == Controller \/ Camera \/ Usb \/ Mcp \/ StorageDone

Spec == Init /\ [][Next]_vars

-----------------------------------------------------------------------------
(* Safety.                                                                 *)

\* When the controller has ended nothing of a session is left: no peer, no
\* encoder, no session id to refuse the next request with, and the voice
\* pipeline has been given back unless it could not be resumed.
NothingLeftBehind ==
    ~task =>
        /\ state = "idle" /\ sid = 0
        /\ ~peer /\ ~video /\ ~pending
        /\ suspended => resumeFailed

StartQueued == \E i \in 1..Len(commands) : commands[i].type = "start"

\* A start that was accepted is handled: the controller does not end with one
\* in the queue, although it decides to end while requests come in.
StartNotLost == StartQueued => task

\* Frames go to an open peer, from a running encoder, with the voice pipeline
\* out of the way; and the peer never outlives the encoder's stop request.
StreamComplete ==
    /\ state \in {"connecting", "streaming"} =>
           peer /\ video /\ prepared /\ suspended
    /\ peer => state # "idle"
    /\ wpc = "camera" /\ pending => ~peer

\* A session does not stream from a camera that is gone: whenever the camera of
\* a session under way is no longer ready, a command that will stop the session
\* is in the queue or about to be put there, unless the queue was full.
BlindSessionStops ==
    state \in {"connecting", "streaming"} /\ ~ready =>
        \/ \E i \in 1..Len(commands) :
               commands[i].type = "stop" /\ Matches(commands[i])
        \/ cam = "post" \/ usb = "post"
        \/ missed

=============================================================================
