---------------------------- MODULE VoiceControl ----------------------------
(***************************************************************************)
(* Voice control of the robot (components/xiaozhi_audio/xiaozhi_audio.c,   *)
(* built with CONFIG_CLOUD_PROTOCOL_V3): the wake_process task, which owns *)
(* the voice state and the session, together with the tasks it shares      *)
(* state with:                                                             *)
(*   - the encoder task, which uploads processed microphone frames;        *)
(*   - the capture task, which feeds the AFE;                              *)
(*   - the detection task (module WakeWord), which posts wake words;       *)
(*   - the MQTT task, which posts server messages and moves the session    *)
(*     record of cloud_mqtt.c;                                             *)
(*   - the WebRTC controller, which suspends and resumes local audio.      *)
(*                                                                         *)
(* Every critical section under s_encoder_guard or s_capture_guard that    *)
(* can block, or that spans a blocking call, is a pair of steps; every     *)
(* other straight-line piece between two blocking points is one step.      *)
(* Durations are abstracted: a timeout may fire whenever its wait is on.   *)
(***************************************************************************)
EXTENDS Naturals, Sequences, FiniteSets, WakeWord

CONSTANTS
    QueueLen,    \* depth of s_voice_events (12 in the code)
    Kinds,       \* kinds of message the server sends
    RtcAttached, \* main.c called webrtc_whip_set_audio_control
    MaxSession,  \* sessions the server issues, a bound of the model
    MaxHello     \* hello requests in flight, a bound of the model

ASSUME QueueLenAssumption == QueueLen \in Nat \ {0}
ASSUME KindsAssumption == Kinds \subseteq {"ttsStart", "ttsStop", "end", "stt"}
ASSUME RtcAttachedAssumption == RtcAttached \in BOOLEAN
ASSUME MaxSessionAssumption == MaxSession \in Nat
ASSUME MaxHelloAssumption == MaxHello \in Nat

\* Session identifiers in the order the server issues them; 0 is the empty
\* string: "no session" in a record, "no session_id field" in a message.
SessionIds == 0..MaxSession

VARIABLES
    \* the wake_process task
    pc,          \* where it is
    ret,         \* where it continues after enter_wake_idle / set_voice_state
    target,      \* argument of the set_voice_state call in progress
    state,       \* s_voice_state
    sid,         \* s_session_id
    ttsFinished, \* s_tts_finished
    suspended,   \* s_rtc_suspended
    wakeReady,   \* s_wake_word_ready
    bits,        \* the bits of s_events the V3 build uses (but RTC_ACK)
    udpUp,       \* the UDP audio channel is open
    \* guards: who holds them
    encGuard, capGuard,
    \* the event queue
    queue, overflow,
    \* the encoder task
    encPc,       \* "poll", "lock", "send"
    \* suspend / resume handshake with the WebRTC controller
    requested, pending, ack, rtcResult,
    rtcPc,       \* controller: "off", "starting", "on", "stopping"
    rtcHolds,    \* webrtc_whip.c s_audio_suspended
    \* cloud_mqtt.c and the server
    online, cloudReady, cloudId, hellos, issued

ctlVars   == <<pc, ret, target>>
voiceVars == <<state, sid, ttsFinished, suspended, wakeReady, bits, udpUp>>
guardVars == <<encGuard, capGuard>>
queueVars == <<queue, overflow>>
encVars   == <<encPc>>
rtcVars   == <<requested, pending, ack, rtcResult, rtcPc, rtcHolds>>
cloudVars == <<online, cloudReady, cloudId, hellos, issued>>

otherVars == <<encVars, rtcVars, cloudVars>>

vars == <<ctlVars, voiceVars, guardVars, queueVars, otherVars, wwVars>>

VoiceStates == {"idle", "connecting", "listening", "speaking", "continuous"}
Listening == {"listening", "continuous"}
EventKinds == {"wake", "ttsStart", "ttsStop", "end", "stt"}
Events == [kind : EventKinds, session : SessionIds]
UplinkBits == {"channel", "uplink"}

ControlPcs == {"top", "suspend", "deinit", "deinitWait", "rollback", "init",
               "ack", "overflow", "reset", "receive", "drain", "open",
               "await", "preroll", "listen", "lost", "resume", "watchdog",
               "idleEnc", "idleCap", "idleClose", "setEnc", "setCap"}

ControlTypeOK ==
    /\ pc \in ControlPcs
    /\ ret \in ControlPcs
    /\ target \in VoiceStates

VoiceTypeOK ==
    /\ state \in VoiceStates
    /\ sid \in SessionIds
    /\ ttsFinished \in BOOLEAN
    /\ suspended \in BOOLEAN
    /\ wakeReady \in BOOLEAN
    /\ bits \subseteq {"channel", "uplink", "speaking", "wake"}
    /\ udpUp \in BOOLEAN
    /\ encGuard \in {"none", "control", "encoder"}
    /\ capGuard \in {"none", "control", "capture"}

QueueTypeOK ==
    /\ queue \in Seq(Events)
    /\ Len(queue) <= QueueLen
    /\ overflow \in BOOLEAN

PartnersTypeOK ==
    /\ encPc \in {"poll", "lock", "send"}
    /\ requested \in BOOLEAN
    /\ pending \in BOOLEAN
    /\ ack \in BOOLEAN
    /\ rtcResult \in {"ok", "error"}
    /\ rtcPc \in {"off", "starting", "on", "stopping"}
    /\ rtcHolds \in BOOLEAN
    /\ online \in BOOLEAN
    /\ cloudReady \in BOOLEAN
    /\ cloudId \in SessionIds
    /\ hellos \in 0..MaxHello
    /\ issued \in SessionIds

TypeOK ==
    /\ ControlTypeOK
    /\ VoiceTypeOK
    /\ QueueTypeOK
    /\ PartnersTypeOK
    /\ WakeWordTypeOK

\* xiaozhi_audio_start has run, and so has cloud_mqtt_start: the first hello
\* goes out when the subscription is confirmed.
Init ==
    /\ WakeWordInit
    /\ pc = "top" /\ ret = "top" /\ target = "idle"
    /\ state = "idle"
    /\ sid = 0
    /\ ttsFinished = FALSE
    /\ suspended = FALSE
    /\ wakeReady = TRUE
    /\ bits = {"wake"}
    /\ udpUp = FALSE
    /\ encGuard = "none" /\ capGuard = "none"
    /\ queue = <<>>
    /\ overflow = FALSE
    /\ encPc = "poll"
    /\ requested = FALSE /\ pending = FALSE /\ ack = FALSE
    /\ rtcResult = "ok"
    /\ rtcPc = "off"
    /\ rtcHolds = FALSE
    /\ online = FALSE /\ cloudReady = FALSE
    /\ cloudId = 0 /\ hellos = 0 /\ issued = 0

-----------------------------------------------------------------------------
(* Shared pieces.                                                          *)

Post_LosesSilently(kind, session) ==
    /\ queue' = IF Len(queue) < QueueLen
                THEN Append(queue, [kind |-> kind, session |-> session])
                ELSE queue
    /\ UNCHANGED overflow

\* post_voice_event: never blocks; a full queue raises the overflow flag.
Post(kind, session) ==
    IF Len(queue) < QueueLen
    THEN /\ queue' = Append(queue, [kind |-> kind, session |-> session])
         /\ UNCHANGED overflow
    ELSE /\ overflow' = TRUE
         /\ UNCHANGED queue

\* A hello is published with QoS 0: it may be lost.
SendHello ==
    hellos' \in {hellos} \cup (IF hellos < MaxHello THEN {hellos + 1} ELSE {})

OnlyControlMoves ==
    UNCHANGED <<voiceVars, guardVars, queueVars, otherVars, wwVars>>

\* Continue in the loop; continue inside the routine called.
Goto(label) == pc' = label /\ ret' = "top" /\ target' = "idle"
Inside(label) == pc' = label /\ UNCHANGED <<ret, target>>

\* Call enter_wake_idle, or set_voice_state(next), and continue at "then".
CallEnterWakeIdle(then) == pc' = "idleEnc" /\ ret' = then /\ target' = "idle"
CallSetVoiceState(next, then) ==
    pc' = "setEnc" /\ ret' = then /\ target' = next

-----------------------------------------------------------------------------
(* set_voice_state, called by the wake_process task only.                  *)

\* Entry: listening is refused without a channel; otherwise wait for the
\* encoder to finish the packet it is sending.
SetVoiceStateEnter ==
    /\ pc = "setEnc"
    /\ IF target \in Listening /\ ("channel" \notin bits \/ suspended)
       THEN /\ Goto(ret)
            /\ UNCHANGED guardVars
       ELSE /\ encGuard = "none"
            /\ encGuard' = "control"
            /\ Inside("setCap")
            /\ UNCHANGED capGuard
    /\ UNCHANGED <<voiceVars, queueVars, otherVars, wwVars>>

SwitchedBits_KeepsUplink(listening, waking) ==
    (bits \ {"wake"}) \cup (IF waking THEN {"wake"} ELSE {})
                      \cup (IF listening THEN {"uplink"} ELSE {})

SwitchedBits(listening, waking) ==
    (bits \ {"uplink", "wake"}) \cup (IF waking THEN {"wake"} ELSE {})
                                \cup (IF listening THEN {"uplink"} ELSE {})

\* The body, with both guards held: switch PCM output, WakeNet and uplink.
SetVoiceStateBody ==
    LET listening == target \in Listening
        waking == target = "idle" /\ wakeReady /\ ~suspended
    IN  /\ pc = "setCap"
        /\ capGuard = "none"
        /\ EnableVoiceProcessing(listening)
        /\ SetRunning(waking)
        /\ bits' = SwitchedBits(listening, waking)
        /\ state' = target
        /\ encGuard' = "none"
        /\ Goto(ret)
        /\ UNCHANGED <<sid, ttsFinished, suspended, wakeReady, udpUp, capGuard,
                       queueVars, otherVars, afe, detPc, detOn>>

-----------------------------------------------------------------------------
(* enter_wake_idle, called by the wake_process task only.                  *)

EnterIdleLock ==
    /\ pc = "idleEnc"
    /\ encGuard = "none"
    /\ encGuard' = "control"
    /\ Inside("idleCap")
    /\ UNCHANGED <<capGuard, voiceVars, queueVars, otherVars, wwVars>>

EnterIdleGate_LeavesChannel ==
    /\ pc = "idleCap"
    /\ capGuard = "none"
    /\ bits' = bits \ {"uplink", "speaking"}
    /\ EnableVoiceProcessing(FALSE)
    /\ Inside("idleClose")
    /\ UNCHANGED <<state, sid, ttsFinished, suspended, wakeReady, udpUp,
                   guardVars, queueVars, otherVars, afe, running, detPc, detOn,
                   detFresh>>

\* With both guards: close every gate; the capture guard is given back.
EnterIdleGate ==
    /\ pc = "idleCap"
    /\ capGuard = "none"
    /\ bits' = bits \ {"uplink", "speaking", "channel"}
    /\ EnableVoiceProcessing(FALSE)
    /\ Inside("idleClose")
    /\ UNCHANGED <<state, sid, ttsFinished, suspended, wakeReady, udpUp,
                   guardVars, queueVars, otherVars, afe, running, detPc, detOn,
                   detFresh>>

\* Still with the encoder guard: close the UDP channel; forget the session
\* and go on to set_voice_state(WAKE_IDLE).
EnterIdleClose ==
    /\ pc = "idleClose"
    /\ udpUp' = FALSE
    /\ encGuard' = "none"
    /\ sid' = 0
    /\ ttsFinished' = FALSE
    /\ Inside("setEnc")
    /\ UNCHANGED <<state, suspended, wakeReady, bits, capGuard, queueVars,
                   otherVars, wwVars>>

-----------------------------------------------------------------------------
(* The wake_process loop, first part: suspend and resume for WebRTC.       *)

RtcBranch_NothingToDo ==
    IF requested /\ ~suspended THEN "suspend"
    ELSE IF ~requested /\ suspended THEN "init" ELSE "overflow"

\* A request for what already holds is just acknowledged.
RtcBranch ==
    IF requested /\ ~suspended THEN "suspend"
    ELSE IF ~requested /\ suspended THEN "init" ELSE "ack"

\* Top of the loop: take the pending request, if any.
LoopTop ==
    /\ pc = "top"
    /\ pending' = FALSE
    /\ IF ~pending THEN Goto("overflow") /\ UNCHANGED rtcResult
       ELSE /\ rtcResult' = "ok"
            /\ Goto(RtcBranch)
    /\ UNCHANGED <<requested, ack, rtcPc, rtcHolds, voiceVars, guardVars,
                   queueVars, encVars, cloudVars, wwVars>>

\* Mark audio suspended, say goodbye to the server, end the session.
RtcSuspend ==
    /\ pc = "suspend"
    /\ capGuard = "none"
    /\ suspended' = TRUE
    /\ CallEnterWakeIdle("deinit")
    /\ UNCHANGED <<state, sid, ttsFinished, wakeReady, bits, udpUp, guardVars,
                   queueVars, otherVars, wwVars>>

\* Free the AFE under the capture guard: ask the detection task to leave.
RtcDeinit ==
    /\ pc = "deinit"
    /\ capGuard = "none"
    /\ capGuard' = "control"
    /\ EngineStopping
    /\ Goto("deinitWait")
    /\ UNCHANGED <<encGuard, voiceVars, queueVars, otherVars>>

\* The cleanup worker has seen the detection task leave and freed the AFE.
RtcDeinitDone ==
    /\ pc = "deinitWait"
    /\ EngineFree
    /\ wakeReady' = FALSE
    /\ capGuard' = "none"
    /\ Goto("ack")
    /\ UNCHANGED <<encGuard, state, sid, ttsFinished, suspended, bits, udpUp,
                   queueVars, otherVars>>

RtcDeinitRejected_FalseSuccess ==
    /\ pc = "deinit"
    /\ capGuard = "none"
    /\ Goto("rollback")
    /\ UNCHANGED <<rtcVars, voiceVars, guardVars, queueVars, encVars,
                   cloudVars, wwVars>>

\* The cleanup worker could not be created: nothing was freed.
RtcDeinitRejected ==
    /\ pc = "deinit"
    /\ capGuard = "none"
    /\ rtcResult' = "error"
    /\ Goto("rollback")
    /\ UNCHANGED <<requested, pending, ack, rtcPc, rtcHolds, voiceVars,
                   guardVars, queueVars, encVars, cloudVars, wwVars>>

RtcRollback_NotRearmed ==
    /\ pc = "rollback"
    /\ capGuard = "none"
    /\ suspended' = FALSE
    /\ Goto("ack")
    /\ UNCHANGED <<state, sid, ttsFinished, wakeReady, bits, udpUp, guardVars,
                   queueVars, otherVars, wwVars>>

\* Undo the suspension and wait for a wake word again.
RtcRollback ==
    /\ pc = "rollback"
    /\ capGuard = "none"
    /\ suspended' = FALSE
    /\ CallSetVoiceState("idle", "ack")
    /\ UNCHANGED <<state, sid, ttsFinished, wakeReady, bits, udpUp, guardVars,
                   queueVars, otherVars, wwVars>>

\* Resume: rebuild the AFE under the capture guard.
RtcInit ==
    /\ pc = "init"
    /\ capGuard = "none"
    /\ EngineInit
    /\ wakeReady' = TRUE
    /\ suspended' = FALSE
    /\ CallSetVoiceState("idle", "ack")
    /\ UNCHANGED <<state, sid, ttsFinished, bits, udpUp, guardVars, queueVars,
                   otherVars>>

\* The AFE cannot be rebuilt: audio stays suspended, the caller is told.
RtcInitFailed ==
    /\ pc = "init"
    /\ capGuard = "none"
    /\ rtcResult' = "error"
    /\ Goto("ack")
    /\ UNCHANGED <<requested, pending, ack, rtcPc, rtcHolds, voiceVars,
                   guardVars, queueVars, encVars, cloudVars, wwVars>>

RtcAcknowledge ==
    /\ pc = "ack"
    /\ ack' = TRUE
    /\ Goto("overflow")
    /\ UNCHANGED <<requested, pending, rtcResult, rtcPc, rtcHolds, voiceVars,
                   guardVars, queueVars, encVars, cloudVars, wwVars>>

-----------------------------------------------------------------------------
(* The wake_process loop, second part: events.                             *)

AfterOverflow == IF overflow THEN "reset" ELSE "receive"

\* A lost event ends the session, lest a missed "stop" leave the uplink on.
CheckOverflow ==
    /\ pc = "overflow"
    /\ overflow' = FALSE
    /\ Goto(AfterOverflow)
    /\ UNCHANGED <<queue, voiceVars, guardVars, otherVars, wwVars>>

ResetQueue ==
    /\ pc = "reset"
    /\ queue' = <<>>
    /\ CallEnterWakeIdle("receive")
    /\ UNCHANGED <<overflow, voiceVars, guardVars, otherVars, wwVars>>

ReceiveTimeout ==
    /\ pc = "receive"
    /\ Goto(IF suspended THEN "top" ELSE "lost")
    /\ queue = <<>>
    /\ OnlyControlMoves

ForThisSession_AnySession(event) == event.session \in {0, sid}

\* A message for the current session, or one that names no session.
ForThisSession(event) == sid # 0 /\ event.session \in {0, sid}

\* An event that changes nothing but (for STT) the inactivity deadline.
Ignored(event) ==
    \/ suspended
    \/ event.kind = "wake" /\ (state # "idle" \/ ~wakeReady)
    \/ event.kind # "wake" /\ ~ForThisSession(event)
    \/ event.kind = "ttsStop" /\ state # "speaking"
    \/ event.kind = "stt"

ReceiveIgnored ==
    /\ pc = "receive"
    /\ queue # <<>>
    /\ Ignored(Head(queue))
    /\ queue' = Tail(queue)
    /\ Goto(IF suspended THEN "top" ELSE "lost")
    /\ UNCHANGED <<overflow, voiceVars, guardVars, otherVars, wwVars>>

\* Take an event of this kind that handle_voice_event acts upon.
Receive(kind) ==
    /\ pc = "receive"
    /\ queue # <<>>
    /\ Head(queue).kind = kind
    /\ ~Ignored(Head(queue))
    /\ queue' = Tail(queue)
    /\ UNCHANGED overflow

\* process_detected_wake_word starts: no wake word, no uplink from here on.
ReceiveWake ==
    /\ Receive("wake")
    /\ CallSetVoiceState("connecting", "drain")
    /\ UNCHANGED <<voiceVars, guardVars, otherVars, wwVars>>

ReceiveTtsStart ==
    /\ Receive("ttsStart")
    /\ ttsFinished' = FALSE
    /\ bits' = bits \cup {"speaking"}
    /\ CallSetVoiceState("speaking", "lost")
    /\ UNCHANGED <<state, sid, suspended, wakeReady, udpUp, guardVars, encVars,
                   rtcVars, cloudVars, wwVars>>

ReceiveTtsStop ==
    /\ Receive("ttsStop")
    /\ ttsFinished' = TRUE
    /\ bits' = bits \ {"speaking"}
    /\ Goto("lost")
    /\ UNCHANGED <<state, sid, suspended, wakeReady, udpUp, guardVars, encVars,
                   rtcVars, cloudVars, wwVars>>

ReceiveEnd ==
    /\ Receive("end")
    /\ CallEnterWakeIdle("lost")
    /\ UNCHANGED <<voiceVars, guardVars, otherVars, wwVars>>

-----------------------------------------------------------------------------
(* process_detected_wake_word and v3_open_session_for_wake.                *)

\* The playback pipeline drained; or it did not within 2 s, or WebRTC wants
\* the audio: give up.
DrainDone ==
    /\ pc = "drain"
    /\ Goto("open")
    /\ OnlyControlMoves

DrainGiveUp ==
    /\ pc = "drain"
    /\ CallEnterWakeIdle("lost")
    /\ OnlyControlMoves

\* cloud_mqtt_reopen_session: invalidate the session record, publish a hello.
ReopenSession ==
    /\ cloudReady' = FALSE
    /\ cloudId' = 0
    /\ SendHello

OpenSession ==
    /\ pc = "open"
    /\ udpUp' = FALSE
    /\ bits' = bits \ {"channel"}
    /\ ReopenSession
    /\ \/ Goto("await")
       \/ CallEnterWakeIdle("lost")  \* not published
    /\ UNCHANGED <<state, sid, ttsFinished, suspended, wakeReady, guardVars,
                   queueVars, encVars, rtcVars, online, issued, wwVars>>

\* Server Hello arrived and WebRTC does not want the audio: bind the session
\* to a UDP channel.
AwaitBound ==
    /\ pc = "await"
    /\ ~requested
    /\ cloudReady
    /\ udpUp' = TRUE
    /\ sid' = cloudId
    /\ bits' = bits \cup {"channel"}
    /\ Goto("preroll")
    /\ UNCHANGED <<state, ttsFinished, suspended, wakeReady, guardVars,
                   queueVars, otherVars, wwVars>>

\* 12 s without a Server Hello, WebRTC wants the audio, the record was
\* invalidated again before it was copied, or the UDP channel failed to start.
AwaitGiveUp ==
    /\ pc = "await"
    /\ CallEnterWakeIdle("lost")
    /\ OnlyControlMoves

\* send_wake_preroll: the encoder guard keeps the encoder task out.
SendPreroll ==
    /\ pc = "preroll"
    /\ encGuard = "none"
    /\ Goto("listen")
    /\ OnlyControlMoves

\* Publish listen/detect and listen/start, then open the microphone.
StartListening ==
    /\ pc = "listen"
    /\ \/ CallSetVoiceState("listening", "lost")
       \/ CallEnterWakeIdle("lost")  \* one of them was not published
    /\ OnlyControlMoves

-----------------------------------------------------------------------------
(* The wake_process loop, third part: the checks after each event.         *)

SessionLost == "channel" \in bits /\ ~cloudReady

\* The MQTT session is gone: so is the channel.
CheckSessionLost ==
    /\ pc = "lost"
    /\ IF SessionLost
       THEN CallEnterWakeIdle("resume")
       ELSE Goto("resume")
    /\ OnlyControlMoves

\* resume_listening_after_playback: the reply has been played (120 ms of
\* silence and an empty pipeline, or not yet).
CanResumeListening ==
    /\ state = "speaking" /\ ttsFinished /\ ~suspended
    /\ wakeReady /\ "channel" \in bits

ResumeListening ==
    /\ pc = "resume"
    /\ \/ Goto("watchdog")
       \/ CanResumeListening /\ CallSetVoiceState("continuous", "watchdog")
       \/ CanResumeListening /\ CallEnterWakeIdle("watchdog")
    /\ OnlyControlMoves

\* 30 s of listening without speech recognised: goodbye, back to the wake word.
Watchdog ==
    /\ pc = "watchdog"
    /\ \/ Goto("top")
       \/ state \in Listening /\ CallEnterWakeIdle("top")
    /\ OnlyControlMoves

Control ==
    \/ LoopTop \/ RtcSuspend \/ RtcDeinit \/ RtcDeinitDone
    \/ RtcDeinitRejected \/ RtcRollback \/ RtcInit \/ RtcInitFailed
    \/ RtcAcknowledge
    \/ CheckOverflow \/ ResetQueue \/ ReceiveTimeout \/ ReceiveIgnored
    \/ ReceiveWake \/ ReceiveTtsStart \/ ReceiveTtsStop \/ ReceiveEnd
    \/ DrainDone \/ DrainGiveUp \/ OpenSession \/ AwaitBound \/ AwaitGiveUp
    \/ SendPreroll \/ StartListening
    \/ CheckSessionLost \/ ResumeListening \/ Watchdog
    \/ EnterIdleLock \/ EnterIdleGate \/ EnterIdleClose
    \/ SetVoiceStateEnter \/ SetVoiceStateBody

-----------------------------------------------------------------------------
(* The encoder task.                                                       *)

EncoderUnchanged ==
    UNCHANGED <<ctlVars, voiceVars, queueVars, rtcVars, cloudVars>>

\* The uplink is open and, under the capture guard, a frame can be read.
EncoderRead ==
    /\ encPc = "poll"
    /\ UplinkBits \subseteq bits
    /\ capGuard = "none"
    /\ ~suspended /\ wakeReady
    /\ ReadPcm
    /\ encPc' = "lock"
    /\ EncoderUnchanged
    /\ UNCHANGED <<guardVars, afe, running, voiceOut, detPc, detOn, detFresh,
                   outFresh>>

MayUpload_NotRechecked == TRUE

MayUpload == UplinkBits \subseteq bits /\ ~suspended

\* Take the encoder guard and look at the gates again.
EncoderLock ==
    /\ encPc = "lock"
    /\ encGuard = "none"
    /\ IF MayUpload
       THEN encPc' = "send" /\ encGuard' = "encoder"
       ELSE encPc' = "poll" /\ UNCHANGED encGuard
    /\ EncoderUnchanged
    /\ UNCHANGED <<capGuard, wwVars>>

\* Encoded and sent on the current UDP channel, all under the guard.
EncoderSend ==
    /\ encPc = "send"
    /\ encPc' = "poll"
    /\ encGuard' = "none"
    /\ EncoderUnchanged
    /\ UNCHANGED <<capGuard, wwVars>>

Encoder == EncoderRead \/ EncoderLock \/ EncoderSend

-----------------------------------------------------------------------------
(* The capture task: feed the AFE under the capture guard.                 *)

CaptureFeed ==
    /\ capGuard = "none"
    /\ ~suspended /\ wakeReady
    /\ capGuard' = "capture"
    /\ UNCHANGED <<ctlVars, voiceVars, encGuard, queueVars, otherVars, wwVars>>

CaptureDone ==
    /\ capGuard = "capture"
    /\ capGuard' = "none"
    /\ UNCHANGED <<ctlVars, voiceVars, encGuard, queueVars, otherVars, wwVars>>

-----------------------------------------------------------------------------
(* The detection task; its callback posts the wake event.                  *)

DetectCallback ==
    /\ detPc = "callback"
    /\ detPc' = "top"
    /\ Post("wake", 0)
    /\ UNCHANGED <<ctlVars, voiceVars, guardVars, otherVars, afe, running,
                   voiceOut, pcm, detOn, detFresh, outFresh>>

DetectStep ==
    /\ DetectTop \/ DetectNothing \/ DetectFrame \/ DetectHit \/ DetectExit
    /\ UNCHANGED <<ctlVars, voiceVars, guardVars, queueVars, otherVars>>

Detect == DetectStep \/ DetectCallback

-----------------------------------------------------------------------------
(* The MQTT task: cloud_mqtt.c handles one event at a time.                *)

CloudUnchanged ==
    UNCHANGED <<ctlVars, voiceVars, guardVars, encVars, rtcVars, wwVars>>

\* SUBSCRIBED, after a (re)connection: publish a hello.
MqttSubscribed ==
    /\ ~online
    /\ online' = TRUE
    /\ SendHello
    /\ CloudUnchanged
    /\ UNCHANGED <<cloudReady, cloudId, issued, queueVars>>

\* DISCONNECTED: the session record is void; replies under way may be lost.
MqttDisconnected ==
    /\ online
    /\ online' = FALSE
    /\ cloudReady' = FALSE
    /\ cloudId' = 0
    /\ hellos' \in {0, hellos}
    /\ CloudUnchanged
    /\ UNCHANGED <<issued, queueVars>>

\* A Server Hello, in reply to some hello, opens the session record.  One
\* without a session_id leaves the field as it was.
ServerHello ==
    /\ online
    /\ hellos > 0
    /\ hellos' = hellos - 1
    /\ cloudReady' = TRUE
    /\ \/ UNCHANGED <<cloudId, issued>>
       \/ /\ issued < MaxSession
          /\ issued' = issued + 1
          /\ cloudId' = issued + 1
    /\ CloudUnchanged
    /\ UNCHANGED <<online, queueVars>>

\* server_text_callback: nothing is posted while WebRTC wants the audio.
TextCallback(kind, session) ==
    IF requested THEN UNCHANGED queueVars ELSE Post(kind, session)

\* tts, stt, abort and listen/stop messages, of any session issued so far.
ServerText(kind, session) ==
    /\ online
    /\ session <= issued
    /\ TextCallback(kind, session)
    /\ CloudUnchanged
    /\ UNCHANGED cloudVars

\* goodbye: ignored unless it names the session of the record or none; else
\* it is forwarded first, and then a new hello is published.
ServerGoodbye(session) ==
    /\ online
    /\ session <= issued
    /\ cloudReady
    /\ session \in {0, cloudId}
    /\ TextCallback("end", session)
    /\ ReopenSession
    /\ CloudUnchanged
    /\ UNCHANGED <<online, issued>>

Cloud ==
    \/ MqttSubscribed \/ MqttDisconnected \/ ServerHello
    \/ \E session \in SessionIds :
        \/ \E kind \in Kinds : ServerText(kind, session)
        \/ ServerGoodbye(session)

-----------------------------------------------------------------------------
(* The WebRTC controller task calls xiaozhi_audio_set_rtc_suspended.       *)

RtcUnchanged ==
    UNCHANGED <<ctlVars, voiceVars, guardVars, queueVars, encVars, cloudVars,
                wwVars>>

\* The request: clear the acknowledgement, say what is wanted, raise pending.
RtcRequest(suspend) ==
    /\ ack' = FALSE
    /\ requested' = suspend
    /\ pending' = TRUE
    /\ UNCHANGED <<rtcResult, rtcHolds>>

RtcStart ==
    /\ RtcAttached
    /\ rtcPc = "off"
    /\ RtcRequest(TRUE)
    /\ rtcPc' = "starting"
    /\ RtcUnchanged

\* Audio is released, or the RTC session fails here; a failed session asks
\* for the audio back only if it had been told that it was released.
RtcStarted ==
    /\ rtcPc = "starting" /\ ack
    /\ ack' = FALSE
    /\ rtcHolds' = (rtcHolds \/ rtcResult = "ok")
    /\ rtcPc' = IF rtcHolds' THEN "on" ELSE "off"
    /\ UNCHANGED <<requested, pending, rtcResult>>
    /\ RtcUnchanged

RtcStop ==
    /\ rtcPc = "on"
    /\ RtcRequest(FALSE)
    /\ rtcPc' = "stopping"
    /\ RtcUnchanged

\* A failed restore is remembered for the end of the next RTC session.
RtcStopped ==
    /\ rtcPc = "stopping" /\ ack
    /\ ack' = FALSE
    /\ rtcHolds' = (rtcResult # "ok")
    /\ rtcPc' = "off"
    /\ UNCHANGED <<requested, pending, rtcResult>>
    /\ RtcUnchanged

Rtc == RtcStart \/ RtcStarted \/ RtcStop \/ RtcStopped

-----------------------------------------------------------------------------
Next ==
    \/ Control \/ Encoder \/ CaptureFeed \/ CaptureDone \/ Detect
    \/ Cloud \/ Rtc

Spec == Init /\ [][Next]_vars

-----------------------------------------------------------------------------
(***************************************************************************)
(* Fairness.  FreeRTOS runs every ready task: each task goes on (WF).  The *)
(* control task outranks the encoder and capture tasks, which              *)
(* give their guards back and block between two rounds, so a guard it      *)
(* waits for does not escape it for ever (SF; its other steps, once        *)
(* enabled, stay enabled until taken).                                     *)
(* Nothing is assumed of the network, the user or the WebRTC session.      *)
(***************************************************************************)
Fairness ==
    /\ SF_vars(Control)
    /\ WF_vars(Encoder) /\ WF_vars(CaptureDone) /\ WF_vars(Detect)
    /\ WF_vars(RtcStarted \/ RtcStopped)

FairSpec == Spec /\ Fairness

-----------------------------------------------------------------------------
(* Safety.                                                                 *)

\* Whenever the uplink gate is open, the robot listens in a session whose UDP
\* channel is open, the AFE output is on, and WakeNet is off: the five places
\* set_voice_state and enter_wake_idle switch separately never disagree.
MicGate ==
    "uplink" \in bits =>
        /\ state \in Listening
        /\ "channel" \in bits
        /\ udpUp
        /\ voiceOut
        /\ ~running

\* A microphone packet is encoded and sent only while the robot listens and
\* the channel is open: no state switch overtakes a packet (set_voice_state
\* waits for the encoder before it switches).
SendHasChannel ==
    encPc = "send" =>
        /\ encGuard = "encoder"
        /\ UplinkBits \subseteq bits
        /\ state \in Listening
        /\ udpUp

\* Once the WebRTC controller has been told that audio is suspended, and until
\* it asks for it back, nothing of local voice is left running: no AFE, no
\* task inside it, no channel, no packet, no wake word.
ReleasedForRtc ==
    rtcPc = "on" =>
        /\ suspended /\ ~wakeReady
        /\ afe = "down" /\ detPc = "gone"
        /\ capGuard # "capture"
        /\ encPc # "send"
        /\ bits \cap {"channel", "uplink", "wake"} = {}
        /\ ~udpUp
        /\ state = "idle"

\* The AFE is never freed under a task that uses it: not under the capture
\* task feeding it, nor under the detection task fetching from it.
EngineNotFreedInUse ==
    /\ capGuard = "capture" => afe = "up"
    /\ afe = "down" => detPc = "gone"

\* The wake word is never lost for good: while the robot idles with a working
\* engine that is not armed, a wake event or a lost event is waiting to be
\* handled, or the control task is about to arm the engine or to connect.
NeverDeaf ==
    state = "idle" /\ wakeReady /\ ~suspended /\ ~running =>
        \/ \E i \in 1..Len(queue) : queue[i].kind = "wake"
        \/ overflow
        \/ detPc = "callback"
        \/ pc \in {"reset", "idleEnc", "idleCap", "idleClose",
                  "setEnc", "setCap"}

-----------------------------------------------------------------------------
(* Liveness.                                                               *)

\* The WebRTC controller, which waits without a timeout, is always answered.
RtcAnswered == rtcPc \in {"starting", "stopping"} ~> rtcPc \in {"on", "off"}

\* An idle robot with a working engine gets to listen for its wake word.
WakeRearmed ==
    state = "idle" /\ wakeReady /\ ~suspended
        ~> running \/ state # "idle" \/ ~wakeReady \/ suspended

=============================================================================
