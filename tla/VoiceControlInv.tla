--------------------------- MODULE VoiceControlInv ---------------------------
(***************************************************************************)
(* The inductive invariants of VoiceControl: what holds at each program    *)
(* point of the wake_process task, so that no other task can break the     *)
(* microphone gates (GateInv), lose the wake word (WakeInv), or come       *)
(* between a session and its line, or WebRTC and the audio lent to it      *)
(* (LineInv, LoanInv).                                                     *)
(***************************************************************************)
EXTENDS VoiceRefinement

InEnterIdle == pc \in {"idleEnc", "idleCap", "idleClose"}
InSetState == pc \in {"setEnc", "setCap"}
InRoutine == InEnterIdle \/ InSetState

\* From the drain of the playback to the opening of the microphone.
InWake == pc \in {"drain", "open", "await", "preroll", "listen"}

\* A routine returns to the place that called it.
ReturnPoints ==
    InRoutine => ret \in {"deinit", "drain", "ack", "receive", "lost",
                          "resume", "watchdog", "top"}

\* Who holds which guard follows from where the tasks are.
GuardsHeld ==
    /\ (encGuard = "control") = (pc \in {"idleCap", "idleClose", "setCap"})
    /\ (encGuard = "encoder") = (encPc = "send")
    /\ (capGuard = "control") = (pc = "deinitWait")

\* The AFE works while audio is not suspended, and until it is taken down.
EngineWorks ==
    /\ ~suspended => afe = "up"
    /\ pc \in {"deinit", "rollback"} => afe = "up" /\ suspended
    /\ InRoutine /\ ret = "deinit" => afe = "up" /\ suspended
    /\ afe = "down" => detPc = "gone"
    /\ capGuard = "capture" => afe = "up"

\* Suspension is decided at the top of the loop and nowhere else.
SuspensionPoints ==
    /\ pc = "suspend" => ~suspended
    /\ pc \in {"init", "deinitWait"} => suspended
    /\ InWake => ~suspended /\ state = "connecting"
    /\ InRoutine /\ ret = "drain" =>
           InSetState /\ ~suspended /\ target = "connecting"
    /\ InEnterIdle => target = "idle"

\* The channel bit: only with an open UDP channel, only with audio not
\* suspended, but for the first half of enter_wake_idle.
ChannelBit ==
    "channel" \in bits =>
        /\ udpUp
        /\ pc # "idleClose"
        /\ suspended => pc \in {"idleEnc", "idleCap"} /\ ret = "deinit"

\* set_voice_state(listening), once admitted, keeps what it was admitted for.
ListenAdmitted ==
    pc = "setCap" /\ target \in Listening => "channel" \in bits /\ ~suspended

\* The encoder task sends only through open gates.
SendGate == encPc = "send" => UplinkBits \subseteq bits

GateInv ==
    /\ ReturnPoints
    /\ GuardsHeld
    /\ EngineWorks
    /\ SuspensionPoints
    /\ ChannelBit
    /\ ListenAdmitted
    /\ SendGate
    /\ MicGate

-----------------------------------------------------------------------------
(* What else NeverDeaf rests on.                                           *)

\* set_voice_state(listening) is not called by a robot at rest, so that its
\* refusal leaves no robot at rest with the wake word disarmed.
ListenAwake == InSetState /\ target \in Listening => state # "idle"

WakeInv == ListenAwake /\ NeverDeaf

-----------------------------------------------------------------------------
(* What else the refinement of VoiceSession and ReleasedForRtc rest on.    *)

NoLine == sid = 0 /\ ~udpUp /\ "channel" \notin bits

\* A robot at rest, on its way to rest, or on its way to a session has no line.
LineClosed ==
    /\ state = "idle" => NoLine
    /\ InSetState /\ target = "idle" => NoLine
    /\ pc \in {"drain", "open", "await"} => NoLine

\* A session and its line are there as long as the channel bit is set, but for
\* the middle of enter_wake_idle; and no state of a conversation lasts longer.
LineOpen ==
    /\ (sid # 0 \/ udpUp) /\ pc # "idleClose" => "channel" \in bits
    /\ state \notin {"idle", "connecting"} => "channel" \in bits \/ GoingToRest

\* The states set_voice_state is called for follow from where it is called.
StateAdmitted ==
    InSetState =>
        /\ target = "connecting" => ret = "drain" /\ state = "idle"
        /\ target = "speaking" => "channel" \in bits /\ ~suspended
        /\ ret \in {"deinit", "ack"} => target = "idle"

LineInv == LineClosed /\ LineOpen /\ StateAdmitted

\* The control task is on its way from a suspension to the end of the AFE.
TakingDown == InRoutine /\ ret = "deinit"

\* It works on a request of the WebRTC controller.
Handling ==
    \/ pc \in {"suspend", "deinit", "deinitWait", "rollback", "init", "ack"}
    \/ InRoutine /\ ret \in {"deinit", "ack"}

\* Suspended, the robot is at rest, and everything is released unless that is
\* under way.
SuspendedAtRest ==
    suspended /\ ~TakingDown =>
        /\ state = "idle" /\ "wake" \notin bits
        /\ pc \notin {"deinit", "deinitWait", "rollback"} =>
               ~wakeReady /\ afe = "down"

\* A request is pending, in work or acknowledged, one after the other.
OneRequest ==
    /\ pending \/ Handling \/ ack => rtcPc \in {"starting", "stopping"}
    /\ ~(pending /\ Handling) /\ ~(pending /\ ack) /\ ~(Handling /\ ack)
    /\ rtcPc = "starting" => requested
    /\ rtcPc = "stopping" => ~requested

\* What is in work is what was requested, and so is its result.
ResultTrue ==
    /\ TakingDown \/ pc \in {"suspend", "deinit", "deinitWait", "rollback"} =>
           rtcPc = "starting" /\ ~rtcHolds
    /\ pc = "init" => rtcPc = "stopping" /\ rtcResult = "ok"
    /\ pc = "rollback" => rtcResult = "error"
    /\ InRoutine /\ ret = "ack" /\ rtcPc = "starting" => rtcResult = "error"
    /\ InRoutine /\ ret = "ack" /\ rtcPc = "stopping" => rtcResult = "ok"
    /\ pc = "ack" \/ ack =>
           /\ rtcPc = "starting" /\ rtcResult = "ok" => suspended
           /\ rtcPc = "stopping" /\ rtcResult = "error" => suspended

\* The controller holds the audio only while it is suspended.
HoldsSuspended == rtcHolds /\ rtcPc # "stopping" => suspended
OnHolds == rtcPc = "on" => rtcHolds

LoanInv ==
    /\ SuspendedAtRest
    /\ OneRequest
    /\ ResultTrue
    /\ HoldsSuspended
    /\ OnHolds

=============================================================================
