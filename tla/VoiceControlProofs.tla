------------------------- MODULE VoiceControlProofs -------------------------
(***************************************************************************)
(* Proofs about VoiceControl, for every queue depth, any number of         *)
(* sessions and of hellos in flight, with or without WebRTC:               *)
(*   - the types;                                                          *)
(*   - the microphone gates, the encoder and the life of the AFE are safe  *)
(*     (MicGate, SendHasChannel, EngineNotFreedInUse) and the wake word is *)
(*     never lost (NeverDeaf): GateInv of VoiceControlInv is the inductive *)
(*     invariant, and NeverDeaf is inductive on top of it;                 *)
(*   - WebRTC has the audio to itself (ReleasedForRtc), and VoiceControl   *)
(*     implements VoiceSession and so rests quietly: LineInv and LoanInv,  *)
(*     together with GateInv, are the inductive invariant.                 *)
(***************************************************************************)
EXTENDS VoiceControlInv, TLAPS

\* The tuples of variables, and the ways the control task moves.
USE DEF vars, ctlVars, voiceVars, guardVars, queueVars, encVars, rtcVars,
        cloudVars, otherVars, wwVars
USE DEF OnlyControlMoves, Goto, Inside, CallEnterWakeIdle, CallSetVoiceState

-----------------------------------------------------------------------------
(* Type correctness.                                                       *)

\* TypeOK holds initially.
LEMMA InitTypeOK == Init => TypeOK
<1> SUFFICES ASSUME Init PROVE TypeOK
  OBVIOUS
<1>1. WakeWordTypeOK
  BY DEF Init, WakeWordInit, WakeWordTypeOK
<1>2. QueueTypeOK
  <2>1. queue = <<>> /\ overflow = FALSE
    BY DEF Init
  <2>2. <<>> \in Seq(Events) /\ Len(<<>>) = 0
    OBVIOUS
  <2>3. queue \in Seq(Events)
    BY <2>1, <2>2
  <2>4. Len(queue) <= QueueLen
    BY <2>1, <2>2, QueueLenAssumption
  <2> QED
    BY <2>1, <2>3, <2>4, Zenon DEF QueueTypeOK
<1>3. {sid, cloudId, issued} \subseteq SessionIds /\ hellos \in 0..MaxHello
  BY MaxSessionAssumption, MaxHelloAssumption DEF Init, SessionIds
<1> QED
  BY <1>1, <1>2, <1>3
     DEF Init, TypeOK, ControlTypeOK, VoiceTypeOK, PartnersTypeOK,
         ControlPcs, VoiceStates

\* What post_voice_event does to the queue keeps its type and its bound.
LEMMA PostType ==
    ASSUME NEW kind \in EventKinds, NEW session \in SessionIds,
           QueueTypeOK, Post(kind, session)
    PROVE  QueueTypeOK'
<1> DEFINE event == [kind |-> kind, session |-> session]
<1>1. event \in Events
  BY DEF Events
<1>2. CASE Len(queue) < QueueLen
  <2>1. queue' = Append(queue, event) /\ overflow' = overflow
    BY <1>2 DEF Post
  <2>2. Len(queue') = Len(queue) + 1 /\ queue' \in Seq(Events)
    BY <1>1, <2>1 DEF QueueTypeOK
  <2> QED
    BY <1>2, <2>1, <2>2, QueueLenAssumption DEF QueueTypeOK
<1>3. CASE ~(Len(queue) < QueueLen)
  BY <1>3 DEF Post, QueueTypeOK
<1> QED
  BY <1>2, <1>3

\* Taking an event, dropping them all, or leaving them: the control task's
\* steps keep the type of the queue.
LEMMA QueueStep ==
    ASSUME QueueTypeOK,
           \/ UNCHANGED queue
           \/ queue # <<>> /\ queue' = Tail(queue)
           \/ queue' = <<>>,
           overflow' \in BOOLEAN
    PROVE  QueueTypeOK'
<1>1. CASE UNCHANGED queue
  BY <1>1 DEF QueueTypeOK
<1>2. CASE queue # <<>> /\ queue' = Tail(queue)
  <2>1. queue' \in Seq(Events) /\ Len(queue') = Len(queue) - 1
    BY <1>2 DEF QueueTypeOK
  <2> QED
    BY <2>1, QueueLenAssumption DEF QueueTypeOK
<1>3. CASE queue' = <<>>
  BY <1>3, QueueLenAssumption DEF QueueTypeOK
<1> QED
  BY <1>1, <1>2, <1>3

\* wake_word_start / stop and the PCM switch keep the type of the engine.
LEMMA SetRunningType ==
    ASSUME WakeWordTypeOK, NEW wanted \in BOOLEAN, SetRunning(wanted)
    PROVE  running' \in BOOLEAN /\ detFresh' \in BOOLEAN
<1>1. running' \in BOOLEAN
  BY DEF SetRunning, WakeWordTypeOK
<1>2. detFresh' \in BOOLEAN
  BY DEF SetRunning, WakeWordTypeOK
<1> QED
  BY <1>1, <1>2

\* Switching voice processing keeps the types of the engine's output.
LEMMA EnableVoiceType ==
    ASSUME WakeWordTypeOK, NEW on \in BOOLEAN, EnableVoiceProcessing(on)
    PROVE  voiceOut' \in BOOLEAN /\ pcm' \in BOOLEAN /\ outFresh' \in BOOLEAN
<1>1. CASE afe = "down" \/ voiceOut = on
  BY <1>1 DEF EnableVoiceProcessing, WakeWordTypeOK
<1>2. CASE ~(afe = "down" \/ voiceOut = on)
  BY <1>2 DEF EnableVoiceProcessing, WakeWordTypeOK
<1> QED
  BY <1>1, <1>2

\* A hello, published or lost, keeps the count of hellos in its bound.
LEMMA SendHelloType ==
    ASSUME hellos \in 0..MaxHello, SendHello
    PROVE  hellos' \in 0..MaxHello
BY MaxHelloAssumption DEF SendHello

\* Every step of the control task keeps the type.
LEMMA ControlStepType == TypeOK /\ Control => TypeOK'
<1> SUFFICES ASSUME TypeOK, Control PROVE TypeOK'
  OBVIOUS
<1>1. ControlTypeOK' /\ VoiceTypeOK' /\ PartnersTypeOK' /\ WakeWordTypeOK'
  <2> USE DEF TypeOK, ControlTypeOK, VoiceTypeOK, PartnersTypeOK,
              WakeWordTypeOK, ControlPcs, VoiceStates
  <2>1. CASE LoopTop
    <3>1. ControlTypeOK'
      BY <2>1 DEF LoopTop, RtcBranch
    <3>2. VoiceTypeOK'
      BY <2>1 DEF LoopTop, RtcBranch
    <3>3. PartnersTypeOK'
      BY <2>1 DEF LoopTop, RtcBranch
    <3>4. WakeWordTypeOK'
      BY <2>1 DEF LoopTop, RtcBranch
    <3> QED
      BY <3>1, <3>2, <3>3, <3>4
  <2>2. CASE RtcSuspend
    BY <2>2 DEF RtcSuspend
  <2>3. CASE RtcDeinit
    BY <2>3 DEF RtcDeinit, EngineStopping
  <2>4. CASE RtcDeinitDone
    <3>1. ControlTypeOK'
      BY <2>4 DEF RtcDeinitDone, EngineFree
    <3>2. VoiceTypeOK'
      BY <2>4 DEF RtcDeinitDone, EngineFree
    <3>3. PartnersTypeOK'
      BY <2>4 DEF RtcDeinitDone, EngineFree
    <3>4. WakeWordTypeOK'
      BY <2>4 DEF RtcDeinitDone, EngineFree
    <3> QED
      BY <3>1, <3>2, <3>3, <3>4
  <2>5. CASE RtcDeinitRejected
    BY <2>5 DEF RtcDeinitRejected
  <2>6. CASE RtcRollback
    <3>1. ControlTypeOK'
      BY <2>6 DEF RtcRollback
    <3>2. VoiceTypeOK'
      BY <2>6 DEF RtcRollback
    <3>3. PartnersTypeOK'
      BY <2>6 DEF RtcRollback
    <3>4. WakeWordTypeOK'
      BY <2>6 DEF RtcRollback
    <3> QED
      BY <3>1, <3>2, <3>3, <3>4
  <2>7. CASE RtcInit
    <3>1. ControlTypeOK'
      BY <2>7 DEF RtcInit, EngineInit
    <3>2. VoiceTypeOK'
      BY <2>7 DEF RtcInit, EngineInit
    <3>3. PartnersTypeOK'
      BY <2>7 DEF RtcInit, EngineInit
    <3>4. WakeWordTypeOK'
      BY <2>7 DEF RtcInit, EngineInit
    <3> QED
      BY <3>1, <3>2, <3>3, <3>4
  <2>8. CASE RtcInitFailed
    BY <2>8 DEF RtcInitFailed
  <2>9. CASE RtcAcknowledge
    BY <2>9 DEF RtcAcknowledge
  <2>10. CASE CheckOverflow
    BY <2>10 DEF CheckOverflow, AfterOverflow
  <2>11. CASE ResetQueue
    BY <2>11 DEF ResetQueue
  <2>12. CASE ReceiveTimeout
    BY <2>12 DEF ReceiveTimeout
  <2>13. CASE ReceiveIgnored
    BY <2>13 DEF ReceiveIgnored
  <2>14. CASE ReceiveWake
    BY <2>14 DEF ReceiveWake, Receive
  <2>15. CASE ReceiveTtsStart
    <3>1. ControlTypeOK'
      BY <2>15 DEF ReceiveTtsStart, Receive
    <3>2. VoiceTypeOK'
      BY <2>15 DEF ReceiveTtsStart, Receive
    <3>3. PartnersTypeOK'
      BY <2>15 DEF ReceiveTtsStart, Receive
    <3>4. WakeWordTypeOK'
      BY <2>15 DEF ReceiveTtsStart, Receive
    <3> QED
      BY <3>1, <3>2, <3>3, <3>4
  <2>16. CASE ReceiveTtsStop
    BY <2>16 DEF ReceiveTtsStop, Receive
  <2>17. CASE ReceiveEnd
    BY <2>17 DEF ReceiveEnd, Receive
  <2>18. CASE DrainDone
    BY <2>18 DEF DrainDone
  <2>19. CASE DrainGiveUp
    BY <2>19 DEF DrainGiveUp
  <2>20. CASE OpenSession
    <3>1. ControlTypeOK'
      BY <2>20 DEF OpenSession, ReopenSession, SendHello
    <3>2. VoiceTypeOK'
      BY <2>20 DEF OpenSession, ReopenSession, SendHello
    <3>3. PartnersTypeOK'
      <4>1. hellos' \in 0..MaxHello
        BY <2>20, SendHelloType DEF OpenSession, ReopenSession
      <4>2. cloudId' \in SessionIds
        BY <2>20, MaxSessionAssumption DEF OpenSession, ReopenSession, SessionIds
      <4> QED
        BY <4>1, <4>2, <2>20 DEF OpenSession, ReopenSession
    <3>4. WakeWordTypeOK'
      BY <2>20 DEF OpenSession, ReopenSession, SendHello
    <3> QED
      BY <3>1, <3>2, <3>3, <3>4
  <2>21. CASE AwaitBound
    BY <2>21 DEF AwaitBound
  <2>22. CASE AwaitGiveUp
    BY <2>22 DEF AwaitGiveUp
  <2>23. CASE SendPreroll
    BY <2>23 DEF SendPreroll
  <2>24. CASE StartListening
    BY <2>24 DEF StartListening
  <2>25. CASE CheckSessionLost
    BY <2>25 DEF CheckSessionLost
  <2>26. CASE ResumeListening
    BY <2>26 DEF ResumeListening
  <2>27. CASE Watchdog
    BY <2>27 DEF Watchdog
  <2>28. CASE EnterIdleLock
    BY <2>28 DEF EnterIdleLock
  <2>29. CASE EnterIdleGate
    <3>1. ControlTypeOK'
      BY <2>29 DEF EnterIdleGate, EnableVoiceProcessing
    <3>2. VoiceTypeOK'
      BY <2>29 DEF EnterIdleGate, EnableVoiceProcessing
    <3>3. PartnersTypeOK'
      BY <2>29 DEF EnterIdleGate, EnableVoiceProcessing
    <3>4. WakeWordTypeOK'
      BY <2>29 DEF EnterIdleGate, EnableVoiceProcessing
    <3> QED
      BY <3>1, <3>2, <3>3, <3>4
  <2>30. CASE EnterIdleClose
    <3>1. ControlTypeOK'
      BY <2>30 DEF EnterIdleClose
    <3>2. VoiceTypeOK'
      <4>1. sid' \in SessionIds
        BY <2>30, MaxSessionAssumption DEF EnterIdleClose, SessionIds
      <4> QED
        BY <4>1, <2>30 DEF EnterIdleClose
    <3>3. PartnersTypeOK'
      BY <2>30 DEF EnterIdleClose
    <3>4. WakeWordTypeOK'
      BY <2>30 DEF EnterIdleClose
    <3> QED
      BY <3>1, <3>2, <3>3, <3>4
  <2>31. CASE SetVoiceStateEnter
    BY <2>31 DEF SetVoiceStateEnter
  <2>32. CASE SetVoiceStateBody
    <3>1. ControlTypeOK'
      BY <2>32 DEF SetVoiceStateBody, EnableVoiceProcessing, SetRunning, SwitchedBits
    <3>2. VoiceTypeOK'
      BY <2>32 DEF SetVoiceStateBody, EnableVoiceProcessing, SetRunning, SwitchedBits
    <3>3. PartnersTypeOK'
      BY <2>32 DEF SetVoiceStateBody, EnableVoiceProcessing, SetRunning, SwitchedBits
    <3>4. WakeWordTypeOK'
      <4> DEFINE listening == target \in Listening
                 waking == target = "idle" /\ wakeReady /\ ~suspended
      <4>1. listening \in BOOLEAN /\ waking \in BOOLEAN
        OBVIOUS
      <4>2. SetRunning(waking) /\ EnableVoiceProcessing(listening)
        BY <2>32 DEF SetVoiceStateBody
      <4>3. /\ running' \in BOOLEAN /\ detFresh' \in BOOLEAN
            /\ voiceOut' \in BOOLEAN /\ pcm' \in BOOLEAN
            /\ outFresh' \in BOOLEAN
        BY <4>1, <4>2, SetRunningType, EnableVoiceType
      <4> QED
        BY <4>3, <2>32 DEF SetVoiceStateBody
    <3> QED
      BY <3>1, <3>2, <3>3, <3>4
  <2> QED
    BY <2>1, <2>2, <2>3, <2>4, <2>5, <2>6, <2>7, <2>8, <2>9, <2>10, <2>11, <2>12,
       <2>13, <2>14, <2>15, <2>16, <2>17, <2>18, <2>19, <2>20, <2>21, <2>22, <2>23,
       <2>24, <2>25, <2>26, <2>27, <2>28, <2>29, <2>30, <2>31, <2>32 DEF Control
<1>2. QueueTypeOK'
  <2> USE DEF TypeOK
  <2>1. CASE LoopTop \/ RtcSuspend \/ RtcDeinit \/ RtcDeinitDone
             \/ RtcDeinitRejected \/ RtcRollback \/ RtcInit \/ RtcInitFailed
             \/ RtcAcknowledge
    BY <2>1, QueueStep DEF QueueTypeOK, LoopTop, RtcSuspend, RtcDeinit,
       RtcDeinitDone, RtcDeinitRejected, RtcRollback, RtcInit, RtcInitFailed,
       RtcAcknowledge
  <2>2. CASE CheckOverflow
    BY <2>2, QueueStep DEF QueueTypeOK, CheckOverflow
  <2>3. CASE ResetQueue
    BY <2>3, QueueStep DEF QueueTypeOK, ResetQueue
  <2>4. CASE ReceiveIgnored \/ ReceiveWake \/ ReceiveTtsStart
             \/ ReceiveTtsStop \/ ReceiveEnd
    <3>1. queue # <<>> /\ queue' = Tail(queue) /\ overflow' = overflow
      BY <2>4 DEF ReceiveIgnored, ReceiveWake, ReceiveTtsStart,
                  ReceiveTtsStop, ReceiveEnd, Receive
    <3> QED
      BY <3>1, QueueStep DEF QueueTypeOK
  <2>5. CASE ReceiveTimeout \/ DrainDone \/ DrainGiveUp \/ OpenSession
             \/ AwaitBound \/ AwaitGiveUp \/ SendPreroll \/ StartListening
             \/ CheckSessionLost \/ ResumeListening \/ Watchdog
             \/ EnterIdleLock \/ EnterIdleGate \/ EnterIdleClose
             \/ SetVoiceStateEnter \/ SetVoiceStateBody
    <3>1. UNCHANGED queueVars
      BY <2>5 DEF ReceiveTimeout, DrainDone, DrainGiveUp, OpenSession,
                  AwaitBound, AwaitGiveUp, SendPreroll, StartListening,
                  CheckSessionLost, ResumeListening, Watchdog, EnterIdleLock,
                  EnterIdleGate, EnterIdleClose, SetVoiceStateEnter,
                  SetVoiceStateBody
    <3> QED
      BY <3>1, QueueStep DEF QueueTypeOK
  <2> QED
    BY <2>1, <2>2, <2>3, <2>4, <2>5 DEF Control
<1> QED
  BY <1>1, <1>2 DEF TypeOK

\* So does every step of the encoder task and of the capture task.
LEMMA EncoderStepType ==
    TypeOK /\ (Encoder \/ CaptureFeed \/ CaptureDone) => TypeOK'
<1> SUFFICES ASSUME TypeOK, Encoder \/ CaptureFeed \/ CaptureDone
             PROVE  TypeOK'
  OBVIOUS
<1> USE DEF TypeOK, ControlTypeOK, VoiceTypeOK, PartnersTypeOK,
            WakeWordTypeOK, EncoderUnchanged
<1>1. UNCHANGED queueVars
  BY DEF Encoder, EncoderRead, EncoderLock, EncoderSend, CaptureFeed,
         CaptureDone
<1>2. QueueTypeOK'
  BY <1>1, QueueStep DEF QueueTypeOK
<1>3. CASE EncoderRead
  <2>1. pcm' \in BOOLEAN /\ encPc' \in {"poll", "lock", "send"}
    BY <1>3 DEF EncoderRead, ReadPcm
  <2>2. UNCHANGED <<ctlVars, voiceVars, guardVars, rtcVars, cloudVars, afe,
                    running, voiceOut, detPc, detOn, detFresh, outFresh>>
    BY <1>3 DEF EncoderRead
  <2> QED
    BY <1>2, <2>1, <2>2
<1>4. CASE EncoderLock
  <2>1. encPc' \in {"poll", "send"} /\ encGuard' \in {"none", "encoder"}
    BY <1>4 DEF EncoderLock
  <2> QED
    BY <1>2, <1>4, <2>1 DEF EncoderLock
<1>5. CASE EncoderSend
  <2>1. /\ encGuard' \in {"none", "control", "encoder"}
        /\ encPc' \in {"poll", "lock", "send"}
    BY <1>5 DEF EncoderSend
  <2>2. UNCHANGED <<ctlVars, voiceVars, capGuard, rtcVars, cloudVars, wwVars>>
    BY <1>5 DEF EncoderSend
  <2> QED
    BY <1>2, <2>1, <2>2
<1>6. CASE CaptureFeed
  BY <1>2, <1>6 DEF CaptureFeed
<1>7. CASE CaptureDone
  BY <1>2, <1>7 DEF CaptureDone
<1> QED
  BY <1>3, <1>4, <1>5, <1>6, <1>7 DEF Encoder

\* So does every step of the detection task.
LEMMA DetectStepType == TypeOK /\ Detect => TypeOK'
<1> SUFFICES ASSUME TypeOK, Detect PROVE TypeOK'
  OBVIOUS
<1>1. CASE DetectStep
  <2>1. /\ UNCHANGED <<ctlVars, voiceVars, guardVars, queueVars, otherVars>>
        /\ DetectTop \/ DetectNothing \/ DetectFrame \/ DetectHit \/ DetectExit
    BY <1>1 DEF DetectStep
  <2>2. QueueTypeOK'
    BY <2>1, QueueStep DEF TypeOK, QueueTypeOK
  <2>3. WakeWordTypeOK'
    <3> USE DEF TypeOK, WakeWordTypeOK, DropCopies
    <3>1. CASE DetectTop
      BY <3>1 DEF DetectTop
    <3>2. CASE DetectNothing
      BY <3>2 DEF DetectNothing
    <3>3. CASE DetectFrame
      <4>1. pcm' \in BOOLEAN
        BY <3>3, Zenon DEF DetectFrame
      <4>2. detPc' \in {"top", "hit"}
        BY <3>3 DEF DetectFrame
      <4> QED
        BY <3>3, <4>1, <4>2 DEF DetectFrame
    <3>4. CASE DetectHit
      <4>1. running' \in BOOLEAN /\ detFresh' \in BOOLEAN
        BY <3>4, SetRunningType DEF DetectHit, WakeStop
      <4> QED
        BY <3>4, <4>1 DEF DetectHit
    <3>5. CASE DetectExit
      BY <3>5 DEF DetectExit
    <3> QED
      BY <2>1, <3>1, <3>2, <3>3, <3>4, <3>5
  <2> QED
    BY <2>1, <2>2, <2>3
       DEF TypeOK, ControlTypeOK, VoiceTypeOK, PartnersTypeOK
<1>2. CASE DetectCallback
  <2>1. QueueTypeOK'
    <3>1. "wake" \in EventKinds /\ 0 \in SessionIds
      BY MaxSessionAssumption DEF EventKinds, SessionIds
    <3> QED
      BY <1>2, <3>1, PostType DEF TypeOK, DetectCallback
  <2> QED
    BY <1>2, <2>1 DEF DetectCallback, TypeOK, ControlTypeOK, VoiceTypeOK,
                      PartnersTypeOK, WakeWordTypeOK
<1> QED
  BY <1>1, <1>2 DEF Detect

\* A message given to the voice task keeps the type of the queue.
LEMMA TextType ==
    ASSUME NEW kind \in EventKinds, NEW session \in SessionIds,
           QueueTypeOK, TextCallback(kind, session)
    PROVE  QueueTypeOK'
<1>1. CASE requested
  BY <1>1, QueueStep DEF TextCallback, QueueTypeOK
<1>2. CASE ~requested
  BY <1>2, PostType DEF TextCallback
<1> QED
  BY <1>1, <1>2

\* So does every step of the MQTT task.
LEMMA CloudStepType == TypeOK /\ Cloud => TypeOK'
<1> SUFFICES ASSUME TypeOK, Cloud PROVE TypeOK'
  OBVIOUS
<1>1. UNCHANGED <<ctlVars, voiceVars, guardVars, encVars, rtcVars, wwVars>>
  BY DEF Cloud, MqttSubscribed, MqttDisconnected, ServerHello, ServerText,
         ServerGoodbye, CloudUnchanged
<1>2. QueueTypeOK /\ QueueTypeOK'
  <2>1. CASE MqttSubscribed \/ MqttDisconnected \/ ServerHello
    BY <2>1, QueueStep DEF TypeOK, QueueTypeOK, MqttSubscribed,
                           MqttDisconnected, ServerHello
  <2>2. ASSUME NEW session \in SessionIds, NEW kind \in Kinds,
               ServerText(kind, session)
        PROVE  QueueTypeOK'
    <3>1. kind \in EventKinds
      BY KindsAssumption DEF EventKinds
    <3> QED
      BY <2>2, <3>1, TextType DEF TypeOK, ServerText
  <2>3. ASSUME NEW session \in SessionIds, ServerGoodbye(session)
        PROVE  QueueTypeOK'
    <3>1. "end" \in EventKinds
      BY DEF EventKinds
    <3> QED
      BY <2>3, <3>1, TextType DEF TypeOK, ServerGoodbye
  <2> QED
    BY <2>1, <2>2, <2>3 DEF Cloud, TypeOK
<1>3. /\ online' \in BOOLEAN /\ cloudReady' \in BOOLEAN
      /\ cloudId' \in SessionIds /\ hellos' \in 0..MaxHello
      /\ issued' \in SessionIds
  <2> USE MaxSessionAssumption, MaxHelloAssumption DEF TypeOK, PartnersTypeOK
  <2> HIDE DEF SessionIds
  <2>0. 0 \in SessionIds
    BY DEF SessionIds
  <2>1. CASE MqttSubscribed
    BY <2>1, SendHelloType DEF MqttSubscribed
  <2>2. CASE MqttDisconnected
    <3>1. hellos' \in 0..MaxHello
      BY <2>2 DEF MqttDisconnected
    <3>2. /\ online' = FALSE /\ cloudReady' = FALSE /\ cloudId' = 0
          /\ UNCHANGED issued
      BY <2>2 DEF MqttDisconnected
    <3>3. issued \in SessionIds
      OBVIOUS
    <3> QED
      BY <2>0, <3>1, <3>2, <3>3, Zenon
  <2>3. CASE ServerHello
    BY <2>3 DEF ServerHello, SessionIds
  <2>4. ASSUME NEW session \in SessionIds, NEW kind \in Kinds,
               ServerText(kind, session)
        PROVE  /\ online' \in BOOLEAN /\ cloudReady' \in BOOLEAN
               /\ cloudId' \in SessionIds /\ hellos' \in 0..MaxHello
               /\ issued' \in SessionIds
    BY <2>4 DEF ServerText
  <2>5. ASSUME NEW session \in SessionIds, ServerGoodbye(session)
        PROVE  /\ online' \in BOOLEAN /\ cloudReady' \in BOOLEAN
               /\ cloudId' \in SessionIds /\ hellos' \in 0..MaxHello
               /\ issued' \in SessionIds
    <3>1. /\ UNCHANGED <<online, issued>>
          /\ cloudReady' = FALSE /\ cloudId' = 0
          /\ SendHello
      BY <2>5 DEF ServerGoodbye, ReopenSession
    <3>2. hellos' \in 0..MaxHello
      BY <3>1, SendHelloType
    <3> QED
      BY <2>0, <3>1, <3>2
  <2> QED
    BY <2>1, <2>2, <2>3, <2>4, <2>5 DEF Cloud
<1> QED
  BY <1>1, <1>2, <1>3 DEF TypeOK, ControlTypeOK, VoiceTypeOK, PartnersTypeOK,
                          WakeWordTypeOK

\* So does every step of the WebRTC controller.
LEMMA RtcStepType == TypeOK /\ Rtc => TypeOK'
<1> SUFFICES ASSUME TypeOK, Rtc PROVE TypeOK'
  OBVIOUS
<1>1. UNCHANGED <<ctlVars, voiceVars, guardVars, queueVars, encVars, cloudVars,
                  wwVars>>
  BY DEF Rtc, RtcStart, RtcStarted, RtcStop, RtcStopped, RtcUnchanged
<1>2. QueueTypeOK'
  BY <1>1, QueueStep DEF TypeOK, QueueTypeOK
<1>3. /\ requested' \in BOOLEAN /\ pending' \in BOOLEAN /\ ack' \in BOOLEAN
      /\ rtcResult' \in {"ok", "error"} /\ rtcHolds' \in BOOLEAN
      /\ rtcPc' \in {"off", "starting", "on", "stopping"}
  <2> USE DEF TypeOK, PartnersTypeOK
  <2>1. CASE RtcStart
    BY <2>1 DEF RtcStart, RtcRequest
  <2>2. CASE RtcStarted
    <3>1. rtcHolds' \in BOOLEAN
      BY <2>2, Zenon DEF RtcStarted
    <3> QED
      BY <2>2, <3>1 DEF RtcStarted
  <2>3. CASE RtcStop
    BY <2>3 DEF RtcStop, RtcRequest
  <2>4. CASE RtcStopped
    BY <2>4 DEF RtcStopped
  <2> QED
    BY <2>1, <2>2, <2>3, <2>4 DEF Rtc
<1> QED
  BY <1>1, <1>2, <1>3 DEF TypeOK, ControlTypeOK, VoiceTypeOK, PartnersTypeOK,
                          WakeWordTypeOK

\* A step that changes nothing keeps the types.
LEMMA StutterType == TypeOK /\ UNCHANGED vars => TypeOK'
<1> SUFFICES ASSUME TypeOK, UNCHANGED vars PROVE TypeOK'
  OBVIOUS
<1>1. QueueTypeOK'
  BY QueueStep DEF TypeOK, QueueTypeOK
<1> QED
  BY <1>1 DEF TypeOK, ControlTypeOK, VoiceTypeOK, PartnersTypeOK,
              WakeWordTypeOK

\* Every step keeps the types.
LEMMA StepType == TypeOK /\ [Next]_vars => TypeOK'
BY ControlStepType, EncoderStepType, DetectStepType, CloudStepType,
   RtcStepType, StutterType DEF Next

\* Every variable of the voice tasks, of the engine and of the session record
\* keeps its type; in particular s_voice_events never grows beyond its depth.
THEOREM TypeCorrect == Spec => []TypeOK
<1>1. Init => TypeOK
  BY InitTypeOK
<1>2. TypeOK /\ [Next]_vars => TypeOK'
  BY StepType
<1> QED
  BY <1>1, <1>2, PTL DEF Spec

-----------------------------------------------------------------------------
(* The gates, the encoder and the AFE.                                     *)

\* Initially nothing is held, the AFE works and every gate is shut.
LEMMA InitGate == Init => GateInv
BY DEF Init, WakeWordInit, GateInv, ReturnPoints, GuardsHeld, EngineWorks,
       SuspensionPoints, ChannelBit, ListenAdmitted, SendGate, MicGate,
       InRoutine, InEnterIdle, InSetState, InWake

\* Every step of the control task keeps the gates.
LEMMA ControlStepGate == TypeOK /\ GateInv /\ Control => GateInv'
<1> SUFFICES ASSUME TypeOK, GateInv, Control PROVE GateInv'
  OBVIOUS
<1> USE DEF GateInv, ReturnPoints, GuardsHeld, EngineWorks, SuspensionPoints, ChannelBit,
            ListenAdmitted, SendGate, MicGate, InRoutine, InEnterIdle,
            InSetState, InWake, UplinkBits, Listening, TypeOK, ControlTypeOK,
            VoiceTypeOK, WakeWordTypeOK
<1>1. CASE LoopTop
  BY <1>1 DEF LoopTop, RtcBranch
<1>2. CASE RtcSuspend
  BY <1>2 DEF RtcSuspend
<1>3. CASE RtcDeinit
  BY <1>3 DEF RtcDeinit, EngineStopping
<1>4. CASE RtcDeinitDone
  BY <1>4 DEF RtcDeinitDone, EngineFree
<1>5. CASE RtcDeinitRejected
  BY <1>5 DEF RtcDeinitRejected
<1>6. CASE RtcRollback
  BY <1>6 DEF RtcRollback
<1>7. CASE RtcInit
  BY <1>7 DEF RtcInit, EngineInit
<1>8. CASE RtcInitFailed
  BY <1>8 DEF RtcInitFailed
<1>9. CASE RtcAcknowledge
  BY <1>9 DEF RtcAcknowledge
<1>10. CASE CheckOverflow
  BY <1>10 DEF CheckOverflow, AfterOverflow
<1>11. CASE ResetQueue
  BY <1>11 DEF ResetQueue
<1>12. CASE ReceiveTimeout
  BY <1>12 DEF ReceiveTimeout
<1>13. CASE ReceiveIgnored
  BY <1>13 DEF ReceiveIgnored
<1>14. CASE ReceiveWake
  BY <1>14 DEF ReceiveWake, Receive, Ignored
<1>15. CASE ReceiveTtsStart
  BY <1>15 DEF ReceiveTtsStart, Receive, Ignored
<1>16. CASE ReceiveTtsStop
  BY <1>16 DEF ReceiveTtsStop, Receive
<1>17. CASE ReceiveEnd
  BY <1>17 DEF ReceiveEnd, Receive
<1>18. CASE DrainDone
  BY <1>18 DEF DrainDone
<1>19. CASE DrainGiveUp
  BY <1>19 DEF DrainGiveUp
<1>20. CASE OpenSession
  BY <1>20 DEF OpenSession
<1>21. CASE AwaitBound
  BY <1>21 DEF AwaitBound
<1>22. CASE AwaitGiveUp
  BY <1>22 DEF AwaitGiveUp
<1>23. CASE SendPreroll
  BY <1>23 DEF SendPreroll
<1>24. CASE StartListening
  BY <1>24 DEF StartListening
<1>25. CASE CheckSessionLost
  <2>1. CASE SessionLost
    <3>1. /\ pc = "lost" /\ CallEnterWakeIdle("resume")
          /\ UNCHANGED <<voiceVars, guardVars, encVars, wwVars>>
      BY <1>25, <2>1 DEF CheckSessionLost
    <3> QED
      BY <3>1
  <2>2. CASE ~SessionLost
    BY <1>25, <2>2 DEF CheckSessionLost
  <2> QED
    BY <2>1, <2>2
<1>26. CASE ResumeListening
  BY <1>26 DEF ResumeListening, CanResumeListening
<1>27. CASE Watchdog
  BY <1>27 DEF Watchdog
<1>28. CASE EnterIdleLock
  BY <1>28 DEF EnterIdleLock
<1>29. CASE EnterIdleGate
  BY <1>29 DEF EnterIdleGate, EnableVoiceProcessing
<1>30. CASE EnterIdleClose
  BY <1>30 DEF EnterIdleClose
<1>31. CASE SetVoiceStateEnter
  <2>1. CASE target \in Listening /\ ("channel" \notin bits \/ suspended)
    <3>1. Goto(ret) /\ UNCHANGED guardVars
      BY <1>31, <2>1 DEF SetVoiceStateEnter
    <3>2. UNCHANGED <<voiceVars, queueVars, otherVars, wwVars>>
      BY <1>31 DEF SetVoiceStateEnter
    <3>3. ReturnPoints' /\ GuardsHeld' /\ EngineWorks'
      BY <1>31, <2>1, <3>1, <3>2 DEF SetVoiceStateEnter
    <3>4. SuspensionPoints' /\ ChannelBit'
      BY <1>31, <2>1, <3>1, <3>2 DEF SetVoiceStateEnter
    <3> QED
      BY <1>31, <2>1, <3>1, <3>2, <3>3, <3>4 DEF SetVoiceStateEnter
  <2>2. CASE ~(target \in Listening /\ ("channel" \notin bits \/ suspended))
    <3>1. /\ encGuard = "none" /\ encGuard' = "control"
          /\ Inside("setCap") /\ UNCHANGED capGuard
      BY <1>31, <2>2 DEF SetVoiceStateEnter
    <3>2. UNCHANGED <<voiceVars, queueVars, otherVars, wwVars>> /\ pc = "setEnc"
      BY <1>31 DEF SetVoiceStateEnter
    <3> QED
      BY <2>2, <3>1, <3>2
  <2> QED
    BY <2>1, <2>2
<1>32. CASE SetVoiceStateBody
  <2>1. /\ pc = "setCap" /\ capGuard = "none" /\ Goto(ret)
        /\ state' = target /\ encGuard' = "none"
        /\ UNCHANGED <<suspended, wakeReady, udpUp, capGuard, afe, detPc, encPc>>
    BY <1>32 DEF SetVoiceStateBody
  <2>2. ReturnPoints' /\ GuardsHeld' /\ EngineWorks' /\ SuspensionPoints'
    BY <2>1
  <2>3. /\ "uplink" \in bits' => target \in Listening
        /\ "channel" \in bits' <=> "channel" \in bits
    BY <1>32 DEF SetVoiceStateBody, SwitchedBits
  <2>4. target \in Listening => voiceOut' /\ ~running'
    BY <1>32 DEF SetVoiceStateBody, EnableVoiceProcessing, SetRunning
  <2>5. ChannelBit' /\ ListenAdmitted' /\ SendGate'
    BY <2>1, <2>3
  <2>6. MicGate'
    BY <2>1, <2>3, <2>4
  <2> QED
    BY <2>2, <2>5, <2>6
<1> QED
  BY <1>1, <1>2, <1>3, <1>4, <1>5, <1>6, <1>7, <1>8, <1>9, <1>10, <1>11, <1>12,
     <1>13, <1>14, <1>15, <1>16, <1>17, <1>18, <1>19, <1>20, <1>21, <1>22, <1>23,
     <1>24, <1>25, <1>26, <1>27, <1>28, <1>29, <1>30, <1>31, <1>32 DEF Control

\* So does every step of the encoder task and of the capture task.
LEMMA EncoderStepGate ==
    GateInv /\ (Encoder \/ CaptureFeed \/ CaptureDone) => GateInv'
<1> SUFFICES ASSUME GateInv, Encoder \/ CaptureFeed \/ CaptureDone
             PROVE  GateInv'
  OBVIOUS
<1> USE DEF GateInv, ReturnPoints, GuardsHeld, EngineWorks, SuspensionPoints,
            ChannelBit, ListenAdmitted, SendGate, MicGate, InRoutine,
            InEnterIdle, InSetState, InWake, EncoderUnchanged
<1>1. CASE EncoderRead
  BY <1>1 DEF EncoderRead, ReadPcm
<1>2. CASE EncoderLock
  BY <1>2 DEF EncoderLock, MayUpload
<1>3. CASE EncoderSend
  BY <1>3 DEF EncoderSend
<1>4. CASE CaptureFeed
  BY <1>4 DEF CaptureFeed
<1>5. CASE CaptureDone
  BY <1>5 DEF CaptureDone
<1> QED
  BY <1>1, <1>2, <1>3, <1>4, <1>5 DEF Encoder

\* The detection task can stop WakeNet but opens no gate, and it leaves only
\* when the AFE is being taken down.
LEMMA DetectStepGate == GateInv /\ Detect => GateInv'
<1> SUFFICES ASSUME GateInv, Detect PROVE GateInv'
  OBVIOUS
<1> USE DEF GateInv, ReturnPoints, GuardsHeld, EngineWorks, SuspensionPoints,
            ChannelBit, ListenAdmitted, SendGate, MicGate, InRoutine,
            InEnterIdle, InSetState, InWake
<1>1. CASE DetectStep /\ DetectTop
  BY <1>1 DEF DetectStep, DetectTop
<1>2. CASE DetectStep /\ DetectNothing
  BY <1>2 DEF DetectStep, DetectNothing
<1>3. CASE DetectStep /\ DetectFrame
  BY <1>3 DEF DetectStep, DetectFrame
<1>4. CASE DetectStep /\ DetectHit
  BY <1>4 DEF DetectStep, DetectHit, WakeStop, SetRunning
<1>5. CASE DetectStep /\ DetectExit
  BY <1>5 DEF DetectStep, DetectExit
<1>6. CASE DetectCallback
  BY <1>6 DEF DetectCallback
<1> QED
  BY <1>1, <1>2, <1>3, <1>4, <1>5, <1>6 DEF Detect, DetectStep

\* The invariant speaks of no variable of the MQTT task, of the WebRTC
\* controller or of the event queue.
LEMMA OtherStepGate == GateInv /\ (Cloud \/ Rtc \/ UNCHANGED vars) => GateInv'
<1> SUFFICES ASSUME GateInv, Cloud \/ Rtc \/ UNCHANGED vars PROVE GateInv'
  OBVIOUS
<1>1. UNCHANGED <<ctlVars, voiceVars, guardVars, encVars, wwVars>>
  <2>1. CASE Cloud
    BY <2>1 DEF Cloud, MqttSubscribed, MqttDisconnected, ServerHello,
                ServerText, ServerGoodbye, CloudUnchanged
  <2>2. CASE Rtc
    BY <2>2 DEF Rtc, RtcStart, RtcStarted, RtcStop, RtcStopped, RtcUnchanged
  <2> QED
    BY <2>1, <2>2
<1> QED
  BY <1>1 DEF GateInv, ReturnPoints, GuardsHeld, EngineWorks,
              SuspensionPoints, ChannelBit, ListenAdmitted, SendGate, MicGate,
              InRoutine, InEnterIdle, InSetState, InWake

\* GateInv holds in every state: it is inductive, given the types.
THEOREM GateCorrect == Spec => []GateInv
<1>1. Init => GateInv
  BY InitGate
<1>2. TypeOK /\ GateInv /\ [Next]_vars => GateInv'
  BY ControlStepGate, EncoderStepGate, DetectStepGate, OtherStepGate DEF Next
<1> QED
  BY <1>1, <1>2, TypeCorrect, PTL DEF Spec

\* The uplink gate is open only in a listening state, with the channel, the
\* UDP transport and the PCM output on and WakeNet off.
THEOREM MicGateCorrect == Spec => []MicGate
<1>1. GateInv => MicGate
  BY DEF GateInv
<1> QED
  BY <1>1, GateCorrect, PTL

\* The encoder task sends a microphone packet only while the robot listens
\* and the UDP channel is open: no state switch overtakes a packet.
THEOREM SendHasChannelCorrect == Spec => []SendHasChannel
<1>1. GateInv => SendHasChannel
  BY DEF GateInv, GuardsHeld, SendGate, MicGate, SendHasChannel, UplinkBits
<1> QED
  BY <1>1, GateCorrect, PTL

\* The AFE is never freed under the capture task or the detection task.
THEOREM EngineNotFreedInUseCorrect == Spec => []EngineNotFreedInUse
<1>1. GateInv => EngineNotFreedInUse
  BY DEF GateInv, EngineWorks, EngineNotFreedInUse
<1> QED
  BY <1>1, GateCorrect, PTL

-----------------------------------------------------------------------------
(* The wake word is never lost for good.                                   *)

\* A wake event is waiting in the queue.
WakeQueued == \E i \in 1..Len(queue) : queue[i].kind = "wake"

\* From here the control task arms the engine or connects.
ArmingPcs == {"reset", "idleEnc", "idleCap", "idleClose", "setEnc", "setCap"}

\* An event that is taken from the queue leaves those behind it.
LEMMA TailKeepsWake ==
    ASSUME QueueTypeOK, queue # <<>>, queue' = Tail(queue),
           Head(queue).kind # "wake", WakeQueued
    PROVE  WakeQueued'
<1>1. PICK i \in 1..Len(queue) : queue[i].kind = "wake"
  BY DEF WakeQueued
<1>2. i # 1 /\ i \in Nat /\ Len(queue) \in Nat
  BY <1>1 DEF QueueTypeOK
<1>3. i - 1 \in 1..Len(queue') /\ queue'[i - 1] = queue[i]
  BY <1>1, <1>2 DEF QueueTypeOK
<1> QED
  BY <1>1, <1>3 DEF WakeQueued

\* A step that touches none of these keeps the wake word, if the control task
\* does not turn away from arming the engine.
LEMMA SameWake ==
    ASSUME NeverDeaf, UNCHANGED <<voiceVars, queueVars, wwVars>>,
           pc \in ArmingPcs => pc' \in ArmingPcs
    PROVE  NeverDeaf'
BY DEF NeverDeaf, ArmingPcs

\* Every step of the control task keeps the wake word: it ignores a wake event
\* only where the robot is not at rest, and a lost one ends in the idle state.
LEMMA ControlStepWake ==
    TypeOK /\ GateInv /\ WakeInv /\ Control => WakeInv'
<1> SUFFICES ASSUME TypeOK, GateInv, WakeInv, Control PROVE WakeInv'
  OBVIOUS
<1> USE DEF WakeInv, ListenAwake, InSetState, Listening
<1>1. CASE LoopTop \/ RtcAcknowledge
  BY <1>1, SameWake DEF LoopTop, RtcBranch, RtcAcknowledge, ArmingPcs
<1>2. CASE \/ RtcSuspend \/ RtcDeinit \/ RtcDeinitDone \/ RtcDeinitRejected
           \/ RtcInitFailed
  <2>1. pc \in {"suspend", "deinit", "deinitWait", "init"}
    BY <1>2 DEF RtcSuspend, RtcDeinit, RtcDeinitDone, RtcDeinitRejected, RtcInitFailed
  <2>2. suspended'
    BY <1>2, <2>1 DEF RtcSuspend, RtcDeinit, RtcDeinitDone, RtcDeinitRejected,
                      RtcInitFailed, GateInv, EngineWorks, SuspensionPoints
  <2>3. ListenAwake'
    BY <1>2 DEF RtcSuspend, RtcDeinit, RtcDeinitDone, RtcDeinitRejected, RtcInitFailed
  <2> QED
    BY <2>2, <2>3 DEF NeverDeaf
<1>3. CASE RtcRollback \/ RtcInit
  BY <1>3 DEF RtcRollback, RtcInit, NeverDeaf
<1>4. CASE CheckOverflow
  BY <1>4 DEF CheckOverflow, AfterOverflow, NeverDeaf
<1>5. CASE ResetQueue
  BY <1>5 DEF ResetQueue, NeverDeaf
<1>6. CASE ReceiveTimeout
  BY <1>6, SameWake DEF ReceiveTimeout, ArmingPcs
<1>7. CASE ReceiveIgnored
  <2>1. /\ queue # <<>> /\ queue' = Tail(queue) /\ UNCHANGED <<overflow, voiceVars, wwVars>>
        /\ pc = "receive" /\ pc' \in {"top", "lost"} /\ Ignored(Head(queue))
    BY <1>7 DEF ReceiveIgnored
  <2>2. CASE Head(queue).kind # "wake"
    <3>1. WakeQueued => WakeQueued'
      BY <2>1, <2>2, TailKeepsWake DEF TypeOK
    <3> QED
      BY <2>1, <3>1 DEF NeverDeaf, WakeQueued
  <2>3. CASE Head(queue).kind = "wake"
    BY <2>1, <2>3 DEF Ignored, NeverDeaf
  <2> QED
    BY <2>2, <2>3
<1>8. CASE ReceiveWake \/ ReceiveTtsStart \/ ReceiveEnd
  BY <1>8 DEF ReceiveWake, ReceiveTtsStart, ReceiveEnd, Receive, NeverDeaf
<1>9. CASE ReceiveTtsStop
  <2>1. state = "speaking" /\ state' = state /\ pc' = "lost"
    <3>1. Receive("ttsStop") /\ state' = state /\ pc' = "lost"
      BY <1>9 DEF ReceiveTtsStop
    <3> QED
      BY <3>1 DEF Receive, Ignored
  <2> QED
    BY <2>1 DEF NeverDeaf
<1>10. CASE DrainDone \/ DrainGiveUp \/ AwaitGiveUp \/ SendPreroll
  BY <1>10, SameWake DEF DrainDone, DrainGiveUp, AwaitGiveUp, SendPreroll, ArmingPcs
<1>11. CASE OpenSession \/ AwaitBound \/ StartListening
  <2>1. state = "connecting" /\ state' = state
    BY <1>11 DEF OpenSession, AwaitBound, StartListening, GateInv, SuspensionPoints, InWake
  <2> QED
    BY <2>1 DEF NeverDeaf
<1>12. CASE CheckSessionLost \/ Watchdog \/ EnterIdleLock
  <2>1. /\ UNCHANGED <<voiceVars, queueVars, wwVars>>
        /\ pc \in ArmingPcs => pc' \in ArmingPcs
    BY <1>12 DEF CheckSessionLost, Watchdog, EnterIdleLock, ArmingPcs
  <2>2. ListenAwake'
    BY <1>12 DEF CheckSessionLost, Watchdog, EnterIdleLock
  <2> QED
    BY <2>1, <2>2, SameWake
<1>13. CASE ResumeListening
  <2>1. /\ UNCHANGED <<voiceVars, queueVars, wwVars>> /\ pc = "resume"
        /\ pc' # "watchdog" /\ target' \in Listening => state = "speaking"
        /\ pc' \in {"watchdog", "setEnc", "idleEnc"}
    BY <1>13 DEF ResumeListening, CanResumeListening
  <2>2. NeverDeaf'
    BY <2>1, SameWake DEF ArmingPcs
  <2>3. ListenAwake'
    BY <2>1
  <2> QED
    BY <2>2, <2>3
<1>14. CASE EnterIdleGate \/ EnterIdleClose
  <2>1. /\ pc' \in {"idleClose", "setEnc"} /\ target' = target
        /\ pc \in {"idleCap", "idleClose"}
    BY <1>14 DEF EnterIdleGate, EnterIdleClose
  <2>2. target = "idle"
    BY <2>1 DEF GateInv, SuspensionPoints, InEnterIdle
  <2> QED
    BY <2>1, <2>2 DEF NeverDeaf
<1>15. CASE SetVoiceStateEnter
  <2>1. pc = "setEnc" /\ UNCHANGED <<voiceVars, queueVars, wwVars>>
    BY <1>15 DEF SetVoiceStateEnter
  <2>2. CASE target \in Listening /\ ("channel" \notin bits \/ suspended)
    <3>1. pc' = ret /\ state' # "idle"
      BY <1>15, <2>1, <2>2 DEF SetVoiceStateEnter
    <3>2. pc' \notin {"setEnc", "setCap"}
      BY <2>1, <3>1 DEF GateInv, ReturnPoints, InRoutine
    <3> QED
      BY <3>1, <3>2 DEF NeverDeaf
  <2>3. CASE ~(target \in Listening /\ ("channel" \notin bits \/ suspended))
    <3>1. pc' = "setCap" /\ target' = target
      BY <1>15, <2>3 DEF SetVoiceStateEnter
    <3> QED
      BY <2>1, <3>1 DEF NeverDeaf
  <2> QED
    BY <2>2, <2>3
<1>16. CASE SetVoiceStateBody
  <2>1. /\ pc = "setCap" /\ pc' = ret /\ state' = target
        /\ UNCHANGED <<suspended, wakeReady, afe>>
        /\ SetRunning(target = "idle" /\ wakeReady /\ ~suspended)
    BY <1>16 DEF SetVoiceStateBody
  <2>2. pc' \notin {"setEnc", "setCap"}
    BY <2>1 DEF GateInv, ReturnPoints, InRoutine
  <2>3. state' = "idle" /\ wakeReady /\ ~suspended => running'
    BY <2>1 DEF SetRunning, GateInv, EngineWorks
  <2> QED
    BY <2>1, <2>2, <2>3 DEF NeverDeaf
<1> QED
  BY <1>1, <1>2, <1>3, <1>4, <1>5, <1>6, <1>7, <1>8, <1>9, <1>10, <1>11,
     <1>12, <1>13, <1>14, <1>15, <1>16 DEF Control

\* A wake event that is posted is in the queue or raises the overflow flag.
LEMMA PostKeepsWake ==
    ASSUME NEW kind, NEW session, QueueTypeOK, Post(kind, session)
    PROVE  /\ WakeQueued => WakeQueued'
           /\ overflow => overflow'
           /\ kind = "wake" => WakeQueued' \/ overflow'
<1>1. CASE Len(queue) < QueueLen
  <2> DEFINE event == [kind |-> kind, session |-> session]
  <2>1. queue' = Append(queue, event) /\ overflow' = overflow
    BY <1>1 DEF Post
  <2>2. Len(queue) \in Nat /\ Len(queue') = Len(queue) + 1
    BY <2>1 DEF QueueTypeOK
  <2>3. \A i \in 1..Len(queue) : queue'[i] = queue[i]
    BY <2>1 DEF QueueTypeOK
  <2>4. queue'[Len(queue) + 1] = event
    BY <2>1 DEF QueueTypeOK
  <2>5. WakeQueued => WakeQueued'
    <3> SUFFICES ASSUME NEW i \in 1..Len(queue), queue[i].kind = "wake"
                 PROVE  WakeQueued'
      BY DEF WakeQueued
    <3>1. i \in 1..Len(queue') /\ queue'[i].kind = "wake"
      BY <2>2, <2>3
    <3> QED
      BY <3>1 DEF WakeQueued
  <2>6. kind = "wake" => WakeQueued'
    <3>1. Len(queue) + 1 \in 1..Len(queue') /\ event.kind = kind
      BY <2>2
    <3> QED
      BY <2>4, <3>1 DEF WakeQueued
  <2> QED
    BY <2>1, <2>5, <2>6
<1>2. CASE ~(Len(queue) < QueueLen)
  BY <1>2 DEF Post, WakeQueued
<1> QED
  BY <1>1, <1>2

\* The detection task disarms the engine only on its way to posting a wake
\* event, which then waits in the queue or has raised the overflow flag.
LEMMA DetectStepWake == TypeOK /\ WakeInv /\ Detect => WakeInv'
<1> SUFFICES ASSUME TypeOK, WakeInv, Detect PROVE WakeInv'
  OBVIOUS
<1>1. UNCHANGED <<ctlVars, voiceVars>>
  BY DEF Detect, DetectStep, DetectCallback
<1>2. ListenAwake'
  BY <1>1 DEF WakeInv, ListenAwake, InSetState
<1>3. CASE DetectStep
  <2>1. UNCHANGED queueVars
    BY <1>3 DEF DetectStep
  <2>2. (detPc # "callback" /\ running' = running) \/ detPc' = "callback"
    BY <1>3 DEF DetectStep, DetectTop, DetectNothing, DetectFrame, DetectHit,
                DetectExit
  <2> QED
    BY <1>1, <1>2, <2>1, <2>2 DEF WakeInv, NeverDeaf
<1>4. CASE DetectCallback
  <2>1. WakeQueued' \/ overflow'
    BY <1>4, PostKeepsWake DEF DetectCallback, TypeOK
  <2> QED
    BY <1>2, <2>1 DEF WakeInv, NeverDeaf, WakeQueued
<1> QED
  BY <1>3, <1>4 DEF Detect

\* The other tasks take nothing from the queue.
LEMMA OtherStepWake ==
    /\ TypeOK /\ WakeInv
    /\ Encoder \/ CaptureFeed \/ CaptureDone \/ Cloud \/ Rtc \/ UNCHANGED vars
    => WakeInv'
<1> SUFFICES ASSUME TypeOK, WakeInv,
                    \/ Encoder \/ CaptureFeed \/ CaptureDone \/ Cloud \/ Rtc
                    \/ UNCHANGED vars
             PROVE  WakeInv'
  OBVIOUS
<1>1. UNCHANGED <<ctlVars, voiceVars, running, detPc>>
  <2>1. CASE Encoder \/ CaptureFeed \/ CaptureDone
    BY <2>1 DEF Encoder, EncoderRead, EncoderLock, EncoderSend, EncoderUnchanged,
                CaptureFeed, CaptureDone
  <2>2. CASE Cloud \/ Rtc \/ UNCHANGED vars
    BY <2>2 DEF Cloud, MqttSubscribed, MqttDisconnected, ServerHello,
                ServerText, ServerGoodbye, CloudUnchanged,
                Rtc, RtcStart, RtcStarted, RtcStop, RtcStopped, RtcUnchanged
  <2> QED
    BY <2>1, <2>2
<1>2. \/ UNCHANGED queueVars
      \/ \E kind \in EventKinds, session \in SessionIds : Post(kind, session)
  <2>1. CASE Cloud
    <3>1. CASE MqttSubscribed \/ MqttDisconnected \/ ServerHello
      BY <3>1 DEF MqttSubscribed, MqttDisconnected, ServerHello
    <3>2. CASE \E session \in SessionIds, kind \in Kinds : ServerText(kind, session)
      BY <3>2, KindsAssumption DEF ServerText, TextCallback, EventKinds
    <3>3. CASE \E session \in SessionIds : ServerGoodbye(session)
      BY <3>3 DEF ServerGoodbye, TextCallback, EventKinds
    <3> QED
      BY <2>1, <3>1, <3>2, <3>3 DEF Cloud
  <2>2. CASE \/ Encoder \/ CaptureFeed \/ CaptureDone \/ Rtc \/ UNCHANGED vars
    BY <2>2 DEF Encoder, EncoderRead, EncoderLock, EncoderSend, EncoderUnchanged,
                CaptureFeed, CaptureDone,
                Rtc, RtcStart, RtcStarted, RtcStop, RtcStopped, RtcUnchanged
  <2> QED
    BY <2>1, <2>2
<1>3. (WakeQueued => WakeQueued') /\ (overflow => overflow')
  BY <1>2, PostKeepsWake DEF TypeOK, WakeQueued
<1> QED
  BY <1>1, <1>3 DEF WakeInv, ListenAwake, InSetState, NeverDeaf, WakeQueued

\* A robot at rest with a working engine is armed, or about to be: no wake
\* word, however it meets a state switch, leaves it deaf.
THEOREM NeverDeafCorrect == Spec => []NeverDeaf
<1>1. Init => WakeInv
  BY DEF Init, WakeWordInit, WakeInv, ListenAwake, InSetState, NeverDeaf
<1>2. TypeOK /\ GateInv /\ WakeInv /\ [Next]_vars => WakeInv'
  BY ControlStepWake, DetectStepWake, OtherStepWake DEF Next
<1>3. WakeInv => NeverDeaf
  BY DEF WakeInv
<1> QED
  BY <1>1, <1>2, <1>3, TypeCorrect, GateCorrect, PTL DEF Spec

-----------------------------------------------------------------------------
(* The line and the loan.                                                  *)

\* Initially the robot rests without a line, and nothing is asked for.
LEMMA InitLoan == Init => LineInv /\ LoanInv
BY DEF Init, WakeWordInit, LineInv, LineClosed, LineOpen, StateAdmitted, NoLine,
       LoanInv, SuspendedAtRest, OneRequest, ResultTrue, HoldsSuspended, OnHolds,
       Handling, TakingDown, InRoutine, InEnterIdle, InSetState

\* Every step of the control task keeps session, line and state together.
LEMMA ControlStepLine ==
    TypeOK /\ GateInv /\ LineInv /\ LoanInv /\ Control => LineInv'
<1> SUFFICES ASSUME TypeOK, GateInv, LineInv, LoanInv, Control PROVE LineInv'
  OBVIOUS
<1> USE DEF LineInv, LineClosed, LineOpen, StateAdmitted, NoLine, GoingToRest,
            GateInv, ReturnPoints, SuspensionPoints, EngineWorks, ChannelBit, ListenAdmitted,
            LoanInv, SuspendedAtRest, TakingDown, InRoutine, InEnterIdle, InSetState, InWake,
            Listening, TypeOK, ControlTypeOK, VoiceTypeOK
<1>1. CASE LoopTop
  BY <1>1 DEF LoopTop, RtcBranch
<1>2. CASE RtcSuspend
  BY <1>2 DEF RtcSuspend
<1>3. CASE RtcDeinit
  BY <1>3 DEF RtcDeinit, EngineStopping
<1>4. CASE RtcDeinitDone
  BY <1>4 DEF RtcDeinitDone, EngineFree
<1>5. CASE RtcDeinitRejected
  BY <1>5 DEF RtcDeinitRejected
<1>6. CASE RtcRollback
  BY <1>6 DEF RtcRollback
<1>7. CASE RtcInit
  BY <1>7 DEF RtcInit, EngineInit
<1>8. CASE RtcInitFailed
  BY <1>8 DEF RtcInitFailed
<1>9. CASE RtcAcknowledge
  BY <1>9 DEF RtcAcknowledge
<1>10. CASE CheckOverflow
  BY <1>10 DEF CheckOverflow, AfterOverflow
<1>11. CASE ResetQueue
  BY <1>11 DEF ResetQueue
<1>12. CASE ReceiveTimeout
  BY <1>12 DEF ReceiveTimeout
<1>13. CASE ReceiveIgnored
  BY <1>13 DEF ReceiveIgnored
<1>14. CASE ReceiveWake
  BY <1>14 DEF ReceiveWake, Receive, Ignored
<1>15. CASE ReceiveTtsStart
  BY <1>15 DEF ReceiveTtsStart, Receive, Ignored, ForThisSession
<1>16. CASE ReceiveTtsStop
  BY <1>16 DEF ReceiveTtsStop, Receive, Ignored
<1>17. CASE ReceiveEnd
  BY <1>17 DEF ReceiveEnd, Receive, Ignored
<1>18. CASE DrainDone
  BY <1>18 DEF DrainDone
<1>19. CASE DrainGiveUp
  BY <1>19 DEF DrainGiveUp
<1>20. CASE OpenSession
  BY <1>20 DEF OpenSession
<1>21. CASE AwaitBound
  BY <1>21 DEF AwaitBound
<1>22. CASE AwaitGiveUp
  BY <1>22 DEF AwaitGiveUp
<1>23. CASE SendPreroll
  BY <1>23 DEF SendPreroll
<1>24. CASE StartListening
  BY <1>24 DEF StartListening
<1>25. CASE CheckSessionLost
  BY <1>25 DEF CheckSessionLost
<1>26. CASE ResumeListening
  BY <1>26 DEF ResumeListening, CanResumeListening
<1>27. CASE Watchdog
  BY <1>27 DEF Watchdog
<1>28. CASE EnterIdleLock
  BY <1>28 DEF EnterIdleLock
<1>29. CASE EnterIdleGate
  BY <1>29 DEF EnterIdleGate, EnableVoiceProcessing
<1>30. CASE EnterIdleClose
  BY <1>30 DEF EnterIdleClose
<1>31. CASE SetVoiceStateEnter
  BY <1>31 DEF SetVoiceStateEnter
<1>32. CASE SetVoiceStateBody
  <2>1. /\ pc = "setCap" /\ Goto(ret) /\ state' = target
        /\ UNCHANGED <<sid, udpUp, suspended>>
    BY <1>32 DEF SetVoiceStateBody
  <2>2. "channel" \in bits' <=> "channel" \in bits
    BY <1>32 DEF SetVoiceStateBody, SwitchedBits
  <2>3. pc' \notin {"idleClose", "setEnc", "setCap"}
    BY <2>1
  <2>4. LineClosed'
    BY <2>1, <2>2, <2>3
  <2>5. LineOpen'
    <3>1. target \notin {"idle", "connecting"} => "channel" \in bits
      BY <2>1 DEF VoiceStates
    <3> QED
      BY <2>1, <2>2, <2>3, <3>1
  <2>6. StateAdmitted'
    BY <2>1, <2>3
  <2> QED
    BY <2>4, <2>5, <2>6
<1> QED
  BY <1>1, <1>2, <1>3, <1>4, <1>5, <1>6, <1>7, <1>8, <1>9, <1>10, <1>11,
     <1>12, <1>13, <1>14, <1>15, <1>16, <1>17, <1>18, <1>19, <1>20, <1>21,
     <1>22, <1>23, <1>24, <1>25, <1>26, <1>27, <1>28, <1>29, <1>30, <1>31,
     <1>32 DEF Control

\* Every step of the control task works on one request, and answers it truly.
LEMMA ControlStepLoan ==
    TypeOK /\ GateInv /\ LineInv /\ LoanInv /\ Control => LoanInv'
<1> SUFFICES ASSUME TypeOK, GateInv, LineInv, LoanInv, Control PROVE LoanInv'
  OBVIOUS
<1> USE DEF LineInv, StateAdmitted, GateInv, ReturnPoints, SuspensionPoints, EngineWorks,
            ListenAdmitted, LoanInv, SuspendedAtRest, OneRequest, ResultTrue,
            HoldsSuspended, OnHolds,
            Handling, TakingDown, InRoutine, InEnterIdle, InSetState, InWake,
            Listening, TypeOK, ControlTypeOK, VoiceTypeOK, PartnersTypeOK
<1>1. CASE LoopTop
  BY <1>1 DEF LoopTop, RtcBranch
<1>2. CASE RtcSuspend
  BY <1>2 DEF RtcSuspend
<1>3. CASE RtcDeinit
  BY <1>3 DEF RtcDeinit, EngineStopping
<1>4. CASE RtcDeinitDone
  BY <1>4 DEF RtcDeinitDone, EngineFree
<1>5. CASE RtcDeinitRejected
  BY <1>5 DEF RtcDeinitRejected
<1>6. CASE RtcRollback
  BY <1>6 DEF RtcRollback
<1>7. CASE RtcInit
  BY <1>7 DEF RtcInit, EngineInit
<1>8. CASE RtcInitFailed
  BY <1>8 DEF RtcInitFailed
<1>9. CASE RtcAcknowledge
  BY <1>9 DEF RtcAcknowledge
<1>10. CASE CheckOverflow
  BY <1>10 DEF CheckOverflow, AfterOverflow
<1>11. CASE ResetQueue
  BY <1>11 DEF ResetQueue
<1>12. CASE ReceiveTimeout
  BY <1>12 DEF ReceiveTimeout
<1>13. CASE ReceiveIgnored
  BY <1>13 DEF ReceiveIgnored
<1>14. CASE ReceiveWake
  BY <1>14 DEF ReceiveWake, Receive, Ignored
<1>15. CASE ReceiveTtsStart
  BY <1>15 DEF ReceiveTtsStart, Receive, Ignored, ForThisSession
<1>16. CASE ReceiveTtsStop
  BY <1>16 DEF ReceiveTtsStop, Receive, Ignored
<1>17. CASE ReceiveEnd
  BY <1>17 DEF ReceiveEnd, Receive, Ignored
<1>18. CASE DrainDone
  BY <1>18 DEF DrainDone
<1>19. CASE DrainGiveUp
  BY <1>19 DEF DrainGiveUp
<1>20. CASE OpenSession
  BY <1>20 DEF OpenSession
<1>21. CASE AwaitBound
  BY <1>21 DEF AwaitBound
<1>22. CASE AwaitGiveUp
  BY <1>22 DEF AwaitGiveUp
<1>23. CASE SendPreroll
  BY <1>23 DEF SendPreroll
<1>24. CASE StartListening
  BY <1>24 DEF StartListening
<1>25. CASE CheckSessionLost
  BY <1>25 DEF CheckSessionLost
<1>26. CASE ResumeListening
  BY <1>26 DEF ResumeListening, CanResumeListening
<1>27. CASE Watchdog
  BY <1>27 DEF Watchdog
<1>28. CASE EnterIdleLock
  BY <1>28 DEF EnterIdleLock
<1>29. CASE EnterIdleGate
  BY <1>29 DEF EnterIdleGate, EnableVoiceProcessing
<1>30. CASE EnterIdleClose
  <2>1. /\ pc = "idleClose" /\ pc' = "setEnc" /\ UNCHANGED <<ret, target>>
        /\ UNCHANGED <<state, suspended, wakeReady, bits, rtcVars, wwVars>>
    BY <1>30 DEF EnterIdleClose
  <2>2. TakingDown' = TakingDown /\ Handling' = Handling
    BY <2>1
  <2>3. SuspendedAtRest'
    BY <2>1, <2>2
  <2>4. OneRequest'
    BY <2>1, <2>2
  <2>5. ResultTrue'
    BY <2>1, <2>2
  <2>6. HoldsSuspended' /\ OnHolds'
    BY <2>1
  <2> QED
    BY <2>3, <2>4, <2>5, <2>6
<1>31. CASE SetVoiceStateEnter
  <2>1. CASE target \in Listening /\ ("channel" \notin bits \/ suspended)
    <3>1. Goto(ret) /\ pc = "setEnc" /\ UNCHANGED <<voiceVars, rtcVars, wwVars>>
      BY <1>31, <2>1 DEF SetVoiceStateEnter
    <3>2. ~TakingDown /\ ~TakingDown'
      BY <2>1, <3>1
    <3>3. ~Handling /\ ~Handling'
      BY <2>1, <3>1
    <3>4. pc' \notin {"deinit", "deinitWait", "rollback", "init", "ack", "suspend"}
      BY <3>1, <3>3
    <3> QED
      BY <3>1, <3>2, <3>3, <3>4
  <2>2. CASE ~(target \in Listening /\ ("channel" \notin bits \/ suspended))
    <3>1. Inside("setCap") /\ pc = "setEnc" /\ UNCHANGED <<voiceVars, rtcVars, wwVars>>
      BY <1>31, <2>2 DEF SetVoiceStateEnter
    <3> QED
      BY <3>1
  <2> QED
    BY <2>1, <2>2
<1>32. CASE SetVoiceStateBody
  <2>1. /\ pc = "setCap" /\ Goto(ret) /\ state' = target
        /\ UNCHANGED <<suspended, wakeReady, afe, rtcVars>>
    BY <1>32 DEF SetVoiceStateBody
  <2>2. suspended => ("wake" \notin bits')
    BY <1>32 DEF SetVoiceStateBody, SwitchedBits
  <2>3. ~TakingDown' /\ pc' = ret
    BY <2>1
  <2>4. pc' \in {"deinit", "ack"} <=> Handling
    BY <2>1, <2>3
  <2>5. SuspendedAtRest'
    <3>1. CASE ret = "deinit"
      <4>1. target = "idle" /\ pc' = "deinit"
        BY <2>1, <3>1
      <4> QED
        BY <2>1, <2>2, <4>1
    <3>2. CASE ret # "deinit" /\ suspended
      <4>1. ~TakingDown /\ pc = "setCap"
        BY <2>1, <3>2
      <4>2. state = "idle" /\ "wake" \notin bits /\ ~wakeReady /\ afe = "down"
        BY <3>2, <4>1
      <4>3. target = "idle"
        BY <2>1, <3>2, <4>2 DEF VoiceStates
      <4> QED
        BY <2>1, <2>2, <4>2, <4>3
    <3> QED
      BY <2>1, <3>1, <3>2
  <2>6. OneRequest'
    BY <2>1, <2>3, <2>4
  <2>7. ResultTrue' /\ HoldsSuspended' /\ OnHolds'
    BY <2>1, <2>3, <2>4
  <2> QED
    BY <2>5, <2>6, <2>7
<1> QED
  BY <1>1, <1>2, <1>3, <1>4, <1>5, <1>6, <1>7, <1>8, <1>9, <1>10, <1>11,
     <1>12, <1>13, <1>14, <1>15, <1>16, <1>17, <1>18, <1>19, <1>20, <1>21,
     <1>22, <1>23, <1>24, <1>25, <1>26, <1>27, <1>28, <1>29, <1>30, <1>31,
     <1>32 DEF Control

\* The other tasks touch nothing these invariants speak of but the PCM stream,
\* the wake word flag of the AFE and the life of the detection task.
LEMMA TaskStepLoan ==
    LineInv /\ LoanInv /\ (Encoder \/ CaptureFeed \/ CaptureDone \/ Detect \/ Cloud)
        => LineInv' /\ LoanInv'
<1> SUFFICES ASSUME LineInv, LoanInv,
                    Encoder \/ CaptureFeed \/ CaptureDone \/ Detect \/ Cloud
             PROVE  LineInv' /\ LoanInv'
  OBVIOUS
<1>1. UNCHANGED <<ctlVars, voiceVars, rtcVars, afe>>
  <2>1. CASE Encoder
    BY <2>1 DEF Encoder, EncoderRead, EncoderLock, EncoderSend, EncoderUnchanged
  <2>2. CASE CaptureFeed \/ CaptureDone
    BY <2>2 DEF CaptureFeed, CaptureDone
  <2>3. CASE Detect
    BY <2>3 DEF Detect, DetectStep, DetectCallback, DetectTop, DetectNothing,
                DetectFrame, DetectHit, WakeStop, SetRunning, DetectExit
  <2>4. CASE Cloud
    BY <2>4 DEF Cloud, MqttSubscribed, MqttDisconnected, ServerHello,
                ServerText, ServerGoodbye, CloudUnchanged
  <2> QED
    BY <2>1, <2>2, <2>3, <2>4
<1> QED
  BY <1>1 DEF LineInv, LineClosed, LineOpen, StateAdmitted, NoLine, GoingToRest,
              LoanInv, SuspendedAtRest, OneRequest, ResultTrue, HoldsSuspended,
              OnHolds, Handling, TakingDown, InRoutine, InEnterIdle, InSetState

\* The controller asks only when nothing is pending, and believes the answer.
LEMMA RtcStepLoan ==
    TypeOK /\ LineInv /\ LoanInv /\ (Rtc \/ UNCHANGED vars) => LineInv' /\ LoanInv'
<1> SUFFICES ASSUME TypeOK, LineInv, LoanInv, Rtc \/ UNCHANGED vars
             PROVE  LineInv' /\ LoanInv'
  OBVIOUS
<1>1. UNCHANGED <<ctlVars, voiceVars, afe>>
  BY DEF Rtc, RtcStart, RtcStarted, RtcStop, RtcStopped, RtcUnchanged
<1>2. LineInv' /\ SuspendedAtRest' /\ Handling' = Handling /\ TakingDown' = TakingDown
  BY <1>1 DEF LineInv, LineClosed, LineOpen, StateAdmitted, NoLine, GoingToRest,
              LoanInv, SuspendedAtRest, Handling, TakingDown,
              InRoutine, InEnterIdle, InSetState
<1>3. OneRequest' /\ ResultTrue' /\ HoldsSuspended' /\ OnHolds'
  <2> USE DEF LoanInv, OneRequest, ResultTrue, HoldsSuspended, OnHolds,
              TypeOK, PartnersTypeOK
  <2> USE DEF Handling, TakingDown, InRoutine, InEnterIdle, InSetState
  <2>1. CASE RtcStart
    BY <1>1, <2>1 DEF RtcStart, RtcRequest, RtcUnchanged
  <2>2. CASE RtcStarted
    BY <1>1, <2>2 DEF RtcStarted, RtcUnchanged
  <2>3. CASE RtcStop
    BY <1>1, <2>3 DEF RtcStop, RtcRequest, RtcUnchanged
  <2>4. CASE RtcStopped
    BY <1>1, <2>4 DEF RtcStopped, RtcUnchanged
  <2>5. CASE UNCHANGED vars
    BY <2>5
  <2> QED
    BY <2>1, <2>2, <2>3, <2>4, <2>5 DEF Rtc
<1> QED
  BY <1>2, <1>3 DEF LoanInv

\* The session and its line belong together at every step, and a request of the
\* WebRTC controller is worked on once and answered with what was done: both
\* invariants are inductive, given the types and the gates.
THEOREM LoanCorrect == Spec => [](LineInv /\ LoanInv)
<1>1. Init => LineInv /\ LoanInv
  BY InitLoan
<1>2. TypeOK /\ GateInv /\ LineInv /\ LoanInv /\ [Next]_vars
          => LineInv' /\ LoanInv'
  BY ControlStepLine, ControlStepLoan, TaskStepLoan, RtcStepLoan DEF Next
<1> QED
  BY <1>1, <1>2, TypeCorrect, GateCorrect, PTL DEF Spec

\* While the WebRTC controller holds the audio, local voice is at rest.
LEMMA AtRestWhileLent ==
    GateInv /\ LineInv /\ LoanInv /\ rtcPc = "on" =>
        /\ suspended /\ ~wakeReady /\ afe = "down"
        /\ state = "idle" /\ NoLine /\ "wake" \notin bits
        /\ ~Handling
<1> SUFFICES ASSUME GateInv, LineInv, LoanInv, rtcPc = "on"
             PROVE  /\ suspended /\ ~wakeReady /\ afe = "down"
                    /\ state = "idle" /\ NoLine /\ "wake" \notin bits
                    /\ ~Handling
  OBVIOUS
<1>1. suspended /\ ~Handling
  BY DEF LoanInv, HoldsSuspended, OnHolds, OneRequest
<1>2. ~TakingDown /\ pc \notin {"deinit", "deinitWait", "rollback"}
  BY <1>1 DEF Handling, TakingDown
<1>3. ~wakeReady /\ afe = "down" /\ state = "idle" /\ "wake" \notin bits
  BY <1>1, <1>2 DEF LoanInv, SuspendedAtRest
<1> QED
  BY <1>1, <1>3 DEF LineInv, LineClosed

\* From the acknowledgement of xiaozhi_audio_set_rtc_suspended until WebRTC asks
\* for the audio back, no AFE, no task in it, no channel and no packet is left.
THEOREM ReleasedForRtcCorrect == Spec => []ReleasedForRtc
<1>1. GateInv /\ LineInv /\ LoanInv => ReleasedForRtc
  <2> SUFFICES ASSUME GateInv, LineInv, LoanInv, rtcPc = "on"
               PROVE  ReleasedForRtc
    BY DEF ReleasedForRtc
  <2>1. /\ suspended /\ ~wakeReady /\ afe = "down"
        /\ state = "idle" /\ NoLine /\ "wake" \notin bits
    BY AtRestWhileLent
  <2>2. detPc = "gone" /\ capGuard # "capture"
    BY <2>1 DEF GateInv, EngineWorks
  <2>3. encPc # "send" /\ "uplink" \notin bits
    BY <2>1 DEF GateInv, SendGate, MicGate, UplinkBits, NoLine
  <2> QED
    BY <2>1, <2>2, <2>3 DEF ReleasedForRtc, NoLine
<1> QED
  BY <1>1, GateCorrect, LoanCorrect, PTL

-----------------------------------------------------------------------------
(* The refinement of VoiceSession.                                         *)

\* A step that leaves these alone does not move the conversation.
LEMMA SamePhase ==
    /\ UNCHANGED <<state, sid, udpUp, rtcPc, encPc>>
    /\ "channel" \in bits' <=> "channel" \in bits
    /\ state = "idle" \/ (GoingToRest' <=> GoingToRest)
    => UNCHANGED Session!sessionVars
BY DEF Session!sessionVars, Phase

\* Initially the robot rests, without a session and without a line.
LEMMA InitSession == Init => Session!Init
BY DEF Init, Session!Init, Phase

\* Every step of the control task is a step of the session, or none at all.
LEMMA ControlStepSession ==
    TypeOK /\ GateInv /\ LineInv /\ LoanInv /\ Control
        => [Session!Next]_(Session!sessionVars)
<1> SUFFICES ASSUME TypeOK, GateInv, LineInv, LoanInv, Control
             PROVE  [Session!Next]_(Session!sessionVars)
  OBVIOUS
<1> USE DEF GoingToRest
<1>1. CASE \/ LoopTop \/ RtcSuspend \/ RtcDeinit \/ RtcDeinitDone
           \/ RtcDeinitRejected \/ RtcInitFailed \/ RtcAcknowledge
  BY <1>1, SamePhase DEF LoopTop, RtcBranch, RtcSuspend, RtcDeinit,
     RtcDeinitDone, RtcDeinitRejected, RtcInitFailed, RtcAcknowledge
<1>2. CASE RtcRollback \/ RtcInit
  <2>1. pc \in {"rollback", "init"} /\ UNCHANGED <<state, sid, udpUp, bits, rtcPc, encPc>>
    BY <1>2 DEF RtcRollback, RtcInit
  <2>2. suspended /\ ~TakingDown
    BY <2>1 DEF GateInv, EngineWorks, SuspensionPoints, TakingDown,
                InRoutine, InEnterIdle, InSetState
  <2>3. state = "idle"
    BY <2>2 DEF LoanInv, SuspendedAtRest
  <2> QED
    BY <2>1, <2>3, SamePhase
<1>3. CASE \/ CheckOverflow \/ ResetQueue \/ ReceiveTimeout \/ ReceiveIgnored
           \/ ReceiveWake \/ ReceiveTtsStart \/ ReceiveTtsStop \/ ReceiveEnd
  <2>1. pc \in {"overflow", "reset", "receive"} /\ UNCHANGED <<state, sid, udpUp, rtcPc, encPc>>
    BY <1>3 DEF CheckOverflow, ResetQueue, ReceiveTimeout, ReceiveIgnored,
       ReceiveWake, ReceiveTtsStart, ReceiveTtsStop, ReceiveEnd, Receive
  <2>2. "channel" \in bits' <=> "channel" \in bits
    BY <1>3 DEF CheckOverflow, ResetQueue, ReceiveTimeout, ReceiveIgnored,
       ReceiveWake, ReceiveTtsStart, ReceiveTtsStop, ReceiveEnd, Receive
  <2>3. ~GoingToRest /\ ~GoingToRest'
    BY <1>3, <2>1 DEF CheckOverflow, AfterOverflow, ResetQueue, ReceiveTimeout,
       ReceiveIgnored, ReceiveWake, ReceiveTtsStart, ReceiveTtsStop, ReceiveEnd
  <2> QED
    BY <2>1, <2>2, <2>3, SamePhase
<1>4. CASE DrainDone \/ DrainGiveUp \/ AwaitGiveUp \/ SendPreroll \/ StartListening
  BY <1>4, SamePhase DEF DrainDone, DrainGiveUp, AwaitGiveUp, SendPreroll,
     StartListening
<1>5. CASE OpenSession
  <2>1. NoLine
    BY <1>5 DEF OpenSession, LineInv, LineClosed
  <2>2. UNCHANGED <<state, sid, udpUp, rtcPc, encPc>> /\ "channel" \notin bits'
    BY <1>5, <2>1 DEF OpenSession, NoLine, TypeOK, VoiceTypeOK
  <2>3. ~GoingToRest /\ ~GoingToRest'
    BY <1>5 DEF OpenSession
  <2> QED
    BY <2>1, <2>2, <2>3, SamePhase DEF NoLine
<1>6. CASE AwaitBound
  <2>1. pc = "await" /\ pc' = "preroll" /\ UNCHANGED <<state, suspended, rtcPc, encPc>>
    BY <1>6 DEF AwaitBound
  <2>2. state = "connecting" /\ ~suspended /\ NoLine
    BY <2>1 DEF GateInv, SuspensionPoints, InWake, LineInv, LineClosed
  <2>3. rtcPc # "on"
    BY <2>2, AtRestWhileLent
  <2>4. Phase = "opening"
    BY <2>1, <2>2, <2>3 DEF Phase, NoLine
  <2>5. "channel" \in bits' /\ udpUp' = TRUE /\ sid' \in SessionIds
    BY <1>6 DEF AwaitBound, TypeOK, PartnersTypeOK
  <2>6. Phase' = "open"
    BY <2>1, <2>2, <2>3, <2>5 DEF Phase
  <2> QED
    BY <2>1, <2>2, <2>4, <2>5, <2>6 DEF NoLine, Session!Next, Session!Connect
<1>7. CASE CheckSessionLost \/ ResumeListening \/ Watchdog \/ EnterIdleLock
  <2>1. UNCHANGED <<state, sid, udpUp, bits, rtcPc, encPc>>
    BY <1>7 DEF CheckSessionLost, ResumeListening, Watchdog, EnterIdleLock
  <2>2. ~GoingToRest /\ ~GoingToRest'
    BY <1>7 DEF CheckSessionLost, ResumeListening, Watchdog, EnterIdleLock
  <2> QED
    BY <2>1, <2>2, SamePhase
<1>8. CASE EnterIdleGate
  <2>1. /\ pc = "idleCap" /\ pc' = "idleClose" /\ target' = target
        /\ "channel" \notin bits' /\ UNCHANGED <<state, sid, udpUp, rtcPc, encPc>>
    BY <1>8 DEF EnterIdleGate, TypeOK, VoiceTypeOK
  <2>2. GoingToRest' /\ ~GoingToRest
    BY <2>1 DEF GateInv, SuspensionPoints, InEnterIdle
  <2>3. CASE state = "idle"
    BY <2>1, <2>3, SamePhase DEF LineInv, LineClosed, NoLine
  <2>4. CASE state # "idle"
    <3>1. rtcPc # "on"
      BY <2>4, AtRestWhileLent
    <3>2. Phase \in {"opening", "open"}
      BY <2>2, <2>4, <3>1, <2>1 DEF Phase, LineInv, LineOpen
    <3>3. Phase' = "closing"
      BY <2>1, <2>2, <2>4, <3>1 DEF Phase
    <3>4. encPc # "send"
      BY <2>1 DEF GateInv, GuardsHeld
    <3> QED
      BY <2>1, <3>2, <3>3, <3>4 DEF Session!Next, Session!HangUp
  <2> QED
    BY <2>3, <2>4
<1>9. CASE EnterIdleClose
  <2>1. /\ pc = "idleClose" /\ pc' = "setEnc" /\ target' = target
        /\ sid' = 0 /\ udpUp' = FALSE /\ UNCHANGED <<state, bits, rtcPc, encPc>>
    BY <1>9 DEF EnterIdleClose
  <2>2. GoingToRest' /\ GoingToRest
    BY <2>1 DEF GateInv, SuspensionPoints, InEnterIdle
  <2>3. CASE state = "idle"
    <3>1. sid = 0 /\ udpUp = FALSE
      BY <2>3 DEF LineInv, LineClosed, NoLine, TypeOK, VoiceTypeOK
    <3> QED
      BY <2>1, <2>2, <2>3, <3>1, SamePhase
  <2>4. CASE state # "idle"
    <3>1. rtcPc # "on"
      BY <2>4, AtRestWhileLent
    <3>2. "channel" \notin bits
      BY <2>1 DEF GateInv, ChannelBit
    <3>3. Phase = "closing" /\ Phase' = "closing"
      BY <2>1, <2>2, <2>4, <3>1, <3>2 DEF Phase
    <3> QED
      BY <2>1, <3>3 DEF Session!Next, Session!Forget
  <2> QED
    BY <2>3, <2>4
<1>10. CASE SetVoiceStateEnter
  <2>1. UNCHANGED <<state, sid, udpUp, bits, rtcPc, encPc>>
    BY <1>10 DEF SetVoiceStateEnter
  <2>2. GoingToRest' <=> GoingToRest
    <3>1. CASE target \in Listening /\ ("channel" \notin bits \/ suspended)
      <4>1. pc = "setEnc" /\ pc' = ret
        BY <1>10, <3>1 DEF SetVoiceStateEnter
      <4> QED
        BY <3>1, <4>1 DEF Listening, GateInv, ReturnPoints, InRoutine, InSetState
    <3>2. CASE ~(target \in Listening /\ ("channel" \notin bits \/ suspended))
      <4>1. pc = "setEnc" /\ pc' = "setCap" /\ target' = target
        BY <1>10, <3>2 DEF SetVoiceStateEnter
      <4> QED
        BY <4>1
    <3> QED
      BY <3>1, <3>2
  <2> QED
    BY <2>1, <2>2, SamePhase
<1>11. CASE SetVoiceStateBody
  <2>1. /\ pc = "setCap" /\ pc' = ret /\ state' = target
        /\ UNCHANGED <<sid, udpUp, suspended, rtcPc, encPc>>
    BY <1>11 DEF SetVoiceStateBody
  <2>2. "channel" \in bits' <=> "channel" \in bits
    BY <1>11 DEF SetVoiceStateBody, SwitchedBits
  <2>3. ~GoingToRest'
    BY <2>1 DEF GateInv, ReturnPoints, InRoutine, InSetState
  <2>4. CASE target = "idle"
    <3>1. NoLine
      BY <2>1, <2>4 DEF LineInv, LineClosed, InSetState
    <3>2. CASE state = "idle"
      BY <2>1, <2>2, <2>4, <3>2, SamePhase
    <3>3. CASE state # "idle"
      <4>1. rtcPc # "on"
        BY <3>3, AtRestWhileLent
      <4>2. Phase = "closing" /\ Phase' = "rest"
        BY <2>1, <2>4, <3>1, <3>3, <4>1 DEF Phase, NoLine
      <4> QED
        BY <2>1, <3>1, <4>2 DEF NoLine, Session!Next, Session!Rest
    <3> QED
      BY <3>2, <3>3
  <2>5. CASE target = "connecting"
    <3>1. state = "idle" /\ ~suspended
      BY <2>1, <2>5 DEF LineInv, StateAdmitted, InSetState, InRoutine,
                        GateInv, SuspensionPoints
    <3>2. NoLine /\ rtcPc # "on"
      BY <3>1, AtRestWhileLent DEF LineInv, LineClosed
    <3>3. Phase = "rest" /\ Phase' = "opening"
      BY <2>1, <2>2, <2>3, <2>5, <3>1, <3>2 DEF Phase, NoLine
    <3> QED
      BY <2>1, <3>3 DEF Session!Next, Session!WakeUp
  <2>6. CASE target \notin {"idle", "connecting"}
    <3>1. "channel" \in bits /\ ~suspended
      BY <2>1, <2>6 DEF LineInv, StateAdmitted, InSetState, GateInv,
            ListenAdmitted, Listening, TypeOK, ControlTypeOK, VoiceStates
    <3>2. rtcPc # "on" /\ state # "idle"
      BY <3>1, AtRestWhileLent DEF LineInv, LineClosed, NoLine
    <3>3. Phase = "open" /\ Phase' = "open"
      BY <2>1, <2>2, <2>6, <3>1, <3>2 DEF Phase
    <3> QED
      BY <2>1, <3>3 DEF Session!sessionVars
  <2> QED
    BY <2>4, <2>5, <2>6
<1> QED
  BY <1>1, <1>2, <1>3, <1>4, <1>5, <1>6, <1>7, <1>8, <1>9, <1>10, <1>11 DEF Control

\* The encoder task sends, and has sent; the other tasks move nothing.
LEMMA TaskStepSession ==
    /\ GateInv /\ LineInv /\ LoanInv
    /\ Encoder \/ CaptureFeed \/ CaptureDone \/ Detect \/ Cloud \/ UNCHANGED vars
    => [Session!Next]_(Session!sessionVars)
<1> SUFFICES ASSUME GateInv, LineInv, LoanInv,
                    \/ Encoder \/ CaptureFeed \/ CaptureDone \/ Detect \/ Cloud
                    \/ UNCHANGED vars
             PROVE  [Session!Next]_(Session!sessionVars)
  OBVIOUS
<1> USE DEF GoingToRest
<1>1. CASE EncoderRead
  <2>1. /\ UNCHANGED <<ctlVars, voiceVars, rtcVars>>
        /\ encPc = "poll" /\ encPc' = "lock"
    BY <1>1 DEF EncoderRead, EncoderUnchanged
  <2> QED
    BY <2>1 DEF Session!sessionVars, Phase
<1>2. CASE EncoderLock
  <2>1. /\ UNCHANGED <<ctlVars, voiceVars, rtcVars>>
        /\ encPc = "lock"
    BY <1>2 DEF EncoderLock, EncoderUnchanged
  <2>2. Phase' = Phase
    BY <2>1 DEF Phase
  <2>3. CASE MayUpload
    <3>1. encPc' = "send" /\ "channel" \in bits /\ ~suspended
      BY <1>2, <2>3 DEF EncoderLock, MayUpload, UplinkBits
    <3>2. rtcPc # "on" /\ state # "idle"
      BY <3>1, AtRestWhileLent DEF LineInv, LineClosed, NoLine
    <3>3. Phase = "open"
      BY <3>1, <3>2 DEF Phase
    <3> QED
      BY <2>1, <2>2, <3>1, <3>3 DEF Session!Next, Session!Send
  <2>4. CASE ~MayUpload
    <3>1. encPc' = "poll"
      BY <1>2, <2>4 DEF EncoderLock
    <3> QED
      BY <2>1, <2>2, <3>1 DEF Session!sessionVars
  <2> QED
    BY <2>3, <2>4
<1>3. CASE EncoderSend
  <2>1. /\ UNCHANGED <<ctlVars, voiceVars, rtcVars>>
        /\ encPc = "send" /\ encPc' = "poll"
    BY <1>3 DEF EncoderSend, EncoderUnchanged
  <2>2. Phase' = Phase
    BY <2>1 DEF Phase
  <2> QED
    BY <2>1, <2>2 DEF Session!Next, Session!Sent
<1>4. CASE CaptureFeed \/ CaptureDone \/ Detect \/ Cloud \/ UNCHANGED vars
  <2>1. UNCHANGED <<ctlVars, voiceVars, rtcVars, encVars>>
    <3>1. CASE CaptureFeed \/ CaptureDone
      BY <3>1 DEF CaptureFeed, CaptureDone
    <3>2. CASE Detect
      BY <3>2 DEF Detect, DetectStep, DetectCallback
    <3>3. CASE Cloud
      BY <3>3 DEF Cloud, MqttSubscribed, MqttDisconnected, ServerHello,
                  ServerText, ServerGoodbye, CloudUnchanged
    <3> QED
      BY <1>4, <3>1, <3>2, <3>3
  <2> QED
    BY <2>1, SamePhase
<1> QED
  BY <1>1, <1>2, <1>3, <1>4 DEF Encoder

\* The audio is lent from rest and taken back to rest.
LEMMA RtcStepSession ==
    GateInv /\ LineInv /\ LoanInv /\ Rtc => [Session!Next]_(Session!sessionVars)
<1> SUFFICES ASSUME GateInv, LineInv, LoanInv, Rtc
             PROVE  [Session!Next]_(Session!sessionVars)
  OBVIOUS
<1> USE DEF GoingToRest
<1>1. UNCHANGED <<ctlVars, voiceVars, encVars>>
  BY DEF Rtc, RtcStart, RtcStarted, RtcStop, RtcStopped, RtcUnchanged
<1>2. CASE rtcPc # "on" /\ rtcPc' # "on"
  BY <1>1, <1>2 DEF Phase, Session!sessionVars
<1>3. CASE rtcPc = "on"
  <2>1. rtcPc' = "stopping"
    BY <1>3 DEF Rtc, RtcStart, RtcStarted, RtcStop, RtcStopped
  <2>2. state = "idle"
    BY <1>3, AtRestWhileLent
  <2>3. Phase = "lent" /\ Phase' = "rest"
    BY <1>1, <1>3, <2>1, <2>2 DEF Phase
  <2> QED
    BY <1>1, <2>3 DEF Session!Next, Session!TakeBack
<1>4. CASE rtcPc # "on" /\ rtcPc' = "on"
  <2>1. rtcPc = "starting" /\ ack /\ (rtcHolds \/ rtcResult = "ok")
    BY <1>4 DEF Rtc, RtcStart, RtcStarted, RtcStop, RtcStopped
  <2>2. suspended /\ ~Handling
    BY <2>1 DEF LoanInv, ResultTrue, HoldsSuspended, OneRequest
  <2>3. state = "idle"
    BY <2>2 DEF LoanInv, SuspendedAtRest, Handling, TakingDown
  <2>4. Phase = "rest" /\ Phase' = "lent"
    BY <1>1, <1>4, <2>3 DEF Phase
  <2> QED
    BY <1>1, <2>4 DEF Session!Next, Session!Lend
<1> QED
  BY <1>2, <1>3, <1>4

\* The tasks of xiaozhi_audio.c have one conversation at a time, open it once and
\* close it once, and lend the audio from rest only: they implement VoiceSession.
THEOREM ImplementsSessionCorrect == Spec => ImplementsSession
<1>1. TypeOK /\ GateInv /\ LineInv /\ LoanInv /\ [Next]_vars
          => [Session!Next]_(Session!sessionVars)
  BY ControlStepSession, TaskStepSession, RtcStepSession DEF Next
<1> QED
  BY <1>1, InitSession, TypeCorrect, GateCorrect, LoanCorrect, PTL
     DEF Spec, ImplementsSession, Session!Spec

\* What the abstract specification promises, it keeps: its own invariant is
\* preserved by each of its actions.
LEMMA QuietCorrect == Session!Spec => []Session!Quiet
<1>1. Session!Init => Session!QuietInv
  BY DEF Session!Init, Session!QuietInv
<1>2. Session!QuietInv /\ [Session!Next]_(Session!sessionVars) => Session!QuietInv'
  BY DEF Session!QuietInv, Session!Next, Session!sessionVars, Session!WakeUp,
         Session!Connect, Session!Send, Session!Sent, Session!HangUp,
         Session!Forget, Session!Rest, Session!Lend, Session!TakeBack
<1>3. Session!QuietInv => Session!Quiet
  BY DEF Session!QuietInv, Session!Quiet
<1> QED
  BY <1>1, <1>2, <1>3, PTL DEF Session!Spec

\* At rest, and while WebRTC has the audio, there is no session, no line and no
\* packet: what VoiceSession promises holds of its implementation.
THEOREM QuietAtRest == Spec => []Session!Quiet
BY ImplementsSessionCorrect, QuietCorrect, PTL DEF ImplementsSession
=============================================================================
