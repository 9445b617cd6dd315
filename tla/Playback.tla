------------------------------- MODULE Playback -------------------------------
(***************************************************************************)
(* The way of a reply from the network to the loudspeaker, and back to the   *)
(* microphone (components/xiaozhi_audio).  The receive task of the channel   *)
(* puts packets in the playback queue, the decode task turns them into PCM   *)
(* in one of three buffers, the output task writes the buffers to the codec  *)
(* and gives them back.  The voice control task opens and closes sessions    *)
(* and reopens the microphone when a reply has been played.                 *)
(*                                                                         *)
(* Computation takes no time: the clock advances, by the 60 ms of a frame,   *)
(* only while every task waits.  A write to the codec takes at most a frame  *)
(* (the DMA descriptors hold one), one that fails takes no time.            *)
(*                                                                         *)
(* The decode task shares a core with the voice control task and goes before *)
(* it, so what it does between two waits is one step; the output task and    *)
(* the receive task run on the other core, in steps of their own, also      *)
(* between one look of the control task and the next.                       *)
(***************************************************************************)
EXTENDS UdpChannel

CONSTANTS PoolSize,   \* XIAOZHI_PCM_POOL_SIZE, the buffers for PCM
          QueueDepth, \* XIAOZHI_PLAYBACK_QUEUE_DEPTH
          ReadyDepth, \* XIAOZHI_PCM_QUEUE_DEPTH
          Margin,     \* the 120 ms of resume_listening_after_playback, in frames
          Patience    \* how many frames a bounded wait lasts

ASSUME PlaybackAssumption ==
    /\ PoolSize \in Nat /\ QueueDepth \in Nat \ {0} /\ ReadyDepth \in Nat
    /\ Margin \in Nat /\ Patience \in Nat

\* There are three buffers, two places for decoded sound, and 120 ms are two
\* frames of 60 ms: a write that has just ended lasted a frame at most.
ASSUME MarginAssumption == PoolSize > 0 /\ ReadyDepth > 0 /\ Margin >= 2

VARIABLES
    ctl,       \* where the voice control task is
    ret,       \* and what it does after cloud_udp_stop
    waited,    \* how many frames it has waited there, up to Patience
    state,     \* s_voice_state
    sid,       \* s_session_id: the session the control task believes in, 0 for ""
    session,   \* the session of the last hello
    channel,   \* the bit CHANNEL_ACTIVE
    uplink,    \* the bit UPLINK_ENABLED
    finished,  \* s_tts_finished
    enc,       \* where the encoder task is
    guard,     \* who holds encoder_guard
    queue,     \* s_playback_queue: sound, which is <<session, packet>>
    dec,       \* where the decode task is; decode_in_flight when not "idle"
    decSound,  \* what it decodes
    free,      \* s_pcm_free_queue: how many buffers are in it
    readyQ,    \* s_pcm_ready_queue: what is in its buffers
    out,       \* where the output task is; output_in_flight when "write"
    outSound,  \* what is in the buffer it has taken, << >> for none
    spoken,    \* the last sound that reached the codec
    sinceRx,   \* frames since last_rx_us, up to Margin
    sinceOut,  \* frames since last_output_us
    sinceStop, \* frames since s_tts_stop_us
    writing,   \* frames the write under way has lasted
    silence,   \* frames since the end of the last write, up to 1
    late,      \* history: the sound received since the control task has looked
               \* at the times to see whether the reply is over
    raced      \* history: a write has ended between that look and its next

controlVars == <<ctl, ret, waited, state, sid, session, channel, uplink, finished>>
encoderVars == <<enc, guard>>
decodeVars == <<dec, decSound>>
outputVars == <<out, outSound, spoken>>
pipeVars == <<queue, decodeVars, free, readyQ, outputVars>>
lookVars == <<late, raced>>
clockVars == <<sinceRx, sinceOut, sinceStop, writing, silence, lookVars>>
vars == <<udpVars, controlVars, encoderVars, pipeVars, clockVars>>

Sounds == Sessions \X Packets
Ages == 0 .. Margin

\* Where the control task is in resume_listening_after_playback.
Looking == {"tasks", "packets", "pcm", "publish", "reopen"}

TypeOK ==
    /\ UdpTypeOK
    /\ ctl \in {"loop", "drain", "bind", "hello", "listen", "close", "leave", "idle",
                "revoke", "shut", "wait", "forget"} \cup Looking
    /\ ret \in {"bind", "leave"}
    /\ waited \in 0 .. Patience
    /\ state \in {"idle", "connecting", "listening", "speaking"}
    /\ sid \in Sessions \cup {0} /\ session \in Sessions \cup {0}
    /\ channel \in BOOLEAN /\ uplink \in BOOLEAN /\ finished \in BOOLEAN
    /\ enc \in {"idle", "guarded", "sending"}
    /\ guard \in {"free", "encoder", "control"}
    /\ queue \in Seq(Sounds) /\ Len(queue) <= QueueDepth
    /\ dec \in {"idle", "buffer", "put"}
    /\ decSound \in Sounds \cup {<< >>}
    /\ free \in 0 .. PoolSize
    /\ readyQ \in Seq(Sounds) /\ Len(readyQ) <= ReadyDepth
    /\ out \in {"idle", "taken", "write"}
    /\ outSound \in Sounds \cup {<< >>}
    /\ spoken \in Sounds \cup {<< >>}
    /\ sinceRx \in Ages /\ sinceOut \in Ages /\ sinceStop \in Ages
    /\ writing \in 0 .. 1 /\ silence \in 0 .. 1
    /\ late \subseteq Sounds /\ raced \in BOOLEAN

Init ==
    /\ UdpInit
    /\ ctl = "loop" /\ ret = "leave" /\ waited = 0
    /\ state = "idle" /\ sid = 0 /\ session = 0
    /\ channel = FALSE /\ uplink = FALSE /\ finished = FALSE
    /\ enc = "idle" /\ guard = "free"
    /\ queue = << >> /\ free = PoolSize /\ readyQ = << >>
    /\ dec = "idle" /\ decSound = << >>
    /\ out = "idle" /\ outSound = << >> /\ spoken = << >>
    /\ sinceRx = Margin /\ sinceOut = Margin /\ sinceStop = Margin
    /\ writing = 0 /\ silence = 1
    /\ late = {} /\ raced = FALSE

\* playback_pipeline_empty, as the control task sees it: what the output task
\* has taken and not yet announced is not seen.
AtRest == dec = "idle" /\ out # "write"
PipelineEmpty == AtRest /\ queue = << >> /\ readyQ = << >>

-----------------------------------------------------------------------------
(* The voice control task: opening a session.                               *)

Goto(place) == ctl' = place /\ waited' = 0

\* process_detected_wake_word: what is left of the last session is played, or
\* thrown away, first.
Wake ==
    /\ ctl = "loop" /\ state = "idle"
    /\ session < MaxSession
    /\ guard = "free"
    /\ state' = "connecting"
    /\ Goto("drain")
    /\ UNCHANGED <<udpVars, ret, sid, session, channel, uplink, finished,
                   encoderVars, pipeVars, clockVars>>

\* Mutant: the new session does not wait for the pipeline.
DrainWait_DoesNotWait ==
    /\ ctl = "drain"
    /\ ret' = "bind" /\ Goto("revoke")
    /\ UNCHANGED <<udpVars, state, sid, session, channel, uplink, finished,
                   encoderVars, pipeVars, clockVars>>

\* After two seconds, or for a call of the app, the wake-up is given up.  The
\* channel is off, so nothing new comes into the hands of the decoder or of the
\* codec, and the looks at the tasks and at the queues are as good as one.
DrainWait ==
    /\ ctl = "drain"
    /\ \/ PipelineEmpty /\ ret' = "bind" /\ Goto("revoke")
       \/ ~PipelineEmpty /\ Goto("close") /\ UNCHANGED ret
    /\ UNCHANGED <<udpVars, state, sid, session, channel, uplink, finished,
                   encoderVars, pipeVars, clockVars>>

\* v3_open_session_for_wake: the channel is off, and a hello is published.
Bind ==
    /\ ctl = "bind"
    /\ channel' = FALSE
    /\ \/ Goto("close") /\ UNCHANGED session
       \/ Goto("hello") /\ session' = session + 1
    /\ UNCHANGED <<udpVars, ret, state, sid, uplink, finished,
                   encoderVars, pipeVars, clockVars>>

\* The reply takes its way through the network.
HelloAnswered ==
    /\ ctl = "hello" /\ waited > 0
    /\ UdpStart(session)
    /\ sid' = session
    /\ channel' = TRUE
    /\ Goto("listen")
    /\ UNCHANGED <<ret, state, session, uplink, finished,
                   encoderVars, pipeVars, clockVars>>

\* No reply in twelve seconds, or a channel that cannot be opened.
HelloFails ==
    /\ ctl = "hello"
    /\ UdpStartFails
    /\ Goto("close")
    /\ UNCHANGED <<ret, state, sid, session, channel, uplink, finished,
                   encoderVars, pipeVars, clockVars>>

\* What was recorded before the wake word is sent under encoder_guard, as far as
\* that succeeds; then the two messages are published and the microphone opens,
\* or the session ends.
StartListening ==
    /\ ctl = "listen"
    /\ guard = "free"
    /\ \/ Goto("loop") /\ state' = "listening" /\ uplink' = TRUE
       \/ Goto("close") /\ UNCHANGED <<state, uplink>>
    /\ UNCHANGED <<udpVars, ret, sid, session, channel, finished,
                   encoderVars, pipeVars, clockVars>>

-----------------------------------------------------------------------------
(* The voice control task: a session under way.                             *)

\* handle_voice_event, VOICE_TTS_START; reset_speech_timing_stats forgets when
\* sound was last heard of.
TtsStart ==
    /\ ctl = "loop" /\ sid # 0
    /\ guard = "free"
    /\ finished' = FALSE
    /\ state' = "speaking" /\ uplink' = FALSE
    /\ sinceRx' = Margin /\ sinceOut' = Margin
    /\ UNCHANGED <<udpVars, ctl, ret, waited, sid, session, channel, encoderVars,
                   pipeVars, sinceStop, writing, silence, lookVars>>

\* VOICE_TTS_STOP: once for a reply.
TtsStop ==
    /\ ctl = "loop" /\ sid # 0
    /\ state = "speaking" /\ ~finished
    /\ finished' = TRUE
    /\ sinceStop' = 0
    /\ UNCHANGED <<udpVars, ctl, ret, waited, state, sid, session, channel, uplink,
                   encoderVars, pipeVars, sinceRx, sinceOut, writing, silence, lookVars>>

\* The session ends: the server says so, the queue of events has overflowed,
\* the connection is lost, nobody speaks for 30 s, or a call takes the device.
EndSession ==
    /\ ctl = "loop" /\ sid # 0
    /\ Goto("close")
    /\ UNCHANGED <<udpVars, ret, state, sid, session, channel, uplink, finished,
                   encoderVars, pipeVars, clockVars>>

-----------------------------------------------------------------------------
(* The voice control task: resume_listening_after_playback.  It looks at the  *)
(* times, at the tasks and at one queue after the other, publishes a message  *)
(* and takes the guards; nothing is looked at twice.                        *)

\* Mutant: no time is left after the last sound.
PlayedOut_AtStop == sinceStop = Margin

PlayedOut == sinceRx = Margin /\ sinceOut = Margin /\ sinceStop = Margin

LookOn(place) ==
    /\ Goto(place)
    /\ UNCHANGED <<state, uplink, lookVars>>

\* The end, with the microphone open or not.
LookEnds(place) ==
    /\ Goto(place)
    /\ late' = {} /\ raced' = FALSE

LookInVain == LookEnds("loop") /\ UNCHANGED <<state, uplink>>

LookAtTimes ==
    /\ ctl = "loop" /\ state = "speaking" /\ finished
    /\ PlayedOut
    /\ LookOn("tasks")

\* The decode task goes first: it is seen at rest when it has nothing to do.
LookAtTasks ==
    /\ ctl = "tasks"
    /\ dec = "idle" => queue = << >>
    /\ IF AtRest THEN LookOn("packets") ELSE LookInVain

LookAtPackets ==
    /\ ctl = "packets"
    /\ IF queue = << >> THEN LookOn("pcm") ELSE LookInVain

LookAtPcm ==
    /\ ctl = "pcm"
    /\ IF readyQ = << >> /\ channel THEN LookOn("publish") ELSE LookInVain

\* The message goes out, or the session ends.
Publish ==
    /\ ctl = "publish"
    /\ \/ LookOn("reopen")
       \/ LookEnds("close") /\ UNCHANGED <<state, uplink>>

\* set_voice_state: no other task turns the channel off, so it does not refuse.
Reopen ==
    /\ ctl = "reopen"
    /\ guard = "free"
    /\ state' = "listening" /\ uplink' = TRUE
    /\ LookEnds("loop")

Resume ==
    /\ \/ LookAtTimes \/ LookAtTasks \/ LookAtPackets \/ LookAtPcm
       \/ Publish \/ Reopen
    /\ UNCHANGED <<udpVars, ret, sid, session, channel, finished, encoderVars, pipeVars,
                   sinceRx, sinceOut, sinceStop, writing, silence>>

-----------------------------------------------------------------------------
(* The voice control task: enter_wake_idle and cloud_udp_stop.              *)

\* No sending is under way, and none begins before the channel is closed.
CloseChannel ==
    /\ ctl = "close"
    /\ guard = "free"
    /\ guard' = "control"
    /\ channel' = FALSE /\ uplink' = FALSE
    /\ ret' = "leave" /\ Goto("revoke")
    /\ UNCHANGED <<udpVars, enc, state, sid, session, finished, pipeVars, clockVars>>

\* The four steps of cloud_udp_stop.
StopRevoke ==
    /\ ctl = "revoke"
    /\ \/ NothingToStop /\ Goto(ret) /\ UNCHANGED udpVars
       \/ ~NothingToStop /\ Goto("shut") /\ UdpRevoke
    /\ UNCHANGED <<ret, state, sid, session, channel, uplink, finished,
                   encoderVars, pipeVars, clockVars>>

StopClose ==
    /\ ctl = "shut"
    /\ UdpClose
    /\ Goto("wait")
    /\ UNCHANGED <<ret, state, sid, session, channel, uplink, finished,
                   encoderVars, pipeVars, clockVars>>

\* 200 ms for the receive task, which may be in recvfrom for longer.
StopWait ==
    /\ ctl = "wait"
    /\ rx = "none" \/ waited = Patience
    /\ Goto("forget")
    /\ UNCHANGED <<udpVars, ret, state, sid, session, channel, uplink, finished,
                   encoderVars, pipeVars, clockVars>>

StopForget ==
    /\ ctl = "forget"
    /\ UdpForgetKey
    /\ Goto(ret)
    /\ UNCHANGED <<ret, state, sid, session, channel, uplink, finished,
                   encoderVars, pipeVars, clockVars>>

\* The packets are forgotten; the PCM is left to the output task, which gives
\* the buffers back.
ForgetSession ==
    /\ ctl = "leave"
    /\ guard' = "free"
    /\ sid' = 0 /\ finished' = FALSE
    /\ queue' = << >>
    /\ Goto("idle")
    /\ UNCHANGED <<udpVars, ret, state, session, channel, uplink, enc, decodeVars, free,
                   readyQ, outputVars, clockVars>>

EnterIdle ==
    /\ ctl = "idle"
    /\ guard = "free"
    /\ state' = "idle"
    /\ Goto("loop")
    /\ UNCHANGED <<udpVars, ret, sid, session, channel, uplink, finished,
                   encoderVars, pipeVars, clockVars>>

Control ==
    \/ Wake \/ DrainWait \/ Bind \/ HelloAnswered \/ HelloFails \/ StartListening
    \/ TtsStart \/ TtsStop \/ EndSession \/ Resume
    \/ CloseChannel \/ StopRevoke \/ StopClose \/ StopWait \/ StopForget
    \/ ForgetSession \/ EnterIdle

-----------------------------------------------------------------------------
(* The encoder task: what it sends is in VoiceControl, here it uses the key. *)

Encode ==
    /\ enc = "idle" /\ guard = "free"
    /\ channel /\ uplink
    /\ enc' = "guarded" /\ guard' = "encoder"
    /\ UNCHANGED <<udpVars, controlVars, pipeVars, clockVars>>

EncodeSend ==
    /\ enc = "guarded"
    /\ SendBegin
    /\ enc' = "sending"
    /\ UNCHANGED <<guard, controlVars, pipeVars, clockVars>>

EncodeSent ==
    /\ enc = "sending"
    /\ SendEnd
    /\ enc' = "idle" /\ guard' = "free"
    /\ UNCHANGED <<controlVars, pipeVars, clockVars>>

Encoder == Encode \/ EncodeSend \/ EncodeSent

-----------------------------------------------------------------------------
(* The receive task: what UdpChannel does, and incoming_audio_callback.     *)

RxChannel ==
    /\ \/ RxRevoked \/ RxGot \/ RxDecrypt \/ RxExit \/ RxLeave
    /\ UNCHANGED <<controlVars, encoderVars, pipeVars, clockVars>>

Arrive(p) ==
    /\ RxReceive(p)
    /\ UNCHANGED <<controlVars, encoderVars, pipeVars, clockVars>>

\* The times are looked at in a reply only, and TtsStart forgets them: outside a
\* reply they are not kept here.
Noted(age) == IF state = "speaking" THEN age ELSE Margin

\* The callback is made while the channel is open, and cares for the sound of
\* an active session only.
Deliver ==
    /\ rx = "deliver"
    /\ IF running /\ channel
       THEN /\ RxGoto("enqueue")
            /\ sinceRx' = Noted(0)
            /\ late' = IF ctl \in Looking THEN late \cup {<<rxSock, packet>>} ELSE late
       ELSE RxAgain /\ UNCHANGED <<sinceRx, late>>
    /\ UNCHANGED <<controlVars, encoderVars, pipeVars,
                   sinceOut, sinceStop, writing, silence, raced>>

Room == Len(queue) < QueueDepth

Enqueue == RxAgain /\ queue' = Append(queue, <<rxSock, packet>>)

\* A full queue loses its oldest packet; should it be full again, the new one.
EnqueueSound ==
    /\ \/ rx \in {"enqueue", "requeue"} /\ Room /\ Enqueue
       \/ rx = "enqueue" /\ ~Room /\ RxGoto("evict") /\ UNCHANGED queue
       \/ rx = "requeue" /\ ~Room /\ RxAgain /\ UNCHANGED queue
       \/ /\ rx = "evict"
          /\ RxGoto("requeue")
          /\ queue' = IF queue = << >> THEN queue ELSE Tail(queue)
    /\ UNCHANGED <<controlVars, encoderVars, decodeVars, free, readyQ, outputVars,
                   clockVars>>

Receiver == RxChannel \/ Deliver \/ EnqueueSound

-----------------------------------------------------------------------------
(* decode_task.                                                             *)

\* A packet is taken, and thrown away without an active session.
DecodeTake ==
    /\ dec = "idle" /\ queue # << >>
    /\ queue' = Tail(queue)
    /\ IF channel
       THEN dec' = "buffer" /\ decSound' = Head(queue)
       ELSE UNCHANGED <<dec, decSound>>
    /\ UNCHANGED <<udpVars, controlVars, encoderVars, free, readyQ,
                   outputVars, clockVars>>

\* Mutant: what cannot be decoded keeps its buffer.
DecodeBuffer_Leaks ==
    /\ dec = "buffer" /\ free > 0
    /\ free' = free - 1
    /\ \/ dec' = "put" /\ UNCHANGED decSound
       \/ dec' = "idle" /\ decSound' = << >>
    /\ UNCHANGED <<udpVars, controlVars, encoderVars, queue, readyQ, outputVars, clockVars>>

\* It waits for a buffer; what cannot be decoded gives it back.
DecodeBuffer ==
    /\ dec = "buffer" /\ free > 0
    /\ \/ dec' = "put" /\ free' = free - 1 /\ UNCHANGED decSound
       \/ dec' = "idle" /\ decSound' = << >> /\ UNCHANGED free
    /\ UNCHANGED <<udpVars, controlVars, encoderVars, queue, readyQ, outputVars, clockVars>>

DecodePut ==
    /\ dec = "put" /\ Len(readyQ) < ReadyDepth
    /\ readyQ' = Append(readyQ, decSound)
    /\ dec' = "idle" /\ decSound' = << >>
    /\ UNCHANGED <<udpVars, controlVars, encoderVars, queue, free, outputVars, clockVars>>

Decoder == DecodeTake \/ DecodeBuffer \/ DecodePut

-----------------------------------------------------------------------------
(* output_task.                                                             *)

\* The frame is out of the queue, and output_in_flight not set yet.
OutputTake ==
    /\ out = "idle" /\ readyQ # << >>
    /\ outSound' = Head(readyQ) /\ readyQ' = Tail(readyQ)
    /\ out' = "taken"
    /\ UNCHANGED <<udpVars, controlVars, encoderVars, queue, decodeVars, free, spoken,
                   clockVars>>

GiveBack ==
    /\ free' = free + 1
    /\ out' = "idle" /\ outSound' = << >>

OutputStart ==
    /\ out = "taken"
    /\ IF channel
       THEN /\ out' = "write"
            /\ spoken' = outSound
            /\ writing' = 0 /\ silence' = 0
            /\ UNCHANGED <<outSound, free>>
       ELSE GiveBack /\ UNCHANGED <<spoken, writing, silence>>
    /\ UNCHANGED <<udpVars, controlVars, encoderVars, queue, decodeVars, readyQ,
                   sinceRx, sinceOut, sinceStop, lookVars>>

\* last_output_us is when the write began.
OutputEnd ==
    /\ out = "write"
    /\ GiveBack
    /\ sinceOut' = Noted(writing)
    /\ writing' = 0
    /\ raced' = (raced \/ ctl = "tasks")
    /\ UNCHANGED <<udpVars, controlVars, encoderVars, queue, decodeVars, readyQ, spoken,
                   sinceRx, sinceStop, silence, late>>

\* Mutant: a write that fails keeps its buffer.
OutputFails_Leaks ==
    /\ out = "write" /\ writing = 0
    /\ out' = "idle" /\ outSound' = << >>
    /\ UNCHANGED <<udpVars, controlVars, encoderVars, queue, decodeVars, free, readyQ,
                   spoken, clockVars>>

OutputFails ==
    /\ out = "write" /\ writing = 0
    /\ GiveBack
    /\ UNCHANGED <<udpVars, controlVars, encoderVars, queue, decodeVars, readyQ, spoken,
                   clockVars>>

Output == OutputTake \/ OutputStart \/ OutputEnd \/ OutputFails

-----------------------------------------------------------------------------
(* Time.                                                                    *)

\* The next look finds all as it must be.
ReplyOver ==
    /\ state = "speaking" /\ finished
    /\ PlayedOut /\ PipelineEmpty /\ channel

\* A message that is published, and a look that is in vain, may take their time.
ControlWaits ==
    \/ ctl = "loop" /\ ~ReplyOver
    \/ ctl \in {"listen", "publish"}
    \/ ctl = "drain" /\ ~PipelineEmpty
    \/ ctl = "hello"
    \/ ctl = "shut" /\ mutex # "free"
    \/ ctl = "wait" /\ rx # "none" /\ waited < Patience
    \/ ctl \in {"close", "reopen", "idle"} /\ guard # "free"

OthersWait ==
    /\ enc \in {"idle", "sending"}
    /\ rx \in {"none", "recv"} \/ (rx \in {"got", "exit"} /\ mutex # "free")
    /\ \/ dec = "idle" /\ queue = << >>
       \/ dec = "buffer" /\ free = 0
       \/ dec = "put" /\ Len(readyQ) = ReadyDepth
    /\ (out = "idle" /\ readyQ = << >>) \/ (out = "write" /\ writing = 0)

Older(age) == IF age < Margin THEN age + 1 ELSE Margin

Tick ==
    /\ ControlWaits /\ OthersWait
    /\ waited' = IF ctl \in {"hello", "wait"} /\ waited < Patience
                 THEN waited + 1 ELSE waited
    /\ sinceRx' = Older(sinceRx)
    /\ sinceOut' = Older(sinceOut)
    /\ sinceStop' = Older(sinceStop)
    /\ writing' = IF out = "write" THEN 1 ELSE 0
    /\ silence' = IF out = "write" THEN 0 ELSE 1
    /\ UNCHANGED <<udpVars, ctl, ret, state, sid, session, channel, uplink, finished,
                   encoderVars, pipeVars, lookVars>>

Next ==
    \/ Control \/ Encoder \/ Receiver \/ Decoder \/ Output \/ Tick
    \/ \E p \in Packets : Arrive(p)

Spec == Init /\ [][Next]_vars

\* What the control task does without being told to, by the gateway or others.
ControlMoves ==
    \/ DrainWait \/ Bind \/ HelloFails \/ StartListening \/ Resume
    \/ CloseChannel \/ StopRevoke \/ StopClose \/ StopWait \/ StopForget
    \/ ForgetSession \/ EnterIdle

\* Every task is scheduled in time.  The network brings finitely many packets
\* in the time of a frame, so time passes although they keep coming.
FairSpec ==
    /\ Spec
    /\ WF_vars(ControlMoves) /\ WF_vars(Encoder) /\ WF_vars(Receiver)
    /\ WF_vars(Decoder) /\ WF_vars(Output)
    /\ SF_vars(Tick)

-----------------------------------------------------------------------------
(* What must hold.                                                          *)

\* Every one of the three buffers is in the pool, in the ready queue, with the
\* decoder or with the output task: none is lost by an abort, a decoding error,
\* a full queue, a failed write or the end of a session.
PoolConserved ==
    free + Len(readyQ) + (IF dec = "put" THEN 1 ELSE 0)
                       + (IF out # "idle" THEN 1 ELSE 0) = PoolSize

Later(a, b) == a[1] > b[1] \/ (a[1] = b[1] /\ a[2] > b[2])

\* Sound reaches the codec at most once and in the order it was sent in, across
\* repeated and reordered packets, a queue that overflows and sequence numbers
\* that wrap around.
SpokenInOrder ==
    [][out # "write" /\ out' = "write"
           => spoken = << >> \/ Later(spoken', spoken)]_vars

\* Sound of a session that has ended is never spoken in the next one, although
\* the end of a session leaves decoded PCM in the ready queue.
SpeaksForSession ==
    [][out # "write" /\ out' = "write" => spoken'[1] = sid]_vars

Elements(q) == {q[i] : i \in 1 .. Len(q)}
One(b, sound) == IF b THEN {sound} ELSE {}

\* Sound on its way to the codec: with the output task, in the ready queue, with
\* the decode task and in the playback queue; and what is spoken, until the codec
\* has played it.
TakenSet == One(out = "taken", outSound)
ReadySet == Elements(readyQ)
DecodeSet == One(dec # "idle", decSound)
QueueSet == Elements(queue)
Queued == ReadySet \cup DecodeSet \cup QueueSet
Playing == One(silence = 0, spoken)

Reopened == state = "speaking" /\ state' = "listening"

\* When the microphone is reopened after a reply, what is left in the queues and
\* with the decoder has been received since the control task began to look; and
\* so has what is spoken, or about to be, unless a write ended between two of its
\* looks: then the frame that the output task took next may be older.  That
\* nothing at all is left would not hold, for nothing is looked at twice.
MicAfterHeard ==
    [][Reopened => /\ Queued \subseteq late
                   /\ TakenSet \cup Playing \subseteq late \/ raced]_vars

\* A channel that is ready has the key of its own session, whose receive task
\* it runs: the clean-up of a task left from the session before cannot take the
\* key away.  Nor does anybody encrypt or decrypt with another key than that of
\* its socket, not even while the channel is being closed.
KeyOfChannel ==
    /\ ready => sock # 0 /\ key = sock /\ rxSock = sock
    /\ mutex = "sender" => sock # 0 /\ key = sock
    /\ rx = "decrypt" => key = rxSock

\* Neither a reply that the server has finished nor a wake word holds the robot
\* for ever: the reply is played out and the microphone opens, or the session
\* ends; the wake word opens a session, or the device is idle again.
TurnsEnd ==
    /\ state = "speaking" /\ finished ~> ~(state = "speaking" /\ finished)
    /\ state = "connecting" ~> state # "connecting"
=============================================================================
