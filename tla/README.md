# Lummiss plant robot: TLA+ models of the firmware

The firmware in `src/src/demo` runs on an ESP32-P4 (two cores, FreeRTOS) with an
ESP32-C6 as its radio. It listens for a wake word, talks to a cloud service over
MQTT and encrypted UDP, streams its camera with WebRTC, and turns, takes photos
and reports alerts when the service calls one of its MCP tools. About thirty
tasks, timers and interrupt handlers share static variables, event bits and
queues; most of what can go wrong is in the order of their steps, which is what
these modules check.

Everything is modelled for the configuration the product ships with:
`CLOUD_PROTOCOL_V3` (MQTT and UDP, not the old websocket) and
`WAKE_CLEANUP_TRANSIENT` (the wake word engine is destroyed by a short-lived
worker). File names below are relative to `src/src/demo`; `PROJECT.json` maps
each definition to its lines.

## The system

| Part | State it keeps | Operations | Talks to |
| --- | --- | --- | --- |
| Voice control (`components/xiaozhi_audio/xiaozhi_audio.c`) | `s_voice_state`, event bits (channel, uplink, speaking, wake), `s_session_id`, the queue `s_voice_events` with its overflow flag, two guards | a control loop (`wake_process_task`), `set_voice_state`, `enter_wake_idle`, opening a session, suspend and resume for RTC; capture, encoder, decoder and output tasks | wake word engine (calls, callback), cloud session (calls, callback), UDP channel (calls, callback), WebRTC (called by) |
| Wake word engine (`wake_word.c`) | engine instance, running flag, voice processing flag, PCM buffer, life-cycle worker | init, deinit, start, stop, feed, read; a detection task | voice control |
| Cloud session (`components/cloud_mqtt/cloud_mqtt.c`) | MQTT state, the record of the last Server Hello, reassembly buffer | hello, reopen, goodbye, publish; MQTT event handler | broker, voice control, MCP server |
| MCP tool server (`cloud_mcp.c`, `mcp_registry.c`) | motion busy flag, photo context, request queue | tool calls from the cloud, answers | motor, photo, volume, LED, WebRTC |
| Stepper motor (`components/stepper_motor`) | moving, stop requested, fault latched, holding, phase, timer | move, stop, fault interrupt, step timer | MCP server |
| Photo capture (`components/camera_photo`) | state, pending frame and its release callback, request queue | request, submit, save, abort | MCP server, camera driver |
| Camera driver (`main/camera_driver.c`) | UVC stream life cycle, pool of shared frames | open, close, hand over, retain, release | photo, video, WebRTC |
| WebRTC (`components/webrtc_whip`) | state, peer, command queue, session id | start, stop, camera ready/unready | MCP server, voice control, video, camera |
| UDP audio (`components/cloud_udp`) | socket, key, GCM contexts, sequence numbers | start, stop, send, receive task | voice control |
| Video (`components/video_streamer`) | state, encoder, frame slots, output queue | start, stop, encode | camera, WebRTC, alert clip |
| Alert clip (`components/alert_clip`) | ring of encoded frames, clip, phase, grant | push, trigger, cancel, grant, save, upload | video, MCP server |
| Network, provisioning, OTA, touch keys, button, animations, LED, sensors | see `components` in `PROJECT.json` | | |

What is hard in it:

* *Concurrency.* Both cores run tasks of different priority, and callbacks of
  the MQTT, UDP, USB and timer tasks write the same variables. Locks are held for
  single updates; a decision and the action it leads to are mostly apart.
* *Asynchrony of the cloud.* Server Hellos are not numbered, goodbyes and TTS
  messages arrive late, the connection is lost between any two of them.
* *Resources with two owners.* The microphone, the codec and the internal RAM go
  back and forth between local voice and WebRTC; camera frames are shared by
  reference count between video and photo.
* *Timeouts.* A photo request, an RTC start and a session opening each give up
  at a moment when the answer may be on its way.

`PROJECT.json` lists these, line by line, under `hazards`, each with the
properties that would catch it going wrong.

## The modules

**`VoiceControl` with `WakeWord`** is the core: the control task with a program
point between any two steps another task can see, the encoder, capture and
detection tasks, the MQTT task with a network that delivers late or not at all,
and the WebRTC controller that asks for the audio. `pc` is the control task's
place in `wake_process_task`; `set_voice_state` and `enter_wake_idle` are
routines it calls (`ret` is where they return to) and have steps of their own at each
lock. `bits` is the event group, `encGuard` and `capGuard` are the two mutexes,
`queue` and `overflow` the event queue. A session is a number, 0 is "no
session id"; sound, the model's verdict, encoding and the playback pipeline are
choices. The 30 s watchdog and the
drain of the playback may come at any time.

**`VoiceSession`** is what all this promises, in nine actions: the robot rests, opens
one conversation at a time and closes it, or has lent its audio to WebRTC, which it
does from rest only. **`VoiceRefinement`** says where each phase is found in the
state of the tasks (WebRTC holds the audio while its request is acknowledged; a
conversation is open while the channel bit is set and closing from
`enter_wake_idle` on) and that `VoiceControl` implements `VoiceSession` under this
mapping. The one part of it that is not the obvious one is the line: it is `udpUp`, which
goes up with the session id and before the channel bit, and down with the id's erasure.

**`UdpChannel` with `Playback`** is a reply's way from the network to the loudspeaker,
and back to an open microphone. `UdpChannel` is `cloud_udp.c`: the four steps of
`cloud_udp_stop` (revoke, close, wait 200 ms, forget the key) against the sender and against a
receive task that is in `recvfrom` for up to a second, and the check of sequence
numbers with its wrap-around. A session stands for its socket and its key; the network repeats, loses and
reorders. `Playback` extends it with the queue of packets, the decode task, the
pool of PCM buffers, the output task and the part of the control task that waits for them:
the drain before a session opens, `resume_listening_after_playback`, and what
`enter_wake_idle` throws away. `resume_listening_after_playback` is as many steps as it
looks at things other tasks change (the times, the tasks, one queue, the other and the channel),
then the publication of its message, which may take any time, and `set_voice_state`; the
receive, decode and output tasks go on between any two of them. `late` and
`raced` are history variables of these steps: the sound received since the first look, and whether a
write has ended before the second. Here the control task's event queue, which
`VoiceControl` has, is left out: the server's messages reach it directly, or end the session.

**`AlertClip`** is the film of an alert: the encoder's frames go to a ring, which a trigger of
the person detector makes the beginning of a clip; the alert task saves the clip
without the lock, waits for the cloud's grant and uploads the file. A frame is a time
and whether it is an IDR frame; the cloud may get a publication that the robot
thinks failed, and send a grant any number of times for any alert it knows of.

**`VideoPipeline`** is the video stream: `video_streamer_start` and `_stop`, the
handshake with the codec task that opens the encoder, the codec task with its
idle check and its way out when the encoder is gone, input slots lent by the
camera and output slots sent by the upload task. A frame is the number of the stream in which
it passed the gate. `raced` is a history variable: the idle check has closed the
encoder of a stream.

**`CloudSession`** looks at one thing `VoiceControl` takes as atomic: the session
record, written field by field by the MQTT task and cleared, polled and copied by the
control task without a lock. Its actions are the single reads and writes of
`cloud_mqtt.c` with the control task reduced to the calls it makes
(`v3_open_session_for_wake`, `enter_wake_idle`, the goodbye). `sole` and
`received` are history variables.

**`CloudDownlink`** is the reassembly of MQTT messages that arrive in several
events, with the real arithmetic of the buffer and an external MQTT library that
cuts messages in any way and abandons one when the connection is lost.

**`StepperMotor`** is a movement from the MCP tool to the coils: the tool's
busy flag, the worker that initialises, enables, steps and disables, the step
timer, the fault interrupt and the stop, with one action per stretch between two
points where another of them can come in.

**`CameraPhoto`** is a photo from the MCP tool to its answer: `photo_task`, the
USB callback that hands in frames, the hand-over task that passes them on to the
video, and the reference counts of the pool. A slot's holders are counted twice,
once as the code does and once as a set of who really has it.

**`WhipControl` with `CameraStream`** is the WebRTC preview. `CameraStream` is the
camera task with its event bits (`camera_driver_run` between creation and
parking), what the controller calls to wake and to park it, and the callback of the USB
driver. `WhipControl` extends it with the controller task: one action per
stretch of `controller_task`, `start_session` and `stop_session` between two
points where the camera, the USB driver or the MCP task can come in (`wpc` is its
place, `ret` where `stop_session` returns to), and with the requests of the
server, which look at the state and send their command in two steps as the code
does. `camera_mark_unready` is three steps on whichever task runs it: take back
the announcement, take back the readiness, send the stop. The suspension of
the voice pipeline, which `VoiceControl` has in detail, is a call that succeeds or
fails here. `resumeFailed` and `missed` are history variables.

**`VoiceControlInv`** and **`WhipControlInv`** state the inductive invariants of
voice control and of the preview; **`VoiceControlProofs`**, **`CloudProofs`** (the
session and the downlink), **`WhipControlProofs`**, **`StepperMotorProofs`**,
**`VideoPipelineProofs`**, **`CameraPhotoProofs`**, **`AlertClipProofs`** and
**`PlaybackProofs`** (the UDP channel, the decoder and the loudspeaker) state the others
and hold the proofs. The `MC...` modules and `.cfg` files set the bounds.

## The runs

* `alert_clip` (`MCAlertClip`, `MCAlertClip.cfg`; passes). Two alerts with lost frames, publications that fail although the cloud got them, grants that come late or twice and expire, and a card that fails: the clip is a film that starts before the alert, nobody touches it while it is saved, only its own grant uploads it, and every job ends. Properties: `RingReady`, `ClipIsFilm`, `UploadOfItsGrant`, `SavedUnchanged`, `JobEnds`.
* `audio_playback` (`MCPlayback`, `MCPlayback.cfg`; passes). Two sessions over UDP with lost, duplicated, late and reordered packets, sequence numbers that wrap, a failing codec and stops at any moment: every PCM buffer comes back, each packet is opened with its own channel's key and spoken once, in order and in its session, the microphone opens after everything that had been received has been played, and no reply or wake word holds the robot for ever. Properties: `PoolConserved`, `KeyOfChannel`, `SpokenInOrder`, `SpeaksForSession`, `MicAfterHeard`, `TurnsEnd`.
* `cloud_session` (`MCCloudSession`, `MCCloudSession.cfg`; passes). Two wake words, a lost connection and a goodbye of the server, with every access to the shared record a step of its own: no key survives a connection, a wake word that meets no other hello uses its own session, whole, and while the device stays subscribed the session is negotiated again after each of these. Properties: `RecordOfThisConnection`, `OwnSessionBound`, `SessionComesBack`.
* `cloud_downlink` (`MCCloudDownlink`, `MCCloudDownlink.cfg`; passes). Messages of up to two buffers, cut into events in every way, with connections lost in the middle: the buffer never overflows and no message gets parts of another. Properties: `RoomForZero`, `NeverMixed`.
* `stepper` (`MCStepperMotor`, `MCStepper.cfg`; passes). Three movements of up to three steps with stops, faults and a failing timer at every point: the bridge is off between movements, a stop or fault lets at most one more phase through, and every movement accepted is answered. Properties: `CoilsOffAtRest`, `AtMostOnePhaseLate`, `EveryRequestAnswered`.
* `camera_photo` (`MCCameraPhoto`, `MCCameraPhoto.cfg`; passes). Two photo requests with timeouts at every moment while frames flow to the video through two shared slots: no slot is recycled under a reader, the saved frame is held, and every request is answered, once. Properties: `SavedFrameHeld`, `AnsweredOnce`, `EveryRequestAnswered`.
* `camera_idle` (`MCCameraPhoto`, `CameraIdle.cfg`; finds a violation). A frame that arrives just after photo_task has decided to time out leaves the camera busy for ever, and its slot leaked. Properties: `IdleAfterCapture`.
* `video_pipeline` (`MCVideoPipeline`, `MCVideoPipeline.cfg`; passes). Two streams started and stopped at any moment, with an encoder that does not open or answers late, damaged frames and a slow upload: the camera gets every frame back and no slot has two owners, a stream starts with new pictures, an IDR and an encoder, and a stop ends and gives everything back. Properties: `SlotsConserved`, `FreshStart`, `GateHasEncoder`, `RequestsEnd`, `StopReleases`.
* `voice_conversation` (`MCVoiceControl`, `MCVoiceControl.cfg`; passes). Two sessions of conversation with late, duplicated and session-less server messages, queue overflow and MQTT loss: the microphone gate holds, packets leave only into an open channel, and the tasks together are one conversation at a time, as VoiceSession has it, so that no finished session comes back. Properties: `MicGate`, `SendHasChannel`, `ImplementsSession`.
* `voice_rtc` (`MCVoiceControl`, `MCVoiceRtc.cfg`; passes). WebRTC suspends and resumes local audio at any moment of a conversation, with failures of either: acknowledged suspension really released everything, the AFE is not freed in use, the wake word is never lost for good, and WebRTC gets the audio only from rest. Properties: `ReleasedForRtc`, `EngineNotFreedInUse`, `NeverDeaf`, `ImplementsSession`.
* `voice_liveness` (`MCVoiceControl`, `MCVoiceLive.cfg`; passes). Under the fairness of FreeRTOS, in every interleaving with WebRTC, the network and the engine: the WebRTC controller is always answered, and an idle robot gets to listen for its wake word again. Properties: `RtcAnswered`, `WakeRearmed`.
* `whip_preview` (`MCWhipControl`, `MCWhipControl.cfg`; passes). A preview started and stopped any number of times, also under a foreign session id, with a camera that disconnects, stalls, fails or answers late: no session leaves anything behind, no accepted start is lost when the controller ends, and a session whose camera is gone is told to stop. Properties: `NothingLeftBehind`, `StartNotLost`, `ReadyOfThisStream`, `BlindSessionStops`.

Every passing run's properties have a mutant: a change a plausible bug would make to
one definition, under which TLC finds the property violated.

### Bounds

* `QueueLen = 1` for the event queue (12 in the code): overflow is reached with
  two events instead of thirteen; what the code does at the limit does not depend
  on where it is. The type proof holds for every depth.
* `MaxSession = 2` sessions: "the old one" and "the new one" are all a late message or
  frame can be confused about; with WebRTC one session, because WebRTC ends it and
  a second adds nothing but a longer path. The liveness run has sessions without
  an id only (`MaxSession = 0`): which id a session has does not decide whether
  the control task goes on.
* `MaxHello = 1` outstanding hello in `VoiceControl`; `CloudSession` is where several
  are outstanding.
* `MaxWake`, `MaxDrop`, `MaxEnd` bound the environment of `CloudSession`, not
  the device; when they are used up the model stops, so deadlock is not checked there.
* `MaxSteps`, `MaxJobs`: three steps (first, middle, last) and three movements
  (the driver's phase and fault survive a movement, and the third shows that
  nothing else does).
* Two frame slots and two requests for the photo: a slot per holder, and a
  request that meets what the one before it left. Afterwards the model stops: no
  deadlock check.
* The preview has one session id (`MaxSession = 1`), used any number of times, and
  one that the robot does not know, so that stops match or do not; the queue has
  its real length of two. Deadlock is not checked: a request that is refused is not a
  step, and a queue filled by two late stops refuses all of them (see the hazards).
* `Playback`: two sessions, the old and the new. Three packets in the first fill a
  queue of two, lose one, and fill the pool (two buffers instead of three, one place in the ready
  queue); one packet in the second tells the sessions apart. Sequence numbers
  start two before they wrap (`SeqSpace = 16`; the assumption that a session sends less
  than half of them holds for 2^32). `Margin = 2` frames are the 120 ms after a
  reply, `Patience = 1` a bounded wait that lasts longer than a step.
* `AlertClip`: the proportions of the code at 20 frames a second, with a second as one
  frame or less: the ring (`RingTime = 5`) is longer than the beginning of
  a clip (`Pre = 3`) by an interval between IDR frames (`Gop = 2`), its place for
  frames suffices for it (both are `RingAssumption`), a grant's life (`Validity = 2`) is shorter than the wait for one
  (`GrantTime = 4`). Two alerts, one frame lost. (At 30 frames a second the
  256 places of the ring would hold 8.5 seconds and an alert could never be filmed.)
* `VideoPipeline`: the slots the code has (three and four), and two streams.
* `DownlinkMax = 4`, `EventMax = 4`, `MessageMax = 8`: messages below, at and above the
  buffer in every cut; the proofs hold for every size.

### Fairness

FreeRTOS is preemptive with priorities: a task that is ready and never starved
by a higher one goes on, hence weak fairness for each task and for timers that are armed. The
control task of voice (priority 8) waits for two guards that the encoder and
capture tasks take and give back in every round; they block between rounds, so the mutex
reaches the waiting task of higher priority: strong fairness for the control
task. The MQTT library delivers and reconnects, and the server answers a hello
while the connection stands (`CloudSession`; the liveness claim is void otherwise
and says "or no longer subscribed"). Nothing is assumed of the user, of lost
connections, of WebRTC or of the SD card beyond that a call returns.

`Playback` and `AlertClip` have a clock. In `Playback` a tick is a frame of 60 ms and comes
only when every task waits: computing takes no time against it. A write to the
codec takes at most one tick, for the DMA holds one frame, and one that fails takes none; a
reply is ended by the server once. A message that is published may take any number of ticks. Packets may come without end, but not infinitely many
within a frame's time: strong fairness for the tick, weak fairness for the
tasks. In `AlertClip` the tick is a frame, of which the encoder gives one; the alert
task polls, so weak fairness of its steps and of the tick is all `JobEnds` needs.
In `VideoPipeline` nothing is assumed of the camera, the server or the viewer.

## The proofs

All with TLAPS, for every value of the constants, from the assumptions named in
the modules. Most of these say that a queue has room for an element and that sizes
and counts are numbers. Four say more, and each is a relation between constants of the
code:

* `UdpAssumption` (`UdpChannel`): a session sends fewer packets than half of the sequence numbers
  (2^31 of 60 ms each are four years).
* `RingAssumption` (`AlertClip`), which is there for `RingReady`: the ring's time (11 s) is
  the 10 s before an alert and one interval between IDR frames, and its 256
  places hold that many frames. At the 20 frames a second of a robot with a
  cloud they are 220; at 30 the assumption is false, and so is the claim.
* `PostAssumption` (`AlertClip`): the 10 s after an alert are over before the
  40 s for which it waits for a grant.
* `MarginAssumption` (`Playback`): there is a buffer and a place for decoded sound, and the
  120 ms after a reply are at least two frames. A write lasts up to a frame, so with a
  margin of one TLC finds `MicAfterHeard` violated.

* `AlertClipProofs.AlertTypeCorrect`: Every variable of the alert keeps its type, for every frame rate and every length of ring, clip and grant within the assumptions.
* `AlertClipProofs.ClipIsFilmCorrect`: The clip is a film: it begins with an IDR frame at least the ten seconds before the alert, goes on in order and ends at most the ten seconds after it.
* `AlertClipProofs.UploadOfItsGrantCorrect`: A film is uploaded with the grant for its own event, once it is on the card, although grants come late and twice.
* `AlertClipProofs.SavedUnchangedCorrect`: Nobody changes the clip while the alert task saves it without the lock.
* `AlertClipProofs.RingReadyCorrect`: When the ring has been filled without a loss, an alert finds a beginning for its clip: an IDR frame old enough, whatever its phase.
* `PlaybackProofs.PlaybackTypeCorrect`: Every variable of channel, tasks and queues keeps its type: no queue is overfilled and the pool never holds more than its buffers, for any number of sessions, packets and buffers.
* `PlaybackProofs.PoolConservedCorrect`: No PCM buffer is lost or given back twice, whatever is aborted, undecodable or not written.
* `PlaybackProofs.KeyOfChannelCorrect`: A channel that is ready has its own session's key, and nobody encrypts or decrypts with another, for any number of sessions.
* `PlaybackProofs.SpokenInOrderCorrect`: Sound is spoken at most once and in the order it was sent in, although packets are lost, repeated and reordered, queues overflow and sequence numbers wrap.
* `PlaybackProofs.SpeaksForSessionCorrect`: What is spoken in a session has been sent in it, although decoded sound outlives the end of a session.
* `PlaybackProofs.MicAfterHeardCorrect`: When the microphone is reopened after a reply, sound that is still queued or being decoded was received after the control task began its last looks; so was what is spoken or with the output task, unless a write ended between two of these looks.
* `CloudProofs.DownlinkTypeCorrect`: Types of the reassembly state for every size of buffer, event and message.
* `CloudProofs.RoomForZeroCorrect`: The final zero always fits into s_downlink, for every size and every cut into events.
* `CloudProofs.NeverMixedCorrect`: handle_downlink gets consecutive bytes of one message up to its end, and all of a message that fits, for every size.
* `CloudProofs.SessionTypeCorrect`: Types of the session record, of the tasks that share it and of the network, for any number of sessions.
* `CloudProofs.RecordOfThisConnectionCorrect`: What can be copied from the session record has been received over the connection under way, wherever the MQTT task and the control task stand when it is lost.
* `CloudProofs.OwnSessionBoundCorrect`: A wake word that meets no other hello on its way gets id and key of the session it asked for, and no torn copy, for any number of wake words, lost connections and goodbyes.
* `StepperMotorProofs.TypeCorrect`: Every variable of the motor keeps its type, for movements of any length; the steps left are never negative.
* `StepperMotorProofs.MotorCorrect`: The inductive invariant of the motor: what the worker may assume of claim, bridge, pins and stop request at each of its places.
* `StepperMotorProofs.CoilsOffAtRestCorrect`: When the motor is given back the coils are off, the bridge sleeps and no stop is left over for the next movement.
* `StepperMotorProofs.AtMostOnePhaseLateCorrect`: After a fault or a stop at most one more phase is driven.
* `CameraPhotoProofs.PhotoTypeCorrect`: Every variable of the photo keeps its type, for any number of frame copies and requests: no reference count exceeds two or falls below zero.
* `CameraPhotoProofs.SavedFrameCorrect`: A frame copy's count never falls below the number of those who hold it, and the frame being saved is held, so it is never filled again under its reader.
* `CameraPhotoProofs.AnsweredOnceCorrect`: The answer to a request is never replaced by another, whatever photo_task, the callback and the MCP task do in between.
* `VideoPipelineProofs.TypeCorrect`: Every variable of the video stream keeps its type, and neither queue outgrows the slots it is made for.
* `VideoPipelineProofs.SlotsConservedCorrect`: Every input and every output slot is free or holds exactly one frame on its way, whoever drains the queues, for any number of slots.
* `VideoPipelineProofs.GateHasEncoderCorrect`: The gate is never opened without an encoder behind it, unless the idle check has closed one under a stream.
* `VideoPipelineProofs.FreshStartCorrect`: Of the stream before, at most one input and two frames in all are left in a new one, and the first new picture is asked to be an IDR frame, for any number of slots.
* `VoiceControlProofs.TypeCorrect`: Every variable keeps its type, and s_voice_events its depth, for every queue depth and any number of sessions.
* `VoiceControlProofs.GateCorrect`: The inductive invariant of the microphone gates: which guard is held where, what each program point of the control task may assume of suspension, channel and AFE.
* `VoiceControlProofs.MicGateCorrect`: The uplink gate is open only in a listening state with channel, UDP and PCM output on and WakeNet off.
* `VoiceControlProofs.SendHasChannelCorrect`: The encoder task sends a microphone packet only while the robot listens and the UDP channel is open.
* `VoiceControlProofs.EngineNotFreedInUseCorrect`: The AFE is never freed while the capture task feeds it or the detection task is in it.
* `VoiceControlProofs.NeverDeafCorrect`: A robot at rest with a working engine is armed, or a wake event or a lost event waits, or the control task is about to arm it.
* `VoiceControlProofs.LoanCorrect`: The inductive invariant of the line and the loan: where session, channel and state belong together, and that a request of the WebRTC controller is worked on once and answered truly.
* `VoiceControlProofs.ReleasedForRtcCorrect`: While WebRTC holds the audio no AFE, no task in it, no channel, packet or wake word is left.
* `VoiceControlProofs.ImplementsSessionCorrect`: The tasks of voice control implement the abstract session: every step is one of its nine actions or a stutter.
* `VoiceControlProofs.QuietAtRest`: Voice control is quiet at rest and while the audio is lent: what the abstract specification promises, carried over by the refinement.
* `WhipControlProofs.WhipTypeCorrect`: Every variable of the preview and of its camera keeps its type, the queue its length of two.
* `WhipControlProofs.SessionInvariant`: What the controller holds and owes at every place of its loop and of stop_session; the inductive invariant the next four theorems follow from.
* `WhipControlProofs.NothingIsLeftBehind`: When the controller has ended there is no peer, no encoder, no session id and no suspended voice pipeline it could have resumed, whichever step of the start failed.
* `WhipControlProofs.NoStartIsLost`: A start that was accepted always has a controller to read it.
* `WhipControlProofs.StreamsAreComplete`: A session that connects or streams has its peer, encoder and the voice pipeline's memory, and no peer is open outside a session.
* `WhipControlProofs.ReadinessIsOfThisStream`: Readiness announced by one stream is taken back before the next opens, however the USB callback crosses it.
* `WhipControlProofs.BlindSessionsStop`: A session whose camera is no longer ready has a stop it will obey in the queue or on its way, unless the queue was full.

*Type correctness* (`VoiceControlProofs`) is inductive as it stands: one lemma
per group of actions (engine, encoder, cloud, RTC, control), and one for
`Post`, which keeps the queue within its depth.

*The microphone gates* (same module). `MicGate` is not inductive: it says
nothing of the guards, and a step that clears a bit is only safe because of who
holds which guard. `GateInv` (`VoiceControlInv`) adds that a task is inside its
critical section exactly when it holds the guard, what the control task may
assume at each program point of `set_voice_state` and `enter_wake_idle`
(both guards held, which gates are already closed), and that a suspended robot
has no channel. It was checked by TLC first, and then proved: it
holds initially, every action preserves it, and it implies the three
properties. *The wake word* (`NeverDeaf`, same module) is inductive on top of it
but for one thing, `ListenAwake`: `set_voice_state` may refuse to listen, and that must not happen
to a robot at rest, which would stay disarmed. What is proved about the queue is that
posting and taking an event keeps the wake events behind and before it.

*The session and the loan* (same module). The refinement needs to know
where the session id, the channel and the channel bit are set together (`LineInv`: a robot
at rest, going to rest or going to open a session has none of them; with one of them the
channel bit is set, but in the middle of `enter_wake_idle`; a conversation lasts no
longer than its channel). `LoanInv` is about the handshake with WebRTC: a request is pending, in
work or acknowledged, one after the other and only while the controller waits
(`OneRequest`); what is in work is what was requested, and the result is the truth
(`ResultTrue`: "ok" to a suspension means suspended, "error" to a resume means
still suspended); and suspended means at rest with everything freed, but on the way there. So
the audio is held only by a controller that was truly told so, and nothing starts
until it asks again: `ReleasedForRtc`. With both invariants each of the 32 actions of
the control task is matched with the action of `VoiceSession` it stands for:
`AwaitBound` connects, `EnterIdleGate` hangs up, `EnterIdleClose` forgets, `SetVoiceStateBody`
arrives at rest or leaves it, `EncoderLock` and `EncoderSend` send, `RtcStarted` and
`RtcStop` lend and take back; every other step is a stutter. `Quiet` is proved
by the actions of `VoiceSession` alone (lemma `QuietCorrect`) and carried over by the
refinement (`QuietAtRest`).

*Reassembly* (`CloudProofs`). The invariant relates the bytes gathered to the
message under way (`len` never exceeds what has been delivered, and what is
gathered ends where the next event begins); the arithmetic of one event is four
lemmas over numbers.

*The session record* (same module). `RecordInv` adds to `RecordOfThisConnection`
what keeps it: the Server Hello that is being stored was received on this
connection. `OwnSessionBound` is about wake words that found no other hello about
(`sole`); `OwnInv` follows the answer to their hello through the places it can be
in (`Unanswered`, `OnItsWay`, `Named`, `Keyed`, `Answered`, `Lost`) and says which of
them the control task may meet at each of its places: while it copies, the answer is
stored as a whole. It says nothing of a wake word that is not alone, because there
nothing more holds (see the findings).

*The photo* (`CameraPhotoProofs`). `SavedFrameHeld` says that the reference count of a slot
is not below the number of its holders, and is inductive together with `HandOver`: who
must have a slot where the frame changes hands (the callback while it runs, a
photo that is ready or being saved). What the hand-over queue holds of a slot is the
number of the queue's indices at which it stands, so that a `put` and a `take` are facts about
cardinalities of finite sets (`QueuedAppend`, `QueuedTail`) and need no induction.
`AnsweredOnce` follows from `AnswerInv`: a request is at one place, and not answered while it is there.

*The alert clip* (`AlertClipProofs`). `RingInOrder` and `ClipInOrder` say that frames
follow one another in time, up to the one of the current tick: a clip is the end of a ring
in the clip's own time, with frames added (`ClipIsFilm`). `JobInv` ties
phase, event, grant and card together; `UploadOfItsGrant` and `SavedUnchanged` follow.
`RingReady` needs the encoder too: `Run` says that the last frames without a loss are
those of the last ticks, `Idrs` that every `Gop` of them in a row have an IDR frame; the one
among the oldest is old enough to begin a clip, by `RingAssumption`.

*The preview* (`WhipControlProofs`). That nothing is left behind when the controller
ends says nothing of the places from which it may come to its end, and these
differ in what they hold: `SessionInv` (`WhipControlInv`) says for each place of
the loop and of `stop_session` which of peer, encoder, pipeline and id may be
there, that at most one start is in the queue and then nothing else is under
way, and that the first session waits for the card before it asks for the
camera (else `start_session` could refuse a session that `stop_session`
then takes for idle, and its id would stay). `BlindInv` adds the stop that a lost camera
sends: it is for any session, so it is obeyed whichever is there. Both
were checked by TLC before they were proved.

*The motor* (`StepperMotorProofs`). `MotorInv` says what the worker may assume at each
place: the motor is claimed as long as there is a worker, the driver says "moving" exactly
in the loop, the bridge is awake from `stepper_motor_enable` to `stepper_motor_disable`,
and (`LateInv`) how far the worker can be past its last look at the fault pin and the stop
request when either comes. `CoilsOffAtRest` and `AtMostOnePhaseLate` follow.

*The video stream* (`VideoPipelineProofs`). `SlotsConserved` becomes inductive with the types
of the queues and `HandInv`, which ties the frame in the codec task's hands to its place:
each step moves one frame from one term of the sums to another. The queues
never outgrow the slots because of the sums, not the other way round. `GateHasEncoder` needs `OpenInv`,
which follows an answer from the request to the gate: from `video_streamer_start` on the
state says STARTING, so the idle check spares the encoder, and the answer that start reads, an early
or a late one, is only "ok" if there is one; the one exception is the history variable `raced`.

`FreshStart` counts the frames of earlier streams in both queues (`Before`: how many indices
of a queue hold one) and in the hands of the tasks. It is only inductive with a stronger count that
is not about age: `StartInv` says how many frames can be in the input queue and under way
while `video_streamer_start` drains and asks (the frame put in after the drain, the
one that was being encoded, and no third), because the gate is closed there (`GateInv`). When
the stream gets its number, all of these become old, and from then on their count can
only fall (`OldInv`).

*A reply to the loudspeaker* (`PlaybackProofs`). The module goes along the way of the sound.
`LinkInv` relates the control task, the receive task, the encoder, the lock and the
channel: whose session the socket, the key and the task's own socket belong to
at each place. `KeyOfChannel` follows, and `PoolConserved` is inductive with the types alone.
For `SpokenInOrder` the sound on its way is one line (spoken, being spoken, decoded, in the
decoder's hands, queued, in the receive task's hands), each of it later than what is before it (`OrderInv`);
a new packet goes to its end because it is later than all the receive task has let
through (`MarkInv`), which is what the comparison of 32-bit sequence numbers
decides as long as less than half of the numbers lie between them
(`DifferenceWraps`). `SpeaksForSession` rests on the drain: a channel is opened when a tick
has passed since the pipeline was seen empty (`QuietInv`), and within a tick the receive task of
the old session has put away the packet it held, so that all sound under way is of the new
session (`SessionInv`). For `MicAfterHeard`, `MicInv` says that while a finished reply is still
being spoken, either a write lasts, or sound came or was spoken less than
`Margin` ago, or the pipeline is empty. So when the control task has found the times in order, nothing
is left but a write that lasts; `LookInv` goes on from there, look by look: what is with the
decoder and in the queues has come since (`late`), and so has everything else, or
a write has ended before the tasks were looked at (`raced`). The microphone opens some
time after the last look, and what has come by then is on its way (see "Where the code and
its comments disagree").

Every safety property that a passing run checks is stated by a theorem, action
properties and the refinement included. Only model-checked are the liveness
properties (`RtcAnswered`, `WakeRearmed`, `SessionComesBack`, `RequestsEnd`, `StopReleases`,
`TurnsEnd`, `JobEnds`, and `EveryRequestAnswered` of the photo and of the motor): fairness
and ENABLED are out of the prover's reach. Nothing uses RECURSIVE operators, and nothing needed
induction over data: queues are counted by the cardinality of sets of their indices.

## Where the code and its comments disagree

* `IdleAfterCapture` (run `camera_idle`, components/camera_photo/camera_photo.c:168): photo_task waits for a capture under way only while it looks at the state before line 168; it then reads the state once (line 168) and, if it is still PHOTO_WAIT_FRAME, stores PHOTO_FAILED and PHOTO_IDLE without checking again. A UVC callback that claims the request in between (camera_photo_submit_mjpeg_owned, line 313) then stores PHOTO_READY after the request was finished: every later request is answered PHOTO_BUSY, and the frame copy it handed over is never released. The comment at src/src/demo/components/camera_photo/camera_photo.c:161 says "超时边界若撞上 memcpy，必须等 UVC 回调彻底结束才能把 Buffer 重新标为空闲" (if the deadline falls into the copy, the buffer must not be marked idle before the UVC callback has completely ended).

The following were met while modelling and are behaviours of the models, but have no run:

* *Audio of the last session.* `encoder_task` reads a frame under `s_capture_guard` and
  then waits for `s_encoder_guard`; it rechecks event bits, which a session that
  ended and another that began in between leave set, so the frame is sent in the new session.
  The comment at `xiaozhi_audio.c:1731` says that the recheck prevents this.
* *A rejected suspension.* When `wake_word_deinit` fails, `s_rtc_suspended` is taken
  back (`xiaozhi_audio.c:951`), `s_rtc_requested` is not: until the next preview ends, wake
  words are refused (`:692`) and server messages dropped (`:2079`), although the comment at
  `:952` says that the suspension is undone.
* *A microphone that opens with sound on its way.* `resume_listening_after_playback` looks at the
  times, the tasks and the queues once (`xiaozhi_audio.c:519`), publishes a
  message, which blocks (`:541`), and waits for two guards in `set_voice_state` (`:545`,
  `:360`), which looks at the channel bit alone. A UDP packet that comes later than
  120 ms after the tts stop is received, queued and spoken meanwhile. And the looks are not
  one: when a write ends between the times and the tasks, the next frame may be with the output task, out of
  its queue and not yet announced (`:1866`), and even old sound is overlooked. The
  comments say that playback is confirmed to have drained (`:565`) and that the
  microphone comes back only then, lest the loudspeaker be uploaded (`:1927`). For the
  property that nothing is on its way, TLC finds the first in 23 steps;
  `MicAfterHeard`, which says what the looks do achieve, needs both its exceptions,
  `late` and `raced`.
* *A stop that is lost.* `stepper_motor_stop` does nothing before `s_moving` is set, which
  the worker does after it was scheduled and the driver was initialised; a
  `motion.stop` in between answers "stopped" and the movement is done in full,
  although the tool promises to interrupt it (`cloud_mcp.c:715`).
* *The session record* can be copied torn (a key without the id it belongs to) when a wake
  word falls between the stores of a Server Hello (`cloud_mqtt.c:149`, which
  `cloud_mqtt.h:104` calls a snapshot); and the answer to the wake word's own hello
  may replace the record while the channel uses the session of an earlier
  answer, so that the goodbye names the wrong one (`cloud_mqtt.c:135`). `OwnSessionBound`
  says what holds in spite of both.
* *A message above the limit*: only the part gathered so far is dropped, its rest is
  gathered as a message of its own (`cloud_mqtt.c:397`). `NeverMixed` holds in spite of it.
* *The idle check of the encoder* (`video_streamer.c:2265`) reads the gate before start opens it
  and the state after start has left STARTING, and closes the encoder of the new
  stream. The codec task finds that at the next frame, where a comment says that the normal
  path never gets there (`:2369`), and ends the stream with an error.
* *The late answer of an encoder* that took longer than the timeout: a semaphore given
  after the drain at `video_streamer.c:925` satisfies the wait of the next request, although the comment at
  `:926` says that the drain ensures it does not. `GateHasEncoder` holds in spite of it.
* *Old frames in a new stream*: start and stop drain both queues, so that a stream "starts with
  the new frames of this moment" (`video_streamer.c:977`), but the frame being put into
  its slot and the one being encoded survive. `FreshStart` says that there is at most one of each.
* *Failed uploads* of an alert leave their file on the card; nothing ever deletes or retries it.

## Not modelled, and the plan

What is left out for good: image conversion and integrity checks (`dma2d_yuv.c`,
`jpeg_integrity.c`), inference, colour and animation arithmetic, display output, sensor
polling, boot and pin setup, vendored drivers and the co-processor's firmware (data or
hardware, no protocol of this project).

Hazards met that are not in the list of `PROJECT.json`, because nothing here covers them
yet: the pool's deinitialisation, which waits five seconds for the photo task and then skips the
release (`camera_driver.c:565`); a camera stop that is given up but still carried out
(`camera_driver.c:176`); a resume whose `wake_word_init` fails and that nobody
retries (`xiaozhi_audio.c:972`); ICE gathering ended by a stop that names another session
(`webrtc_whip.c:1107`); and the detection task that frees its JPEG buffer when the model cannot be
loaded, while the camera's task may be about to copy into it (`person_detect.cpp:162`).

What the properties do not see, though the models have it:

* `VoiceSession` does not know which session an event of the server is for. The comparison of session
  ids (`xiaozhi_audio.c:819`) is in `VoiceControl`, but the refinement would hold without it.
* `NeverDeaf` is about wake events that a full queue loses. That a lost tts stop or a lost end of a session
  ends the session, by the overflow flag, is modelled and not stated.
* `WhipControl` reads `s_camera_ready` once where the code reads it twice (`webrtc_whip.c:1375`
  and `:1405`): a camera that becomes ready in between would have to start, which takes
  two seconds at least, from one statement to the next.

What would come next, in order:

1. The preview's liveness (a requested session is connected or given up on, a stop
   ends it), a run for the queue filled by late stops, and `WhipControl`
   composed with `VoiceControl`'s suspend handshake and `VideoPipeline`'s start and stop.
2. The camera driver's life cycle: rotation of formats, the hand-over fence, the
   pool's destruction.
3. Network reconnection and provisioning, touch-key gestures, the animation player's generations.
4. Proofs: the same for what these add, and refinements: of an abstract photo and an
   abstract film with the promises `CameraPhoto` and `AlertClip` keep, as
   `VoiceSession` is for voice control.
