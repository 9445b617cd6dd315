---------------------------- MODULE CloudSession ----------------------------
(***************************************************************************)
(* The AI session record of components/cloud_mqtt/cloud_mqtt.c: s_session  *)
(* and s_session_ready, which two tasks read and write without a lock.     *)
(*   - The MQTT task runs mqtt_event_handler: it publishes the hello of a  *)
(*     new connection, writes the record field by field when a Server      *)
(*     Hello arrives, clears it when the connection drops, and reopens the *)
(*     session when the server says goodbye.                               *)
(*   - The voice control task (xiaozhi_audio.c) reopens the session at     *)
(*     every wake word, waits for the record to be ready, copies it, opens *)
(*     its UDP channel with the copy and says goodbye when it is done.     *)
(* A Server Hello carries nothing that says which hello it answers.        *)
(* Every access to the record is a step of its own.  The voice state       *)
(* machine is module VoiceControl; here it is "rest", "bound" and the      *)
(* steps between.  Of the record, session_id and key stand for all fields: *)
(* parse_server_hello writes the first one first and the key later.        *)
(***************************************************************************)
EXTENDS Naturals, Sequences, FiniteSets

CONSTANTS
    MaxWake, \* wake words, a bound of the model
    MaxDrop, \* losses of the MQTT connection, a bound of the model
    MaxEnd   \* goodbyes of the server, a bound of the model

ASSUME BoundsAssumption == {MaxWake, MaxDrop, MaxEnd} \subseteq Nat

\* Sessions in the order the server opens them; 0 is a cleared field, and in
\* a goodbye of the server a missing session_id.
SessionIds == Nat
NoRecord == [id |-> 0, key |-> 0]
Records == [id : SessionIds, key : SessionIds]

VARIABLES
    ready, record,          \* s_session_ready, s_session
    cloudState,             \* s_state
    link,                   \* the MQTT connection
    mqttPc, hello,          \* the MQTT task; the Server Hello it is storing
    pc, copy,               \* the control task; session of v3_open_session_for_wake
    sid, udpKey,            \* s_session_id, key of the UDP channel
    ended,                  \* VOICE_END events posted and not handled
    asked,                  \* hellos the server has not answered
    issued,                 \* sessions the server has opened
    downlink,               \* messages on their way to the device
    wakes, drops, ends,     \* what has happened so far, for the bounds
    sole,                   \* ghost: only the hello of this wake is about
    received                \* ghost: sessions received on this connection

mqttVars == <<mqttPc, hello>>
controlVars == <<pc, copy, sid, udpKey>>
serverVars == <<asked, issued, downlink>>
boundVars == <<wakes, drops, ends>>
vars == <<ready, record, cloudState, link, mqttVars, controlVars, ended,
          serverVars, boundVars, sole, received>>

CloudStates == {"configured", "connected", "subscribed", "helloSent", "idle"}
MqttPcs == {"idle", "key", "ready", "dropped", "reopen", "clear", "publish"}
ControlPcs == {"rest", "reopen", "clear", "publish", "wait", "copyId",
               "copyKey", "bound", "goodbye", "close"}
Messages == [type : {"hello", "goodbye"}, id : SessionIds]

TypeOK ==
    /\ ready \in BOOLEAN
    /\ record \in Records
    /\ cloudState \in CloudStates
    /\ link \in {"down", "connected", "subscribed"}
    /\ mqttPc \in MqttPcs
    /\ hello \in SessionIds
    /\ pc \in ControlPcs
    /\ copy \in Records
    /\ sid \in SessionIds
    /\ udpKey \in SessionIds
    /\ ended \subseteq SessionIds
    /\ asked \in Nat
    /\ issued \in SessionIds
    /\ downlink \in Seq(Messages)
    /\ wakes \in 0..MaxWake
    /\ drops \in 0..MaxDrop
    /\ ends \in 0..MaxEnd
    /\ sole \in BOOLEAN
    /\ received \subseteq SessionIds

\* cloud_mqtt_start has run: the client is connecting.
Init ==
    /\ ready = FALSE
    /\ record = NoRecord
    /\ cloudState = "configured"
    /\ link = "down"
    /\ mqttPc = "idle" /\ hello = 0
    /\ pc = "rest" /\ copy = NoRecord /\ sid = 0 /\ udpKey = 0
    /\ ended = {}
    /\ asked = 0 /\ issued = 0 /\ downlink = << >>
    /\ wakes = 0 /\ drops = 0 /\ ends = 0
    /\ sole = FALSE
    /\ received = {}

\* esp_mqtt_client_publish of the hello: refused without a connection.
PublishHello ==
    /\ link # "down"
    /\ asked' = asked + 1
    /\ cloudState' = "helloSent"
    /\ UNCHANGED <<issued, downlink>>

HelloRefused ==
    /\ link = "down"
    /\ UNCHANGED <<cloudState, serverVars>>

-----------------------------------------------------------------------------
(* The MQTT task *)

\* MQTT_EVENT_CONNECTED: the subscription is requested.
Connected ==
    /\ mqttPc = "idle" /\ link = "down"
    /\ link' = "connected"
    /\ cloudState' = "connected"
    /\ UNCHANGED <<ready, record, mqttVars, controlVars, ended, serverVars,
                   boundVars, sole, received>>

\* A mutant: the new connection waits for the next wake word.
Subscribed_NoHello ==
    /\ mqttPc = "idle" /\ link = "connected"
    /\ link' = "subscribed"
    /\ cloudState' = "subscribed"
    /\ UNCHANGED <<ready, record, mqttVars, controlVars, ended, serverVars,
                   boundVars, sole, received>>

\* MQTT_EVENT_SUBSCRIBED: first hello of the connection.
Subscribed ==
    /\ mqttPc = "idle" /\ link = "connected"
    /\ link' = "subscribed"
    /\ PublishHello
    /\ sole' = FALSE
    /\ UNCHANGED <<ready, record, mqttVars, controlVars, ended, boundVars,
                   received>>

\* MQTT_EVENT_DISCONNECTED, first store.  What was on its way is lost, and
\* so may be hellos the server has not read.
Disconnected ==
    /\ mqttPc = "idle" /\ link # "down" /\ drops < MaxDrop
    /\ drops' = drops + 1
    /\ link' = "down"
    /\ ready' = FALSE
    /\ mqttPc' = "dropped"
    /\ downlink' = << >>
    /\ asked' \in 0..asked
    /\ sole' = FALSE
    /\ UNCHANGED <<record, cloudState, hello, controlVars, ended, issued,
                   wakes, ends, received>>

\* A mutant: the record is left for the next Server Hello to overwrite.
DroppedClear_KeepsRecord ==
    /\ mqttPc = "dropped"
    /\ cloudState' = "configured"
    /\ received' = {}
    /\ mqttPc' = "idle"
    /\ UNCHANGED <<ready, record, link, hello, controlVars, ended, serverVars,
                   boundVars, sole>>

DroppedClear ==
    /\ mqttPc = "dropped"
    /\ record' = NoRecord
    /\ cloudState' = "configured"
    /\ received' = {}
    /\ mqttPc' = "idle"
    /\ UNCHANGED <<ready, link, hello, controlVars, ended, serverVars,
                   boundVars, sole>>

\* The next message, if it is a Server Hello: session_id is stored.
HelloId ==
    /\ mqttPc = "idle"
    /\ downlink # << >> /\ Head(downlink).type = "hello"
    /\ hello' = Head(downlink).id
    /\ record' = [record EXCEPT !.id = hello']
    /\ received' = received \cup {hello'}
    /\ downlink' = Tail(downlink)
    /\ mqttPc' = "key"
    /\ UNCHANGED <<ready, cloudState, link, controlVars, ended, asked, issued,
                   boundVars, sole>>

HelloKey ==
    /\ mqttPc = "key"
    /\ record' = [record EXCEPT !.key = hello]
    /\ mqttPc' = "ready"
    /\ UNCHANGED <<ready, cloudState, link, hello, controlVars, ended,
                   serverVars, boundVars, sole, received>>

HelloReady ==
    /\ mqttPc = "ready"
    /\ ready' = TRUE
    /\ cloudState' = "idle"
    /\ hello' = 0
    /\ mqttPc' = "idle"
    /\ UNCHANGED <<record, link, controlVars, ended, serverVars, boundVars,
                   sole, received>>

\* Whether a goodbye of the server is for the recorded session.
GoodbyeAccepted(id) ==
    /\ ready
    /\ id # 0 => id = record.id

\* The next message, if it is a goodbye: the voice task is told first.
ServerGoodbye ==
    /\ mqttPc = "idle"
    /\ downlink # << >> /\ Head(downlink).type = "goodbye"
    /\ downlink' = Tail(downlink)
    /\ IF GoodbyeAccepted(Head(downlink).id)
       THEN /\ ended' = ended \cup {Head(downlink).id}
            /\ cloudState' = "subscribed"
            /\ sole' = FALSE
            /\ mqttPc' = "reopen"
       ELSE UNCHANGED <<ended, cloudState, sole, mqttPc>>
    /\ UNCHANGED <<ready, record, link, hello, controlVars, asked, issued,
                   boundVars, received>>

\* cloud_mqtt_reopen_session, called by the MQTT task.
MqttReopen ==
    /\ mqttPc = "reopen"
    /\ ready' = FALSE
    /\ mqttPc' = "clear"
    /\ UNCHANGED <<record, cloudState, link, hello, controlVars, ended,
                   serverVars, boundVars, sole, received>>

MqttClear ==
    /\ mqttPc = "clear"
    /\ record' = NoRecord
    /\ mqttPc' = "publish"
    /\ UNCHANGED <<ready, cloudState, link, hello, controlVars, ended,
                   serverVars, boundVars, sole, received>>

MqttPublish ==
    /\ mqttPc = "publish"
    /\ PublishHello
    /\ mqttPc' = "idle"
    /\ UNCHANGED <<ready, record, link, hello, controlVars, ended, boundVars,
                   sole, received>>

Mqtt ==
    \/ Connected \/ Subscribed
    \/ DroppedClear
    \/ HelloId \/ HelloKey \/ HelloReady
    \/ ServerGoodbye \/ MqttReopen \/ MqttClear \/ MqttPublish

-----------------------------------------------------------------------------
(* The voice control task *)

\* Nothing on its way could be taken for the answer to this wake's hello,
\* and the MQTT task is not writing the record.
Quiet ==
    /\ asked = 0
    /\ mqttPc \notin {"key", "ready", "reopen", "clear", "publish"}
    /\ \A i \in DOMAIN downlink : downlink[i].type # "hello"

Wake ==
    /\ pc = "rest" /\ wakes < MaxWake
    /\ wakes' = wakes + 1
    /\ sole' = Quiet
    /\ pc' = "reopen"
    /\ UNCHANGED <<ready, record, cloudState, link, mqttVars, copy, sid,
                   udpKey, ended, serverVars, drops, ends, received>>

\* A mutant: the last session stays ready until the new one arrives.
Reopen_StaysReady ==
    /\ pc = "reopen"
    /\ pc' = "clear"
    /\ UNCHANGED <<ready, record, cloudState, link, mqttVars, copy, sid,
                   udpKey, ended, serverVars, boundVars, sole, received>>

\* cloud_mqtt_reopen_session, called by the control task.
Reopen ==
    /\ pc = "reopen"
    /\ ready' = FALSE
    /\ pc' = "clear"
    /\ UNCHANGED <<record, cloudState, link, mqttVars, copy, sid, udpKey,
                   ended, serverVars, boundVars, sole, received>>

ReopenClear ==
    /\ pc = "clear"
    /\ record' = NoRecord
    /\ pc' = "publish"
    /\ UNCHANGED <<ready, cloudState, link, mqttVars, copy, sid, udpKey,
                   ended, serverVars, boundVars, sole, received>>

ReopenPublish ==
    /\ pc = "publish"
    /\ \/ PublishHello /\ pc' = "wait"
       \/ HelloRefused /\ pc' = "close"
    /\ UNCHANGED <<ready, record, link, mqttVars, copy, sid, udpKey, ended,
                   boundVars, sole, received>>

\* The poll of v3_open_session_for_wake: ready, or 12 s are over, or WebRTC
\* wants the microphone.
WaitReady ==
    /\ pc = "wait"
    /\ \/ ready /\ pc' = "copyId"
       \/ pc' = "close"
    /\ UNCHANGED <<ready, record, cloudState, link, mqttVars, copy, sid,
                   udpKey, ended, serverVars, boundVars, sole, received>>

\* cloud_mqtt_get_session: the flag is read again, then the record is
\* copied; a store of the MQTT task may fall between two fields.
CopyId ==
    /\ pc = "copyId"
    /\ IF ready THEN /\ copy' = [copy EXCEPT !.id = record.id]
                     /\ pc' = "copyKey"
                ELSE pc' = "close" /\ UNCHANGED copy
    /\ UNCHANGED <<ready, record, cloudState, link, mqttVars, sid, udpKey,
                   ended, serverVars, boundVars, sole, received>>

\* The rest of the copy, and cloud_udp_start with it, which may fail.
CopyKey ==
    /\ pc = "copyKey"
    /\ copy' = NoRecord
    /\ \/ /\ sid' = copy.id
          /\ udpKey' = record.key
          /\ pc' = "bound"
       \/ UNCHANGED <<sid, udpKey>> /\ pc' = "close"
    /\ UNCHANGED <<ready, record, cloudState, link, mqttVars, ended,
                   serverVars, boundVars, sole, received>>

\* A VOICE_END of the queue: handled if it is for the session, or for any.
HandleEnd ==
    /\ pc \in {"rest", "bound"}
    /\ \E id \in ended :
         /\ ended' = ended \ {id}
         /\ pc' = IF sid # 0 /\ id \in {0, sid} THEN "close" ELSE pc
    /\ UNCHANGED <<ready, record, cloudState, link, mqttVars, copy, sid,
                   udpKey, serverVars, boundVars, sole, received>>

SessionLost ==
    /\ pc = "bound" /\ ~ready
    /\ pc' = "close"
    /\ UNCHANGED <<ready, record, cloudState, link, mqttVars, copy, sid,
                   udpKey, ended, serverVars, boundVars, sole, received>>

\* The idle watchdog, or WebRTC: cloud_mqtt_send_goodbye, its first read.
Finish ==
    /\ pc = "bound"
    /\ pc' = IF record.id # 0 THEN "goodbye" ELSE "close"
    /\ UNCHANGED <<ready, record, cloudState, link, mqttVars, copy, sid,
                   udpKey, ended, serverVars, boundVars, sole, received>>

\* Its second read, and the publication, which may fail.
SendGoodbye ==
    /\ pc = "goodbye"
    /\ pc' = "close"
    /\ UNCHANGED <<ready, record, cloudState, link, mqttVars, copy, sid,
                   udpKey, ended, serverVars, boundVars, sole, received>>

\* enter_wake_idle.
Close ==
    /\ pc = "close"
    /\ sid' = 0 /\ udpKey' = 0
    /\ pc' = "rest"
    /\ UNCHANGED <<ready, record, cloudState, link, mqttVars, copy, ended,
                   serverVars, boundVars, sole, received>>

Control ==
    \/ Reopen \/ ReopenClear \/ ReopenPublish
    \/ WaitReady \/ CopyId \/ CopyKey
    \/ HandleEnd \/ SessionLost \/ Finish \/ SendGoodbye \/ Close

-----------------------------------------------------------------------------
(* The server: a hello is answered whenever it likes, and its answer is    *)
(* lost if the device is not subscribed by then.                           *)

Deliver(message) ==
    downlink' = IF link = "subscribed" THEN Append(downlink, message)
                                       ELSE downlink

ServerHello ==
    /\ asked > 0
    /\ asked' = asked - 1
    /\ issued' = issued + 1
    /\ Deliver([type |-> "hello", id |-> issued'])
    /\ UNCHANGED <<ready, record, cloudState, link, mqttVars, controlVars,
                   ended, boundVars, sole, received>>

\* The server ends one of its sessions, with or without naming it.
ServerEnd ==
    /\ ends < MaxEnd
    /\ ends' = ends + 1
    /\ \E id \in 0..issued : Deliver([type |-> "goodbye", id |-> id])
    /\ UNCHANGED <<ready, record, cloudState, link, mqttVars, controlVars,
                   ended, asked, issued, wakes, drops, sole, received>>

Server == ServerHello \/ ServerEnd

Next == Mqtt \/ Disconnected \/ Wake \/ Control \/ Server

Spec == Init /\ [][Next]_vars

\* The MQTT task and the control task run, and the server answers hellos.
\* Nothing makes the connection drop, a wake word be heard or the server end
\* a session; a bound session may last.
Fairness ==
    /\ WF_vars(Mqtt)
    /\ WF_vars(ServerHello)
    /\ WF_vars(Control /\ pc # "bound")

FairSpec == Spec /\ Fairness

-----------------------------------------------------------------------------
(* Properties *)

\* The record never holds parts of a session negotiated before the last
\* disconnection, although the control task clears it at any moment and
\* answers to hellos of the last connection are still on their way: "the old
\* key must not be used again" (MQTT_EVENT_DISCONNECTED).
RecordOfThisConnection ==
    mqttPc # "dropped" => {record.id, record.key} \subseteq received \cup {0}

\* If no other hello was outstanding at the wake word and the MQTT task had
\* no reason to touch the record since, the voice channel uses the session
\* its own hello opened, whole, and the record still names it.
OwnSessionBound ==
    sole /\ pc = "bound" =>
        /\ sid = issued
        /\ udpKey = issued
        /\ record = [id |-> issued, key |-> issued]

\* The MQTT connection alone keeps a session: while the device stays
\* subscribed, the session is negotiated again after every goodbye of the
\* server, wake word and reconnection.
SessionComesBack ==
    (link = "subscribed") ~> (ready \/ link # "subscribed")
=============================================================================
