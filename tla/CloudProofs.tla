----------------------------- MODULE CloudProofs -----------------------------
(***************************************************************************)
(* Proofs about cloud_mqtt.c.  The reassembly of CloudDownlink is right    *)
(* for every size of the buffer, of the events and of the messages.  The   *)
(* record of CloudSession holds nothing of an earlier connection           *)
(* (RecordOfThisConnection), and a wake word that meets no other hello     *)
(* gets the session it asked for (OwnSessionBound), for any number of wake *)
(* words, lost connections and goodbyes.                                   *)
(***************************************************************************)
EXTENDS CloudSession, CloudDownlink, Integers, TLAPS

-----------------------------------------------------------------------------
(* The reassembly.                                                         *)

\* What is gathered is the part of the current message before offset, and
\* all of it if the message fits: then nothing was dropped.
GatheredInv ==
    /\ total = 0 => offset = 0
    /\ total > 0 => offset < total
    /\ offset > 0 /\ len > 0 => from + len = offset
    /\ offset > 0 /\ total < DownlinkMax => len = offset /\ from = 0

DownlinkInv == DownlinkTypeOK /\ GatheredInv /\ RoomForZero /\ NeverMixed

\* It holds before the first message.
LEMMA InitDownlink == DownlinkInit => DownlinkInv
  BY SizesAssumption
  DEF DownlinkInit, DownlinkInv, DownlinkTypeOK, GatheredInv, RoomForZero, NeverMixed, Nothing,
      Piece, Pieces

\* An event that does not fit belongs to a message that does not fit.
LEMMA DroppedInv ==
    ASSUME DownlinkInv, total > 0, NEW n \in 1..EventMax, offset + n <= total,
           DataDropped(n)
    PROVE  DownlinkInv'
  <1>1. n \in Nat \ {0} /\ total \in Nat /\ offset \in Nat /\ len \in Nat
    BY SizesAssumption DEF DownlinkInv, DownlinkTypeOK
  <1>2. total >= DownlinkMax
    BY <1>1, SizesAssumption
    DEF DownlinkInv, GatheredInv, DataDropped, TooLong, Gathered
  <1>3. CASE offset + n < total
    BY <1>1, <1>2, <1>3, SizesAssumption
    DEF DownlinkInv, DownlinkTypeOK, GatheredInv, RoomForZero, NeverMixed, DataDropped,
        Advance
  <1>4. CASE offset + n >= total
    BY <1>1, <1>2, <1>4, SizesAssumption
    DEF DownlinkInv, DownlinkTypeOK, GatheredInv, RoomForZero, NeverMixed, DataDropped,
        Advance
  <1> QED BY <1>1, <1>3, <1>4

\* A piece is shorter than the buffer if what was gathered and the event
\* are.
LEMMA Shorter ==
    ASSUME NEW x \in Nat, NEW y \in Nat, NEW z \in Nat, NEW b \in Nat,
           y + z < b
    PROVE  x + y + z < x + b
  OBVIOUS

\* An event that fits follows what was gathered of its message.
LEMMA GatheredPreserved ==
    ASSUME DownlinkInv, total > 0, NEW n \in 1..EventMax, offset + n <= total,
           DataGathered(n)
    PROVE  DownlinkInv'
  <1>1. /\ n \in Nat \ {0} /\ total \in 1..MessageMax
        /\ offset \in 0..MessageMax /\ len \in Nat /\ from \in 0..MessageMax
        /\ MessageMax \in Nat \ {0} /\ DownlinkMax \in Nat \ {0}
    BY SizesAssumption DEF DownlinkInv, DownlinkTypeOK
  <1>2. Gathered \in Nat /\ Gathered + n < DownlinkMax
    BY <1>1 DEF DataGathered, TooLong, Gathered
  <1>3. from' \in 0..MessageMax /\ from' + Gathered = offset
    BY <1>1 DEF DownlinkInv, GatheredInv, DataGathered, Gathered
  <1>4. total < DownlinkMax => Gathered = offset /\ from' = 0
    BY <1>1 DEF DownlinkInv, GatheredInv, DataGathered, Gathered
  <1>5. CASE offset + n < total
    <2>1. /\ len' = Gathered + n /\ handled' = handled
          /\ offset' = offset + n /\ total' = total
      BY <1>5 DEF DataGathered, Advance
    <2>2. DownlinkTypeOK' /\ RoomForZero' /\ NeverMixed'
      BY <1>1, <1>2, <1>3, <1>5, <2>1
      DEF DownlinkInv, DownlinkTypeOK, RoomForZero, NeverMixed
    <2>3. from' + len' = offset'
      <3>1. from' + (Gathered + n) = (from' + Gathered) + n
        BY <1>1, <1>2, <1>3
      <3> QED BY <1>3, <2>1, <3>1
    <2>4. total' < DownlinkMax => len' = offset' /\ from' = 0
      BY <1>4, <2>1
    <2>5. total' > 0 /\ offset' < total'
      BY <1>1, <1>5, <2>1
    <2> QED BY <1>1, <2>2, <2>3, <2>4, <2>5 DEF DownlinkInv, GatheredInv
  <1>6. CASE ~(offset + n < total)
    <2>1. /\ len' = 0 /\ offset' = 0 /\ total' = 0
          /\ handled' = Piece(from', from' + Gathered + n, total)
      BY <1>6 DEF DataGathered, Advance
    <2>2. from' + Gathered + n = total
      <3>1. offset + n = total
        BY <1>1, <1>6
      <3>2. from' + Gathered + n = offset + n
        BY <1>1, <1>2, <1>3
      <3> QED BY <3>1, <3>2
    <2>3. handled' = [first |-> from', end |-> total, total |-> total]
      BY <2>1, <2>2 DEF Piece
    <2>4. DownlinkTypeOK' /\ GatheredInv'
      BY <1>1, <1>3, <2>1, <2>3 DEF DownlinkTypeOK, GatheredInv, Pieces
    <2>5. total < from' + DownlinkMax
      <3>1. from' \in Nat /\ Gathered \in Nat /\ n \in Nat /\ DownlinkMax \in Nat
        BY <1>1, <1>2, <1>3
      <3>2. from' + Gathered + n < from' + DownlinkMax
        BY <1>2, <3>1, Shorter
      <3> QED BY <2>2, <3>2
    <2>6. total < DownlinkMax => from' = 0
      BY <1>4
    <2>7. RoomForZero' /\ NeverMixed'
      BY <1>1, <2>1, <2>3, <2>5, <2>6, SizesAssumption
      DEF RoomForZero, NeverMixed
    <2> QED BY <2>4, <2>7 DEF DownlinkInv
  <1> QED BY <1>5, <1>6

\* Every event, and the loss of a connection, keeps it.
LEMMA StepDownlink == DownlinkInv /\ [DownlinkNext]_downlinkVars => DownlinkInv'
  <1> SUFFICES ASSUME DownlinkInv, [DownlinkNext]_downlinkVars PROVE DownlinkInv'
    OBVIOUS
  <1>1. CASE NewMessage
    BY <1>1, SizesAssumption
    DEF DownlinkInv, DownlinkTypeOK, GatheredInv, RoomForZero, NeverMixed, NewMessage
  <1>2. CASE Data
    BY <1>2, DroppedInv, GatheredPreserved DEF Data
  <1>3. CASE Abandon
    BY <1>3, SizesAssumption
    DEF DownlinkInv, DownlinkTypeOK, GatheredInv, RoomForZero, NeverMixed, Abandon
  <1>4. CASE UNCHANGED downlinkVars
    BY <1>4 DEF DownlinkInv, DownlinkTypeOK, GatheredInv, RoomForZero, NeverMixed, downlinkVars
  <1> QED BY <1>1, <1>2, <1>3, <1>4 DEF DownlinkNext

\* So it holds always.
LEMMA DownlinkInvariant == DownlinkSpec => []DownlinkInv
  BY InitDownlink, StepDownlink, PTL DEF DownlinkSpec

\* Every variable of the reassembly keeps its type.
THEOREM DownlinkTypeCorrect == DownlinkSpec => []DownlinkTypeOK
  BY DownlinkInvariant, PTL DEF DownlinkInv

\* The final zero always fits into s_downlink, whatever the sizes.
THEOREM RoomForZeroCorrect == DownlinkSpec => []RoomForZero
  BY DownlinkInvariant, PTL DEF DownlinkInv

\* Whatever the sizes and wherever connections are lost, handle_downlink is
\* given consecutive bytes of one message up to its end, and all of a message
\* that fits.
THEOREM NeverMixedCorrect == DownlinkSpec => []NeverMixed
  BY DownlinkInvariant, PTL DEF DownlinkInv

-----------------------------------------------------------------------------
(* The record.                                                             *)

USE DEF vars, mqttVars, controlVars, serverVars, boundVars

\* The Server Hello that is being stored was received on this connection.
RecordInv ==
    /\ mqttPc \in {"key", "ready"} => hello \in received
    /\ RecordOfThisConnection

\* A queue without a hello, and one whose only hello names this session.
NoHello(q) == \A i \in 1..Len(q) : q[i].type # "hello"
OneHello(q, id) ==
    \E i \in 1..Len(q) :
        /\ q[i].type = "hello" /\ q[i].id = id
        /\ \A j \in 1..Len(q) : q[j].type = "hello" => j = i

\* Where the answer to the hello of this wake word is, while no other hello is
\* about: not given yet, on its way, half and wholly stored, declared ready; or
\* lost, if the device was not subscribed.
Unanswered ==
    asked = 1 /\ NoHello(downlink) /\ ~ready /\ mqttPc = "idle" /\ record = NoRecord
OnItsWay ==
    /\ asked = 0 /\ OneHello(downlink, issued) /\ ~ready
    /\ mqttPc = "idle" /\ record = NoRecord
Named ==
    /\ asked = 0 /\ NoHello(downlink) /\ ~ready
    /\ mqttPc = "key" /\ hello = issued /\ record = [id |-> issued, key |-> 0]
Keyed ==
    /\ asked = 0 /\ NoHello(downlink) /\ ~ready
    /\ mqttPc = "ready" /\ hello = issued /\ record = [id |-> issued, key |-> issued]
Answered ==
    /\ asked = 0 /\ NoHello(downlink) /\ ready
    /\ mqttPc = "idle" /\ record = [id |-> issued, key |-> issued]
Lost ==
    asked = 0 /\ NoHello(downlink) /\ ~ready /\ mqttPc = "idle" /\ record = NoRecord

\* A device that is not subscribed has nothing to receive.
LinkInv ==
    /\ link # "subscribed" => downlink = << >>
    /\ mqttPc = "dropped" => link = "down"

\* What the wake word has done so far, and which part of the answer it has used.
WakeStage ==
    /\ pc \in {"reopen", "clear", "publish"} =>
           asked = 0 /\ NoHello(downlink) /\ mqttPc \in {"idle", "dropped"}
    /\ pc \in {"clear", "publish"} => ~ready
    /\ pc = "publish" => record = NoRecord
    /\ pc = "wait" =>
           Unanswered \/ OnItsWay \/ Named \/ Keyed \/ Answered \/ Lost
    /\ pc \in {"copyId", "copyKey", "bound", "goodbye"} => Answered
    /\ pc = "copyKey" => copy.id = issued
    /\ pc = "bound" => sid = issued /\ udpKey = issued

OwnInv == LinkInv /\ (sole => WakeStage)

SessionInv == TypeOK /\ RecordInv /\ OwnInv

-----------------------------------------------------------------------------
(* The messages on their way.                                              *)

\* A message is taken from the front,
LEMMA MessageTaken ==
    ASSUME NEW q \in Seq(Messages), q # << >>
    PROVE  /\ Head(q) \in Messages /\ Tail(q) \in Seq(Messages)
           /\ Head(q) = q[1] /\ Len(q) \in Nat \ {0} /\ Len(Tail(q)) = Len(q) - 1
           /\ \A i \in 1..Len(Tail(q)) : Tail(q)[i] = q[i + 1]
OBVIOUS

\* and one is put at the end.
LEMMA MessagePut ==
    ASSUME NEW q \in Seq(Messages), NEW m \in Messages
    PROVE  /\ Append(q, m) \in Seq(Messages)
           /\ Len(q) \in Nat /\ Len(Append(q, m)) = Len(q) + 1
           /\ Append(q, m)[Len(q) + 1] = m
           /\ \A i \in 1..Len(q) : Append(q, m)[i] = q[i]
OBVIOUS

\* No message, no hello.
LEMMA NoMessage == << >> \in Seq(Messages) /\ NoHello(<< >>)
BY DEF NoHello

\* Where there is no hello, none is received;
LEMMA NoHelloTaken ==
    ASSUME NEW q \in Seq(Messages), q # << >>, NoHello(q)
    PROVE  NoHello(Tail(q)) /\ Head(q).type # "hello"
BY MessageTaken DEF NoHello

\* a goodbye makes no difference, and a hello is then the only one.
LEMMA NoHelloPut ==
    ASSUME NEW q \in Seq(Messages), NEW m \in Messages, NoHello(q)
    PROVE  /\ m.type # "hello" => NoHello(Append(q, m))
           /\ m.type = "hello" => OneHello(Append(q, m), m.id)
<1>1. ASSUME m.type # "hello", NEW i \in 1..Len(Append(q, m))
      PROVE  Append(q, m)[i].type # "hello"
  <2>1. i \in 1..Len(q) \/ i = Len(q) + 1
    BY MessagePut
  <2> QED
    BY <1>1, <2>1, MessagePut DEF NoHello
<1>2. ASSUME m.type = "hello" PROVE OneHello(Append(q, m), m.id)
  <2>1. Len(q) + 1 \in 1..Len(Append(q, m)) /\ Append(q, m)[Len(q) + 1] = m
    BY MessagePut
  <2>2. ASSUME NEW j \in 1..Len(Append(q, m)), Append(q, m)[j].type = "hello"
        PROVE  j = Len(q) + 1
    <3>1. j \in 1..Len(q) \/ j = Len(q) + 1
      BY MessagePut
    <3> QED
      BY <2>2, <3>1, MessagePut DEF NoHello
  <2> QED
    BY <1>2, <2>1, <2>2 DEF OneHello
<1> QED
  BY <1>1, <1>2 DEF NoHello

\* The only hello is received as what it is, and then there is none;
LEMMA OneHelloTaken ==
    ASSUME NEW q \in Seq(Messages), q # << >>, NEW id, OneHello(q, id)
    PROVE  /\ Head(q).type = "hello" => Head(q).id = id /\ NoHello(Tail(q))
           /\ Head(q).type # "hello" => OneHello(Tail(q), id)
<1>1. PICK i \in 1..Len(q) :
          /\ q[i].type = "hello" /\ q[i].id = id
          /\ \A j \in 1..Len(q) : q[j].type = "hello" => j = i
  BY DEF OneHello
<1>2. ASSUME Head(q).type = "hello" PROVE Head(q).id = id /\ NoHello(Tail(q))
  <2>1. i = 1
    BY <1>1, <1>2, MessageTaken
  <2>2. ASSUME NEW j \in 1..Len(Tail(q)) PROVE Tail(q)[j].type # "hello"
    BY <1>1, <2>1, <2>2, MessageTaken
  <2> QED
    BY <1>1, <2>1, <2>2, MessageTaken DEF NoHello
<1>3. ASSUME Head(q).type # "hello" PROVE OneHello(Tail(q), id)
  <2>1. i - 1 \in 1..Len(Tail(q)) /\ Tail(q)[i - 1] = q[i]
    BY <1>1, <1>3, MessageTaken
  <2>2. ASSUME NEW j \in 1..Len(Tail(q)), Tail(q)[j].type = "hello"
        PROVE  j = i - 1
    BY <1>1, <2>2, MessageTaken
  <2> QED
    BY <1>1, <2>1, <2>2 DEF OneHello
<1> QED
  BY <1>2, <1>3

\* a goodbye behind it makes no difference.
LEMMA OneHelloPut ==
    ASSUME NEW q \in Seq(Messages), NEW m \in Messages, m.type # "hello",
           NEW id, OneHello(q, id)
    PROVE  OneHello(Append(q, m), id)
<1>1. PICK i \in 1..Len(q) :
          /\ q[i].type = "hello" /\ q[i].id = id
          /\ \A j \in 1..Len(q) : q[j].type = "hello" => j = i
  BY DEF OneHello
<1>2. i \in 1..Len(Append(q, m)) /\ Append(q, m)[i] = q[i]
  BY MessagePut
<1>3. ASSUME NEW j \in 1..Len(Append(q, m)), Append(q, m)[j].type = "hello"
      PROVE  j = i
  <2>1. j \in 1..Len(q) \/ j = Len(q) + 1
    BY MessagePut
  <2> QED
    BY <1>1, <1>3, <2>1, MessagePut
<1> QED
  BY <1>1, <1>2, <1>3 DEF OneHello

-----------------------------------------------------------------------------
(* The types.                                                              *)

\* They hold initially,
LEMMA InitSession == Init => SessionInv
<1> SUFFICES ASSUME Init PROVE SessionInv
  OBVIOUS
<1>1. ready \in BOOLEAN /\ sole \in BOOLEAN
  BY Zenon DEF Init
<1>2. /\ wakes \in 0..MaxWake /\ drops \in 0..MaxDrop /\ ends \in 0..MaxEnd
  BY BoundsAssumption DEF Init
<1>3. TypeOK
  BY <1>1, <1>2, NoMessage
     DEF Init, TypeOK, NoRecord, Records, SessionIds, CloudStates, MqttPcs, ControlPcs
<1>4. RecordInv /\ OwnInv
  BY DEF Init, RecordInv, RecordOfThisConnection, OwnInv, LinkInv, NoRecord
<1> QED
  BY <1>3, <1>4 DEF SessionInv

\* the flags
FlagsType == ready \in BOOLEAN /\ sole \in BOOLEAN

\* and the others.
FieldsType ==
    /\ record \in Records
    /\ cloudState \in CloudStates
    /\ link \in {"down", "connected", "subscribed"}
    /\ mqttPc \in MqttPcs /\ hello \in SessionIds
    /\ pc \in ControlPcs /\ copy \in Records
    /\ sid \in SessionIds /\ udpKey \in SessionIds
    /\ ended \subseteq SessionIds
    /\ asked \in Nat /\ issued \in SessionIds
    /\ downlink \in Seq(Messages)
    /\ wakes \in 0..MaxWake /\ drops \in 0..MaxDrop /\ ends \in 0..MaxEnd
    /\ received \subseteq SessionIds

\* A flag is set, cleared or left,
LEMMA StepFlags == FlagsType /\ [Next]_vars => FlagsType'
<1> SUFFICES ASSUME FlagsType, [Next]_vars PROVE FlagsType'
  OBVIOUS
<1> USE DEF FlagsType
<1>1. CASE Connected \/ Subscribed \/ Disconnected
  BY <1>1, Zenon DEF Connected, Subscribed, Disconnected
<1>2. CASE DroppedClear \/ HelloId \/ HelloKey \/ HelloReady
  BY <1>2, Zenon DEF DroppedClear, HelloId, HelloKey, HelloReady
<1>3. CASE ServerGoodbye
  BY <1>3, Zenon DEF ServerGoodbye
<1>4. CASE MqttReopen \/ MqttClear \/ MqttPublish
  BY <1>4, Zenon DEF MqttReopen, MqttClear, MqttPublish
<1>5. CASE Wake
  BY <1>5, Zenon DEF Wake, Quiet
<1>6. CASE Reopen \/ ReopenClear \/ ReopenPublish \/ WaitReady
  BY <1>6, Zenon DEF Reopen, ReopenClear, ReopenPublish, WaitReady
<1>7. CASE CopyId \/ CopyKey
  BY <1>7, Zenon DEF CopyId, CopyKey
<1>8. CASE HandleEnd \/ SessionLost \/ Finish \/ SendGoodbye \/ Close
  BY <1>8, Zenon DEF HandleEnd, SessionLost, Finish, SendGoodbye, Close
<1>9. CASE ServerHello \/ ServerEnd
  BY <1>9, Zenon DEF ServerHello, ServerEnd
<1>10. CASE UNCHANGED vars
  BY <1>10, Zenon
<1> QED
  BY <1>1, <1>2, <1>3, <1>4, <1>5, <1>6, <1>7, <1>8, <1>9, <1>10
     DEF Next, Mqtt, Control, Server

\* and every step keeps the types.
LEMMA StepFields == FieldsType /\ [Next]_vars => FieldsType'
<1> SUFFICES ASSUME FieldsType, [Next]_vars PROVE FieldsType'
  OBVIOUS
<1> USE DEF FieldsType, NoRecord, Records, SessionIds, CloudStates, MqttPcs, ControlPcs
<1>1. CASE Connected
  BY <1>1 DEF Connected
<1>2. CASE Subscribed
  BY <1>2 DEF Subscribed, PublishHello
<1>3. CASE Disconnected
  BY <1>3, NoMessage, BoundsAssumption DEF Disconnected
<1>4. CASE DroppedClear
  BY <1>4 DEF DroppedClear
<1>5. CASE HelloKey
  BY <1>5 DEF HelloKey
<1>6. CASE HelloReady
  BY <1>6 DEF HelloReady
<1>7. CASE HelloId
  <2>1. Head(downlink) \in Messages /\ Tail(downlink) \in Seq(Messages)
    BY <1>7, MessageTaken DEF HelloId
  <2> QED
    BY <1>7, <2>1 DEF HelloId, Messages
<1>8. CASE ServerGoodbye
  <2>1. Head(downlink) \in Messages /\ Tail(downlink) \in Seq(Messages)
    BY <1>8, MessageTaken DEF ServerGoodbye
  <2> QED
    BY <1>8, <2>1 DEF ServerGoodbye, Messages
<1>9. CASE MqttReopen
  BY <1>9 DEF MqttReopen
<1>10. CASE MqttClear
  BY <1>10 DEF MqttClear
<1>11. CASE MqttPublish
  BY <1>11 DEF MqttPublish, PublishHello
<1>12. CASE Wake
  <2>1. /\ wakes < MaxWake /\ wakes' = wakes + 1 /\ pc' = "reopen"
        /\ UNCHANGED <<record, cloudState, link, mqttVars, copy, sid, udpKey, ended,
                       serverVars, drops, ends, received>>
    BY <1>12 DEF Wake
  <2> QED
    BY <2>1, BoundsAssumption
<1>13. CASE Reopen
  BY <1>13 DEF Reopen
<1>14. CASE ReopenClear
  BY <1>14 DEF ReopenClear
<1>15. CASE ReopenPublish
  BY <1>15 DEF ReopenPublish, PublishHello, HelloRefused
<1>16. CASE WaitReady
  BY <1>16 DEF WaitReady
<1>17. CASE CopyId
  BY <1>17 DEF CopyId
<1>18. CASE CopyKey
  BY <1>18 DEF CopyKey
<1>19. CASE HandleEnd
  BY <1>19 DEF HandleEnd
<1>20. CASE SessionLost
  BY <1>20 DEF SessionLost
<1>21. CASE Finish
  BY <1>21 DEF Finish
<1>22. CASE SendGoodbye
  BY <1>22 DEF SendGoodbye
<1>23. CASE Close
  BY <1>23 DEF Close
<1>24. CASE ServerHello
  <2>1. [type |-> "hello", id |-> issued'] \in Messages
    BY <1>24 DEF ServerHello, Messages
  <2>2. downlink' \in Seq(Messages)
    BY <1>24, <2>1, MessagePut DEF ServerHello, Deliver
  <2> QED
    BY <1>24, <2>2 DEF ServerHello
<1>25. CASE ServerEnd
  <2>1. PICK id \in 0..issued : Deliver([type |-> "goodbye", id |-> id])
    BY <1>25 DEF ServerEnd
  <2>2. [type |-> "goodbye", id |-> id] \in Messages
    BY DEF Messages
  <2>3. downlink' \in Seq(Messages)
    BY <2>1, <2>2, MessagePut DEF Deliver
  <2> QED
    BY <1>25, <2>3, BoundsAssumption DEF ServerEnd
<1>26. CASE UNCHANGED vars
  BY <1>26
<1> QED
  BY <1>1, <1>2, <1>3, <1>4, <1>5, <1>6, <1>7, <1>8, <1>9, <1>10, <1>11,
     <1>12, <1>13, <1>14, <1>15, <1>16, <1>17, <1>18, <1>19, <1>20, <1>21,
     <1>22, <1>23, <1>24, <1>25, <1>26
     DEF Next, Mqtt, Control, Server

\* So TypeOK is inductive.
LEMMA StepSessionType == TypeOK /\ [Next]_vars => TypeOK'
<1>1. TypeOK <=> FlagsType /\ FieldsType
  BY DEF TypeOK, FlagsType, FieldsType
<1>2. TypeOK' <=> FlagsType' /\ FieldsType'
  BY DEF TypeOK, FlagsType, FieldsType
<1> QED
  BY <1>1, <1>2, StepFlags, StepFields

-----------------------------------------------------------------------------
(* The record and the connection.                                          *)

\* What is stored was received, and is forgotten with the connection.
LEMMA StepRecord == TypeOK /\ RecordInv /\ [Next]_vars => RecordInv'
<1> SUFFICES ASSUME TypeOK, RecordInv, [Next]_vars PROVE RecordInv'
  OBVIOUS
<1> USE DEF RecordInv, RecordOfThisConnection
<1>0. /\ record \in [id : Nat, key : Nat]
      /\ NoRecord.id = 0 /\ NoRecord.key = 0
  BY DEF TypeOK, Records, SessionIds, NoRecord
<1>1. CASE Connected \/ Subscribed
  BY <1>1 DEF Connected, Subscribed
<1>2. CASE Disconnected \/ DroppedClear
  BY <1>0, <1>2 DEF Disconnected, DroppedClear
<1>3. CASE HelloId
  BY <1>0, <1>3 DEF HelloId
<1>4. CASE HelloKey \/ HelloReady
  BY <1>0, <1>4 DEF HelloKey, HelloReady
<1>5. CASE ServerGoodbye
  <2>1. UNCHANGED <<record, received>> /\ mqttPc = "idle"
        /\ mqttPc' \in {"idle", "reopen"}
    BY <1>5 DEF ServerGoodbye
  <2> QED
    BY <2>1
<1>6. CASE MqttReopen \/ MqttClear \/ MqttPublish
  BY <1>0, <1>6 DEF MqttReopen, MqttClear, MqttPublish
<1>7. CASE ReopenClear
  BY <1>0, <1>7 DEF ReopenClear
<1>8. CASE Wake \/ (Control /\ ~ReopenClear) \/ Server \/ UNCHANGED vars
  <2>1. UNCHANGED <<record, received, mqttPc, hello>>
    BY <1>8 DEF Wake, Control, Reopen, ReopenPublish, WaitReady, CopyId, CopyKey,
                HandleEnd, SessionLost, Finish, SendGoodbye, Close, Server,
                ServerHello, ServerEnd
  <2> QED
    BY <2>1
<1> QED
  BY <1>1, <1>2, <1>3, <1>4, <1>5, <1>6, <1>7, <1>8 DEF Next, Mqtt

-----------------------------------------------------------------------------
(* A wake word and its session.                                            *)

\* The MQTT task stores the one answer, or comes to close the stage.
LEMMA MqttStepOwn ==
    TypeOK /\ OwnInv /\ (Mqtt \/ Disconnected) => OwnInv'
<1> SUFFICES ASSUME TypeOK, OwnInv, Mqtt \/ Disconnected PROVE OwnInv'
  OBVIOUS
<1> USE DEF OwnInv, LinkInv, WakeStage, Unanswered, OnItsWay, Named, Keyed,
            Answered, Lost
<1>0. /\ downlink \in Seq(Messages) /\ record \in [id : Nat, key : Nat]
      /\ issued \in Nat /\ asked \in Nat
  BY DEF TypeOK, Records, SessionIds
<1>1. CASE Connected
  BY <1>1 DEF Connected
<1>2. CASE Subscribed \/ Disconnected
  BY <1>2 DEF Subscribed, Disconnected, PublishHello
<1>3. CASE DroppedClear
  BY <1>3 DEF DroppedClear
<1>4. CASE HelloId
  <2>1. /\ mqttPc = "idle" /\ downlink # << >> /\ Head(downlink).type = "hello"
        /\ hello' = Head(downlink).id /\ record' = [record EXCEPT !.id = hello']
        /\ downlink' = Tail(downlink) /\ mqttPc' = "key"
        /\ UNCHANGED <<ready, link, pc, copy, sid, udpKey, asked, issued, sole>>
    BY <1>4 DEF HelloId
  <2>2. ~NoHello(downlink)
    BY <1>0, <2>1, NoHelloTaken
  <2>3. OneHello(downlink, issued) => NoHello(Tail(downlink)) /\ hello' = issued
    BY <1>0, <2>1, OneHelloTaken
  <2>4. record = NoRecord => record' = [id |-> hello', key |-> 0]
    BY <2>1 DEF NoRecord
  <2>5. LinkInv'
    BY <2>1
  <2> HIDE DEF LinkInv
  <2> QED
    BY <2>1, <2>2, <2>3, <2>4, <2>5
<1>5. CASE HelloKey
  <2>1. /\ mqttPc = "key" /\ mqttPc' = "ready"
        /\ record' = [record EXCEPT !.key = hello]
        /\ UNCHANGED <<ready, link, hello, downlink, pc, copy, sid, udpKey, asked,
                       issued, sole>>
    BY <1>5 DEF HelloKey
  <2>2. record = [id |-> issued, key |-> 0] /\ hello = issued
            => record' = [id |-> issued, key |-> issued]
    BY <2>1
  <2> QED
    BY <2>1, <2>2
<1>6. CASE HelloReady
  BY <1>6 DEF HelloReady
<1>7. CASE ServerGoodbye
  <2>1. /\ mqttPc = "idle" /\ downlink # << >> /\ Head(downlink).type = "goodbye"
        /\ downlink' = Tail(downlink)
        /\ UNCHANGED <<ready, record, link, hello, pc, copy, sid, udpKey, asked, issued>>
    BY <1>7 DEF ServerGoodbye
  <2>2. \/ ~sole' /\ mqttPc' = "reopen"
        \/ UNCHANGED <<sole, mqttPc>>
    BY <1>7 DEF ServerGoodbye
  <2>3. NoHello(downlink) => NoHello(downlink')
    BY <1>0, <2>1, NoHelloTaken
  <2>4. OneHello(downlink, issued) => OneHello(downlink', issued)
    BY <1>0, <2>1, OneHelloTaken
  <2>5. link = "subscribed"
    BY <2>1
  <2> QED
    BY <2>1, <2>2, <2>3, <2>4, <2>5
<1>8. CASE MqttReopen \/ MqttClear \/ MqttPublish
  BY <1>8 DEF MqttReopen, MqttClear, MqttPublish, PublishHello
<1> QED
  BY <1>1, <1>2, <1>3, <1>4, <1>5, <1>6, <1>7, <1>8 DEF Mqtt

\* The control task asks once, and uses the answer when it is whole.
LEMMA ControlStepOwn == TypeOK /\ OwnInv /\ (Wake \/ Control) => OwnInv'
<1> SUFFICES ASSUME TypeOK, OwnInv, Wake \/ Control PROVE OwnInv'
  OBVIOUS
<1> USE DEF OwnInv, LinkInv, WakeStage, Unanswered, OnItsWay, Named, Keyed,
            Answered, Lost
<1>1. CASE Wake
  <2>1. /\ pc' = "reopen" /\ (sole' => Quiet)
        /\ UNCHANGED <<link, mqttPc, downlink, asked>>
    BY <1>1 DEF Wake
  <2>2. Quiet => asked = 0 /\ NoHello(downlink) /\ mqttPc \in {"idle", "dropped"}
    <3>1. DOMAIN downlink = 1..Len(downlink)
      BY DEF TypeOK
    <3> QED
      BY <3>1 DEF Quiet, NoHello, TypeOK, MqttPcs
  <2> QED
    BY <2>1, <2>2
<1>2. CASE Reopen \/ ReopenClear
  BY <1>2 DEF Reopen, ReopenClear
<1>3. CASE ReopenPublish
  BY <1>3 DEF ReopenPublish, PublishHello, HelloRefused, TypeOK
<1>4. CASE WaitReady
  BY <1>4 DEF WaitReady
<1>5. CASE CopyId
  BY <1>5 DEF CopyId, TypeOK, Records, SessionIds
<1>6. CASE CopyKey
  BY <1>6 DEF CopyKey
<1>7. CASE HandleEnd \/ SessionLost \/ Finish \/ SendGoodbye \/ Close
  BY <1>7 DEF HandleEnd, SessionLost, Finish, SendGoodbye, Close
<1> QED
  BY <1>1, <1>2, <1>3, <1>4, <1>5, <1>6, <1>7 DEF Control

\* The server answers the one hello, and may say goodbye.
LEMMA ServerStepOwn == TypeOK /\ OwnInv /\ (Server \/ UNCHANGED vars) => OwnInv'
<1> SUFFICES ASSUME TypeOK, OwnInv, Server \/ UNCHANGED vars PROVE OwnInv'
  OBVIOUS
<1> USE DEF OwnInv, LinkInv, WakeStage, Unanswered, OnItsWay, Named, Keyed,
            Answered, Lost
<1>0. /\ downlink \in Seq(Messages) /\ issued \in Nat /\ asked \in Nat
  BY DEF TypeOK, SessionIds
<1>1. CASE ServerHello
  <2> DEFINE message == [type |-> "hello", id |-> issued']
  <2>1. /\ asked > 0 /\ asked' = asked - 1 /\ issued' = issued + 1
        /\ UNCHANGED <<ready, record, link, mqttPc, hello, pc, copy, sid, udpKey, sole>>
    BY <1>1 DEF ServerHello
  <2>2. /\ link = "subscribed" => downlink' = Append(downlink, message)
        /\ link # "subscribed" => downlink' = downlink
    BY <1>1 DEF ServerHello, Deliver
  <2>3. message \in Messages /\ message.type = "hello" /\ message.id = issued'
    BY <1>0, <2>1 DEF Messages, SessionIds
  <2>4. NoHello(downlink) => OneHello(Append(downlink, message), issued')
    <3> HIDE DEF message
    <3> QED
      BY <1>0, <2>3, NoHelloPut
  <2> HIDE DEF message
  <2>5. sole => /\ pc \notin {"reopen", "clear", "publish", "copyId", "copyKey",
                             "bound", "goodbye"}
                /\ pc = "wait" => Unanswered
    BY <1>0, <2>1
  <2>6. pc = "wait" /\ Unanswered => OnItsWay' \/ Lost'
    <3>1. Unanswered => asked' = 0
      BY <2>1
    <3>2. Unanswered => NoHello(downlink) /\ ~ready' /\ mqttPc' = "idle" /\ record' = NoRecord
      BY <2>1, Zenon
    <3> QED
      BY <2>2, <2>4, <3>1, <3>2, Zenon
  <2>7. LinkInv'
    BY <2>1, <2>2
  <2> HIDE DEF LinkInv, Unanswered, OnItsWay, Named, Keyed, Answered, Lost
  <2> QED
    BY <2>1, <2>5, <2>6, <2>7
<1>2. CASE ServerEnd
  <2>1. PICK id \in 0..issued : Deliver([type |-> "goodbye", id |-> id])
    BY <1>2 DEF ServerEnd
  <2> DEFINE message == [type |-> "goodbye", id |-> id]
  <2>2. /\ UNCHANGED <<ready, record, link, mqttPc, hello, pc, copy, sid, udpKey,
                       asked, issued, sole>>
        /\ link = "subscribed" => downlink' = Append(downlink, message)
        /\ link # "subscribed" => downlink' = downlink
    BY <1>2, <2>1 DEF ServerEnd, Deliver
  <2>3. message \in Messages /\ message.type # "hello"
    BY <1>0 DEF Messages, SessionIds
  <2>4. /\ NoHello(downlink) => NoHello(Append(downlink, message))
        /\ OneHello(downlink, issued) => OneHello(Append(downlink, message), issued)
    <3> HIDE DEF message
    <3> QED
      BY <1>0, <2>3, NoHelloPut, OneHelloPut
  <2> HIDE DEF message
  <2> QED
    BY <1>0, <2>2, <2>4
<1>3. CASE UNCHANGED vars
  BY <1>3
<1> QED
  BY <1>1, <1>2, <1>3 DEF Server

\* The record and the wake word, in every reachable state.
LEMMA SessionInvariant == Spec => []SessionInv
<1>1. SessionInv /\ [Next]_vars => SessionInv'
  BY StepSessionType, StepRecord, MqttStepOwn, ControlStepOwn, ServerStepOwn
     DEF SessionInv, Next
<1> QED
  BY <1>1, InitSession, PTL DEF Spec

\* Every variable of the session keeps its type.
THEOREM SessionTypeCorrect == Spec => []TypeOK
<1>1. SessionInv => TypeOK
  BY DEF SessionInv
<1> QED
  BY <1>1, SessionInvariant, PTL

\* RecordOfThisConnection is an invariant: no part of a session outlives the
\* connection it was negotiated on, however often it drops.
THEOREM RecordOfThisConnectionCorrect == Spec => []RecordOfThisConnection
<1>1. SessionInv => RecordOfThisConnection
  BY DEF SessionInv, RecordInv
<1> QED
  BY <1>1, SessionInvariant, PTL

\* OwnSessionBound is an invariant: a wake word that meets no other hello gets
\* the session its own hello opened, whole.
THEOREM OwnSessionBoundCorrect == Spec => []OwnSessionBound
<1>1. SessionInv => OwnSessionBound
  BY DEF SessionInv, OwnInv, WakeStage, Answered, OwnSessionBound
<1> QED
  BY <1>1, SessionInvariant, PTL
=============================================================================
