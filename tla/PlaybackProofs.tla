---------------------------- MODULE PlaybackProofs ----------------------------
(***************************************************************************)
(* Proofs about the way of a reply to the loudspeaker, for any number of    *)
(* sessions, packets, buffers and places in the queues: no buffer is lost   *)
(* (PoolConserved), nobody uses the key of another session (KeyOfChannel),  *)
(* sound is spoken in its order (SpokenInOrder) and in its own session      *)
(* (SpeaksForSession), and when the microphone is reopened what has been    *)
(* received by then is played (MicAfterHeard).                              *)
(***************************************************************************)
EXTENDS Playback, TLAPS

USE DEF vars, controlVars, encoderVars, decodeVars, outputVars, pipeVars, clockVars,
        lookVars, udpVars

-----------------------------------------------------------------------------
(* The invariants.                                                          *)

\* Where the control task is while the old session's channel is stopped for a
\* new one.
Stopping == {"revoke", "shut", "wait", "forget"}
Connecting == ctl \in {"drain", "bind", "hello", "listen"}
              \/ (ctl \in Stopping /\ ret = "bind")

\* The receive task in and on its way out of its channel.
RxOpen == {"recv", "got", "decrypt", "deliver", "enqueue", "evict", "requeue"}
RxPlaces == RxOpen \cup {"none", "exit", "leave"}

ControlType ==
    /\ ctl \in {"loop", "drain", "bind", "hello", "listen", "close", "leave", "idle",
                "revoke", "shut", "wait", "forget"} \cup Looking
    /\ ret \in {"bind", "leave"}
    /\ state \in {"idle", "connecting", "listening", "speaking"}
    /\ enc \in {"idle", "guarded", "sending"}
    /\ guard \in {"free", "encoder", "control"}
    /\ mutex \in {"free", "sender", "rx"}
    /\ rx \in RxPlaces

FlagType ==
    /\ ready \in BOOLEAN /\ running \in BOOLEAN
    /\ channel \in BOOLEAN /\ uplink \in BOOLEAN /\ finished \in BOOLEAN
    /\ raced \in BOOLEAN

\* Who is in the channel, and with which key.  The encoder holds its guard from
\* before it looks at the session until it has sent; the control task is not
\* on its way to stop or to start a channel meanwhile.
LinkInv ==
    /\ running = ready
    /\ ready => sock # 0 /\ key = sock /\ rxSock = sock /\ rx \in RxOpen
    /\ rx = "decrypt" <=> mutex = "rx"
    /\ rx = "none" <=> rxSock = 0
    /\ enc = "sending" <=> mutex = "sender"
    /\ enc # "idle" <=> guard = "encoder"
    /\ mutex = "sender" => sock # 0 /\ key = sock
    /\ rx = "decrypt" => key = rxSock
    /\ channel => /\ ctl \in {"listen", "loop", "close"} \cup Looking /\ state # "idle"
                  /\ ready /\ sock = sid /\ sid # 0
    /\ ctl \notin {"listen", "loop", "close"} \cup Looking => guard # "encoder"
    /\ ctl \in {"shut", "wait", "forget"} => ~ready
    /\ Connecting => state = "connecting"
    /\ ctl = "hello" => session # 0

\* Sessions are counted; so are the packets of each.
CountType ==
    /\ sid \in Sessions \cup {0} /\ session \in Sessions \cup {0}
    /\ sock \in Sessions \cup {0} /\ key \in Sessions \cup {0}
    /\ rxSock \in Sessions \cup {0}
    /\ Connecting /\ ctl \notin {"hello", "listen"} => session < MaxSession
    /\ rx \in RxOpen \ {"recv"} => packet # 0
    /\ packet # 0 => rx # "none" /\ packet \in 1 .. Sent[rxSock]
    /\ rxSeq # 0 => rx # "none" /\ rxSeq \in 1 .. Sent[rxSock]
    /\ packet \in Nat /\ rxSeq \in Nat

\* Sound in the queues and in the hands of the tasks.
PipeType ==
    /\ queue \in Seq(Sounds) /\ Len(queue) <= QueueDepth
    /\ readyQ \in Seq(Sounds) /\ Len(readyQ) <= ReadyDepth
    /\ dec \in {"idle", "buffer", "put"}
    /\ decSound \in Sounds \cup {<< >>} /\ (dec # "idle" => decSound \in Sounds)
    /\ out \in {"idle", "taken", "write"}
    /\ outSound \in Sounds \cup {<< >>} /\ (out # "idle" => outSound \in Sounds)
    /\ spoken \in Sounds \cup {<< >>}
    /\ free \in Nat

ClockType ==
    /\ waited \in 0 .. Patience
    /\ sinceRx \in Ages /\ sinceOut \in Ages /\ sinceStop \in Ages
    /\ writing \in 0 .. 1 /\ silence \in 0 .. 1

\* The sound, in the order in which it is on its way: before the TakenSet what
\* has been spoken last, and behind the QueueSet what the receive task holds.
SpokenSet == One(spoken # << >>, spoken)
RxHolds == {"deliver", "enqueue", "evict", "requeue"}
RxSet == One(rx \in RxHolds, <<rxSock, packet>>)

Increasing(q) == \A i, j \in 1 .. Len(q) : i < j => Later(q[j], q[i])
AllLater(A, B) == \A a \in A, b \in B : Later(b, a)

OrderInv ==
    /\ Increasing(queue) /\ Increasing(readyQ)
    /\ AllLater(SpokenSet, TakenSet \cup ReadySet \cup DecodeSet \cup QueueSet \cup RxSet)
    /\ AllLater(TakenSet, ReadySet \cup DecodeSet \cup QueueSet \cup RxSet)
    /\ AllLater(ReadySet, DecodeSet \cup QueueSet \cup RxSet)
    /\ AllLater(DecodeSet, QueueSet \cup RxSet)
    /\ AllLater(QueueSet, RxSet)

\* Nothing is on its way that is later than what the receive task has let
\* through, nor of a session that is still to come.
InPipe == TakenSet \cup ReadySet \cup DecodeSet \cup QueueSet
Heard == SpokenSet \cup InPipe

Marked(a) ==
    /\ a[1] <= session
    /\ ctl = "hello" => a[1] < session
    /\ rx # "none" => a[1] <= rxSock /\ (a[1] = rxSock => a[2] <= rxSeq)

MarkInv ==
    /\ \A a \in Heard : Marked(a)
    /\ rxSock <= session /\ (ctl = "hello" => rxSock < session)
    /\ rx \in RxHolds => packet = rxSeq

\* The channel is opened when time has passed since the pipeline was seen empty:
\* by then the packet is gone that the task of the old session may have put into
\* the queue.
QuietInv ==
    /\ (ctl \in Stopping /\ ret = "bind") \/ ctl \in {"bind", "hello"} =>
         dec = "idle" /\ readyQ = << >> /\ out # "write"
    /\ ctl = "hello" /\ waited > 0 =>
         queue = << >> /\ out = "idle" /\ rx \notin {"enqueue", "evict", "requeue"}

\* So the sound that may still be spoken is of the session under way.
SessionInv == channel => \A a \in InPipe : a[1] = sid

\* What the callback has let through and the playback queue has not got yet.
HandSet == One(rx \in {"enqueue", "evict", "requeue"}, <<rxSock, packet>>)

\* When time has passed since the reply was finished, sound that is still on its
\* way has come, or been spoken, too recently for the microphone.
MicInv ==
    /\ state = "speaking" /\ finished /\ sinceStop >= 1 =>
         /\ \/ out = "write" /\ writing = 1
            \/ sinceRx < Margin \/ sinceOut < Margin
            \/ /\ queue = << >> /\ dec = "idle" /\ readyQ = << >> /\ out = "idle"
               /\ silence = 1 /\ rx \notin {"enqueue", "evict", "requeue"}
         /\ rx \in {"enqueue", "evict", "requeue"} => sinceRx < Margin
    /\ out = "write" => silence = 0

\* What each look of the control task has made sure of, and what comes after it
\* has been received since the first.  The times leave one thing open, a write
\* that lasts already; it is seen at the look at the tasks, or has ended.
Lasts == out = "write" /\ writing = 1
NewInPipe == InPipe \cup Playing \subseteq late

LookInv ==
    /\ late \subseteq Sounds
    /\ ctl \in Looking =>
         /\ HandSet \subseteq late
         /\ NewInPipe \/ raced \/ (ctl = "tasks" /\ Lasts)
    /\ ctl \in Looking \ {"tasks"} => DecodeSet \cup QueueSet \subseteq late
    /\ ctl \in {"publish", "reopen"} => ReadySet \subseteq late
-----------------------------------------------------------------------------
(* Sequences of sound.                                                     *)

\* Taking the first element.
LEMMA Taken ==
    ASSUME NEW S, NEW q \in Seq(S), q # << >>
    PROVE  /\ Head(q) \in S /\ Tail(q) \in Seq(S)
           /\ Len(q) \in Nat /\ Len(q) > 0 /\ Len(Tail(q)) = Len(q) - 1
           /\ Head(q) = q[1] /\ \A i \in 1 .. Len(q) - 1 : Tail(q)[i] = q[i + 1]
OBVIOUS

\* Adding an element behind the others.
LEMMA Added ==
    ASSUME NEW S, NEW q \in Seq(S), NEW a \in S
    PROVE  /\ Append(q, a) \in Seq(S) /\ Len(q) \in Nat
           /\ Len(Append(q, a)) = Len(q) + 1 /\ Append(q, a)[Len(q) + 1] = a
           /\ \A i \in 1 .. Len(q) : Append(q, a)[i] = q[i]
OBVIOUS

\* The empty sequence.
LEMMA Empty ==
    ASSUME NEW S
    PROVE  << >> \in Seq(S) /\ Len(<< >>) = 0
OBVIOUS

\* The elements of a sequence one is taken from, or added to.
LEMMA ElementsOf ==
    /\ Elements(<< >>) = {}
    /\ \A S : \A q \in Seq(S) :
         /\ q # << >> => /\ Head(q) \in Elements(q) /\ Elements(Tail(q)) \subseteq Elements(q)
         /\ Elements(q) \subseteq S
         /\ \A a \in S : Elements(Append(q, a)) = Elements(q) \cup {a}
<1>1. Elements(<< >>) = {}
  BY DEF Elements
<1>2. ASSUME NEW S, NEW q \in Seq(S), q # << >>
      PROVE  Head(q) \in Elements(q) /\ Elements(Tail(q)) \subseteq Elements(q)
  BY <1>2, Taken DEF Elements
<1>3. ASSUME NEW S, NEW q \in Seq(S)
      PROVE  Elements(q) \subseteq S
  BY <1>3 DEF Elements
<1>4. ASSUME NEW S, NEW q \in Seq(S), NEW a \in S
      PROVE  Elements(Append(q, a)) = Elements(q) \cup {a}
  <2>1. /\ Len(q) \in Nat
        /\ Len(Append(q, a)) = Len(q) + 1 /\ Append(q, a)[Len(q) + 1] = a
        /\ \A i \in 1 .. Len(q) : Append(q, a)[i] = q[i]
    BY Added
  <2>2. PICK r : r = Append(q, a)
    OBVIOUS
  <2>3. /\ Len(r) = Len(q) + 1 /\ r[Len(q) + 1] = a
        /\ \A i \in 1 .. Len(q) : r[i] = q[i]
    BY <2>1, <2>2, Zenon
  <2>4. Elements(r) = Elements(q) \cup {a}
    BY <2>1, <2>3 DEF Elements
  <2> QED
    BY <2>2, <2>4, Zenon
<1> QED
  BY <1>1, <1>2, <1>3, <1>4, Zenon

\* Order survives both, when what is added is later than what is there.
LEMMA StaysIncreasing ==
    ASSUME NEW S, NEW q \in Seq(S), Increasing(q)
    PROVE  /\ q # << >> => /\ Increasing(Tail(q))
                           /\ \A b \in Elements(Tail(q)) : Later(b, Head(q))
           /\ \A a \in S : (\A b \in Elements(q) : Later(a, b)) => Increasing(Append(q, a))
<1>1. ASSUME q # << >>
      PROVE  Increasing(Tail(q)) /\ \A b \in Elements(Tail(q)) : Later(b, Head(q))
  <2>1. PICK r : r = Tail(q)
    OBVIOUS
  <2>2. /\ Len(q) \in Nat /\ Len(r) = Len(q) - 1 /\ Head(q) = q[1] /\ Len(q) > 0
        /\ \A i \in 1 .. Len(q) - 1 : r[i] = q[i + 1]
    BY <1>1, <2>1, Taken
  <2>3. Increasing(r)
    BY <2>2 DEF Increasing
  <2>4. \A b \in Elements(r) : Later(b, Head(q))
    BY <2>2 DEF Increasing, Elements
  <2> QED
    BY <2>1, <2>3, <2>4, Zenon
<1>2. ASSUME NEW a \in S, \A b \in Elements(q) : Later(a, b)
      PROVE  Increasing(Append(q, a))
  <2>1. PICK r : r = Append(q, a)
    OBVIOUS
  <2>2. /\ Len(q) \in Nat /\ Len(r) = Len(q) + 1 /\ r[Len(q) + 1] = a
        /\ \A i \in 1 .. Len(q) : r[i] = q[i]
    BY <2>1, Added
  <2>3. Increasing(r)
    <3> SUFFICES ASSUME NEW i \in 1 .. Len(r), NEW j \in 1 .. Len(r), i < j
                 PROVE  Later(r[j], r[i])
      BY DEF Increasing
    <3>1. CASE j = Len(r)
      <4>1. i \in 1 .. Len(q) /\ r[j] = a /\ r[i] = q[i]
        BY <2>2, <3>1
      <4>2. q[i] \in Elements(q)
        BY <4>1 DEF Elements
      <4> QED
        BY <1>2, <4>1, <4>2
    <3>2. CASE j # Len(r)
      <4>1. i \in 1 .. Len(q) /\ j \in 1 .. Len(q)
        BY <2>2, <3>2
      <4> QED
        BY <2>2, <4>1 DEF Increasing
    <3> QED
      BY <3>1, <3>2
  <2> QED
    BY <2>1, <2>3, Zenon
<1> QED
  BY <1>1, <1>2, Zenon

\* There is nothing to order in an empty sequence.
LEMMA EmptyIncreases == Increasing(<< >>)
BY DEF Increasing

\* Packets are counted from 1, up to as many as the gateway sends.
LEMMA Counted ==
    /\ \A s \in Sessions : s \in Nat /\ s > 0 /\ s <= MaxSession /\ Sent[s] \in Nat
    /\ \A p \in Packets : p \in Nat /\ p > 0
    /\ \A s \in Sessions : 1 .. Sent[s] \subseteq Packets
<1>1. \A s \in Sessions : s \in Nat /\ s > 0 /\ s <= MaxSession /\ Sent[s] \in Nat
  BY UdpAssumption DEF Sessions
<1> QED
  BY <1>1 DEF Packets

-----------------------------------------------------------------------------
(* Control, channel and encoder.                                           *)

\* What resume_listening_after_playback does, step by step, to the rest.
LEMMA ResumeMoves ==
    ASSUME Resume
    PROVE  /\ UNCHANGED <<udpVars, ret, sid, session, channel, finished, encoderVars,
                          pipeVars, sinceRx, sinceOut, sinceStop, writing, silence>>
           /\ waited' = 0
           /\ \/ ctl = "loop" /\ ctl' = "tasks"
              \/ ctl \in Looking /\ ctl' \in Looking \cup {"loop", "close"}
           /\ UNCHANGED lookVars \/ (late' = {} /\ raced' = FALSE)
           /\ \/ UNCHANGED <<state, uplink>>
              \/ ctl = "reopen" /\ ctl' = "loop" /\ state' = "listening" /\ uplink' = TRUE
BY Zenon
DEF Resume, LookAtTimes, LookAtTasks, LookAtPackets, LookAtPcm, Publish, Reopen,
    LookOn, LookEnds, LookInVain, Goto, Looking

\* The places of the tasks.
LEMMA ControlStep ==
    ASSUME ControlType, [Next]_vars
    PROVE  ControlType'
<1> USE DEF ControlType, RxPlaces, RxOpen
<1>1. CASE Control
  <2>1. CASE Resume
    <3>1. /\ UNCHANGED <<ret, enc, guard, mutex, rx>>
          /\ ctl' \in Looking \cup {"loop", "close"}
          /\ state' = state \/ state' = "listening"
      BY <2>1, ResumeMoves, Zenon DEF Looking
    <3> QED
      BY <3>1
  <2> QED
    BY <1>1, <2>1
    DEF Control, Wake, DrainWait, Bind, HelloAnswered, HelloFails, StartListening,
        TtsStart, TtsStop, EndSession, CloseChannel, StopRevoke, StopClose,
        StopWait, StopForget, ForgetSession, EnterIdle, Goto, UdpStart,
        UdpStartFails, UdpRevoke, UdpClose, UdpForgetKey
<1>2. CASE Encoder
  BY <1>2 DEF Encoder, Encode, EncodeSend, EncodeSent, SendBegin, SendEnd
<1>3. CASE Receiver
  BY <1>3
  DEF Receiver, RxChannel, RxRevoked, RxGot, RxDecrypt, RxExit, RxLeave, Deliver,
      EnqueueSound, Enqueue, RxGoto, RxAgain
<1>4. CASE Decoder \/ Output \/ Tick \/ UNCHANGED vars
  BY <1>4
  DEF Decoder, DecodeTake, DecodeBuffer, DecodePut, Output, OutputTake,
      OutputStart, OutputEnd, OutputFails, Tick
<1>5. CASE \E p \in Packets : Arrive(p)
  BY <1>5 DEF Arrive, RxReceive
<1> QED
  BY <1>1, <1>2, <1>3, <1>4, <1>5 DEF Next

\* The bits and flags.
LEMMA FlagStep ==
    ASSUME FlagType, ControlType, [Next]_vars
    PROVE  FlagType'
<1> USE DEF FlagType
<1>1. CASE Wake \/ DrainWait \/ Bind
  BY <1>1, Zenon DEF Wake, Goto, DrainWait, PipelineEmpty, AtRest, Bind
<1>2. CASE HelloAnswered \/ HelloFails \/ StartListening
  BY <1>2, Zenon
  DEF HelloAnswered, Goto, UdpStart, HelloFails, UdpStartFails, StartListening
<1>3. CASE TtsStart \/ TtsStop \/ EndSession
  BY <1>3, Zenon DEF TtsStart, TtsStop, EndSession, Goto
<1>4. CASE Resume
  BY <1>4, ResumeMoves, Zenon
<1>5. CASE CloseChannel \/ StopRevoke \/ StopClose
  BY <1>5, Zenon
  DEF CloseChannel, Goto, StopRevoke, UdpRevoke, NothingToStop, StopClose,
      UdpClose
<1>6. CASE StopWait \/ StopForget
  BY <1>6, Zenon DEF StopWait, Goto, StopForget, UdpForgetKey
<1>7. CASE ForgetSession \/ EnterIdle
  BY <1>7, Zenon DEF ForgetSession, Goto, EnterIdle
<1>8. CASE Encode \/ EncodeSend \/ EncodeSent
  BY <1>8, Zenon DEF Encode, EncodeSend, SendBegin, EncodeSent, SendEnd
<1>9. CASE RxChannel
  BY <1>9, Zenon
  DEF RxChannel, RxRevoked, RxGot, RxDecrypt, RxExit, RxLeave, RxGoto, RxAgain
<1>10. CASE Deliver
  BY <1>10, Zenon DEF Deliver, RxGoto, RxAgain
<1>11. CASE EnqueueSound
  BY <1>11, Zenon DEF EnqueueSound, Enqueue, RxGoto, RxAgain
<1>12. CASE DecodeTake \/ DecodeBuffer \/ DecodePut
  BY <1>12, Zenon DEF DecodeTake, DecodeBuffer, DecodePut
<1>13. CASE OutputTake \/ OutputStart \/ OutputEnd \/ OutputFails
  BY <1>13, Zenon
  DEF OutputTake, OutputStart, GiveBack, OutputEnd, OutputFails
<1>14. CASE Tick
  BY <1>14, Zenon DEF Tick
<1>15. CASE UNCHANGED vars
  BY <1>15, Zenon
<1>16. CASE \E p \in Packets : Arrive(p)
  BY <1>16, Zenon DEF Arrive, RxReceive
<1> QED
  BY <1>1, <1>2, <1>3, <1>4, <1>5, <1>6, <1>7, <1>8, <1>9, <1>10, <1>11,
     <1>12, <1>13, <1>14, <1>15, <1>16
  DEF Next, Control, Encoder, Receiver, Decoder, Output

\* The channel and its key belong to one session.
LEMMA LinkStep ==
    ASSUME ControlType, FlagType, CountType, LinkInv, [Next]_vars
    PROVE  LinkInv'
<1> USE DEF ControlType, LinkInv, Connecting, Stopping, RxOpen, RxPlaces,
            FlagType, Looking
<1>1. session \in Nat
  BY UdpAssumption DEF CountType, Sessions
<1>2. CASE Wake
  BY <1>2 DEF Wake, Goto
<1>3. CASE DrainWait
  BY <1>3 DEF DrainWait, Goto, PipelineEmpty
<1>4. CASE Bind
  BY <1>4, <1>1 DEF Bind, Goto
<1>5. CASE HelloAnswered
  BY <1>5 DEF HelloAnswered, Goto, UdpStart
<1>6. CASE HelloFails
  BY <1>6 DEF HelloFails, Goto, UdpStartFails
<1>7. CASE StartListening
  BY <1>7 DEF StartListening, Goto
<1>8. CASE TtsStart
  BY <1>8 DEF TtsStart
<1>9. CASE TtsStop
  BY <1>9 DEF TtsStop
<1>10. CASE EndSession
  BY <1>10 DEF EndSession, Goto
<1>11. CASE Resume
  <2>1. /\ UNCHANGED <<udpVars, ret, sid, session, enc, guard>>
        /\ ctl \in Looking \cup {"loop"} /\ ctl' \in Looking \cup {"loop", "close"}
        /\ state' = state \/ state' = "listening"
    BY <1>11, ResumeMoves, Zenon DEF Looking
  <2>2. channel' => channel
    BY <1>11, ResumeMoves, Zenon
  <2> QED
    BY <2>1, <2>2
<1>12. CASE CloseChannel
  BY <1>12 DEF CloseChannel, Goto
<1>13. CASE StopRevoke
  <2>1. ~channel
    BY <1>13 DEF StopRevoke
  <2>2. CASE NothingToStop /\ Goto(ret) /\ UNCHANGED udpVars
    BY <1>13, <2>1, <2>2 DEF StopRevoke, Goto, NothingToStop
  <2>3. CASE Goto("shut") /\ UdpRevoke
    BY <1>13, <2>1, <2>3 DEF StopRevoke, Goto, UdpRevoke
  <2> QED
    BY <1>13, <2>2, <2>3 DEF StopRevoke
<1>14. CASE StopClose
  BY <1>14 DEF StopClose, Goto, UdpClose
<1>15. CASE StopWait
  BY <1>15 DEF StopWait, Goto
<1>16. CASE StopForget
  BY <1>16 DEF StopForget, Goto, UdpForgetKey
<1>17. CASE ForgetSession
  BY <1>17 DEF ForgetSession, Goto
<1>18. CASE EnterIdle
  BY <1>18 DEF EnterIdle, Goto
<1>19. CASE Encode
  BY <1>19 DEF Encode
<1>20. CASE EncodeSend
  BY <1>20 DEF EncodeSend, SendBegin
<1>21. CASE EncodeSent
  BY <1>21 DEF EncodeSent, SendEnd
<1>22. CASE RxChannel
  BY <1>22
  DEF RxChannel, RxRevoked, RxGot, RxDecrypt, RxExit, RxLeave, RxGoto, RxAgain
<1>23. CASE Deliver
  BY <1>23 DEF Deliver, RxGoto, RxAgain
<1>24. CASE EnqueueSound
  BY <1>24 DEF EnqueueSound, Enqueue, RxGoto, RxAgain
<1>25. CASE DecodeTake
  BY <1>25 DEF DecodeTake
<1>26. CASE DecodeBuffer
  BY <1>26 DEF DecodeBuffer
<1>27. CASE DecodePut
  BY <1>27 DEF DecodePut
<1>28. CASE OutputTake
  BY <1>28 DEF OutputTake
<1>29. CASE OutputStart
  BY <1>29 DEF OutputStart, GiveBack
<1>30. CASE OutputEnd
  BY <1>30 DEF OutputEnd, GiveBack
<1>31. CASE OutputFails
  BY <1>31 DEF OutputFails, GiveBack
<1>32. CASE Tick
  BY <1>32 DEF Tick
<1>33. CASE UNCHANGED vars
  BY <1>33
<1>34. CASE \E p \in Packets : Arrive(p)
  BY <1>34 DEF Arrive, RxReceive
<1> QED
  BY <1>2, <1>3, <1>4, <1>5, <1>6, <1>7, <1>8, <1>9, <1>10, <1>11, <1>12,
     <1>13, <1>14, <1>15, <1>16, <1>17, <1>18, <1>19, <1>20, <1>21, <1>22,
     <1>23, <1>24, <1>25, <1>26, <1>27, <1>28, <1>29, <1>30, <1>31, <1>32,
     <1>33, <1>34
  DEF Next, Control, Encoder, Receiver, Decoder, Output

\* Sessions and packets stay within what is counted.
LEMMA CountStep ==
    ASSUME ControlType, LinkInv, CountType, [Next]_vars
    PROVE  CountType'
<1> USE DEF ControlType, LinkInv, CountType, Connecting, Stopping, RxOpen,
            RxPlaces
<1>1. CASE Wake
  BY <1>1 DEF Wake, Goto
<1>2. CASE DrainWait
  BY <1>2 DEF DrainWait, Goto, PipelineEmpty
<1>3. CASE Bind
  <2>1. session + 1 \in Sessions
    BY <1>3, UdpAssumption DEF Bind, Sessions
  <2> QED
    BY <1>3, <2>1 DEF Bind, Goto
<1>4. CASE HelloAnswered
  BY <1>4 DEF HelloAnswered, Goto, UdpStart
<1>5. CASE HelloFails
  BY <1>5 DEF HelloFails, Goto, UdpStartFails
<1>6. CASE StartListening
  BY <1>6 DEF StartListening, Goto
<1>7. CASE TtsStart
  BY <1>7 DEF TtsStart
<1>8. CASE TtsStop
  BY <1>8 DEF TtsStop
<1>9. CASE EndSession
  BY <1>9 DEF EndSession, Goto
<1>10. CASE Resume
  BY <1>10, ResumeMoves DEF Looking
<1>11. CASE CloseChannel
  BY <1>11 DEF CloseChannel, Goto
<1>12. CASE StopRevoke
  BY <1>12 DEF StopRevoke, Goto, UdpRevoke, NothingToStop
<1>13. CASE StopClose
  BY <1>13 DEF StopClose, Goto, UdpClose
<1>14. CASE StopWait
  BY <1>14 DEF StopWait, Goto
<1>15. CASE StopForget
  BY <1>15 DEF StopForget, Goto, UdpForgetKey
<1>16. CASE ForgetSession
  BY <1>16 DEF ForgetSession, Goto
<1>17. CASE EnterIdle
  BY <1>17 DEF EnterIdle, Goto
<1>18. CASE Encode
  BY <1>18 DEF Encode
<1>19. CASE EncodeSend
  BY <1>19 DEF EncodeSend, SendBegin
<1>20. CASE EncodeSent
  BY <1>20 DEF EncodeSent, SendEnd
<1>21. CASE RxChannel
  BY <1>21
  DEF RxChannel, RxRevoked, RxGot, RxDecrypt, RxExit, RxLeave, RxGoto, RxAgain
<1>22. CASE Deliver
  BY <1>22 DEF Deliver, RxGoto, RxAgain
<1>23. CASE EnqueueSound
  BY <1>23 DEF EnqueueSound, Enqueue, RxGoto, RxAgain
<1>24. CASE DecodeTake
  BY <1>24 DEF DecodeTake
<1>25. CASE DecodeBuffer
  BY <1>25 DEF DecodeBuffer
<1>26. CASE DecodePut
  BY <1>26 DEF DecodePut
<1>27. CASE OutputTake
  BY <1>27 DEF OutputTake
<1>28. CASE OutputStart
  BY <1>28 DEF OutputStart, GiveBack
<1>29. CASE OutputEnd
  BY <1>29 DEF OutputEnd, GiveBack
<1>30. CASE OutputFails
  BY <1>30 DEF OutputFails, GiveBack
<1>31. CASE Tick
  BY <1>31 DEF Tick
<1>32. CASE UNCHANGED vars
  BY <1>32
<1>33. CASE \E p \in Packets : Arrive(p)
  BY <1>33, Counted DEF Arrive, RxReceive
<1> QED
  BY <1>1, <1>2, <1>3, <1>4, <1>5, <1>6, <1>7, <1>8, <1>9, <1>10, <1>11,
     <1>12, <1>13, <1>14, <1>15, <1>16, <1>17, <1>18, <1>19, <1>20, <1>21,
     <1>22, <1>23, <1>24, <1>25, <1>26, <1>27, <1>28, <1>29, <1>30, <1>31,
     <1>32, <1>33
  DEF Next, Control, Encoder, Receiver, Decoder, Output

-----------------------------------------------------------------------------
(* Queues, buffers and clocks.                                             *)

\* Few actions move sound.
LEMMA WhoMovesSound ==
    ASSUME [Next]_vars
    PROVE  \/ UNCHANGED pipeVars
           \/ ForgetSession \/ EnqueueSound
           \/ DecodeTake \/ DecodeBuffer \/ DecodePut
           \/ OutputTake \/ OutputStart \/ OutputEnd \/ OutputFails
<1>1. CASE Control
  BY <1>1, Zenon DEF Control, Wake, DrainWait, Bind, HelloAnswered, HelloFails, StartListening,
     TtsStart, TtsStop, EndSession, Resume, CloseChannel, StopRevoke,
     StopClose, StopWait, StopForget, EnterIdle
<1>2. CASE Encoder
  BY <1>2, Zenon DEF Encoder, Encode, EncodeSend, EncodeSent
<1>3. CASE Receiver
  BY <1>3, Zenon DEF Receiver, RxChannel, Deliver
<1>4. CASE Tick \/ UNCHANGED vars \/ \E p \in Packets : Arrive(p)
  BY <1>4, Zenon DEF Tick, Arrive
<1> QED
  BY <1>1, <1>2, <1>3, <1>4, Zenon DEF Next, Decoder, Output

\* The queues hold sound, and no more than they have room for.
LEMMA PipeStep ==
    ASSUME ControlType, LinkInv, CountType, PipeType, [Next]_vars
    PROVE  PipeType'
<1> USE DEF PipeType
<1>1. CASE UNCHANGED pipeVars
  BY <1>1
<1>2. CASE ForgetSession
  <2>1. << >> \in Seq(Sounds) /\ Len(<< >>) = 0
    BY Empty
  <2> QED
    BY <1>2, <2>1, PlaybackAssumption DEF ForgetSession
<1>3. CASE EnqueueSound
  <2>1. queue # << >> => Tail(queue) \in Seq(Sounds) /\ Len(Tail(queue)) = Len(queue) - 1
    BY Taken
  <2>2. Len(queue) \in Nat
    OBVIOUS
  <2>3. CASE rx \in {"enqueue", "requeue"} /\ Room /\ Enqueue
    <3>1. <<rxSock, packet>> \in Sounds
      BY <2>3, Counted DEF ControlType, LinkInv, CountType, Sounds, RxOpen
    <3>2. /\ Append(queue, <<rxSock, packet>>) \in Seq(Sounds)
          /\ Len(Append(queue, <<rxSock, packet>>)) = Len(queue) + 1
      BY <3>1, Added
    <3>3. queue' \in Seq(Sounds) /\ Len(queue') <= QueueDepth
      BY <2>2, <2>3, <3>2, PlaybackAssumption DEF Enqueue, Room
    <3> QED
      BY <1>3, <3>3 DEF EnqueueSound
  <2>4. CASE UNCHANGED queue
    BY <1>3, <2>4 DEF EnqueueSound
  <2>5. CASE queue # << >> /\ queue' = Tail(queue)
    BY <1>3, <2>1, <2>2, <2>5, PlaybackAssumption DEF EnqueueSound
  <2> QED
    BY <1>3, <2>3, <2>4, <2>5 DEF EnqueueSound
<1>4. CASE DecodeTake
  <2>1. /\ Tail(queue) \in Seq(Sounds) /\ Len(Tail(queue)) = Len(queue) - 1
        /\ Head(queue) \in Sounds /\ Len(queue) \in Nat
    BY <1>4, Taken DEF DecodeTake
  <2>2. Len(queue') <= QueueDepth
    <3>1. queue' = Tail(queue)
      BY <1>4, Zenon DEF DecodeTake
    <3>2. Len(queue') = Len(queue) - 1
      BY <2>1, <3>1, Zenon
    <3> QED
      BY <2>1, <3>2, PlaybackAssumption
  <2>3. /\ dec' \in {"idle", "buffer", "put"} /\ decSound' \in Sounds \cup {<< >>}
        /\ (dec' # "idle" => decSound' \in Sounds)
    <3>1. \/ dec' = "buffer" /\ decSound' = Head(queue)
          \/ dec' = "idle" /\ decSound' = decSound
      BY <1>4, Zenon DEF DecodeTake
    <3> QED
      BY <2>1, <3>1
  <2> QED
    BY <1>4, <2>1, <2>2, <2>3 DEF DecodeTake
<1>5. CASE DecodeBuffer
  BY <1>5 DEF DecodeBuffer
<1>6. CASE DecodePut
  <2>1. /\ Append(readyQ, decSound) \in Seq(Sounds)
        /\ Len(Append(readyQ, decSound)) = Len(readyQ) + 1 /\ Len(readyQ) \in Nat
    BY <1>6, Added DEF DecodePut
  <2> QED
    BY <1>6, <2>1, PlaybackAssumption DEF DecodePut
<1>7. CASE OutputTake
  <2>1. /\ Tail(readyQ) \in Seq(Sounds) /\ Len(Tail(readyQ)) = Len(readyQ) - 1
        /\ Head(readyQ) \in Sounds /\ Len(readyQ) \in Nat
    BY <1>7, Taken DEF OutputTake
  <2> QED
    BY <1>7, <2>1, PlaybackAssumption DEF OutputTake
<1>8. CASE OutputStart
  BY <1>8 DEF OutputStart, GiveBack
<1>9. CASE OutputEnd \/ OutputFails
  BY <1>9 DEF OutputEnd, OutputFails, GiveBack
<1> QED
  BY <1>1, <1>2, <1>3, <1>4, <1>5, <1>6, <1>7, <1>8, <1>9, WhoMovesSound

\* No buffer is lost or made: every action that gives one away puts it elsewhere.
LEMMA PoolStep ==
    ASSUME PipeType, PoolConserved, [Next]_vars
    PROVE  PoolConserved'
<1> USE DEF PoolConserved, PipeType
<1>1. CASE UNCHANGED <<free, readyQ, dec, out>>
  BY <1>1
<1>2. CASE DecodeTake \/ DecodeBuffer
  <2>1. CASE DecodeTake
    <3>1. dec # "put" /\ dec' # "put"
      BY <2>1, Zenon DEF DecodeTake
    <3> QED
      BY <2>1, <3>1 DEF DecodeTake
  <2> QED
    BY <1>2, <2>1 DEF DecodeBuffer
<1>3. CASE DecodePut
  <2>1. Len(Append(readyQ, decSound)) = Len(readyQ) + 1 /\ Len(readyQ) \in Nat
    BY <1>3, Added DEF DecodePut
  <2> QED
    BY <1>3, <2>1 DEF DecodePut
<1>4. CASE OutputTake
  <2>1. Len(Tail(readyQ)) = Len(readyQ) - 1 /\ Len(readyQ) \in Nat
    BY <1>4, Taken DEF OutputTake
  <2> QED
    BY <1>4, <2>1 DEF OutputTake
<1>5. CASE OutputStart
  BY <1>5 DEF OutputStart, GiveBack
<1>6. CASE OutputEnd \/ OutputFails
  BY <1>6 DEF OutputEnd, OutputFails, GiveBack
<1> QED
  <2>1. CASE ForgetSession \/ EnqueueSound
    BY <2>1, <1>1, Zenon DEF ForgetSession, EnqueueSound
  <2> QED
    BY <1>1, <1>2, <1>3, <1>4, <1>5, <1>6, <2>1, WhoMovesSound

\* The ages of what is noted, and how they grow.
LEMMA AgesKept ==
    /\ Margin \in Ages /\ 0 \in Ages
    /\ \A age \in Ages : Older(age) \in Ages
    /\ Noted(0) \in Ages /\ \A age \in 0 .. 1 : Noted(age) \in Ages
BY PlaybackAssumption, MarginAssumption DEF Ages, Older, Noted

\* The clocks stay within their bounds.
LEMMA ClockStep ==
    ASSUME ClockType, [Next]_vars
    PROVE  ClockType'
<1> USE DEF ClockType
<1>1. CASE Wake \/ DrainWait \/ Bind
  BY <1>1, AgesKept, PlaybackAssumption
  DEF Wake, Goto, DrainWait, PipelineEmpty, AtRest, Bind
<1>2. CASE HelloAnswered \/ HelloFails \/ StartListening
  BY <1>2, AgesKept, PlaybackAssumption
  DEF HelloAnswered, Goto, UdpStart, HelloFails, UdpStartFails, StartListening
<1>3. CASE TtsStart \/ TtsStop \/ EndSession
  BY <1>3, AgesKept, PlaybackAssumption
  DEF TtsStart, TtsStop, EndSession, Goto
<1>4. CASE Resume
  BY <1>4, AgesKept, PlaybackAssumption, ResumeMoves
<1>5. CASE CloseChannel \/ StopRevoke \/ StopClose
  BY <1>5, AgesKept, PlaybackAssumption
  DEF CloseChannel, Goto, StopRevoke, UdpRevoke, NothingToStop, StopClose,
      UdpClose
<1>6. CASE StopWait \/ StopForget
  BY <1>6, AgesKept, PlaybackAssumption
  DEF StopWait, Goto, StopForget, UdpForgetKey
<1>7. CASE ForgetSession \/ EnterIdle
  BY <1>7, AgesKept, PlaybackAssumption DEF ForgetSession, Goto, EnterIdle
<1>8. CASE Encode \/ EncodeSend \/ EncodeSent
  BY <1>8, AgesKept, PlaybackAssumption
  DEF Encode, EncodeSend, SendBegin, EncodeSent, SendEnd
<1>9. CASE RxChannel
  BY <1>9, AgesKept, PlaybackAssumption
  DEF RxChannel, RxRevoked, RxGot, RxDecrypt, RxExit, RxLeave, RxGoto, RxAgain
<1>10. CASE Deliver
  BY <1>10, AgesKept, PlaybackAssumption DEF Deliver, RxGoto, RxAgain
<1>11. CASE EnqueueSound
  BY <1>11, AgesKept, PlaybackAssumption
  DEF EnqueueSound, Enqueue, RxGoto, RxAgain
<1>12. CASE DecodeTake \/ DecodeBuffer \/ DecodePut
  BY <1>12, AgesKept, PlaybackAssumption
  DEF DecodeTake, DecodeBuffer, DecodePut
<1>13. CASE OutputTake \/ OutputStart \/ OutputEnd \/ OutputFails
  BY <1>13, AgesKept, PlaybackAssumption
  DEF OutputTake, OutputStart, GiveBack, OutputEnd, OutputFails
<1>14. CASE Tick
  BY <1>14, AgesKept, PlaybackAssumption DEF Tick
<1>15. CASE UNCHANGED vars
  BY <1>15, AgesKept, PlaybackAssumption
<1>16. CASE \E p \in Packets : Arrive(p)
  BY <1>16, AgesKept, PlaybackAssumption DEF Arrive, RxReceive
<1> QED
  BY <1>1, <1>2, <1>3, <1>4, <1>5, <1>6, <1>7, <1>8, <1>9, <1>10, <1>11,
     <1>12, <1>13, <1>14, <1>15, <1>16
  DEF Next, Control, Encoder, Receiver, Decoder, Output

-----------------------------------------------------------------------------
(* The microphone.                                                         *)

\* The constants are numbers, and large enough.
LEMMA Numbers == Margin \in Nat /\ Margin >= 2 /\ PoolSize > 0 /\ ReadyDepth > 0
BY PlaybackAssumption, MarginAssumption

\* What is noted in a reply is recent.
LEMMA AgesRelate ==
    /\ Noted(0) \in Ages /\ \A age \in Ages : Older(age) \in Nat /\ age \in Nat
    /\ state = "speaking" => Noted(0) < Margin /\ \A age \in 0 .. 1 : Noted(age) < Margin
BY PlaybackAssumption, MarginAssumption DEF Ages, Older, Noted

\* Time passes only when every task waits.  The decode task does not wait for a
\* buffer then, for those that are not in the pool are with the output task: so
\* nothing is left, or the codec is being written to.
LEMMA MicStep ==
    ASSUME ControlType, FlagType, PipeType, ClockType, PoolConserved, LinkInv,
           MicInv, [Next]_vars
    PROVE  MicInv'
<1> USE DEF ControlType, ClockType, MicInv
<1>1. CASE Wake
  BY <1>1 DEF Wake, Goto
<1>2. CASE DrainWait
  BY <1>2 DEF DrainWait, Goto, PipelineEmpty
<1>3. CASE Bind
  BY <1>3 DEF Bind, Goto
<1>4. CASE HelloAnswered
  BY <1>4 DEF HelloAnswered, Goto, UdpStart
<1>5. CASE HelloFails
  BY <1>5 DEF HelloFails, Goto, UdpStartFails
<1>6. CASE StartListening
  BY <1>6 DEF StartListening, Goto
<1>7. CASE TtsStart
  BY <1>7 DEF TtsStart
<1>8. CASE TtsStop
  BY <1>8 DEF TtsStop
<1>9. CASE EndSession
  BY <1>9 DEF EndSession, Goto
<1>10. CASE Resume
  <2>1. /\ UNCHANGED <<rx, pipeVars, sinceRx, sinceOut, sinceStop, writing, silence>>
        /\ state' = state \/ state' = "listening"
    BY <1>10, ResumeMoves, Zenon
  <2>2. finished' => finished
    BY <1>10, ResumeMoves, Zenon
  <2> QED
    BY <2>1, <2>2
<1>11. CASE CloseChannel
  BY <1>11 DEF CloseChannel, Goto
<1>12. CASE StopRevoke
  BY <1>12 DEF StopRevoke, Goto, UdpRevoke, NothingToStop
<1>13. CASE StopClose
  BY <1>13 DEF StopClose, Goto, UdpClose
<1>14. CASE StopWait
  BY <1>14 DEF StopWait, Goto
<1>15. CASE StopForget
  BY <1>15 DEF StopForget, Goto, UdpForgetKey
<1>16. CASE ForgetSession
  BY <1>16 DEF ForgetSession, Goto
<1>17. CASE EnterIdle
  BY <1>17 DEF EnterIdle, Goto
<1>18. CASE Encode
  BY <1>18 DEF Encode
<1>19. CASE EncodeSend
  BY <1>19 DEF EncodeSend, SendBegin
<1>20. CASE EncodeSent
  BY <1>20 DEF EncodeSent, SendEnd
<1>21. CASE RxChannel
  BY <1>21
  DEF RxChannel, RxRevoked, RxGot, RxDecrypt, RxExit, RxLeave, RxGoto, RxAgain
<1>22. CASE Deliver
  BY <1>22, AgesRelate DEF Deliver, RxGoto, RxAgain
<1>23. CASE EnqueueSound
  BY <1>23 DEF EnqueueSound, Enqueue, RxGoto, RxAgain
<1>24. CASE DecodeTake
  BY <1>24 DEF DecodeTake
<1>25. CASE DecodeBuffer
  BY <1>25 DEF DecodeBuffer
<1>26. CASE DecodePut
  BY <1>26 DEF DecodePut
<1>27. CASE OutputTake
  BY <1>27 DEF OutputTake
<1>28. CASE OutputStart
  BY <1>28 DEF OutputStart, GiveBack
<1>29. CASE OutputEnd
  BY <1>29, AgesRelate DEF OutputEnd, GiveBack
<1>30. CASE OutputFails
  BY <1>30 DEF OutputFails, GiveBack
<1>31. CASE Tick
  <2>1. out = "write" \/ (out = "idle" /\ readyQ = << >>)
    BY <1>31 DEF Tick, OthersWait
  <2>2. CASE out = "write"
    <3>1. rx' \notin {"enqueue", "evict", "requeue"}
      BY <1>31 DEF Tick, OthersWait
    <3> QED
      BY <1>31, <2>2, <3>1 DEF Tick
  <2>3. CASE out = "idle" /\ readyQ = << >>
    <3>1. Len(readyQ) = 0
      BY <2>3
    <3>2. dec = "put" => Len(readyQ) # ReadyDepth
      BY <3>1, Numbers
    <3>3. dec # "put" => free = PoolSize
      BY <2>3, <3>1, PlaybackAssumption DEF PoolConserved, PipeType
    <3>4. dec = "buffer" => free # 0
      BY <3>3, Numbers, PlaybackAssumption
    <3>5. dec = "idle" /\ queue = << >>
      BY <1>31, <3>2, <3>4, Zenon DEF Tick, OthersWait
    <3>6. rx \notin {"enqueue", "evict", "requeue"}
      BY <1>31 DEF Tick, OthersWait
    <3>7. silence' = 1 /\ UNCHANGED <<queue, dec, readyQ, out, rx>>
      BY <1>31, <2>3 DEF Tick
    <3> QED
      BY <2>3, <3>5, <3>6, <3>7
  <2> QED
    BY <2>1, <2>2, <2>3
<1>32. CASE UNCHANGED vars
  BY <1>32
<1>33. CASE \E p \in Packets : Arrive(p)
  BY <1>33 DEF Arrive, RxReceive
<1> QED
  BY <1>1, <1>2, <1>3, <1>4, <1>5, <1>6, <1>7, <1>8, <1>9, <1>10, <1>11,
     <1>12, <1>13, <1>14, <1>15, <1>16, <1>17, <1>18, <1>19, <1>20, <1>21,
     <1>22, <1>23, <1>24, <1>25, <1>26, <1>27, <1>28, <1>29, <1>30, <1>31,
     <1>32, <1>33
  DEF Next, Control, Encoder, Receiver, Decoder, Output

\* The old session's packets are gone when time has passed in "hello".
LEMMA QuietStep ==
    ASSUME ControlType, PipeType, LinkInv, QuietInv, [Next]_vars
    PROVE  QuietInv'
<1> USE DEF QuietInv, ControlType, LinkInv, Connecting, Stopping, Looking
<1>1. CASE Wake \/ DrainWait \/ Bind
  BY <1>1 DEF Wake, Goto, DrainWait, PipelineEmpty, AtRest, Bind
<1>2. CASE HelloAnswered \/ HelloFails \/ StartListening
  BY <1>2
  DEF HelloAnswered, Goto, UdpStart, HelloFails, UdpStartFails, StartListening
<1>3. CASE TtsStart \/ TtsStop \/ EndSession
  BY <1>3 DEF TtsStart, TtsStop, EndSession, Goto
<1>4. CASE Resume
  BY <1>4, ResumeMoves DEF Looking
<1>5. CASE CloseChannel \/ StopRevoke \/ StopClose
  BY <1>5
  DEF CloseChannel, Goto, StopRevoke, UdpRevoke, NothingToStop, StopClose,
      UdpClose
<1>6. CASE StopWait \/ StopForget
  BY <1>6 DEF StopWait, Goto, StopForget, UdpForgetKey
<1>7. CASE ForgetSession \/ EnterIdle
  BY <1>7 DEF ForgetSession, Goto, EnterIdle
<1>8. CASE Encode \/ EncodeSend \/ EncodeSent
  BY <1>8 DEF Encode, EncodeSend, SendBegin, EncodeSent, SendEnd
<1>9. CASE RxChannel
  BY <1>9
  DEF RxChannel, RxRevoked, RxGot, RxDecrypt, RxExit, RxLeave, RxGoto, RxAgain
<1>10. CASE Deliver
  BY <1>10 DEF Deliver, RxGoto, RxAgain
<1>11. CASE EnqueueSound
  BY <1>11 DEF EnqueueSound, Enqueue, RxGoto, RxAgain
<1>12. CASE DecodeTake \/ DecodeBuffer \/ DecodePut
  BY <1>12 DEF DecodeTake, DecodeBuffer, DecodePut
<1>13. CASE OutputTake \/ OutputStart \/ OutputEnd \/ OutputFails
  BY <1>13 DEF OutputTake, OutputStart, GiveBack, OutputEnd, OutputFails
<1>14. CASE Tick
  BY <1>14 DEF Tick, OthersWait
<1>15. CASE UNCHANGED vars
  BY <1>15
<1>16. CASE \E p \in Packets : Arrive(p)
  BY <1>16 DEF Arrive, RxReceive
<1> QED
  BY <1>1, <1>2, <1>3, <1>4, <1>5, <1>6, <1>7, <1>8, <1>9, <1>10, <1>11,
     <1>12, <1>13, <1>14, <1>15, <1>16
  DEF Next, Control, Encoder, Receiver, Decoder, Output

-----------------------------------------------------------------------------
(* What each action does to the sound on its way.                          *)

\* The receive task gets sound at one place only.
LEMMA WhoHears ==
    ASSUME ControlType, [Next]_vars
    PROVE  \/ RxSet' \subseteq RxSet
           \/ RxDecrypt /\ rx' = "deliver" /\ UNCHANGED pipeVars
<1> USE DEF ControlType, RxSet, RxHolds, One
<1>1. CASE Wake \/ DrainWait \/ Bind
  BY <1>1 DEF Wake, Goto, DrainWait, PipelineEmpty, AtRest, Bind
<1>2. CASE HelloAnswered \/ HelloFails \/ StartListening
  BY <1>2
  DEF HelloAnswered, Goto, UdpStart, HelloFails, UdpStartFails, StartListening
<1>3. CASE TtsStart \/ TtsStop \/ EndSession
  BY <1>3 DEF TtsStart, TtsStop, EndSession, Goto
<1>4. CASE Resume
  BY <1>4, ResumeMoves DEF Looking
<1>5. CASE CloseChannel \/ StopRevoke \/ StopClose
  BY <1>5
  DEF CloseChannel, Goto, StopRevoke, UdpRevoke, NothingToStop, StopClose,
      UdpClose
<1>6. CASE StopWait \/ StopForget
  BY <1>6 DEF StopWait, Goto, StopForget, UdpForgetKey
<1>7. CASE ForgetSession \/ EnterIdle
  BY <1>7 DEF ForgetSession, Goto, EnterIdle
<1>8. CASE Encode \/ EncodeSend \/ EncodeSent
  BY <1>8 DEF Encode, EncodeSend, SendBegin, EncodeSent, SendEnd
<1>9. CASE RxChannel
  BY <1>9
  DEF RxChannel, RxRevoked, RxGot, RxDecrypt, RxExit, RxLeave, RxGoto, RxAgain
<1>10. CASE Deliver
  BY <1>10 DEF Deliver, RxGoto, RxAgain
<1>11. CASE EnqueueSound
  BY <1>11 DEF EnqueueSound, Enqueue, RxGoto, RxAgain
<1>12. CASE DecodeTake \/ DecodeBuffer \/ DecodePut
  BY <1>12 DEF DecodeTake, DecodeBuffer, DecodePut
<1>13. CASE OutputTake \/ OutputStart \/ OutputEnd \/ OutputFails
  BY <1>13 DEF OutputTake, OutputStart, GiveBack, OutputEnd, OutputFails
<1>14. CASE Tick
  BY <1>14 DEF Tick
<1>15. CASE UNCHANGED vars
  BY <1>15
<1>16. CASE \E p \in Packets : Arrive(p)
  BY <1>16 DEF Arrive, RxReceive
<1> QED
  BY <1>1, <1>2, <1>3, <1>4, <1>5, <1>6, <1>7, <1>8, <1>9, <1>10, <1>11,
     <1>12, <1>13, <1>14, <1>15, <1>16
  DEF Next, Control, Encoder, Receiver, Decoder, Output

\* Most actions leave it where it is.
LEMMA SoundStays ==
    ASSUME UNCHANGED pipeVars
    PROVE  UNCHANGED <<SpokenSet, TakenSet, ReadySet, DecodeSet, QueueSet>>
BY Zenon DEF SpokenSet, TakenSet, ReadySet, DecodeSet, QueueSet, Elements, One

\* The packets are forgotten.
LEMMA ForgetMoves ==
    ASSUME PipeType, ForgetSession
    PROVE  /\ UNCHANGED <<SpokenSet, TakenSet, ReadySet, DecodeSet, RxSet>>
           /\ QueueSet' = {} /\ Increasing(queue') /\ readyQ' = readyQ
<1>1. /\ UNCHANGED <<dec, decSound, readyQ, out, outSound, spoken, rx, rxSock, packet>>
      /\ queue' = << >>
  BY Zenon DEF ForgetSession
<1>2. UNCHANGED <<SpokenSet, TakenSet, ReadySet, DecodeSet, RxSet>>
  BY <1>1, Zenon DEF SpokenSet, TakenSet, ReadySet, DecodeSet, RxSet, Elements, One
<1> QED
  BY <1>1, <1>2, ElementsOf, EmptyIncreases, Zenon DEF QueueSet

\* The receive task adds what it holds, or loses it, or the oldest packet.
LEMMA EnqueueMoves ==
    ASSUME ControlType, PipeType, LinkInv, CountType, EnqueueSound
    PROVE  /\ UNCHANGED <<SpokenSet, TakenSet, ReadySet, DecodeSet, readyQ>>
           /\ \/ QueueSet' \subseteq QueueSet /\ RxSet' \subseteq RxSet
                 /\ (Increasing(queue) => Increasing(queue'))
              \/ /\ rx \in {"enqueue", "requeue"} /\ <<rxSock, packet>> \in Sounds
                 /\ QueueSet' = QueueSet \cup {<<rxSock, packet>>}
                 /\ RxSet = {<<rxSock, packet>>} /\ RxSet' = {}
                 /\ ((\A b \in QueueSet : Later(<<rxSock, packet>>, b)) /\ Increasing(queue)
                        => Increasing(queue'))
<1>1. UNCHANGED <<dec, decSound, readyQ, out, outSound, spoken>>
  BY Zenon DEF EnqueueSound
<1>2. UNCHANGED <<SpokenSet, TakenSet, ReadySet, DecodeSet, readyQ>>
  BY <1>1, Zenon DEF SpokenSet, TakenSet, ReadySet, DecodeSet, Elements, One
<1>3. queue \in Seq(Sounds)
  BY DEF PipeType
<1>4. CASE rx \in {"enqueue", "requeue"} /\ Room /\ Enqueue
  <2>1. <<rxSock, packet>> \in Sounds
    BY <1>4, Counted DEF ControlType, LinkInv, CountType, Sounds, RxOpen
  <2>2. queue' = Append(queue, <<rxSock, packet>>)
    BY <1>4 DEF Enqueue
  <2>3. QueueSet' = QueueSet \cup {<<rxSock, packet>>}
    BY <1>3, <2>1, <2>2, ElementsOf, Zenon DEF QueueSet
  <2>4. (\A b \in QueueSet : Later(<<rxSock, packet>>, b)) /\ Increasing(queue)
           => Increasing(queue')
    BY <1>3, <2>1, <2>2, StaysIncreasing, Zenon DEF QueueSet
  <2>5. RxSet = {<<rxSock, packet>>} /\ RxSet' = {}
    BY <1>4 DEF Enqueue, RxAgain, RxSet, RxHolds, One
  <2> QED
    BY <1>2, <1>4, <2>1, <2>3, <2>4, <2>5, Zenon
<1>5. CASE UNCHANGED queue /\ (RxGoto("evict") \/ RxGoto("requeue") \/ RxAgain) /\ rx \in RxHolds
  <2>1. RxSet' \subseteq RxSet
    BY <1>5 DEF RxGoto, RxAgain, RxSet, RxHolds, One
  <2>2. QueueSet' = QueueSet /\ (Increasing(queue) => Increasing(queue'))
    BY <1>5, Zenon DEF QueueSet, Elements, Increasing
  <2> QED
    BY <1>2, <2>1, <2>2
<1>6. CASE rx = "evict" /\ RxGoto("requeue") /\ queue # << >> /\ queue' = Tail(queue)
  <2>1. RxSet' \subseteq RxSet
    BY <1>6 DEF RxGoto, RxSet, RxHolds, One
  <2>2. QueueSet' \subseteq QueueSet
    BY <1>3, <1>6, ElementsOf, Zenon DEF QueueSet
  <2>3. Increasing(queue) => Increasing(queue')
    BY <1>3, <1>6, StaysIncreasing, Zenon
  <2> QED
    BY <1>2, <2>1, <2>2, <2>3
<1> QED
  <2>1. \/ rx \in {"enqueue", "requeue"} /\ Room /\ Enqueue
        \/ UNCHANGED queue /\ (RxGoto("evict") \/ RxGoto("requeue") \/ RxAgain) /\ rx \in RxHolds
        \/ rx = "evict" /\ RxGoto("requeue") /\ queue # << >> /\ queue' = Tail(queue)
    BY DEF EnqueueSound, RxHolds
  <2> QED
    BY <1>4, <1>5, <1>6, <2>1, Zenon

\* The decode task takes the oldest packet.
LEMMA TakeMoves ==
    ASSUME PipeType, DecodeTake
    PROVE  /\ UNCHANGED <<SpokenSet, TakenSet, ReadySet, RxSet, readyQ>>
           /\ DecodeSet = {}
           /\ \E h \in QueueSet :
                /\ QueueSet' \subseteq QueueSet /\ DecodeSet' \subseteq {h}
                /\ Increasing(queue) =>
                     Increasing(queue') /\ \A b \in QueueSet' : Later(b, h)
<1>1. /\ UNCHANGED <<readyQ, out, outSound, spoken, rx, rxSock, packet>>
      /\ queue' = Tail(queue) /\ queue # << >> /\ dec = "idle"
      /\ dec' = "idle" \/ decSound' = Head(queue)
  BY Zenon DEF DecodeTake
<1>2. UNCHANGED <<SpokenSet, TakenSet, ReadySet, RxSet, readyQ>>
  BY <1>1, Zenon DEF SpokenSet, TakenSet, ReadySet, RxSet, Elements, One
<1>3. DecodeSet = {} /\ DecodeSet' \subseteq {Head(queue)}
  BY <1>1 DEF DecodeSet, One
<1>4. queue \in Seq(Sounds)
  BY DEF PipeType
<1>5. Head(queue) \in QueueSet /\ QueueSet' \subseteq QueueSet
  BY <1>1, <1>4, ElementsOf, Zenon DEF QueueSet
<1>6. Increasing(queue) => Increasing(queue') /\ \A b \in QueueSet' : Later(b, Head(queue))
  BY <1>1, <1>4, StaysIncreasing, Zenon DEF QueueSet
<1> QED
  BY <1>2, <1>3, <1>5, <1>6, Zenon

\* It decodes what it has taken, or drops it.
LEMMA DecodeMoves ==
    ASSUME PipeType, DecodeBuffer
    PROVE  /\ UNCHANGED <<SpokenSet, TakenSet, ReadySet, QueueSet, RxSet, readyQ, queue>>
           /\ DecodeSet' \subseteq DecodeSet
<1>1. UNCHANGED <<queue, readyQ, out, outSound, spoken, rx, rxSock, packet>>
  BY Zenon DEF DecodeBuffer
<1>2. UNCHANGED <<SpokenSet, TakenSet, ReadySet, QueueSet, RxSet, readyQ, queue>>
  BY <1>1, Zenon DEF SpokenSet, TakenSet, ReadySet, QueueSet, RxSet, Elements, One
<1>3. DecodeSet' \subseteq DecodeSet
  BY DEF DecodeBuffer, DecodeSet, One
<1> QED
  BY <1>2, <1>3

\* It puts it behind what is decoded.
LEMMA PutMoves ==
    ASSUME PipeType, DecodePut
    PROVE  /\ UNCHANGED <<SpokenSet, TakenSet, QueueSet, RxSet, queue>>
           /\ ReadySet' = ReadySet \cup DecodeSet /\ DecodeSet' = {}
           /\ AllLater(ReadySet, DecodeSet) /\ Increasing(readyQ) => Increasing(readyQ')
<1>1. /\ UNCHANGED <<queue, out, outSound, spoken, rx, rxSock, packet>>
      /\ readyQ' = Append(readyQ, decSound) /\ dec = "put" /\ dec' = "idle"
  BY Zenon DEF DecodePut
<1>2. UNCHANGED <<SpokenSet, TakenSet, QueueSet, RxSet, queue>>
  BY <1>1, Zenon DEF SpokenSet, TakenSet, QueueSet, RxSet, Elements, One
<1>3. DecodeSet = {decSound} /\ DecodeSet' = {}
  BY <1>1 DEF DecodeSet, One
<1>4. readyQ \in Seq(Sounds) /\ decSound \in Sounds
  BY <1>1 DEF PipeType
<1>5. ReadySet' = ReadySet \cup DecodeSet
  BY <1>1, <1>3, <1>4, ElementsOf, Zenon DEF ReadySet
<1>6. AllLater(ReadySet, DecodeSet) /\ Increasing(readyQ) => Increasing(readyQ')
  <2>1. ASSUME AllLater(ReadySet, DecodeSet)
        PROVE  \A b \in Elements(readyQ) : Later(decSound, b)
    BY <1>3, <2>1, Zenon DEF AllLater, ReadySet
  <2> QED
    BY <1>1, <1>4, <2>1, StaysIncreasing, Zenon
<1> QED
  BY <1>2, <1>3, <1>5, <1>6

\* The output task takes the oldest.
LEMMA OutputMoves ==
    ASSUME PipeType, OutputTake
    PROVE  /\ UNCHANGED <<SpokenSet, DecodeSet, QueueSet, RxSet, queue>>
           /\ TakenSet = {}
           /\ \E h \in ReadySet :
                /\ ReadySet' \subseteq ReadySet /\ TakenSet' = {h}
                /\ Increasing(readyQ) =>
                     Increasing(readyQ') /\ \A b \in ReadySet' : Later(b, h)
<1>1. /\ UNCHANGED <<queue, dec, decSound, spoken, rx, rxSock, packet>>
      /\ readyQ' = Tail(readyQ) /\ readyQ # << >> /\ out = "idle"
      /\ out' = "taken" /\ outSound' = Head(readyQ)
  BY Zenon DEF OutputTake
<1>2. UNCHANGED <<SpokenSet, DecodeSet, QueueSet, RxSet, queue>>
  BY <1>1, Zenon DEF SpokenSet, DecodeSet, QueueSet, RxSet, Elements, One
<1>3. TakenSet = {} /\ TakenSet' = {Head(readyQ)}
  BY <1>1 DEF TakenSet, One
<1>4. readyQ \in Seq(Sounds)
  BY DEF PipeType
<1>5. Head(readyQ) \in ReadySet /\ ReadySet' \subseteq ReadySet
  BY <1>1, <1>4, ElementsOf, Zenon DEF ReadySet
<1>6. Increasing(readyQ) => Increasing(readyQ') /\ \A b \in ReadySet' : Later(b, Head(readyQ))
  BY <1>1, <1>4, StaysIncreasing, Zenon DEF ReadySet
<1> QED
  BY <1>2, <1>3, <1>5, <1>6, Zenon

\* It is spoken, if the channel is active.
LEMMA StartMoves ==
    ASSUME PipeType, OutputStart
    PROVE  /\ UNCHANGED <<ReadySet, DecodeSet, QueueSet, RxSet, queue, readyQ>>
           /\ TakenSet' = {} /\ (SpokenSet' = TakenSet \/ SpokenSet' = SpokenSet)
           /\ out' = "write" => channel /\ spoken' = outSound /\ TakenSet = {outSound}
<1>1. /\ UNCHANGED <<queue, dec, decSound, readyQ, rx, rxSock, packet>> /\ out = "taken"
      /\ \/ channel /\ out' = "write" /\ spoken' = outSound
         \/ out' = "idle" /\ spoken' = spoken
  BY Zenon DEF OutputStart, GiveBack
<1>2. UNCHANGED <<ReadySet, DecodeSet, QueueSet, RxSet, queue, readyQ>>
  BY <1>1, Zenon DEF ReadySet, DecodeSet, QueueSet, RxSet, Elements, One
<1>3. outSound \in Sounds /\ outSound # << >>
  BY <1>1 DEF PipeType, Sounds
<1>4. TakenSet = {outSound} /\ TakenSet' = {}
  BY <1>1 DEF TakenSet, One
<1>5. SpokenSet' = {outSound} \/ SpokenSet' = SpokenSet
  BY <1>1, <1>3 DEF SpokenSet, One
<1> QED
  BY <1>1, <1>2, <1>4, <1>5, Zenon

\* Then its buffer is given back.
LEMMA EndMoves ==
    ASSUME OutputEnd \/ OutputFails
    PROVE  UNCHANGED <<SpokenSet, TakenSet, ReadySet, DecodeSet, QueueSet, RxSet, queue, readyQ>>
<1>1. /\ UNCHANGED <<queue, dec, decSound, readyQ, spoken, rx, rxSock, packet>>
      /\ out = "write" /\ out' = "idle"
  BY Zenon DEF OutputEnd, OutputFails, GiveBack
<1>2. UNCHANGED <<SpokenSet, ReadySet, DecodeSet, QueueSet, RxSet, queue, readyQ>>
  BY <1>1, Zenon DEF SpokenSet, ReadySet, DecodeSet, QueueSet, RxSet, Elements, One
<1>3. TakenSet = {} /\ TakenSet' = {}
  BY <1>1 DEF TakenSet, One
<1> QED
  BY <1>2, <1>3

\* Sound comes to the pipe from the receive task only.
LEMMA PipeMoves ==
    ASSUME ControlType, PipeType, LinkInv, CountType, [Next]_vars
    PROVE  \/ InPipe' \subseteq InPipe /\ Heard' \subseteq Heard
           \/ /\ EnqueueSound /\ rx \in {"enqueue", "requeue"}
              /\ InPipe' \subseteq InPipe \cup {<<rxSock, packet>>}
              /\ Heard' \subseteq Heard \cup {<<rxSock, packet>>}
<1> USE Zenon DEF InPipe, Heard
<1>1. CASE UNCHANGED pipeVars
  BY <1>1, SoundStays
<1>2. CASE ForgetSession
  BY <1>2, ForgetMoves
<1>3. CASE EnqueueSound
  BY <1>3, EnqueueMoves
<1>4. CASE DecodeTake
  BY <1>4, TakeMoves
<1>5. CASE DecodeBuffer
  BY <1>5, DecodeMoves
<1>6. CASE DecodePut
  BY <1>6, PutMoves
<1>7. CASE OutputTake
  BY <1>7, OutputMoves
<1>8. CASE OutputStart
  BY <1>8, StartMoves
<1>9. CASE OutputEnd \/ OutputFails
  BY <1>9, EndMoves
<1> QED
  BY <1>1, <1>2, <1>3, <1>4, <1>5, <1>6, <1>7, <1>8, <1>9, WhoMovesSound

-----------------------------------------------------------------------------
(* What is heard after the first look.                                     *)

\* Two actions have to do with what the codec plays.
LEMMA WhoPlays ==
    ASSUME [Next]_vars
    PROVE  UNCHANGED <<spoken, silence>> \/ OutputStart \/ Tick
<1>1. CASE Control
  <2>1. CASE Resume
    BY <2>1, ResumeMoves, Zenon
  <2> QED
    BY <1>1, <2>1, Zenon
    DEF Control, Wake, DrainWait, Bind, HelloAnswered, HelloFails, StartListening,
        TtsStart, TtsStop, EndSession, CloseChannel, StopRevoke, StopClose, StopWait,
        StopForget, ForgetSession, EnterIdle
<1>2. CASE Encoder
  BY <1>2, Zenon DEF Encoder, Encode, EncodeSend, EncodeSent
<1>3. CASE Receiver
  BY <1>3, Zenon DEF Receiver, RxChannel, Deliver, EnqueueSound
<1>4. CASE Decoder \/ OutputTake \/ OutputEnd \/ OutputFails
  BY <1>4, Zenon
  DEF Decoder, DecodeTake, DecodeBuffer, DecodePut, OutputTake, OutputEnd, OutputFails
<1>5. CASE UNCHANGED vars \/ \E p \in Packets : Arrive(p)
  BY <1>5, Zenon DEF Arrive
<1> QED
  BY <1>1, <1>2, <1>3, <1>4, <1>5, Zenon DEF Next, Output

\* What it begins to play was with the output task.
LEMMA PlayingMoves ==
    ASSUME MicInv, [Next]_vars
    PROVE  Playing' \subseteq Playing \cup TakenSet
<1> USE DEF Playing, TakenSet, One
<1>1. CASE UNCHANGED <<spoken, silence>>
  BY <1>1
<1>2. CASE OutputStart
  BY <1>2 DEF OutputStart, GiveBack
<1>3. CASE Tick
  BY <1>3 DEF Tick, MicInv
<1> QED
  BY <1>1, <1>2, <1>3, WhoPlays

\* Sound moves from one place to the next.
LEMMA LookMoves ==
    ASSUME ControlType, PipeType, LinkInv, CountType, [Next]_vars
    PROVE  /\ DecodeSet' \cup QueueSet' \subseteq DecodeSet \cup QueueSet \cup HandSet
           /\ ReadySet' \subseteq ReadySet \cup DecodeSet
           /\ InPipe' \subseteq InPipe \cup HandSet
<1> USE Zenon
<1>1. CASE UNCHANGED pipeVars
  BY <1>1, SoundStays DEF InPipe
<1>2. CASE ForgetSession
  BY <1>2, ForgetMoves DEF InPipe
<1>3. CASE EnqueueSound
  <2>1. rx \in {"enqueue", "requeue"} => HandSet = {<<rxSock, packet>>}
    BY SMT DEF HandSet, One
  <2> QED
    BY <1>3, <2>1, EnqueueMoves DEF InPipe
<1>4. CASE DecodeTake
  BY <1>4, TakeMoves DEF InPipe
<1>5. CASE DecodeBuffer
  BY <1>5, DecodeMoves DEF InPipe
<1>6. CASE DecodePut
  BY <1>6, PutMoves DEF InPipe
<1>7. CASE OutputTake
  BY <1>7, OutputMoves DEF InPipe
<1>8. CASE OutputStart
  BY <1>8, StartMoves DEF InPipe
<1>9. CASE OutputEnd \/ OutputFails
  BY <1>9, EndMoves DEF InPipe
<1> QED
  BY <1>1, <1>2, <1>3, <1>4, <1>5, <1>6, <1>7, <1>8, <1>9, WhoMovesSound

\* Besides the control task the callback has to do with its looks, and the end
\* of a write that lasts already.
LEMMA WhoLooks ==
    ASSUME ControlType, [Next]_vars
    PROVE  \/ Resume
           \/ Deliver
           \/ /\ ctl' \notin Looking \/ ctl' = ctl
              /\ late' = late
              /\ raced => raced'
              /\ HandSet' \subseteq HandSet
              /\ ctl = "tasks" /\ Lasts => Lasts' \/ raced'
<1> USE DEF ControlType, Looking, HandSet, One, Lasts
<1>1. CASE Wake \/ DrainWait \/ Bind
  BY <1>1 DEF Wake, Goto, DrainWait, PipelineEmpty, AtRest, Bind
<1>2. CASE HelloAnswered \/ HelloFails \/ StartListening
  BY <1>2
  DEF HelloAnswered, Goto, UdpStart, HelloFails, UdpStartFails, StartListening
<1>3. CASE TtsStart \/ TtsStop \/ EndSession
  BY <1>3 DEF TtsStart, TtsStop, EndSession, Goto
<1>4. CASE CloseChannel \/ StopRevoke \/ StopClose
  BY <1>4
  DEF CloseChannel, Goto, StopRevoke, UdpRevoke, NothingToStop, StopClose,
      UdpClose
<1>5. CASE StopWait \/ StopForget
  BY <1>5 DEF StopWait, Goto, StopForget, UdpForgetKey
<1>6. CASE ForgetSession \/ EnterIdle
  BY <1>6 DEF ForgetSession, Goto, EnterIdle
<1>7. CASE Encode \/ EncodeSend \/ EncodeSent
  BY <1>7 DEF Encode, EncodeSend, SendBegin, EncodeSent, SendEnd
<1>8. CASE RxChannel
  BY <1>8
  DEF RxChannel, RxRevoked, RxGot, RxDecrypt, RxExit, RxLeave, RxGoto, RxAgain
<1>9. CASE EnqueueSound
  BY <1>9 DEF EnqueueSound, Enqueue, RxGoto, RxAgain
<1>10. CASE DecodeTake \/ DecodeBuffer \/ DecodePut
  BY <1>10 DEF DecodeTake, DecodeBuffer, DecodePut
<1>11. CASE OutputTake \/ OutputStart \/ OutputFails
  BY <1>11 DEF OutputTake, OutputStart, GiveBack, OutputFails
<1>12. CASE OutputEnd
  <2>1. raced' = (raced \/ ctl = "tasks")
    BY <1>12, Zenon DEF OutputEnd
  <2>2. UNCHANGED <<ctl, late, rx, rxSock, packet>>
    BY <1>12 DEF OutputEnd
  <2> QED
    BY <2>1, <2>2
<1>13. CASE Tick \/ UNCHANGED vars
  BY <1>13 DEF Tick
<1>14. CASE \E p \in Packets : Arrive(p)
  BY <1>14 DEF Arrive, RxReceive
<1> QED
  BY <1>1, <1>2, <1>3, <1>4, <1>5, <1>6, <1>7, <1>8, <1>9, <1>10, <1>11,
     <1>12, <1>13, <1>14
  DEF Next, Control, Encoder, Receiver, Decoder, Output

\* The looks of the control task, one by one.
LEMMA ResumeLooks ==
    ASSUME ControlType, PipeType, LinkInv, MicInv, LookInv, Resume
    PROVE  LookInv'
<1>1. /\ UNCHANGED <<SpokenSet, TakenSet, ReadySet, DecodeSet, QueueSet>>
      /\ UNCHANGED <<rx, rxSock, packet, out, writing, spoken, silence>>
      /\ late' \subseteq late
  BY ResumeMoves, SoundStays
<1>2. UNCHANGED <<HandSet, InPipe, Playing>>
  BY <1>1, Zenon DEF HandSet, InPipe, Playing, One
<1>3. CASE ctl' \notin Looking
  BY <1>1, <1>3 DEF LookInv, Looking
<1>4. CASE LookAtTimes
  <2>1. /\ ctl' = "tasks" /\ late' = late
        /\ state = "speaking" /\ finished /\ sinceStop >= 1
        /\ ~(sinceRx < Margin) /\ ~(sinceOut < Margin)
    BY <1>4, Numbers DEF LookAtTimes, LookOn, Goto, PlayedOut
  <2>2. HandSet = {}
    BY <2>1 DEF MicInv, HandSet, One
  <2>3. CASE queue = << >> /\ dec = "idle" /\ readyQ = << >> /\ out = "idle" /\ silence = 1
    <3>1. TakenSet = {} /\ DecodeSet = {} /\ Playing = {}
      BY <2>3 DEF TakenSet, DecodeSet, Playing, One
    <3>2. ReadySet = {} /\ QueueSet = {}
      BY <2>3, ElementsOf, Zenon DEF ReadySet, QueueSet
    <3>3. NewInPipe'
      BY <1>2, <3>1, <3>2 DEF NewInPipe, InPipe
    <3> QED
      BY <1>2, <2>1, <2>2, <3>3 DEF LookInv, Looking
  <2>4. CASE out = "write" /\ writing = 1
    BY <1>1, <1>2, <2>1, <2>2, <2>4 DEF LookInv, Looking, Lasts
  <2> QED
    BY <2>1, <2>3, <2>4, Zenon DEF MicInv
<1>5. CASE LookAtTasks /\ ctl' \in Looking
  <2>1. /\ ctl = "tasks" /\ ctl' = "packets" /\ late' = late /\ raced' = raced
        /\ dec = "idle" /\ queue = << >> /\ out # "write"
    BY <1>5, Zenon
    DEF LookAtTasks, LookOn, LookInVain, LookEnds, Goto, AtRest, Looking
  <2>2. DecodeSet = {} /\ QueueSet = {}
    <3>1. QueueSet = {}
      BY <2>1, ElementsOf, Zenon DEF QueueSet
    <3> QED
      BY <2>1, <3>1 DEF DecodeSet, One
  <2>3. HandSet \subseteq late /\ (NewInPipe \/ raced)
    BY <2>1 DEF LookInv, Looking, Lasts
  <2>4. HandSet' \subseteq late' /\ (NewInPipe' \/ raced')
    BY <1>2, <2>1, <2>3, Zenon DEF NewInPipe
  <2> QED
    BY <1>1, <2>1, <2>2, <2>4 DEF LookInv
<1>6. CASE (LookAtPackets \/ LookAtPcm \/ Publish) /\ ctl' \in Looking
  <2>1. /\ ctl \in Looking \ {"tasks"} /\ ctl' \in Looking \ {"tasks"}
        /\ late' = late /\ raced' = raced
        /\ ctl' \in {"publish", "reopen"} => ctl = "publish" \/ readyQ = << >>
    BY <1>6, Zenon
    DEF LookAtPackets, LookAtPcm, Publish, LookOn, LookInVain, LookEnds, Goto, Looking
  <2>2. /\ HandSet \subseteq late /\ (NewInPipe \/ raced)
        /\ DecodeSet \cup QueueSet \subseteq late
        /\ ctl = "publish" => ReadySet \subseteq late
    BY <2>1 DEF LookInv
  <2>3. readyQ = << >> => ReadySet = {}
    BY ElementsOf, Zenon DEF ReadySet
  <2>4. /\ HandSet' \subseteq late' /\ (NewInPipe' \/ raced')
        /\ DecodeSet' \cup QueueSet' \subseteq late'
    BY <1>1, <1>2, <2>1, <2>2, Zenon DEF NewInPipe
  <2>5. ctl' \in {"publish", "reopen"} => ReadySet' \subseteq late'
    BY <1>1, <2>1, <2>2, <2>3
  <2> QED
    BY <1>1, <2>4, <2>5 DEF LookInv
<1>7. CASE Reopen
  BY <1>3, <1>7 DEF Reopen, LookEnds, Goto, Looking
<1> QED
  BY <1>3, <1>4, <1>5, <1>6, <1>7, Zenon DEF Resume

\* Between them sound moves on, and what comes is noted.
LEMMA LookStep ==
    ASSUME ControlType, PipeType, LinkInv, CountType, MicInv, LookInv, [Next]_vars
    PROVE  LookInv'
<1>1. CASE Resume
  BY <1>1, ResumeLooks
<1>2. CASE Deliver
  <2>1. UNCHANGED <<ctl, raced, out, writing, spoken, silence>> /\ UNCHANGED pipeVars
    BY <1>2, Zenon DEF Deliver
  <2>2. UNCHANGED <<InPipe, Playing, ReadySet, DecodeSet, QueueSet>>
    BY <2>1, SoundStays, Zenon DEF InPipe, Playing, One
  <2>3. <<rxSock, packet>> \in Sounds
    BY <1>2, Counted DEF Deliver, LinkInv, CountType, Sounds, RxOpen
  <2>4. late \subseteq late' /\ late' \subseteq late \cup {<<rxSock, packet>>}
    BY <1>2, Zenon DEF Deliver
  <2>5. ctl \in Looking => HandSet' \subseteq late'
    BY <1>2 DEF Deliver, RxGoto, RxAgain, HandSet, One
  <2>6. ctl \in Looking => NewInPipe' \/ raced' \/ (ctl' = "tasks" /\ Lasts')
    <3>1. NewInPipe => NewInPipe'
      BY <2>2, <2>4 DEF NewInPipe
    <3> QED
      BY <2>1, <3>1, Zenon DEF LookInv, Lasts
  <2>7. late' \subseteq Sounds
    BY <2>3, <2>4 DEF LookInv
  <2>8. /\ ctl' \in Looking \ {"tasks"} => DecodeSet' \cup QueueSet' \subseteq late'
        /\ ctl' \in {"publish", "reopen"} => ReadySet' \subseteq late'
    BY <2>1, <2>2, <2>4 DEF LookInv
  <2> QED
    BY <2>1, <2>5, <2>6, <2>7, <2>8 DEF LookInv
<1>3. CASE /\ ctl' \notin Looking \/ ctl' = ctl
           /\ late' = late
           /\ raced => raced'
           /\ HandSet' \subseteq HandSet
           /\ ctl = "tasks" /\ Lasts => Lasts' \/ raced'
  <2>1. CASE ctl' \notin Looking
    BY <1>3, <2>1 DEF LookInv, Looking
  <2>2. CASE ctl' = ctl /\ ctl \in Looking
    <3>1. HandSet \subseteq late /\ HandSet' \subseteq late'
      BY <1>3, <2>2 DEF LookInv
    <3>2. NewInPipe => NewInPipe'
      BY <1>3, <3>1, LookMoves, PlayingMoves DEF NewInPipe, InPipe
    <3>3. NewInPipe' \/ raced' \/ (ctl' = "tasks" /\ Lasts')
      BY <1>3, <2>2, <3>2, Zenon DEF LookInv, Lasts
    <3>4. /\ ctl' \in Looking \ {"tasks"} => DecodeSet' \cup QueueSet' \subseteq late'
          /\ ctl' \in {"publish", "reopen"} => ReadySet' \subseteq late'
      BY <1>3, <2>2, <3>1, LookMoves DEF LookInv, Looking
    <3> QED
      BY <1>3, <3>1, <3>3, <3>4 DEF LookInv
  <2> QED
    BY <1>3, <2>1, <2>2
<1> QED
  BY <1>1, <1>2, <1>3, WhoLooks, Zenon

-----------------------------------------------------------------------------
(* Whose sound it is.                                                      *)

\* A channel that is active stays that of its session.
LEMMA WhoBindsChannel ==
    ASSUME LinkInv, [Next]_vars
    PROVE  channel' => HelloAnswered \/ (channel /\ sid' = sid)
<1>1. CASE Resume
  BY <1>1, ResumeMoves, Zenon
<1>2. CASE Control /\ ~Resume
  BY <1>2
  DEF LinkInv, Looking, Control, Wake, DrainWait, Bind, HelloFails, StartListening,
     TtsStart, TtsStop, EndSession, CloseChannel, StopRevoke,
     StopClose, StopWait, StopForget, ForgetSession, EnterIdle
<1>3. CASE Encoder
  BY <1>3, Zenon DEF Encoder, Encode, EncodeSend, EncodeSent
<1>4. CASE Receiver
  BY <1>4, Zenon DEF Receiver, RxChannel, Deliver, EnqueueSound
<1>5. CASE Decoder
  BY <1>5, Zenon DEF Decoder, DecodeTake, DecodeBuffer, DecodePut
<1>6. CASE Output
  BY <1>6, Zenon DEF Output, OutputTake, OutputStart, OutputEnd, OutputFails
<1>7. CASE Tick \/ UNCHANGED vars \/ \E p \in Packets : Arrive(p)
  BY <1>7, Zenon DEF Tick, Arrive
<1> QED
  BY <1>1, <1>2, <1>3, <1>4, <1>5, <1>6, <1>7, Zenon DEF Next

\* So does the sound on its way.
LEMMA SessionStep ==
    ASSUME ControlType, PipeType, LinkInv, CountType, QuietInv, SessionInv, [Next]_vars
    PROVE  SessionInv'
<1> SUFFICES ASSUME channel', NEW a \in InPipe'
             PROVE  a[1] = sid'
  BY DEF SessionInv
<1>1. CASE HelloAnswered
  <2>1. /\ dec = "idle" /\ readyQ = << >> /\ queue = << >> /\ out = "idle"
        /\ UNCHANGED pipeVars
    BY <1>1 DEF HelloAnswered, QuietInv, ClockType
  <2>2. DecodeSet = {} /\ TakenSet = {}
    BY <2>1 DEF DecodeSet, TakenSet, One
  <2>3. ReadySet = {} /\ QueueSet = {}
    BY <2>1, ElementsOf, Zenon DEF ReadySet, QueueSet
  <2>4. InPipe' = {}
    BY <2>1, <2>2, <2>3, SoundStays, Zenon DEF InPipe
  <2> QED
    BY <2>4
<1>2. CASE channel /\ sid' = sid
  <2>1. \A b \in InPipe : b[1] = sid
    BY <1>2 DEF SessionInv
  <2>2. rxSock = sid
    BY <1>2, Zenon DEF LinkInv
  <2>3. a \in InPipe \/ a = <<rxSock, packet>>
    BY PipeMoves
  <2> QED
    BY <1>2, <2>1, <2>2, <2>3
<1> QED
  BY <1>1, <1>2, WhoBindsChannel

-----------------------------------------------------------------------------
(* In which order it is spoken.                                            *)

\* The sequence numbers wrap around, and so does their difference; but a session
\* sends less than half as many packets as there are numbers.
LEMMA DifferenceWraps ==
    ASSUME NEW n \in Nat, NEW f \in 0 .. n - 1, NEW p \in Nat, NEW q \in Nat,
           2 * p < n, 2 * q < n,
           (((f + p) % n) - ((f + q) % n)) % n \in 1 .. (n - 1) \div 2
    PROVE  p > q
OBVIOUS

\* What sequence_is_newer calls newer has been sent later.
LEMMA NewerIsLater ==
    ASSUME ControlType, LinkInv, CountType, rx = "decrypt", rxSeq # 0,
           Newer(Sequence(packet), Sequence(rxSeq))
    PROVE  packet > rxSeq
<1>1. rxSock \in Sessions
  BY DEF LinkInv, CountType
<1>2. Sent[rxSock] \in Nat /\ 2 * Sent[rxSock] < SeqSpace
  BY <1>1, UdpAssumption DEF Sessions
<1>3. packet \in 1 .. Sent[rxSock] /\ rxSeq \in 1 .. Sent[rxSock]
  BY DEF CountType, RxOpen
<1>4. /\ packet \in Nat /\ rxSeq \in Nat
      /\ 2 * packet < SeqSpace /\ 2 * rxSeq < SeqSpace
  <2>1. PICK n : n = Sent[rxSock]
    OBVIOUS
  <2>2. n \in Nat /\ 2 * n < SeqSpace /\ packet \in 1 .. n /\ rxSeq \in 1 .. n
    BY <1>2, <1>3, <2>1, Zenon
  <2> QED
    BY <2>2, UdpAssumption
<1>5. (((FirstSeq + packet) % SeqSpace) - ((FirstSeq + rxSeq) % SeqSpace)) % SeqSpace
           \in 1 .. (SeqSpace - 1) \div 2
  BY Zenon DEF Newer, Sequence
<1> QED
  BY <1>4, <1>5, DifferenceWraps, UdpAssumption, Zenon

\* So what the receive task lets through is later than all it has let through.
LEMMA DecryptIsLater ==
    ASSUME ControlType, LinkInv, CountType, MarkInv, PipeType, RxDecrypt, rx' = "deliver"
    PROVE  /\ packet > rxSeq /\ rxSeq' = packet /\ packet' = packet /\ rxSock' = rxSock
           /\ rx = "decrypt"
           /\ \A a \in Heard : a \in Sounds => Later(<<rxSock, packet>>, a)
<1>1. /\ rx = "decrypt" /\ rxSeq' = packet /\ packet' = packet /\ rxSock' = rxSock
      /\ rxSeq = 0 \/ Newer(Sequence(packet), Sequence(rxSeq))
  BY DEF RxDecrypt
<1>2. packet \in Nat /\ packet > 0 /\ rxSeq \in Nat /\ rxSock \in Nat
  <2>1. rxSock \in Sessions
    BY <1>1 DEF LinkInv, CountType
  <2>2. packet \in 1 .. Sent[rxSock]
    BY <1>1 DEF CountType, RxOpen
  <2> QED
    BY <2>1, <2>2, Counted DEF CountType
<1>3. packet > rxSeq
  BY <1>1, <1>2, NewerIsLater
<1>4. ASSUME NEW a \in Heard, a \in Sounds
      PROVE  Later(<<rxSock, packet>>, a)
  <2>1. a[1] \in Nat /\ a[2] \in Nat
    BY <1>4, Counted DEF Sounds
  <2>2. a[1] <= rxSock /\ (a[1] = rxSock => a[2] <= rxSeq)
    BY <1>1 DEF MarkInv, Marked
  <2> QED
    BY <1>2, <1>3, <2>1, <2>2 DEF Later
<1> QED
  BY <1>1, <1>3, <1>4

\* All sound is of sessions and packets.
LEMMA HeardAreSounds ==
    ASSUME PipeType
    PROVE  Heard \subseteq Sounds
<1>1. SpokenSet \subseteq Sounds /\ TakenSet \subseteq Sounds /\ DecodeSet \subseteq Sounds
  BY DEF PipeType, SpokenSet, TakenSet, DecodeSet, One
<1>2. ReadySet \subseteq Sounds /\ QueueSet \subseteq Sounds
  BY ElementsOf DEF PipeType, ReadySet, QueueSet
<1> QED
  BY <1>1, <1>2 DEF Heard, InPipe

\* What the receive task has let through, and the last session, change in few
\* places.
LEMMA WhoMarks ==
    ASSUME ControlType, [Next]_vars
    PROVE  \/ /\ UNCHANGED <<session, rxSock, rxSeq>>
              /\ rx' # "none" => rx # "none"
              /\ ctl' = "hello" => ctl = "hello"
              /\ rx' \in RxHolds => rx \in RxHolds /\ packet' = packet
           \/ Bind /\ session' = session + 1
           \/ HelloAnswered
           \/ RxDecrypt /\ rx' = "deliver" /\ UNCHANGED controlVars
           \/ RxLeave /\ UNCHANGED controlVars
<1> USE DEF ControlType, RxHolds
<1>1. CASE Wake \/ DrainWait \/ Bind
  BY <1>1 DEF Wake, Goto, DrainWait, PipelineEmpty, AtRest, Bind
<1>2. CASE HelloAnswered \/ HelloFails \/ StartListening
  BY <1>2
  DEF HelloAnswered, Goto, UdpStart, HelloFails, UdpStartFails, StartListening
<1>3. CASE TtsStart \/ TtsStop \/ EndSession
  BY <1>3 DEF TtsStart, TtsStop, EndSession, Goto
<1>4. CASE Resume
  BY <1>4, ResumeMoves DEF Looking
<1>5. CASE CloseChannel \/ StopRevoke \/ StopClose
  BY <1>5
  DEF CloseChannel, Goto, StopRevoke, UdpRevoke, NothingToStop, StopClose,
      UdpClose
<1>6. CASE StopWait \/ StopForget
  BY <1>6 DEF StopWait, Goto, StopForget, UdpForgetKey
<1>7. CASE ForgetSession \/ EnterIdle
  BY <1>7 DEF ForgetSession, Goto, EnterIdle
<1>8. CASE Encode \/ EncodeSend \/ EncodeSent
  BY <1>8 DEF Encode, EncodeSend, SendBegin, EncodeSent, SendEnd
<1>9. CASE RxChannel
  BY <1>9
  DEF RxChannel, RxRevoked, RxGot, RxDecrypt, RxExit, RxLeave, RxGoto, RxAgain
<1>10. CASE Deliver
  BY <1>10 DEF Deliver, RxGoto, RxAgain
<1>11. CASE EnqueueSound
  BY <1>11 DEF EnqueueSound, Enqueue, RxGoto, RxAgain
<1>12. CASE DecodeTake \/ DecodeBuffer \/ DecodePut
  BY <1>12 DEF DecodeTake, DecodeBuffer, DecodePut
<1>13. CASE OutputTake \/ OutputStart \/ OutputEnd \/ OutputFails
  BY <1>13 DEF OutputTake, OutputStart, GiveBack, OutputEnd, OutputFails
<1>14. CASE Tick
  BY <1>14 DEF Tick
<1>15. CASE UNCHANGED vars
  BY <1>15
<1>16. CASE \E p \in Packets : Arrive(p)
  BY <1>16 DEF Arrive, RxReceive
<1> QED
  BY <1>1, <1>2, <1>3, <1>4, <1>5, <1>6, <1>7, <1>8, <1>9, <1>10, <1>11,
     <1>12, <1>13, <1>14, <1>15, <1>16
  DEF Next, Control, Encoder, Receiver, Decoder, Output

\* What has been heard is not overtaken by a session that begins, nor by what is
\* let through.
LEMMA MarkedStays ==
    ASSUME ControlType, LinkInv, CountType, PipeType, MarkInv, [Next]_vars, NEW a \in Heard
    PROVE  Marked(a)'
<1> DEFINE first == a[1]
           second == a[2]
<1>1. first \in Nat /\ second \in Nat /\ second > 0
  BY HeardAreSounds, Counted DEF Sounds
<1>2. /\ first <= session
      /\ ctl = "hello" => first < session
      /\ rx # "none" => first <= rxSock /\ (first = rxSock => second <= rxSeq)
  BY DEF MarkInv, Marked
<1>3. session \in Nat /\ rxSock \in Nat /\ rxSeq \in Nat
  BY Counted DEF CountType
<1>4. SUFFICES /\ first <= session'
               /\ ctl' = "hello" => first < session'
               /\ rx' # "none" => first <= rxSock' /\ (first = rxSock' => second <= rxSeq')
  BY DEF Marked
<1> HIDE DEF first, second
<1>5. CASE /\ UNCHANGED <<session, rxSock, rxSeq>>
           /\ rx' # "none" => rx # "none"
           /\ ctl' = "hello" => ctl = "hello"
  BY <1>2, <1>5
<1>6. CASE Bind /\ session' = session + 1
  BY <1>1, <1>2, <1>3, <1>6 DEF Bind
<1>7. CASE HelloAnswered
  BY <1>1, <1>2, <1>3, <1>7 DEF HelloAnswered, Goto, UdpStart
<1>8. CASE RxDecrypt /\ rx' = "deliver" /\ UNCHANGED controlVars
  BY <1>1, <1>2, <1>3, <1>8, DecryptIsLater DEF CountType
<1>9. CASE RxLeave /\ UNCHANGED controlVars
  BY <1>1, <1>2, <1>3, <1>9 DEF RxLeave
<1> QED
  BY <1>5, <1>6, <1>7, <1>8, <1>9, WhoMarks

\* Nor is what the receive task adds.
LEMMA MarkStep ==
    ASSUME ControlType, LinkInv, CountType, PipeType, MarkInv, [Next]_vars
    PROVE  MarkInv'
<1>1. session \in Nat /\ rxSock \in Nat
  BY Counted DEF CountType
<1>2. rxSock <= session /\ (ctl = "hello" => rxSock < session)
  BY DEF MarkInv
<1>3. rxSock' <= session' /\ (ctl' = "hello" => rxSock' < session')
  <2>1. CASE /\ UNCHANGED <<session, rxSock, rxSeq>>
             /\ ctl' = "hello" => ctl = "hello"
    BY <1>2, <2>1
  <2>2. CASE Bind /\ session' = session + 1
    BY <1>1, <1>2, <2>2 DEF Bind
  <2>3. CASE HelloAnswered
    BY <1>1, <2>3 DEF HelloAnswered, Goto, UdpStart
  <2>4. CASE RxDecrypt /\ UNCHANGED controlVars
    BY <1>2, <2>4 DEF RxDecrypt
  <2>5. CASE RxLeave /\ UNCHANGED controlVars
    BY <1>1, <2>5 DEF RxLeave, LinkInv
  <2> QED
    BY <2>1, <2>2, <2>3, <2>4, <2>5, WhoMarks
<1>4. rx' \in RxHolds => packet' = rxSeq'
  <2>1. CASE rxSeq' = rxSeq /\ (rx' \in RxHolds => rx \in RxHolds /\ packet' = packet)
    BY <2>1 DEF MarkInv
  <2>2. CASE Bind /\ session' = session + 1
    BY <2>2 DEF Bind, MarkInv
  <2>3. CASE HelloAnswered \/ RxLeave
    BY <2>3 DEF HelloAnswered, UdpStart, RxLeave, RxHolds
  <2>4. CASE RxDecrypt /\ rx' = "deliver"
    BY <2>4, DecryptIsLater
  <2> QED
    BY <2>1, <2>2, <2>3, <2>4, WhoMarks
<1>5. ASSUME NEW a \in Heard'
      PROVE  Marked(a)'
  <2>1. CASE a \in Heard
    BY <2>1, MarkedStays
  <2>2. CASE EnqueueSound /\ rx \in {"enqueue", "requeue"} /\ a = <<rxSock, packet>>
    <3>1. UNCHANGED <<session, ctl, rxSock, rxSeq>> /\ packet = rxSeq
      BY <2>2 DEF EnqueueSound, Enqueue, RxAgain, RxGoto, MarkInv, RxHolds
    <3>2. rxSeq \in Nat
      BY DEF CountType
    <3> QED
      BY <1>1, <1>2, <2>2, <3>1, <3>2 DEF Marked
  <2> QED
    BY <2>1, <2>2, PipeMoves
<1> QED
  BY <1>3, <1>4, <1>5 DEF MarkInv

\* Every task takes the oldest sound and puts it behind the rest.
LEMMA OrderStep ==
    ASSUME ControlType, LinkInv, CountType, PipeType, MarkInv, OrderInv, [Next]_vars
    PROVE  OrderInv'
<1> USE DEF OrderInv, AllLater
<1>1. CASE UNCHANGED pipeVars
  <2>1. /\ UNCHANGED <<SpokenSet, TakenSet, ReadySet, DecodeSet, QueueSet>>
        /\ Increasing(queue)' /\ Increasing(readyQ)'
    BY <1>1, SoundStays, Zenon DEF Increasing
  <2>2. CASE RxSet' \subseteq RxSet
    BY <2>1, <2>2
  <2>3. CASE RxDecrypt /\ rx' = "deliver"
    <3>1. \A a \in Heard : Later(<<rxSock, packet>>, a)
      BY <2>3, DecryptIsLater, HeardAreSounds
    <3>2. RxSet' = {<<rxSock, packet>>}
      BY <2>3, DecryptIsLater DEF RxSet, RxHolds, One
    <3>3. \A a \in SpokenSet \cup TakenSet \cup ReadySet \cup DecodeSet \cup QueueSet :
            \A b \in RxSet' : Later(b, a)
      BY <3>1, <3>2 DEF Heard, InPipe
    <3> QED
      BY <2>1, <3>3
  <2> QED
    BY <2>2, <2>3, WhoHears
<1>2. CASE ForgetSession
  BY <1>2, ForgetMoves
<1>3. CASE EnqueueSound
  BY <1>3, EnqueueMoves
<1>4. CASE DecodeTake
  BY <1>4, TakeMoves
<1>5. CASE DecodeBuffer
  BY <1>5, DecodeMoves
<1>6. CASE DecodePut
  BY <1>6, PutMoves
<1>7. CASE OutputTake
  BY <1>7, OutputMoves
<1>8. CASE OutputStart
  BY <1>8, StartMoves
<1>9. CASE OutputEnd \/ OutputFails
  BY <1>9, EndMoves
<1> QED
  BY <1>1, <1>2, <1>3, <1>4, <1>5, <1>6, <1>7, <1>8, <1>9, WhoMovesSound

-----------------------------------------------------------------------------
(* The theorems.                                                           *)

SoundInv ==
    /\ ControlType /\ FlagType /\ LinkInv /\ CountType
    /\ PipeType /\ ClockType /\ PoolConserved
    /\ OrderInv /\ MarkInv /\ QuietInv /\ SessionInv /\ MicInv /\ LookInv

\* It holds at the start.
LEMMA SoundInit == Init => SoundInv
<1> SUFFICES ASSUME Init
             PROVE  SoundInv
  OBVIOUS
<1> USE DEF Init, UdpInit
<1>1. ControlType /\ LinkInv
  BY DEF ControlType, RxPlaces, RxOpen, LinkInv, Connecting, Stopping
<1>2. FlagType
  BY Zenon DEF FlagType
<1>3. CountType /\ ClockType
  BY AgesKept, PlaybackAssumption, UdpAssumption
  DEF CountType, Connecting, Stopping, RxOpen, ClockType
<1>4. PipeType /\ PoolConserved
  BY Empty, PlaybackAssumption DEF PipeType, PoolConserved
<1>5. /\ SpokenSet = {} /\ TakenSet = {} /\ ReadySet = {} /\ DecodeSet = {}
      /\ QueueSet = {}
  BY ElementsOf DEF SpokenSet, TakenSet, ReadySet, DecodeSet, QueueSet, One
<1>6. OrderInv
  BY <1>5, EmptyIncreases DEF OrderInv, AllLater
<1>7. MarkInv /\ SessionInv
  BY <1>5 DEF MarkInv, SessionInv, Heard, InPipe, RxHolds
<1>8. QuietInv /\ MicInv /\ LookInv
  BY DEF QuietInv, MicInv, LookInv, Stopping, Looking
<1> QED
  BY <1>1, <1>2, <1>3, <1>4, <1>6, <1>7, <1>8 DEF SoundInv

\* Every step preserves it.
LEMMA SoundStep == SoundInv /\ [Next]_vars => SoundInv'
BY ControlStep, FlagStep, LinkStep, CountStep, PipeStep, ClockStep, PoolStep,
   OrderStep, MarkStep, QuietStep, SessionStep, MicStep, LookStep, Zenon
DEF SoundInv

\* So it always holds.
LEMMA SoundInvariant == Spec => []SoundInv
BY SoundInit, SoundStep, PTL DEF Spec

\* The variables of the channel, the tasks and the queues keep their types: the
\* queues of xQueueCreate are never overfilled, and the pool never holds more
\* than its three buffers.
THEOREM PlaybackTypeCorrect == Spec => []TypeOK
<1>1. SoundInv => TypeOK
  <2> SUFFICES ASSUME SoundInv
               PROVE  TypeOK
    OBVIOUS
  <2>1. packet \in Packets \cup {0} /\ rxSeq \in Packets \cup {0}
    BY Counted DEF SoundInv, LinkInv, CountType
  <2>2. free \in 0 .. PoolSize
    BY PlaybackAssumption DEF SoundInv, PoolConserved, PipeType
  <2>3. ready \in BOOLEAN /\ running \in BOOLEAN
    BY Zenon DEF SoundInv, FlagType
  <2>4. UdpTypeOK
    BY <2>1, <2>3 DEF SoundInv, ControlType, RxPlaces, RxOpen, CountType, UdpTypeOK
  <2>5. /\ channel \in BOOLEAN /\ uplink \in BOOLEAN /\ finished \in BOOLEAN
        /\ raced \in BOOLEAN
    BY Zenon DEF SoundInv, FlagType
  <2> QED
    BY <2>2, <2>4, <2>5, Zenon
    DEF SoundInv, ControlType, CountType, PipeType, ClockType, LookInv, TypeOK
<1> QED
  BY <1>1, SoundInvariant, PTL

\* None of the PCM buffers is lost or given back twice, whatever is aborted.
THEOREM PoolConservedCorrect == Spec => []PoolConserved
<1>1. SoundInv => PoolConserved
  BY DEF SoundInv
<1> QED
  BY <1>1, SoundInvariant, PTL

\* Nobody encrypts or decrypts with the key of another session than that of its
\* socket, and the receive task of an old session does not outlive the start of
\* the next one.
THEOREM KeyOfChannelCorrect == Spec => []KeyOfChannel
<1>1. SoundInv => KeyOfChannel
  BY DEF SoundInv, LinkInv, KeyOfChannel
<1> QED
  BY <1>1, SoundInvariant, PTL

\* One action speaks: it speaks what the output task has taken.
LEMMA WhoSpeaks ==
    ASSUME SoundInv, [Next]_vars, out # "write", out' = "write"
    PROVE  /\ channel /\ sid' = sid /\ spoken' = outSound
           /\ TakenSet = {outSound}
<1>1. OutputStart
  BY WhoMovesSound
  DEF ForgetSession, EnqueueSound, DecodeTake, DecodeBuffer, DecodePut, OutputTake,
      OutputEnd, OutputFails, GiveBack
<1>2. sid' = sid
  BY <1>1, Zenon DEF OutputStart
<1> QED
  BY <1>1, <1>2, StartMoves, Zenon DEF SoundInv

\* Sound is spoken at most once and in the order it was sent in, across packets
\* that are repeated, reordered or lost and numbers that wrap around.
THEOREM SpokenInOrderCorrect == Spec => SpokenInOrder
<1>1. SoundInv /\ [Next]_vars =>
        [out # "write" /\ out' = "write" => spoken = << >> \/ Later(spoken', spoken)]_vars
  <2> SUFFICES ASSUME SoundInv, [Next]_vars, out # "write", out' = "write", spoken # << >>
               PROVE  Later(spoken', spoken)
    OBVIOUS
  <2>1. spoken' \in TakenSet
    BY WhoSpeaks
  <2>2. spoken \in SpokenSet
    BY DEF SpokenSet, One
  <2> QED
    BY <2>1, <2>2 DEF SoundInv, OrderInv, AllLater
<1> QED
  BY <1>1, SoundInvariant, PTL DEF Spec, SpokenInOrder

\* What is spoken in a session has been sent in it.
THEOREM SpeaksForSessionCorrect == Spec => SpeaksForSession
<1>1. SoundInv /\ [Next]_vars => [out # "write" /\ out' = "write" => spoken'[1] = sid]_vars
  <2> SUFFICES ASSUME SoundInv, [Next]_vars, out # "write", out' = "write"
               PROVE  spoken'[1] = sid
    OBVIOUS
  <2>1. channel /\ spoken' \in InPipe
    BY WhoSpeaks DEF InPipe
  <2> QED
    BY <2>1 DEF SoundInv, SessionInv
<1> QED
  BY <1>1, SoundInvariant, PTL DEF Spec, SpeaksForSession

\* When the microphone opens after a reply, the sound that is left in the queues
\* and with the decode task has come after the control task looked at the times;
\* so has what is spoken or about to be, unless a write ended between its looks.
THEOREM MicAfterHeardCorrect == Spec => MicAfterHeard
<1>1. SoundInv /\ [Next]_vars =>
        [Reopened => /\ Queued \subseteq late
                     /\ TakenSet \cup Playing \subseteq late \/ raced]_vars
  <2> SUFFICES ASSUME SoundInv, [Next]_vars, Reopened
               PROVE  /\ Queued \subseteq late
                      /\ TakenSet \cup Playing \subseteq late \/ raced
    OBVIOUS
  <2>1. Resume \/ StartListening
    BY DEF Next, Control, Wake, DrainWait, Bind, HelloAnswered, HelloFails, TtsStart,
       TtsStop, EndSession, CloseChannel, StopRevoke, StopClose,
       StopWait, StopForget, ForgetSession, EnterIdle, Encoder, Encode, EncodeSend,
       EncodeSent, Receiver, RxChannel, Deliver, EnqueueSound, Decoder, DecodeTake,
       DecodeBuffer, DecodePut, Output, OutputTake, OutputStart, OutputEnd,
       OutputFails, Tick, Arrive, Reopened
  <2>2. ~StartListening
    BY DEF StartListening, SoundInv, LinkInv, Connecting, Reopened
  <2>3. ctl = "reopen"
    BY <2>1, <2>2, ResumeMoves DEF Reopened
  <2>4. /\ NewInPipe \/ raced
        /\ DecodeSet \cup QueueSet \subseteq late /\ ReadySet \subseteq late
    BY <2>3 DEF SoundInv, LookInv, Looking
  <2> QED
    BY <2>4 DEF NewInPipe, InPipe, Queued
<1> QED
  BY <1>1, SoundInvariant, PTL DEF Spec, MicAfterHeard
=============================================================================
