------------------------ MODULE VideoPipelineProofs ------------------------
(***************************************************************************)
(* Proofs that no slot of the video stream is lost or used twice           *)
(* (SlotsConserved), that its gate is not opened without an encoder        *)
(* (GateHasEncoder), and that a stream has at most two frames left of the  *)
(* one before (FreshStart), for any number of slots and streams.  The      *)
(* first is inductive together with the types of the queues; for the       *)
(* second OpenInv follows an answer of the codec task from the request to  *)
(* the gate; for the third the frames of the stream before are counted,    *)
(* wherever they are.                                                      *)
(***************************************************************************)
EXTENDS VideoPipeline, Integers, FiniteSetTheorems, TLAPS

USE DEF vars, askVars, ctrlVars, codecVars, queueVars, otherVars, history

-----------------------------------------------------------------------------
(* The encoder behind the gate.                                            *)

\* From the request for an encoder to the opening of the gate.
AskingPoints == {"start", "startOutputs", "askDrain", "ask", "post", "wait",
                 "opened", "forced"}

OpenInv ==
    \* A start under way is marked as one, unless the codec task, on its way
    \* out of a stream whose encoder was closed, has overwritten the mark.
    /\ ctrl \in AskingPoints => state = "starting" \/ raced
    \* So the idle check leaves the encoder that is the answer to the request.
    /\ ctrl \in {"post", "wait"} /\ result = "ok" => encoder \/ raced
    /\ ctrl \in {"opened", "forced"} => encoder \/ raced
    \* An encoder is missing under a stream only after the idle check closed it.
    /\ pc \in {"lost", "lostState"} => raced
    /\ GateHasEncoder

\* Initially the gate is closed.
LEMMA InitOpen == Init => OpenInv
BY DEF Init, OpenInv, AskingPoints, GateHasEncoder

\* Start asks, waits and opens the gate; stop closes it.
LEMMA ControlStepOpen == OpenInv /\ (Start \/ Stop \/ ControlStep) => OpenInv'
<1> SUFFICES ASSUME OpenInv, Start \/ Stop \/ ControlStep PROVE OpenInv'
  OBVIOUS
<1> USE DEF OpenInv, AskingPoints, GateHasEncoder
<1>1. CASE Start \/ Stop
  BY <1>1 DEF Start, Stop
<1>2. CASE StartInputs \/ StartOutputs
  BY <1>2 DEF StartInputs, StartOutputs, DrainInputs, DropOutputs
<1>3. CASE AskDrain \/ Ask \/ Post
  BY <1>3 DEF AskDrain, Ask, Post
<1>4. CASE Opened \/ OpenTimeout
  BY <1>4 DEF Opened, OpenTimeout
<1>5. CASE ForceFirst \/ StartEnable \/ StartDone
  BY <1>5 DEF ForceFirst, StartEnable, Enable, StartDone
<1>6. CASE Fail \/ FailState \/ FailInputs \/ FailOutputs
  BY <1>6 DEF Fail, FailState, FailInputs, FailOutputs, DrainInputs, DropOutputs
<1>7. CASE StopGate \/ StopInputs \/ StopOutputs
  BY <1>7 DEF StopGate, StopInputs, StopOutputs, DrainInputs, DropOutputs
<1> QED
  BY <1>1, <1>2, <1>3, <1>4, <1>5, <1>6, <1>7 DEF ControlStep

\* The codec task closes an encoder in its idle check only, and keeps one that
\* it is asked for again.
LEMMA CodecStepOpen == TypeOK /\ OpenInv /\ CodecStep => OpenInv'
<1> SUFFICES ASSUME TypeOK, OpenInv, CodecStep PROVE OpenInv'
  OBVIOUS
<1> USE DEF OpenInv, AskingPoints, GateHasEncoder
<1>1. CASE Top \/ Answer \/ NothingReceived
  <2>1. UNCHANGED <<ctrl, state, enabled, result, encoder, raced>>
    BY <1>1 DEF Top, Answer, NothingReceived
  <2>2. pc' \in {"open", "top", "off", "receive"}
    BY <1>1 DEF Top, Answer, NothingReceived
  <2> QED
    BY <2>1, <2>2
<1>2. CASE Open
  <2>1. UNCHANGED <<ctrl, state, enabled, raced>> /\ pc' = "answer"
    BY <1>2 DEF Open
  <2>2. PICK ok \in {encoder, TRUE} :
            encoder' = ok /\ result' = IF ok THEN "ok" ELSE "failed"
    BY <1>2 DEF Open
  <2>3. encoder => encoder'
    BY <2>2
  <2>4. result' = "ok" => encoder'
    BY <2>2
  <2> QED
    BY <2>1, <2>3, <2>4
<1>3. CASE Off
  <2>1. /\ UNCHANGED <<ctrl, state, enabled, result>> /\ pc' = "top"
        /\ encoder' <=> encoder /\ state = "starting"
        /\ raced' <=> raced \/ (encoder /\ ~encoder' /\ enabled)
    BY <1>3, Zenon DEF Off
  <2> QED
    BY <2>1
<1>4. CASE Receive \/ CheckFails \/ CheckPasses \/ CheckFindsNoEncoder
  BY <1>4 DEF Receive, CheckFails, CheckPasses, CheckFindsNoEncoder
<1>5. CASE Lost \/ LostState \/ LostInputs \/ LostOutputs
  BY <1>5 DEF Lost, LostState, LostInputs, LostOutputs, DrainInputs, DropOutputs
<1>6. CASE DecodeDrops \/ Decode \/ Encode \/ Encoded \/ EncodeFails
  BY <1>6 DEF DecodeDrops, Decode, Encode, Encoded, EncodeFails
<1> QED
  BY <1>1, <1>2, <1>3, <1>4, <1>5, <1>6 DEF CodecStep

\* The camera, the upload and the viewer have nothing to do with it.
LEMMA OtherStepOpen ==
    OpenInv /\ (UploadStep \/ Offer \/ Submit \/ ForceIdr \/ UNCHANGED vars) => OpenInv'
<1> SUFFICES ASSUME OpenInv,
                    UploadStep \/ Offer \/ Submit \/ ForceIdr \/ UNCHANGED vars
             PROVE  OpenInv'
  OBVIOUS
<1>1. UNCHANGED <<ctrl, pc, state, enabled, result, encoder, raced>>
  BY DEF UploadStep, UploadTake, UploadReturn, Offer, Submit, ForceIdr
<1> QED
  BY <1>1 DEF OpenInv, AskingPoints, GateHasEncoder

-----------------------------------------------------------------------------
(* The slots and the queues.                                               *)

\* A frame that passed the gate belongs to a stream; one is in the codec task's
\* hands exactly between its receipt and its release or its encoding.
HandInv ==
    /\ enabled => stream > 0
    /\ ctrl \in AskingPoints => stream < MaxStreams
    /\ hand # None <=> JpegInHand \/ H264InHand

SlotInv == FrameTypeOK /\ HandInv /\ SlotsConserved

\* What a step of a drain does to the two kinds of slots.
InputDrained ==
    \/ UNCHANGED <<inputs, busy>>
    \/ inputs # <<>> /\ inputs' = Tail(inputs) /\ busy' = busy - 1
OutputDropped ==
    \/ UNCHANGED <<ready, outFree>>
    \/ ready # <<>> /\ ready' = Tail(ready) /\ outFree' = outFree + 1

\* What is known of a queue whose first frame is taken,
LEMMA TailType ==
    ASSUME NEW q \in Seq(Frames), q # <<>>
    PROVE  /\ Tail(q) \in Seq(Frames) /\ Len(Tail(q)) = Len(q) - 1
           /\ Head(q) \in Frames /\ q[Len(q)] \in Frames /\ Len(q) \in Nat \ {0}
OBVIOUS

\* of one that gets one more,
LEMMA AppendType ==
    ASSUME NEW q \in Seq(Frames), NEW f \in Frames
    PROVE  /\ Append(q, f) \in Seq(Frames) /\ Len(Append(q, f)) = Len(q) + 1
           /\ Len(q) \in Nat
OBVIOUS

\* and of one that is emptied.
LEMMA EmptyType == <<>> \in Seq(Frames) /\ Len(<<>>) = 0
OBVIOUS

\* Initially all slots are free.
LEMMA InitSlots == Init => SlotInv
<1> SUFFICES ASSUME Init PROVE SlotInv
  OBVIOUS
<1>1. FrameTypeOK
  BY EmptyType, MaxStreamsAssumption, InSlotsAssumption, OutSlotsAssumption
     DEF Init, FrameTypeOK
<1>2. HandInv
  BY MaxStreamsAssumption
     DEF Init, HandInv, AskingPoints, JpegInHand, H264InHand, None
<1>3. SlotsConserved
  BY EmptyType, OutSlotsAssumption
     DEF Init, SlotsConserved, JpegInHand, H264InHand, Count
<1> QED
  BY <1>1, <1>2, <1>3 DEF SlotInv

\* A drain returns the slot of every frame it takes.
LEMMA DrainKeepsSlots ==
    ASSUME FrameTypeOK, SlotsConserved, InputDrained, OutputDropped,
           UNCHANGED <<stream, hand, filling, upload, JpegInHand, H264InHand>>
    PROVE  FrameTypeOK' /\ SlotsConserved'
<1>1. /\ inputs' \in Seq(Frames) /\ busy' \in Int
      /\ busy' - Len(inputs') = busy - Len(inputs)
      /\ Len(inputs') \in Nat /\ Len(inputs') <= Len(inputs)
  <2>1. inputs \in Seq(Frames) /\ Len(inputs) \in Nat /\ busy \in Nat
    BY InSlotsAssumption DEF FrameTypeOK
  <2>2. CASE UNCHANGED <<inputs, busy>>
    BY <2>1, <2>2
  <2>3. CASE inputs # <<>> /\ inputs' = Tail(inputs) /\ busy' = busy - 1
    BY <2>1, <2>3, TailType
  <2> QED
    BY <2>2, <2>3 DEF InputDrained
<1>2. /\ ready' \in Seq(Frames) /\ outFree' \in Int
      /\ outFree' + Len(ready') = outFree + Len(ready)
      /\ Len(ready') \in Nat /\ Len(ready') <= Len(ready)
  <2>1. ready \in Seq(Frames) /\ Len(ready) \in Nat /\ outFree \in Nat
    BY OutSlotsAssumption DEF FrameTypeOK
  <2>2. CASE UNCHANGED <<ready, outFree>>
    BY <2>1, <2>2
  <2>3. CASE ready # <<>> /\ ready' = Tail(ready) /\ outFree' = outFree + 1
    BY <2>1, <2>3, TailType
  <2> QED
    BY <2>2, <2>3 DEF OutputDropped
<1>3. /\ busy \in Nat /\ busy <= InSlots /\ outFree \in Nat /\ outFree <= OutSlots
      /\ Len(inputs) \in Nat /\ Len(inputs) <= InSlots
      /\ Len(ready) \in Nat /\ Len(ready) <= OutSlots
      /\ InSlots \in Nat /\ OutSlots \in Nat
  BY InSlotsAssumption, OutSlotsAssumption DEF FrameTypeOK
<1>4. PICK f \in {0, 1} : f = Count(filling # None)
  BY DEF Count
<1>5. PICK j \in {0, 1} : j = Count(JpegInHand)
  BY DEF Count
<1>6. PICK u \in {0, 1} : u = Count(upload # None)
  BY DEF Count
<1>7. PICK h \in {0, 1} : h = Count(H264InHand)
  BY DEF Count
<1>8. busy = Len(inputs) + f + j /\ OutSlots = outFree + Len(ready) + u + h
  BY <1>4, <1>5, <1>6, <1>7 DEF SlotsConserved
<1>9. /\ f = Count(filling' # None) /\ j = Count(JpegInHand')
      /\ u = Count(upload' # None) /\ h = Count(H264InHand')
  BY <1>4, <1>5, <1>6, <1>7
<1>10. busy' = Len(inputs') + f + j
  BY <1>1, <1>3, <1>8
<1>11. OutSlots = outFree' + Len(ready') + u + h
  BY <1>2, <1>3, <1>8
<1>12. SlotsConserved'
  BY <1>9, <1>10, <1>11 DEF SlotsConserved
<1>13. busy' \in 0..InSlots
  BY <1>1, <1>3, <1>8, <1>10
<1>14. outFree' \in 0..OutSlots
  <2>1. outFree' >= outFree
    BY <1>2, <1>3
  <2>2. Len(ready') + u + h \in Nat
    BY <1>2
  <2>3. outFree' <= OutSlots
    <3>1. outFree' \in Int /\ OutSlots \in Int /\ Len(ready') \in Int
      BY <1>2, <1>3
    <3>2. OutSlots - outFree' = Len(ready') + u + h
      BY <1>11, <3>1
    <3> QED
      BY <2>2, <3>1, <3>2
  <2> QED
    BY <1>2, <1>3, <2>1, <2>3
<1>15. FrameTypeOK'
  BY <1>1, <1>2, <1>3, <1>13, <1>14 DEF FrameTypeOK
<1> QED
  BY <1>12, <1>15

\* The steps of start and stop.
LEMMA ControlStepSlots == SlotInv /\ (Start \/ Stop \/ ControlStep) => SlotInv'
<1> SUFFICES ASSUME SlotInv, Start \/ Stop \/ ControlStep PROVE SlotInv'
  OBVIOUS
<1> USE DEF SlotInv
<1>1. UNCHANGED <<hand, filling, upload, pc>>
  BY DEF Start, Stop, ControlStep, StartInputs, StartOutputs, AskDrain, Ask, Post,
         Opened, OpenTimeout, ForceFirst, StartEnable, Enable, StartDone, Fail,
         FailState, FailInputs, FailOutputs, StopGate, StopInputs, StopOutputs
<1>2. UNCHANGED <<JpegInHand, H264InHand>>
  BY <1>1 DEF JpegInHand, H264InHand
<1>3. CASE StartEnable
  <2>1. /\ ctrl = "forced" /\ ctrl' = "enabled"
        /\ stream' = stream + 1 /\ UNCHANGED <<inputs, busy, ready, outFree>>
    BY <1>3 DEF StartEnable, Enable
  <2>2. stream < MaxStreams
    BY <2>1 DEF HandInv, AskingPoints
  <2>3. FrameTypeOK'
    BY <1>1, <2>1, <2>2, MaxStreamsAssumption DEF FrameTypeOK
  <2>4. SlotsConserved'
    BY <1>1, <1>2, <2>1 DEF SlotsConserved
  <2>5. stream' > 0
    BY <2>1 DEF FrameTypeOK
  <2>6. HandInv'
    BY <1>1, <1>2, <2>1, <2>5 DEF HandInv, AskingPoints
  <2> QED
    BY <2>3, <2>4, <2>6
<1>4. CASE Start \/ Stop \/ (ControlStep /\ ~StartEnable)
  <2>1. InputDrained /\ OutputDropped /\ UNCHANGED stream
    BY <1>4 DEF Start, Stop, ControlStep, StartInputs, StartOutputs, AskDrain, Ask,
           Post, Opened, OpenTimeout, ForceFirst, StartDone, Fail, FailState,
           FailInputs, FailOutputs, StopGate, StopInputs, StopOutputs,
           DrainInputs, DropOutputs, InputDrained, OutputDropped
  <2>2. FrameTypeOK' /\ SlotsConserved'
    BY <1>1, <1>2, <2>1, DrainKeepsSlots
  <2>3. enabled' => enabled
    BY <1>4 DEF Start, Stop, ControlStep, StartInputs, StartOutputs, AskDrain, Ask,
           Post, Opened, OpenTimeout, ForceFirst, StartDone, Fail, FailState,
           FailInputs, FailOutputs, StopGate, StopInputs, StopOutputs
  <2>4. ctrl' \in AskingPoints => ctrl \in AskingPoints \/ stream < MaxStreams
    BY <1>4 DEF Start, Stop, ControlStep, StartInputs, StartOutputs, AskDrain, Ask,
           Post, Opened, OpenTimeout, ForceFirst, StartDone, Fail, FailState,
           FailInputs, FailOutputs, StopGate, StopInputs, StopOutputs,
           DrainInputs, DropOutputs, AskingPoints
  <2>5. HandInv'
    BY <1>1, <1>2, <2>1, <2>3, <2>4 DEF HandInv
  <2> QED
    BY <2>2, <2>5
<1> QED
  BY <1>3, <1>4

\* The steps of the codec task that leave its hands as they are.
LEMMA IdleStepSlots ==
    ASSUME SlotInv,
           \/ Top \/ Open \/ Answer \/ NothingReceived \/ Off \/ CheckPasses
           \/ Lost \/ LostState \/ LostInputs \/ LostOutputs \/ Encode
    PROVE  SlotInv'
<1> USE DEF SlotInv
<1>1. /\ UNCHANGED <<hand, filling, upload, stream, ctrl>> /\ (enabled' => enabled)
      /\ InputDrained /\ OutputDropped
  <2>1. CASE \/ Top \/ Open \/ Answer \/ NothingReceived \/ Off \/ CheckPasses
             \/ Encode
    <3>1. UNCHANGED <<hand, filling, upload, stream, ctrl, enabled, inputs, busy,
                      ready, outFree>>
      BY <2>1, Zenon DEF Top, Open, Answer, NothingReceived, Off, CheckPasses, Encode
    <3> QED
      BY <3>1 DEF InputDrained, OutputDropped
  <2>2. CASE Lost \/ LostState \/ LostInputs \/ LostOutputs
    BY <2>2 DEF Lost, LostState, LostInputs, LostOutputs, DrainInputs, DropOutputs,
                InputDrained, OutputDropped
  <2> QED
    BY <2>1, <2>2
<1>2. UNCHANGED <<JpegInHand, H264InHand>>
  <2>1. CASE Top \/ Open \/ Answer \/ NothingReceived \/ Off
    <3>1. /\ pc \in {"top", "open", "answer", "receive", "off"}
          /\ pc' \in {"top", "open", "answer", "receive", "off"}
      BY <2>1 DEF Top, Open, Answer, NothingReceived, Off
    <3> QED
      BY <3>1 DEF JpegInHand, H264InHand
  <2>2. CASE CheckPasses \/ Encode
    BY <2>2 DEF CheckPasses, Encode, JpegInHand, H264InHand
  <2>3. CASE Lost \/ LostState \/ LostInputs \/ LostOutputs
    <3>1. /\ pc \in {"lost", "lostState", "lostInputs", "lostOutputs"}
          /\ pc' \in {"lostState", "lostInputs", "lostOutputs", "top"}
      BY <2>3 DEF Lost, LostState, LostInputs, LostOutputs, DrainInputs, DropOutputs
    <3> QED
      BY <3>1 DEF JpegInHand, H264InHand
  <2> QED
    BY <2>1, <2>2, <2>3
<1>3. FrameTypeOK' /\ SlotsConserved'
  BY <1>1, <1>2, DrainKeepsSlots
<1>4. HandInv'
  BY <1>1, <1>2 DEF HandInv
<1> QED
  BY <1>3, <1>4

\* A frame is received: with it the ones before it, which give up their slots.
LEMMA ReceiveSlots == SlotInv /\ Receive => SlotInv'
<1> SUFFICES ASSUME SlotInv, Receive PROVE SlotInv'
  OBVIOUS
<1> USE DEF SlotInv
<1>1. /\ pc = "receive" /\ pc' = "check" /\ inputs # <<>>
      /\ UNCHANGED <<enabled, ctrl, stream, filling, upload, ready, outFree>>
  BY DEF Receive
<1>2. /\ ~JpegInHand /\ JpegInHand'
      /\ ~H264InHand /\ ~H264InHand'
  BY <1>1 DEF JpegInHand, H264InHand
<1>3. /\ hand' \in Frames /\ inputs' \in Seq(Frames) /\ busy' \in Int
      /\ Len(inputs') \in Nat /\ Len(inputs') < Len(inputs)
      /\ busy' - Len(inputs') = busy - Len(inputs) + 1
  <2>1. inputs \in Seq(Frames) /\ busy \in Nat
    BY InSlotsAssumption DEF FrameTypeOK
  <2>2. /\ Tail(inputs) \in Seq(Frames) /\ Len(Tail(inputs)) = Len(inputs) - 1
        /\ Head(inputs) \in Frames /\ inputs[Len(inputs)] \in Frames
        /\ Len(inputs) \in Nat \ {0}
    BY <1>1, <2>1, TailType
  <2>3. CASE latest
    <3>1. /\ hand' = inputs[Len(inputs)] /\ inputs' = <<>>
          /\ busy' = busy - (Len(inputs) - 1)
      BY <2>3 DEF Receive
    <3> QED
      BY <2>1, <2>2, <3>1, EmptyType
  <2>4. CASE ~latest
    <3>1. hand' = Head(inputs) /\ inputs' = Tail(inputs) /\ busy' = busy
      BY <2>4 DEF Receive
    <3> QED
      BY <2>1, <2>2, <3>1
  <2> QED
    BY <2>3, <2>4
<1>4. SlotsConserved'
  BY <1>1, <1>2, <1>3 DEF FrameTypeOK, SlotsConserved, Count
<1>5. busy' \in 0..InSlots
  BY <1>1, <1>2, <1>3, <1>4, InSlotsAssumption DEF FrameTypeOK, SlotsConserved, Count
<1>6. FrameTypeOK'
  BY <1>1, <1>3, <1>5, InSlotsAssumption DEF FrameTypeOK
<1>7. hand' # None
  BY <1>3 DEF Frames, None
<1>8. HandInv'
  BY <1>1, <1>2, <1>7 DEF HandInv
<1> QED
  BY <1>4, <1>6, <1>8

\* A frame is given up before it is encoded.
LEMMA GiveUpSlots ==
    ASSUME SlotInv, CheckFails \/ CheckFindsNoEncoder \/ DecodeDrops
    PROVE  SlotInv'
<1> USE DEF SlotInv
<1>1. /\ pc \in {"check", "decode"} /\ pc' \in {"top", "lost"}
      /\ hand' = None /\ busy' = busy - 1
      /\ UNCHANGED <<enabled, ctrl, stream, filling, upload, inputs, ready, outFree>>
  BY DEF CheckFails, CheckFindsNoEncoder, DecodeDrops, ReleaseInput
<1>2. /\ JpegInHand /\ ~JpegInHand'
      /\ ~H264InHand /\ ~H264InHand'
  BY <1>1 DEF JpegInHand, H264InHand
<1>3. SlotsConserved'
  BY <1>1, <1>2 DEF FrameTypeOK, SlotsConserved, Count
<1>4. busy > 0
  BY <1>2, InSlotsAssumption DEF FrameTypeOK, SlotsConserved, Count
<1>5. FrameTypeOK'
  BY <1>1, <1>4, InSlotsAssumption DEF FrameTypeOK
<1>6. HandInv'
  BY <1>1, <1>2 DEF HandInv
<1> QED
  BY <1>3, <1>5, <1>6

\* A decoded frame leaves its input slot and takes an output slot.
LEMMA DecodeSlots == SlotInv /\ Decode => SlotInv'
<1> SUFFICES ASSUME SlotInv, Decode PROVE SlotInv'
  OBVIOUS
<1> USE DEF SlotInv
<1>1. /\ pc = "decode" /\ pc' = "encode"
      /\ outFree > 0 /\ outFree' = outFree - 1 /\ busy' = busy - 1
      /\ UNCHANGED <<enabled, ctrl, stream, hand, filling, upload, inputs, ready>>
  BY DEF Decode
<1>2. /\ JpegInHand /\ ~JpegInHand'
      /\ ~H264InHand /\ H264InHand'
  BY <1>1 DEF JpegInHand, H264InHand
<1>3. SlotsConserved'
  BY <1>1, <1>2, OutSlotsAssumption DEF FrameTypeOK, SlotsConserved, Count
<1>4. busy > 0
  BY <1>2, InSlotsAssumption DEF FrameTypeOK, SlotsConserved, Count
<1>5. FrameTypeOK'
  BY <1>1, <1>4, InSlotsAssumption, OutSlotsAssumption DEF FrameTypeOK
<1>6. HandInv'
  BY <1>1, <1>2 DEF HandInv
<1> QED
  BY <1>3, <1>5, <1>6

\* An encoded frame is queued for the upload; one that could not be gives its
\* output slot back.
LEMMA EncodedSlots ==
    ASSUME SlotInv, Encoded \/ EncodeFails
    PROVE  SlotInv'
<1> USE DEF SlotInv
<1>1. /\ pc = "encoding" /\ pc' = "top" /\ hand' = None
      /\ UNCHANGED <<enabled, ctrl, stream, filling, upload, inputs, busy>>
  BY DEF Encoded, EncodeFails
<1>2. /\ ~JpegInHand /\ ~JpegInHand'
      /\ H264InHand /\ ~H264InHand'
  BY <1>1 DEF JpegInHand, H264InHand
<1>3. hand \in Frames
  BY <1>2 DEF HandInv, FrameTypeOK
<1>4. /\ ready' \in Seq(Frames) /\ Len(ready') \in Nat /\ Len(ready) \in Nat
      /\ outFree' \in Nat
      /\ outFree' + Len(ready') = outFree + Len(ready) + 1
  <2>1. ready \in Seq(Frames) /\ Len(ready) \in Nat /\ outFree \in Nat
    BY OutSlotsAssumption DEF FrameTypeOK
  <2>2. CASE Encoded
    <3>1. ready' = Append(ready, hand) /\ outFree' = outFree
      BY <2>2 DEF Encoded
    <3> QED
      BY <1>3, <2>1, <3>1, AppendType
  <2>3. CASE EncodeFails
    <3>1. ready' = ready /\ outFree' = outFree + 1
      BY <2>3 DEF EncodeFails
    <3> QED
      BY <2>1, <3>1
  <2> QED
    BY <2>2, <2>3
<1>5. SlotsConserved'
  BY <1>1, <1>2, <1>4, OutSlotsAssumption DEF FrameTypeOK, SlotsConserved, Count
<1>6. Len(ready') <= OutSlots /\ outFree' \in 0..OutSlots
  BY <1>2, <1>4, <1>5, OutSlotsAssumption DEF FrameTypeOK, SlotsConserved, Count
<1>7. FrameTypeOK'
  BY <1>1, <1>4, <1>6 DEF FrameTypeOK
<1>8. HandInv'
  BY <1>1, <1>2 DEF HandInv
<1> QED
  BY <1>5, <1>7, <1>8

\* All steps of the codec task.
LEMMA CodecStepSlots == SlotInv /\ CodecStep => SlotInv'
BY IdleStepSlots, ReceiveSlots, GiveUpSlots, DecodeSlots, EncodedSlots DEF CodecStep

\* The camera lends a frame and gets a slot for it.
LEMMA CameraStepSlots == SlotInv /\ (Offer \/ Submit) => SlotInv'
<1> SUFFICES ASSUME SlotInv, Offer \/ Submit PROVE SlotInv'
  OBVIOUS
<1> USE DEF SlotInv
<1>1. UNCHANGED <<enabled, ctrl, pc, stream, hand, upload, ready, outFree>>
  BY DEF Offer, Submit
<1>2. UNCHANGED <<JpegInHand, H264InHand>>
  BY <1>1 DEF JpegInHand, H264InHand
<1>3. HandInv'
  BY <1>1, <1>2 DEF HandInv
<1>4. CASE Offer
  <2>1. /\ filling = None /\ enabled /\ busy < InSlots
        /\ filling' = stream /\ busy' = busy + 1 /\ UNCHANGED inputs
    BY <1>4 DEF Offer
  <2>2. stream \in Frames /\ stream # None
    BY <2>1, MaxStreamsAssumption DEF HandInv, FrameTypeOK, Frames, None
  <2>3. SlotsConserved'
    BY <1>1, <1>2, <2>1, <2>2 DEF FrameTypeOK, SlotsConserved, Count
  <2>4. FrameTypeOK'
    BY <1>1, <2>1, <2>2, InSlotsAssumption DEF FrameTypeOK
  <2> QED
    BY <1>3, <2>3, <2>4
<1>5. CASE Submit
  <2>1. /\ filling # None /\ filling' = None
        /\ inputs' = Append(inputs, filling) /\ UNCHANGED busy
    BY <1>5 DEF Submit
  <2>2. filling \in Frames
    BY <2>1 DEF FrameTypeOK
  <2>3. inputs' \in Seq(Frames) /\ Len(inputs') = Len(inputs) + 1 /\ Len(inputs) \in Nat
    BY <2>1, <2>2, AppendType DEF FrameTypeOK
  <2>4. SlotsConserved'
    BY <1>1, <1>2, <2>1, <2>3 DEF FrameTypeOK, SlotsConserved, Count
  <2>5. Len(inputs') <= InSlots
    BY <2>1, <2>3, <2>4, InSlotsAssumption DEF FrameTypeOK, SlotsConserved, Count
  <2>6. FrameTypeOK'
    BY <1>1, <2>1, <2>3, <2>5 DEF FrameTypeOK
  <2> QED
    BY <1>3, <2>4, <2>6
<1> QED
  BY <1>4, <1>5

\* The upload takes a frame and returns its slot.
LEMMA UploadStepSlots == SlotInv /\ UploadStep => SlotInv'
<1> SUFFICES ASSUME SlotInv, UploadStep PROVE SlotInv'
  OBVIOUS
<1> USE DEF SlotInv
<1>1. UNCHANGED <<enabled, ctrl, pc, stream, hand, filling, inputs, busy>>
  BY DEF UploadStep, UploadTake, UploadReturn
<1>2. UNCHANGED <<JpegInHand, H264InHand>>
  BY <1>1 DEF JpegInHand, H264InHand
<1>3. HandInv'
  BY <1>1, <1>2 DEF HandInv
<1>4. CASE UploadTake
  <2>1. /\ upload = None /\ ready # <<>> /\ upload' = Head(ready)
        /\ ready' = Tail(ready) /\ UNCHANGED outFree
    BY <1>4 DEF UploadTake
  <2>2. /\ ready' \in Seq(Frames) /\ Len(ready') = Len(ready) - 1
        /\ Len(ready) \in Nat \ {0}
        /\ upload' \in Frames
    BY <2>1, TailType DEF FrameTypeOK
  <2>3. upload' # None
    BY <2>2 DEF Frames, None
  <2>4. SlotsConserved'
    BY <1>1, <1>2, <2>1, <2>2, <2>3, OutSlotsAssumption
       DEF FrameTypeOK, SlotsConserved, Count
  <2>5. FrameTypeOK'
    BY <1>1, <2>1, <2>2, OutSlotsAssumption DEF FrameTypeOK
  <2> QED
    BY <1>3, <2>4, <2>5
<1>5. CASE UploadReturn
  <2>1. /\ upload # None /\ upload' = None
        /\ outFree' = outFree + 1 /\ UNCHANGED ready
    BY <1>5 DEF UploadReturn
  <2>2. SlotsConserved'
    BY <1>1, <1>2, <2>1, OutSlotsAssumption DEF FrameTypeOK, SlotsConserved, Count
  <2>3. outFree' \in 0..OutSlots
    BY <2>1, <2>2, OutSlotsAssumption DEF FrameTypeOK, SlotsConserved, Count
  <2>4. FrameTypeOK'
    BY <1>1, <2>1, <2>3 DEF FrameTypeOK
  <2> QED
    BY <1>3, <2>2, <2>4
<1> QED
  BY <1>4, <1>5 DEF UploadStep

\* A request for an IDR, or nothing at all.
LEMMA IdleSlots == SlotInv /\ (ForceIdr \/ UNCHANGED vars) => SlotInv'
<1> SUFFICES ASSUME SlotInv, ForceIdr \/ UNCHANGED vars PROVE SlotInv'
  OBVIOUS
<1>1. UNCHANGED <<enabled, ctrl, pc, stream, hand, filling, upload, inputs, busy,
                  ready, outFree>>
  BY DEF ForceIdr
<1> QED
  BY <1>1 DEF SlotInv, FrameTypeOK, HandInv, SlotsConserved, JpegInHand, H264InHand

\* All steps.
LEMMA SlotStep == SlotInv /\ [Next]_vars => SlotInv'
BY ControlStepSlots, CodecStepSlots, CameraStepSlots, UploadStepSlots, IdleSlots
   DEF Next

\* Every input and every output slot is free, or holds exactly one frame on its
\* way, for any number of slots (video_drain_input_queue, video_drop_pending_output
\* and the releases of the codec task).
THEOREM SlotsConservedCorrect == Spec => []SlotsConserved
<1>1. Init => SlotInv
  BY InitSlots
<1>2. SlotInv /\ [Next]_vars => SlotInv'
  BY SlotStep
<1>3. SlotInv => SlotsConserved
  BY DEF SlotInv
<1> QED
  BY <1>1, <1>2, <1>3, PTL DEF Spec

-----------------------------------------------------------------------------
(* The types of the control layer and of the codec task, and with them the *)
(* second theorem.                                                         *)

PcTypeOK == ControlTypeOK /\ CodecTypeOK

\* Start, stop and the steps of either.
LEMMA ControlStepType == PcTypeOK /\ (Start \/ Stop \/ ControlStep) => PcTypeOK'
<1> SUFFICES ASSUME PcTypeOK, Start \/ Stop \/ ControlStep PROVE PcTypeOK'
  OBVIOUS
<1>1. UNCHANGED <<pc, encoder, latest, raced>> /\ fresh' \in BOOLEAN
  BY DEF Start, Stop, ControlStep, StartInputs, StartOutputs, AskDrain, Ask, Post,
         Opened, OpenTimeout, ForceFirst, StartEnable, Enable, StartDone, Fail,
         FailState, FailInputs, FailOutputs, StopGate, StopInputs, StopOutputs,
         PcTypeOK, CodecTypeOK
<1>2. CodecTypeOK'
  BY <1>1 DEF PcTypeOK, CodecTypeOK
<1> USE DEF PcTypeOK, ControlTypeOK, States, ControlPoints
<1>3. CASE Start \/ Stop \/ ForceFirst \/ StartEnable \/ StartDone
  BY <1>2, <1>3 DEF Start, Stop, ForceFirst, StartEnable, Enable, StartDone
<1>4. CASE StartInputs \/ StartOutputs \/ FailInputs \/ FailOutputs
  BY <1>2, <1>4 DEF StartInputs, StartOutputs, FailInputs, FailOutputs,
                    DrainInputs, DropOutputs
<1>5. CASE AskDrain \/ Ask \/ Post \/ Opened \/ OpenTimeout
  BY <1>2, <1>5 DEF AskDrain, Ask, Post, Opened, OpenTimeout
<1>6. CASE Fail \/ FailState \/ StopGate
  BY <1>2, <1>6 DEF Fail, FailState, StopGate
<1>7. CASE StopInputs \/ StopOutputs
  BY <1>2, <1>7 DEF StopInputs, StopOutputs, DrainInputs, DropOutputs
<1> QED
  BY <1>3, <1>4, <1>5, <1>6, <1>7 DEF ControlStep

\* The codec task.
LEMMA CodecStepType == PcTypeOK /\ CodecStep => PcTypeOK'
<1> SUFFICES ASSUME PcTypeOK, CodecStep PROVE PcTypeOK'
  OBVIOUS
<1> USE DEF PcTypeOK, ControlTypeOK, CodecTypeOK, States, CodecPoints
<1>1. CASE Top
  <2>1. UNCHANGED <<state, enabled, force, done, result, ctrl, encoder, latest, fresh,
                    raced>>
    BY <1>1, Zenon DEF Top
  <2>2. notified' \in BOOLEAN /\ requested' \in BOOLEAN
    BY <1>1, Zenon DEF Top
  <2>3. pc' \in {"open", "receive"}
    BY <1>1, Zenon DEF Top
  <2> QED
    BY <2>1, <2>2, <2>3
<1>8. CASE Answer \/ NothingReceived \/ CheckPasses
  <2>1. UNCHANGED <<state, enabled, force, requested, notified, result, ctrl,
                    encoder, latest, fresh, raced>>
    BY <1>8, Zenon DEF Answer, NothingReceived, CheckPasses
  <2>2. done' \in BOOLEAN
    BY <1>8, Zenon DEF Answer, NothingReceived, CheckPasses
  <2>3. pc' \in {"receive", "top", "off", "decode"}
    BY <1>8, Zenon DEF Answer, NothingReceived, CheckPasses
  <2> QED
    BY <2>1, <2>2, <2>3
<1>2. CASE Open
  <2>1. /\ UNCHANGED <<state, enabled, force, requested, notified, done, ctrl,
                       latest, fresh, raced>>
        /\ pc' = "answer"
    BY <1>2 DEF Open
  <2>2. PICK ok \in {encoder, TRUE} :
            encoder' = ok /\ result' = IF ok THEN "ok" ELSE "failed"
    BY <1>2 DEF Open
  <2> QED
    BY <2>1, <2>2
<1>3. CASE Off
  <2>1. UNCHANGED <<state, enabled, force, requested, notified, done, result, ctrl,
                    latest, fresh>> /\ pc' = "top"
    BY <1>3, Zenon DEF Off
  <2>2. encoder' \in BOOLEAN /\ raced' \in BOOLEAN
    BY <1>3, Zenon DEF Off
  <2> QED
    BY <2>1, <2>2
<1>4. CASE Receive \/ CheckFindsNoEncoder
  <2>1. UNCHANGED <<state, enabled, force, requested, notified, done, result, ctrl,
                    encoder, fresh, raced>>
    BY <1>4, Zenon DEF Receive, CheckFindsNoEncoder
  <2>2. latest' \in BOOLEAN /\ pc' \in {"check", "lost"}
    BY <1>4, Zenon DEF Receive, CheckFindsNoEncoder
  <2> QED
    BY <2>1, <2>2
<1>5. CASE CheckFails
  <2>1. /\ UNCHANGED <<state, enabled, force, requested, notified, done, result,
                       ctrl, encoder, fresh, raced>>
        /\ pc' = "top"
    BY <1>5 DEF CheckFails
  <2>2. latest' \in BOOLEAN
    BY <1>5, Zenon DEF CheckFails
  <2> QED
    BY <2>1, <2>2
<1>6. CASE Lost \/ LostState \/ LostInputs \/ LostOutputs
  <2>1. UNCHANGED <<force, requested, notified, done, result, ctrl, encoder, latest,
                    fresh, raced>>
    BY <1>6, Zenon DEF Lost, LostState, LostInputs, LostOutputs
  <2>2. enabled' \in BOOLEAN /\ state' \in States
    BY <1>6, Zenon DEF Lost, LostState, LostInputs, LostOutputs
  <2>3. pc' \in {"lostState", "lostInputs", "lostOutputs", "top"}
    BY <1>6, Zenon DEF Lost, LostState, LostInputs, LostOutputs, DrainInputs,
                       DropOutputs
  <2> QED
    BY <2>1, <2>2, <2>3
<1>7. CASE DecodeDrops \/ Decode \/ Encode \/ Encoded \/ EncodeFails
  <2>1. UNCHANGED <<state, enabled, requested, notified, done, result, ctrl, encoder,
                    raced>>
    BY <1>7, Zenon DEF DecodeDrops, Decode, Encode, Encoded, EncodeFails
  <2>2. force' \in BOOLEAN /\ fresh' \in BOOLEAN /\ latest' \in BOOLEAN
    BY <1>7, Zenon DEF DecodeDrops, Decode, Encode, Encoded, EncodeFails
  <2>3. pc' \in {"top", "encode", "encoding"}
    BY <1>7, Zenon DEF DecodeDrops, Decode, Encode, Encoded, EncodeFails
  <2> QED
    BY <2>1, <2>2, <2>3
<1> QED
  BY <1>1, <1>2, <1>3, <1>4, <1>5, <1>6, <1>7, <1>8 DEF CodecStep

\* The others move no variable of the two but force.
LEMMA OtherStepType ==
    PcTypeOK /\ (UploadStep \/ Offer \/ Submit \/ ForceIdr \/ UNCHANGED vars)
      => PcTypeOK'
<1> SUFFICES ASSUME PcTypeOK,
                    UploadStep \/ Offer \/ Submit \/ ForceIdr \/ UNCHANGED vars
             PROVE  PcTypeOK'
  OBVIOUS
<1>1. /\ UNCHANGED <<state, enabled, requested, notified, done, result, ctrl,
                     pc, encoder, latest, fresh, raced>>
      /\ force' = TRUE \/ force' = force
  BY DEF UploadStep, UploadTake, UploadReturn, Offer, Submit, ForceIdr
<1> QED
  BY <1>1 DEF PcTypeOK, ControlTypeOK, CodecTypeOK

\* Type correctness; the types of the frames and the slots come with SlotInv.
THEOREM TypeCorrect == Spec => []TypeOK
<1>1. Init => PcTypeOK /\ SlotInv
  BY InitSlots DEF Init, PcTypeOK, ControlTypeOK, CodecTypeOK, States,
                   ControlPoints, CodecPoints
<1>2. PcTypeOK /\ [Next]_vars => PcTypeOK'
  BY ControlStepType, CodecStepType, OtherStepType DEF Next
<1>3. SlotInv /\ [Next]_vars => SlotInv'
  BY SlotStep
<1>4. PcTypeOK /\ SlotInv => TypeOK
  BY DEF PcTypeOK, SlotInv, TypeOK
<1> QED
  BY <1>1, <1>2, <1>3, <1>4, PTL DEF Spec

\* The gate of submit is not opened without an encoder behind it, unless the idle
\* check has closed one under a stream (video_streamer_start, video_codec_task).
THEOREM GateHasEncoderCorrect == Spec => []GateHasEncoder
<1>1. Init => OpenInv
  BY InitOpen
<1>2. TypeOK /\ OpenInv /\ [Next]_vars => OpenInv'
  BY ControlStepOpen, CodecStepOpen, OtherStepOpen DEF Next
<1>3. OpenInv => GateHasEncoder
  BY DEF OpenInv
<1> QED
  BY <1>1, <1>2, <1>3, TypeCorrect, PTL DEF Spec

-----------------------------------------------------------------------------
(* The place of a start.                                                    *)

\* The codec task has answered the request of the start under way.
Answered ==
    \/ ctrl \in {"ask", "post", "wait"} /\ done
    \/ ctrl \in {"opened", "forced"}

\* Where the control layer and the codec task can be together.  While a start is
\* under way the gate is closed, so that no frame gets past the codec task's
\* check, and a codec task that has answered has none behind it.
GateInv ==
    /\ ctrl = "idle" /\ enabled => state = "streaming"
    /\ ctrl \in AskingPoints => ~enabled
    /\ ctrl \in {"failState", "failInputs", "failOutputs", "stopInputs", "stopOutputs"}
         => ~enabled
    /\ pc = "lostState" => ~enabled
    /\ Answered => pc \in {"top", "open", "answer", "receive", "off", "check"}
    /\ ctrl = "forced" => force
    /\ fresh => force

\* It holds of a stream that is off,
LEMMA InitGate == Init => GateInv
BY DEF Init, GateInv, Answered, AskingPoints

\* in every step of start and stop,
LEMMA ControlStepGate == GateInv /\ (Start \/ Stop \/ ControlStep) => GateInv'
<1> SUFFICES ASSUME GateInv, Start \/ Stop \/ ControlStep PROVE GateInv'
  OBVIOUS
<1> USE DEF GateInv, Answered, AskingPoints
<1>1. CASE Start \/ Stop
  BY <1>1 DEF Start, Stop
<1>2. CASE StartInputs \/ StartOutputs
  BY <1>2 DEF StartInputs, StartOutputs, DrainInputs, DropOutputs
<1>3. CASE AskDrain \/ Ask \/ Post
  BY <1>3 DEF AskDrain, Ask, Post
<1>4. CASE Opened \/ OpenTimeout
  BY <1>4 DEF Opened, OpenTimeout
<1>5. CASE ForceFirst \/ StartDone
  BY <1>5 DEF ForceFirst, StartDone
<1>6. CASE StartEnable
  BY <1>6 DEF StartEnable, Enable
<1>7. CASE Fail \/ FailState \/ FailInputs \/ FailOutputs
  BY <1>7 DEF Fail, FailState, FailInputs, FailOutputs, DrainInputs, DropOutputs
<1>8. CASE StopGate \/ StopInputs \/ StopOutputs
  BY <1>8 DEF StopGate, StopInputs, StopOutputs, DrainInputs, DropOutputs
<1> QED
  BY <1>1, <1>2, <1>3, <1>4, <1>5, <1>6, <1>7, <1>8 DEF ControlStep

\* in every step of the codec task,
LEMMA CodecStepGate == GateInv /\ CodecStep => GateInv'
<1> SUFFICES ASSUME GateInv, CodecStep PROVE GateInv'
  OBVIOUS
<1> USE DEF GateInv, Answered, AskingPoints
<1>1. CASE Top \/ Answer \/ NothingReceived \/ Open \/ Off \/ Receive
  <2>1. UNCHANGED <<state, enabled, force, ctrl, fresh>> /\ (done' # done => pc = "answer")
    BY <1>1 DEF Top, Answer, NothingReceived, Open, Off, Receive
  <2>2. /\ pc \in {"top", "open", "answer", "receive", "off"}
        /\ pc' \in {"top", "open", "answer", "receive", "off", "check"}
    BY <1>1 DEF Top, Answer, NothingReceived, Open, Off, Receive
  <2> QED
    BY <2>1, <2>2
<1>2. CASE CheckFails \/ CheckPasses \/ CheckFindsNoEncoder
  <2>1. UNCHANGED <<state, enabled, force, ctrl, fresh, done>>
    BY <1>2 DEF CheckFails, CheckPasses, CheckFindsNoEncoder
  <2>2. pc' = "top" \/ (enabled /\ pc' \in {"decode", "lost"})
    BY <1>2 DEF CheckFails, CheckPasses, CheckFindsNoEncoder
  <2> QED
    BY <2>1, <2>2
<1>3. CASE Lost \/ LostState \/ LostInputs \/ LostOutputs
  BY <1>3 DEF Lost, LostState, LostInputs, LostOutputs, DrainInputs, DropOutputs
<1>4. CASE DecodeDrops \/ Decode \/ Encode \/ Encoded \/ EncodeFails
  BY <1>4 DEF DecodeDrops, Decode, Encode, Encoded, EncodeFails
<1> QED
  BY <1>1, <1>2, <1>3, <1>4 DEF CodecStep

\* and in all others.
LEMMA OtherStepGate ==
    GateInv /\ (UploadStep \/ Offer \/ Submit \/ ForceIdr \/ UNCHANGED vars) => GateInv'
<1> SUFFICES ASSUME GateInv,
                    UploadStep \/ Offer \/ Submit \/ ForceIdr \/ UNCHANGED vars
             PROVE  GateInv'
  OBVIOUS
<1>1. UNCHANGED <<ctrl, pc, state, enabled, done, fresh>> /\ (force => force')
  BY DEF UploadStep, UploadTake, UploadReturn, Offer, Submit, ForceIdr
<1> QED
  BY <1>1 DEF GateInv, Answered, AskingPoints

-----------------------------------------------------------------------------
(* The frames of a queue from before stream n.                              *)

Before(q, n) == Cardinality({i \in 1..Len(q) : q[i] < n})

\* The indices of a queue are as many as it is long.
LEMMA UpTo ==
    ASSUME NEW k \in Nat
    PROVE  IsFiniteSet(1..k) /\ Cardinality(1..k) = k
BY FS_Interval

\* They are some of its frames.
LEMMA BeforeType ==
    ASSUME NEW q \in Seq(Frames), NEW n \in Nat
    PROVE  /\ IsFiniteSet({i \in 1..Len(q) : q[i] < n})
           /\ Before(q, n) \in Nat /\ Before(q, n) <= Len(q)
<1>1. IsFiniteSet(1..Len(q)) /\ Cardinality(1..Len(q)) = Len(q)
  <2>1. Len(q) \in Nat
    OBVIOUS
  <2> QED
    BY <2>1, UpTo
<1>2. {i \in 1..Len(q) : q[i] < n} \subseteq 1..Len(q)
  OBVIOUS
<1> QED
  BY <1>1, <1>2, FS_Subset, FS_CardinalityType DEF Before

\* When n is to come they are all of them.
LEMMA BeforeAll ==
    ASSUME NEW q \in Seq(Frames)
    PROVE  Before(q, MaxStreams + 1) = Len(q)
<1>1. Len(q) \in Nat /\ \A i \in 1..Len(q) : q[i] \in Frames
  OBVIOUS
<1>2. {i \in 1..Len(q) : q[i] < MaxStreams + 1} = 1..Len(q)
  BY <1>1, MaxStreamsAssumption DEF Frames
<1>3. Cardinality(1..Len(q)) = Len(q)
  <2>1. Len(q) \in Nat
    OBVIOUS
  <2> QED
    BY <2>1, UpTo
<1> QED
  BY <1>2, <1>3 DEF Before

\* An empty queue has none.
LEMMA BeforeEmpty ==
    ASSUME NEW n
    PROVE  Before(<<>>, n) = 0
<1>1. {i \in 1..Len(<<>>) : <<>>[i] < n} = {}
  OBVIOUS
<1> QED
  BY <1>1, FS_EmptySet DEF Before

\* A frame that is put into the queue is one of them or not.
LEMMA BeforeAppend ==
    ASSUME NEW q \in Seq(Frames), NEW f \in Frames, NEW n \in Nat
    PROVE  Before(Append(q, f), n) = Before(q, n) + (IF f < n THEN 1 ELSE 0)
<1> DEFINE at == {i \in 1..Len(q) : q[i] < n}
           atA == {i \in 1..Len(Append(q, f)) : Append(q, f)[i] < n}
<1>1. IsFiniteSet(at) /\ Cardinality(at) = Before(q, n) /\ Before(q, n) \in Nat
  BY BeforeType DEF Before
<1>2. CASE f < n
  <2>1. atA = at \cup {Len(q) + 1}
    BY <1>2
  <2>2. Len(q) + 1 \notin at
    OBVIOUS
  <2> HIDE DEF at, atA
  <2>3. Cardinality(atA) = Cardinality(at) + 1
    BY <1>1, <2>1, <2>2, FS_AddElement
  <2> QED
    BY <1>1, <1>2, <2>3 DEF Before, atA
<1>3. CASE ~(f < n)
  <2>1. atA = at
    BY <1>3
  <2>2. Before(Append(q, f), n) = Cardinality(atA)
    BY DEF Before
  <2> HIDE DEF at, atA
  <2> QED
    BY <1>1, <1>3, <2>1, <2>2
<1> QED
  BY <1>2, <1>3

\* So is the first one that is taken out,
LEMMA BeforeTail ==
    ASSUME NEW q \in Seq(Frames), q # <<>>, NEW n \in Nat
    PROVE  Before(q, n) = Before(Tail(q), n) + (IF Head(q) < n THEN 1 ELSE 0)
<1> DEFINE at == {i \in 1..Len(q) : q[i] < n}
           rest == {i \in 1..Len(Tail(q)) : Tail(q)[i] < n}
           moved == {i \in 2..Len(q) : q[i] < n}
           Move == [i \in rest |-> i + 1]
<1>1. Tail(q) \in Seq(Frames) /\ Len(q) \in Nat \ {0} /\ Len(Tail(q)) = Len(q) - 1
  OBVIOUS
<1>2. \A i \in 1..Len(Tail(q)) : Tail(q)[i] = q[i + 1]
  OBVIOUS
<1>3. IsFiniteSet(rest) /\ Cardinality(rest) = Before(Tail(q), n)
      /\ Before(Tail(q), n) \in Nat
  BY <1>1, BeforeType DEF Before
<1>4. Move \in Bijection(rest, moved)
  <2>1. \A i \in rest : i + 1 \in moved
    BY <1>1, <1>2
  <2>2. \A i, j \in rest : i + 1 = j + 1 => i = j
    BY <1>1
  <2>3. \A j \in moved : \E i \in rest : i + 1 = j
    <3> SUFFICES ASSUME NEW j \in moved PROVE j - 1 \in rest /\ (j - 1) + 1 = j
      BY Zenon
    <3> QED
      BY <1>1, <1>2
  <2> HIDE DEF rest, moved
  <2> QED
    BY <2>1, <2>2, <2>3 DEF Bijection, Injection, Surjection, IsInjective
<1>5. IsFiniteSet(moved) /\ Cardinality(moved) = Cardinality(rest)
  <2> HIDE DEF rest, moved, Move
  <2> QED
    BY <1>3, <1>4, FS_Bijection DEF ExistsBijection
<1>6. CASE Head(q) < n
  <2>1. at = moved \cup {1} /\ 1 \notin moved
    BY <1>1, <1>6
  <2> HIDE DEF at, moved, rest
  <2>2. Cardinality(at) = Cardinality(moved) + 1
    BY <1>5, <2>1, FS_AddElement
  <2> QED
    BY <1>3, <1>5, <1>6, <2>2 DEF Before, at
<1>7. CASE ~(Head(q) < n)
  <2>1. at = moved
    BY <1>1, <1>7
  <2>2. Before(q, n) = Cardinality(at)
    BY DEF Before
  <2> HIDE DEF at, moved, rest
  <2>3. Before(q, n) = Before(Tail(q), n)
    BY <1>3, <1>5, <2>1, <2>2
  <2> QED
    BY <1>3, <1>7, <2>3
<1> QED
  BY <1>6, <1>7

\* and the last one.
LEMMA BeforeLast ==
    ASSUME NEW q \in Seq(Frames), q # <<>>, NEW n \in Nat
    PROVE  Before(q, n) >= (IF q[Len(q)] < n THEN 1 ELSE 0)
<1> DEFINE at == {i \in 1..Len(q) : q[i] < n}
<1>1. IsFiniteSet(at) /\ Before(q, n) = Cardinality(at) /\ Before(q, n) \in Nat
  BY BeforeType DEF Before
<1>2. CASE q[Len(q)] < n
  <2>1. Len(q) \in at
    BY <1>2
  <2> HIDE DEF at
  <2>2. Cardinality(at) # 0
    BY <1>1, <2>1, FS_EmptySet
  <2> QED
    BY <1>1, <1>2, <2>2
<1>3. CASE ~(q[Len(q)] < n)
  BY <1>1, <1>3
<1> QED
  BY <1>2, <1>3

-----------------------------------------------------------------------------
(* What is left of the last stream: the frames under way from before stream *)
(* n, which only become fewer when none passes the gate.                    *)

Left(f, n) == IF f # None /\ f < n THEN 1 ELSE 0

\* Those that wait for the codec task, and the one in its hands.
Entered(q, f, n) == Before(q, n) + Left(f, n)
Held(b, f, n) == IF b THEN Left(f, n) ELSE 0

\* Each is one frame or none.
LEMMA LeftType ==
    ASSUME NEW f, NEW n
    PROVE  Left(f, n) \in {0, 1} /\ Left(None, n) = 0
BY DEF Left

\* It is held by the codec task or not.
LEMMA HeldType ==
    ASSUME NEW b, NEW f, NEW n
    PROVE  /\ Held(b, f, n) \in Nat /\ Held(b, f, n) <= Left(f, n)
           /\ Left(f, n) = 0 => Held(b, f, n) = 0
BY DEF Left, Held

\* From before a stream to come are all of them.
LEMMA LeftAll ==
    ASSUME NEW f \in Frames \cup {None}
    PROVE  Left(f, MaxStreams + 1) = Count(f # None)
BY MaxStreamsAssumption DEF Left, Count, Frames, None

\* A frame put into a queue that it waited for.
LEMMA LeftAppend ==
    ASSUME NEW q \in Seq(Frames), NEW f \in Frames, NEW n \in Nat
    PROVE  Before(Append(q, f), n) = Before(q, n) + Left(f, n)
BY BeforeAppend DEF Left, Frames, None

\* A frame taken out of a queue.
LEMMA LeftTail ==
    ASSUME NEW q \in Seq(Frames), q # <<>>, NEW n \in Nat
    PROVE  /\ Before(q, n) = Before(Tail(q), n) + Left(Head(q), n)
           /\ Before(q, n) >= Left(q[Len(q)], n)
<1>1. Head(q) \in Frames /\ q[Len(q)] \in Frames
  BY TailType
<1>2. /\ Left(Head(q), n) = IF Head(q) < n THEN 1 ELSE 0
      /\ Left(q[Len(q)], n) = IF q[Len(q)] < n THEN 1 ELSE 0
  BY <1>1 DEF Left, Frames, None
<1> QED
  BY <1>2, BeforeTail, BeforeLast

\* A queue that is left alone or loses its first frame.
LEMMA LeftDrained ==
    ASSUME NEW q \in Seq(Frames), NEW r, r = q \/ (q # <<>> /\ r = Tail(q)), NEW n \in Nat
    PROVE  Before(r, n) \in Nat /\ Before(q, n) \in Nat /\ Before(r, n) <= Before(q, n)
<1>1. Before(q, n) \in Nat
  BY BeforeType
<1>2. CASE r = q
  BY <1>1, <1>2
<1>3. CASE q # <<>> /\ r = Tail(q)
  <2>1. Tail(q) \in Seq(Frames)
    BY <1>3, TailType
  <2>2. Before(r, n) \in Nat
    BY <1>3, <2>1, BeforeType
  <2>3. Before(q, n) = Before(r, n) + Left(Head(q), n) /\ Left(Head(q), n) \in {0, 1}
    BY <1>3, LeftTail, LeftType
  <2> QED
    BY <1>1, <2>2, <2>3
<1> QED
  BY <1>2, <1>3

\* No frame from before stream n is added by a step of a kind.
Fewer(n) ==
    /\ Entered(inputs', filling', n) <= Entered(inputs, filling, n)
    /\ Entered(inputs', filling', n) + Held(JpegInHand', hand', n)
         <= Entered(inputs, filling, n) + Held(JpegInHand, hand, n)
    /\ Entered(inputs', filling', n) + Left(hand', n) + Before(ready', n)
         <= Entered(inputs, filling, n) + Left(hand, n) + Before(ready, n)

\* Steps that take frames out of queues, and at most pass on the one in hand.
LEMMA DrainFewer ==
    ASSUME FrameTypeOK, NEW n \in Nat, UNCHANGED <<filling, hand>>,
           inputs' = inputs \/ (inputs # <<>> /\ inputs' = Tail(inputs)),
           ready' = ready \/ (ready # <<>> /\ ready' = Tail(ready)),
           JpegInHand' => JpegInHand
    PROVE  Fewer(n)
<1>1. inputs \in Seq(Frames) /\ ready \in Seq(Frames)
  BY DEF FrameTypeOK
<1>2. /\ Before(inputs', n) \in Nat /\ Before(inputs, n) \in Nat
      /\ Before(inputs', n) <= Before(inputs, n)
  BY <1>1, LeftDrained
<1>3. /\ Before(ready', n) \in Nat /\ Before(ready, n) \in Nat
      /\ Before(ready', n) <= Before(ready, n)
  BY <1>1, LeftDrained
<1>4. /\ Left(filling, n) \in {0, 1} /\ Left(hand, n) \in {0, 1}
      /\ Left(filling', n) = Left(filling, n) /\ Left(hand', n) = Left(hand, n)
  BY LeftType
<1>5. /\ Held(JpegInHand, hand, n) \in Nat /\ Held(JpegInHand', hand', n) \in Nat
      /\ Held(JpegInHand', hand', n) <= Held(JpegInHand, hand, n)
  BY <1>4 DEF Held
<1> QED
  BY <1>2, <1>3, <1>4, <1>5 DEF Fewer, Entered

\* A frame that is received leaves the input queue, and maybe others with it.
LEMMA ReceiveFewer ==
    ASSUME FrameTypeOK, HandInv, Receive, NEW n \in Nat
    PROVE  Fewer(n)
<1>1. /\ inputs \in Seq(Frames) /\ inputs # <<>> /\ ready \in Seq(Frames)
      /\ UNCHANGED <<filling, ready>>
  BY DEF FrameTypeOK, Receive
<1>2. hand = None
  BY DEF HandInv, Receive, JpegInHand, H264InHand
<1>3. /\ Before(inputs, n) \in Nat /\ Before(inputs', n) \in Nat
      /\ Left(hand', n) \in {0, 1}
      /\ Before(inputs', n) + Left(hand', n) <= Before(inputs, n)
  <2>1. CASE latest
    <3>1. hand' = inputs[Len(inputs)] /\ inputs' = <<>>
      BY <2>1 DEF Receive
    <3>2. Before(inputs, n) >= Left(hand', n) /\ Before(inputs', n) = 0
      BY <1>1, <3>1, LeftTail, BeforeEmpty
    <3>3. Before(inputs, n) \in Nat /\ Left(hand', n) \in {0, 1}
      BY <1>1, BeforeType, LeftType
    <3> QED
      BY <3>2, <3>3
  <2>2. CASE ~latest
    <3>1. hand' = Head(inputs) /\ inputs' = Tail(inputs)
      BY <2>2 DEF Receive
    <3>2. Before(inputs, n) = Before(inputs', n) + Left(hand', n)
      BY <1>1, <3>1, LeftTail
    <3>3. Before(inputs, n) \in Nat /\ Before(inputs', n) \in Nat
      BY <1>1, <3>1, LeftDrained
    <3> QED
      BY <3>2, <3>3, LeftType
  <2> QED
    BY <2>1, <2>2
<1>4. /\ Left(hand, n) = 0 /\ Held(JpegInHand, hand, n) = 0
      /\ Held(JpegInHand', hand', n) \in Nat
      /\ Held(JpegInHand', hand', n) <= Left(hand', n)
  BY <1>2, LeftType, HeldType
<1>5. Before(ready, n) \in Nat /\ Left(filling, n) \in {0, 1}
  BY <1>1, BeforeType, LeftType
<1> QED
  BY <1>1, <1>3, <1>4, <1>5 DEF Fewer, Entered

\* A frame that is given up is gone; one that is encoded goes to the upload.
LEMMA GivenFewer ==
    ASSUME FrameTypeOK, HandInv, NEW n \in Nat,
           hand' = None, UNCHANGED <<inputs, filling>>,
           ready' = ready \/ (hand # None /\ ready' = Append(ready, hand))
    PROVE  Fewer(n)
<1>1. /\ inputs \in Seq(Frames) /\ ready \in Seq(Frames)
      /\ hand \in Frames \cup {None}
  BY DEF FrameTypeOK
<1>2. /\ Before(inputs, n) \in Nat /\ Before(ready, n) \in Nat
      /\ Left(filling, n) \in {0, 1} /\ Left(hand, n) \in {0, 1} /\ Left(hand', n) = 0
      /\ Held(JpegInHand, hand, n) \in Nat
  BY <1>1, BeforeType, LeftType, HeldType
<1>3. Held(JpegInHand', hand', n) = 0
  BY <1>2 DEF Held
<1>4. Before(ready', n) = Before(ready, n) \/ Before(ready', n) = Before(ready, n) + Left(hand, n)
  BY <1>1, LeftAppend
<1> QED
  BY <1>2, <1>3, <1>4 DEF Fewer, Entered

\* A frame that the camera has lent is put into the queue.
LEMMA SubmitFewer ==
    ASSUME FrameTypeOK, Submit, NEW n \in Nat
    PROVE  Fewer(n)
<1>1. /\ inputs \in Seq(Frames) /\ ready \in Seq(Frames) /\ filling \in Frames
      /\ inputs' = Append(inputs, filling) /\ filling' = None
  BY DEF FrameTypeOK, Submit
<1>2. UNCHANGED <<hand, ready, JpegInHand>>
  BY DEF Submit, JpegInHand
<1>3. /\ Before(inputs, n) \in Nat /\ Before(ready, n) \in Nat
      /\ Left(filling, n) \in {0, 1} /\ Left(filling', n) = 0 /\ Left(hand, n) \in {0, 1}
      /\ Held(JpegInHand, hand, n) \in Nat
      /\ Before(inputs', n) = Before(inputs, n) + Left(filling, n)
  BY <1>1, BeforeType, LeftType, HeldType, LeftAppend
<1>4. Held(JpegInHand', hand', n) = Held(JpegInHand, hand, n) /\ Left(hand', n) = Left(hand, n)
  BY <1>2
<1> QED
  BY <1>2, <1>3, <1>4 DEF Fewer, Entered

\* A frame that passes the gate is of the current stream.
LEMMA OfferFewer ==
    ASSUME FrameTypeOK, Offer, NEW n \in Nat, n <= stream
    PROVE  Fewer(n)
<1>1. /\ inputs \in Seq(Frames) /\ ready \in Seq(Frames) /\ stream \in Nat
      /\ filling = None /\ filling' = stream
  BY MaxStreamsAssumption DEF FrameTypeOK, Offer
<1>2. UNCHANGED <<inputs, hand, ready, JpegInHand>>
  BY DEF Offer, JpegInHand
<1>3. /\ Before(inputs, n) \in Nat /\ Before(ready, n) \in Nat
      /\ Left(filling, n) = 0 /\ Left(hand, n) \in {0, 1}
      /\ Held(JpegInHand, hand, n) \in Nat
  BY <1>1, BeforeType, LeftType, HeldType
<1>4. Left(filling', n) = 0
  BY <1>1 DEF Left
<1>5. Held(JpegInHand', hand', n) = Held(JpegInHand, hand, n) /\ Left(hand', n) = Left(hand, n)
  BY <1>2
<1> QED
  BY <1>2, <1>3, <1>4, <1>5 DEF Fewer, Entered

\* Every step but the opening of the gate leaves no more than there were, be it
\* with a frame that comes in.
LEMMA NextFewer ==
    ASSUME SlotInv, [Next]_vars, ~StartEnable, NEW n \in Nat, n <= stream \/ ~Offer
    PROVE  Fewer(n)
<1>1. FrameTypeOK /\ HandInv
  BY DEF SlotInv
<1>2. CASE Start \/ Stop \/ ControlStep \/ UploadStep \/ ForceIdr \/ UNCHANGED vars
  <2>1. /\ UNCHANGED <<filling, hand, pc>>
        /\ inputs' = inputs \/ (inputs # <<>> /\ inputs' = Tail(inputs))
        /\ ready' = ready \/ (ready # <<>> /\ ready' = Tail(ready))
    BY <1>2 DEF Start, Stop, ControlStep, StartInputs, StartOutputs, AskDrain, Ask, Post,
         Opened, OpenTimeout, ForceFirst, StartDone, Fail, FailState, FailInputs,
         FailOutputs, StopGate, StopInputs, StopOutputs, DrainInputs, DropOutputs,
         UploadTake, UploadReturn, UploadStep, ForceIdr
  <2>2. JpegInHand' => JpegInHand
    BY <2>1 DEF JpegInHand
  <2> QED
    BY <1>1, <2>1, <2>2, DrainFewer
<1>3. CASE Top \/ Open \/ Answer \/ NothingReceived \/ Off \/ CheckPasses \/ Encode \/ Decode
  <2>1. UNCHANGED <<filling, hand, inputs, ready>>
    BY <1>3, Zenon DEF Top, Open, Answer, NothingReceived, Off, CheckPasses, Encode, Decode
  <2>2. JpegInHand' => JpegInHand
    BY <1>3 DEF Top, Open, Answer, NothingReceived, Off, CheckPasses, Encode, Decode,
                JpegInHand
  <2> QED
    BY <1>1, <2>1, <2>2, DrainFewer
<1>4. CASE Lost \/ LostState \/ LostInputs \/ LostOutputs
  <2>1. /\ UNCHANGED <<filling, hand>>
        /\ inputs' = inputs \/ (inputs # <<>> /\ inputs' = Tail(inputs))
        /\ ready' = ready \/ (ready # <<>> /\ ready' = Tail(ready))
        /\ pc' \in {"lostState", "lostInputs", "lostOutputs", "top"}
    BY <1>4 DEF Lost, LostState, LostInputs, LostOutputs, DrainInputs, DropOutputs
  <2>2. JpegInHand' => JpegInHand
    BY <2>1 DEF JpegInHand
  <2> QED
    BY <1>1, <2>1, <2>2, DrainFewer
<1>5. CASE Receive
  BY <1>1, <1>5, ReceiveFewer
<1>6. CASE CheckFails \/ CheckFindsNoEncoder \/ DecodeDrops \/ EncodeFails
  <2>1. hand' = None /\ UNCHANGED <<inputs, filling, ready>>
    BY <1>6 DEF CheckFails, CheckFindsNoEncoder, DecodeDrops, EncodeFails, ReleaseInput
  <2> QED
    BY <1>1, <2>1, GivenFewer
<1>7. CASE Encoded
  <2>1. /\ hand' = None /\ UNCHANGED <<inputs, filling>> /\ ready' = Append(ready, hand)
        /\ pc = "encoding"
    BY <1>7 DEF Encoded
  <2>2. hand # None
    BY <1>1, <2>1 DEF HandInv, H264InHand
  <2> QED
    BY <1>1, <2>1, <2>2, GivenFewer
<1>8. CASE Submit
  BY <1>1, <1>8, SubmitFewer
<1>9. CASE Offer
  BY <1>1, <1>9, OfferFewer
<1> QED
  BY <1>2, <1>3, <1>4, <1>5, <1>6, <1>7, <1>8, <1>9 DEF Next, CodecStep

-----------------------------------------------------------------------------
(* A start.                                                                 *)

\* The frames that wait for the codec task, and all on their way to the upload.
Waiting == Len(inputs) + Count(filling # None)
UnderWay == Waiting + Count(hand # None) + Len(ready)

\* What the drains of a start leave of them, and what its answer does.
StartInv ==
    /\ ctrl \in AskingPoints \ {"start"} => Waiting <= 1
    /\ ctrl \in AskingPoints \ {"start", "startOutputs"} => UnderWay <= 2
    /\ Answered => Waiting + Count(JpegInHand) <= 1

\* In these terms.
LEMMA WaitingEntered ==
    ASSUME FrameTypeOK, HandInv
    PROVE  /\ Waiting = Entered(inputs, filling, MaxStreams + 1)
           /\ Waiting + Count(JpegInHand)
                = Entered(inputs, filling, MaxStreams + 1)
                  + Held(JpegInHand, hand, MaxStreams + 1)
           /\ UnderWay = Entered(inputs, filling, MaxStreams + 1)
                         + Left(hand, MaxStreams + 1) + Before(ready, MaxStreams + 1)
           /\ Waiting \in Nat /\ UnderWay \in Nat
<1>1. /\ inputs \in Seq(Frames) /\ ready \in Seq(Frames)
      /\ filling \in Frames \cup {None} /\ hand \in Frames \cup {None}
  BY DEF FrameTypeOK
<1>2. /\ Before(inputs, MaxStreams + 1) = Len(inputs)
      /\ Before(ready, MaxStreams + 1) = Len(ready)
      /\ Len(inputs) \in Nat /\ Len(ready) \in Nat
  BY <1>1, BeforeAll
<1>3. /\ Left(filling, MaxStreams + 1) = Count(filling # None)
      /\ Left(hand, MaxStreams + 1) = Count(hand # None)
  BY <1>1, LeftAll
<1>4. Count(JpegInHand) = Held(JpegInHand, hand, MaxStreams + 1)
  <2>1. CASE JpegInHand
    <3>1. hand # None
      BY <2>1 DEF HandInv
    <3> QED
      BY <1>3, <2>1, <3>1 DEF Held, Count
  <2>2. CASE ~JpegInHand
    BY <2>2 DEF Held, Count
  <2> QED
    BY <2>1, <2>2
<1>5. Count(filling # None) \in {0, 1} /\ Count(hand # None) \in {0, 1}
  BY DEF Count
<1> QED
  BY <1>2, <1>3, <1>4, <1>5 DEF Waiting, UnderWay, Entered

\* So it is in the next state.
LEMMA WaitingEnteredNext ==
    ASSUME FrameTypeOK', HandInv'
    PROVE  /\ Waiting' = Entered(inputs', filling', MaxStreams + 1)
           /\ (Waiting + Count(JpegInHand))'
                = Entered(inputs', filling', MaxStreams + 1)
                  + Held(JpegInHand', hand', MaxStreams + 1)
           /\ UnderWay' = Entered(inputs', filling', MaxStreams + 1)
                          + Left(hand', MaxStreams + 1) + Before(ready', MaxStreams + 1)
           /\ Waiting' \in Nat /\ UnderWay' \in Nat
<1>1. /\ inputs' \in Seq(Frames) /\ ready' \in Seq(Frames)
      /\ filling' \in Frames \cup {None} /\ hand' \in Frames \cup {None}
  BY DEF FrameTypeOK
<1>2. /\ Before(inputs', MaxStreams + 1) = Len(inputs')
      /\ Before(ready', MaxStreams + 1) = Len(ready')
      /\ Len(inputs') \in Nat /\ Len(ready') \in Nat
  BY <1>1, BeforeAll
<1>3. /\ Left(filling', MaxStreams + 1) = Count(filling' # None)
      /\ Left(hand', MaxStreams + 1) = Count(hand' # None)
  BY <1>1, LeftAll
<1>4. Count(JpegInHand') = Held(JpegInHand', hand', MaxStreams + 1)
  <2>1. CASE JpegInHand'
    <3>1. hand' # None
      BY <2>1 DEF HandInv
    <3> QED
      BY <1>3, <2>1, <3>1 DEF Held, Count
  <2>2. CASE ~JpegInHand'
    BY <2>2 DEF Held, Count
  <2> QED
    BY <2>1, <2>2
<1>5. Count(filling' # None) \in {0, 1} /\ Count(hand' # None) \in {0, 1}
  BY DEF Count
<1> QED
  BY <1>2, <1>3, <1>4, <1>5 DEF Waiting, UnderWay, Entered
\* While no frame passes the gate there are no more of them.
LEMMA WaitingFewer ==
    ASSUME SlotInv, SlotInv', [Next]_vars, ~StartEnable, ~Offer
    PROVE  /\ Waiting' <= Waiting /\ UnderWay' <= UnderWay
           /\ (Waiting + Count(JpegInHand))' <= Waiting + Count(JpegInHand)
<1>1. MaxStreams + 1 \in Nat
  BY MaxStreamsAssumption
<1>2. Fewer(MaxStreams + 1)
  BY <1>1, NextFewer
<1> QED
  BY <1>2, WaitingEntered, WaitingEnteredNext DEF SlotInv, Fewer

\* A start goes from one place to the next; what it drained it found empty.
LEMMA PlaceOfStart ==
    ASSUME [Next]_vars
    PROVE  /\ ctrl' \in AskingPoints \ {"start"} =>
                \/ ctrl \in AskingPoints \ {"start"}
                \/ ctrl = "start" /\ inputs = <<>>
           /\ ctrl' \in AskingPoints \ {"start", "startOutputs"} =>
                \/ ctrl \in AskingPoints \ {"start", "startOutputs"}
                \/ ctrl = "startOutputs" /\ ready = <<>>
<1> USE DEF AskingPoints
<1>1. CASE ctrl' = ctrl
  BY <1>1
<1>2. CASE Start \/ Stop \/ ControlStep
  BY <1>2 DEF Start, Stop, ControlStep, StartInputs, StartOutputs, AskDrain, Ask, Post,
       Opened, OpenTimeout, ForceFirst, StartEnable, StartDone, Fail, FailState, FailInputs,
       FailOutputs, StopGate, StopInputs, StopOutputs, DrainInputs, DropOutputs
<1>3. CASE ~(Start \/ Stop \/ ControlStep)
  <2>1. ctrl' = ctrl
    BY <1>3, Zenon DEF Next, CodecStep, Top, Open, Answer, NothingReceived, Off, Receive,
         CheckFails, CheckPasses, CheckFindsNoEncoder, Lost, LostState, LostInputs,
         LostOutputs, DecodeDrops, Decode, Encode, Encoded, EncodeFails, UploadStep,
         UploadTake, UploadReturn, Offer, Submit, ForceIdr
  <2> QED
    BY <1>1, <2>1
<1> QED
  BY <1>2, <1>3

\* Its request is answered in one step of the codec task.
LEMMA AnswerOfStart ==
    ASSUME [Next]_vars, Answered'
    PROVE  Answered \/ (pc = "answer" /\ ctrl \in {"ask", "post", "wait"})
<1>1. CASE UNCHANGED <<ctrl, done>>
  BY <1>1 DEF Answered
<1>2. CASE Start \/ Stop \/ ControlStep
  BY <1>2 DEF Answered, Start, Stop, ControlStep, StartInputs, StartOutputs, AskDrain, Ask,
       Post, Opened, OpenTimeout, ForceFirst, StartEnable, StartDone, Fail, FailState,
       FailInputs, FailOutputs, StopGate, StopInputs, StopOutputs, DrainInputs, DropOutputs
<1>3. CASE Answer
  BY <1>3 DEF Answered, Answer
<1>4. CASE ~(Start \/ Stop \/ ControlStep \/ Answer)
  <2>1. UNCHANGED <<ctrl, done>>
    BY <1>4, Zenon DEF Next, CodecStep, Top, Open, NothingReceived, Off, Receive,
         CheckFails, CheckPasses, CheckFindsNoEncoder, Lost, LostState, LostInputs,
         LostOutputs, DecodeDrops, Decode, Encode, Encoded, EncodeFails, UploadStep,
         UploadTake, UploadReturn, Offer, Submit, ForceIdr
  <2> QED
    BY <1>1, <2>1
<1> QED
  BY <1>2, <1>3, <1>4

\* Counted in whole frames,
LEMMA CountType == \A b : Count(b) \in {0, 1} /\ (b => Count(b) = 1) /\ (~b => Count(b) = 0)
BY DEF Count

\* the drains of a start end with none in the queues, its answer with none in the
\* codec task's hands.
LEMMA StartInvKept ==
    ASSUME SlotInv, SlotInv', GateInv, StartInv, [Next]_vars
    PROVE  StartInv'
<1>1. CASE StartEnable
  <2>1. ctrl' = "enabled"
    BY <1>1 DEF StartEnable
  <2> QED
    BY <2>1 DEF StartInv, Answered, AskingPoints
<1>2. CASE Offer
  <2>1. ctrl \notin AskingPoints /\ ctrl' = ctrl
    BY <1>2, Zenon DEF GateInv, Offer
  <2> QED
    BY <2>1 DEF StartInv, Answered, AskingPoints
<1>3. ASSUME ~StartEnable, ~Offer
      PROVE  StartInv'
  <2>1. /\ Waiting' <= Waiting /\ UnderWay' <= UnderWay
        /\ (Waiting + Count(JpegInHand))' <= Waiting + Count(JpegInHand)
    BY <1>3, WaitingFewer
  <2>2. /\ Waiting \in Nat /\ UnderWay \in Nat /\ Waiting' \in Nat /\ UnderWay' \in Nat
        /\ Count(JpegInHand) \in {0, 1} /\ Count(JpegInHand)' \in {0, 1}
    BY WaitingEntered, WaitingEnteredNext, CountType DEF SlotInv
  <2>3. ctrl' \in AskingPoints \ {"start"} => Waiting' <= 1
    <3>1. CASE ctrl \in AskingPoints \ {"start"}
      BY <2>1, <2>2, <3>1 DEF StartInv
    <3>2. CASE ctrl = "start" /\ inputs = <<>>
      <4>1. Waiting <= 1
        BY <3>2, EmptyType, CountType DEF Waiting
      <4> QED
        BY <2>1, <2>2, <4>1
    <3>3. CASE ctrl' \notin AskingPoints \ {"start"}
      BY <3>3
    <3> QED
      BY <1>3, <3>1, <3>2, <3>3, PlaceOfStart
  <2>4. ctrl' \in AskingPoints \ {"start", "startOutputs"} => UnderWay' <= 2
    <3>1. CASE ctrl \in AskingPoints \ {"start", "startOutputs"}
      BY <2>1, <2>2, <3>1 DEF StartInv
    <3>2. CASE ctrl = "startOutputs" /\ ready = <<>>
      <4>1. Waiting <= 1
        BY <3>2 DEF StartInv, AskingPoints
      <4>2. Len(ready) = 0 /\ Count(hand # None) \in {0, 1}
        BY <3>2, EmptyType, CountType
      <4>3. UnderWay <= 2
        BY <2>2, <4>1, <4>2 DEF UnderWay
      <4> QED
        BY <2>1, <2>2, <4>3
    <3>3. CASE ctrl' \notin AskingPoints \ {"start", "startOutputs"}
      BY <3>3
    <3> QED
      BY <1>3, <3>1, <3>2, <3>3, PlaceOfStart
  <2>5. Answered' => (Waiting + Count(JpegInHand))' <= 1
    <3>1. CASE Answered
      BY <2>1, <2>2, <3>1 DEF StartInv
    <3>2. CASE pc = "answer" /\ ctrl \in {"ask", "post", "wait"}
      <4>1. Waiting <= 1
        BY <3>2 DEF StartInv, AskingPoints
      <4>2. Count(JpegInHand) = 0
        BY <3>2, CountType DEF JpegInHand
      <4> QED
        BY <2>1, <2>2, <4>1, <4>2
    <3>3. CASE ~Answered'
      BY <3>3
    <3> QED
      BY <1>3, <3>1, <3>2, <3>3, AnswerOfStart
  <2> QED
    BY <2>3, <2>4, <2>5 DEF StartInv
<1> QED
  BY <1>1, <1>2, <1>3

-----------------------------------------------------------------------------
(* The beginning of a stream.                                               *)

\* None is not a frame.
LEMMA NoFrame == None \notin Frames
BY MaxStreamsAssumption DEF None, Frames

\* Two streams are told apart by what is left of the one before.
LEMMA OldNow ==
    ASSUME FrameTypeOK, HandInv
    PROVE  /\ OldInputs = Entered(inputs, filling, stream) + Held(JpegInHand, hand, stream)
           /\ OldInputs + OldOutputs = Entered(inputs, filling, stream)
                                       + Left(hand, stream) + Before(ready, stream)
           /\ OldInputs \in Nat /\ OldOutputs \in Nat
<1>1. /\ inputs \in Seq(Frames) /\ ready \in Seq(Frames) /\ stream \in Nat
  BY MaxStreamsAssumption DEF FrameTypeOK
<1>2. OldIn(inputs) = Before(inputs, stream) /\ OldIn(ready) = Before(ready, stream)
  <2>1. ASSUME NEW q \in Seq(Frames)
        PROVE  OldIn(q) = Before(q, stream)
    <3>1. \A i \in 1..Len(q) : q[i] \in Frames /\ q[i] # None
      <4>1. \A i \in 1..Len(q) : q[i] \in Frames
        BY <2>1
      <4> QED
        BY <4>1, NoFrame
    <3>2. {i \in 1..Len(q) : Old(q[i])} = {i \in 1..Len(q) : q[i] < stream}
      BY <3>1 DEF Old
    <3> QED
      BY <3>2, Zenon DEF OldIn, Before
  <2> QED
    BY <1>1, <2>1
<1>3. Before(inputs, stream) \in Nat /\ Before(ready, stream) \in Nat
  BY <1>1, BeforeType
<1>4. /\ Count(Old(filling)) = Left(filling, stream)
      /\ Count(JpegInHand /\ Old(hand)) = Held(JpegInHand, hand, stream)
  BY DEF Count, Old, Left, Held
<1>5. Left(filling, stream) \in {0, 1} /\ Left(hand, stream) \in {0, 1}
  BY LeftType
<1>6. Held(JpegInHand, hand, stream) + Count(H264InHand /\ Old(hand)) = Left(hand, stream)
  <2>1. CASE JpegInHand
    BY <1>5, <2>1 DEF JpegInHand, H264InHand, Held, Count
  <2>2. CASE ~JpegInHand /\ H264InHand
    BY <1>5, <2>2 DEF Held, Count, Left, Old
  <2>3. CASE ~JpegInHand /\ ~H264InHand
    <3>1. hand = None
      BY <2>3 DEF HandInv
    <3> QED
      BY <2>3, <3>1 DEF Held, Count, Left
  <2> QED
    BY <2>1, <2>2, <2>3
<1>7. Held(JpegInHand, hand, stream) \in Nat /\ Count(H264InHand /\ Old(hand)) \in {0, 1}
  BY HeldType, CountType
<1> QED
  BY <1>2, <1>3, <1>4, <1>5, <1>6, <1>7 DEF OldInputs, OldOutputs, Entered

\* So it is in the next state.
LEMMA OldNext ==
    ASSUME FrameTypeOK', HandInv'
    PROVE  /\ OldInputs' = Entered(inputs', filling', stream')
                           + Held(JpegInHand', hand', stream')
           /\ (OldInputs + OldOutputs)' = Entered(inputs', filling', stream')
                                          + Left(hand', stream') + Before(ready', stream')
           /\ OldInputs' \in Nat /\ OldOutputs' \in Nat
<1>1. /\ inputs' \in Seq(Frames) /\ ready' \in Seq(Frames) /\ stream' \in Nat
  BY MaxStreamsAssumption DEF FrameTypeOK
<1>2. OldIn(inputs)' = Before(inputs', stream') /\ OldIn(ready)' = Before(ready', stream')
  <2>1. ASSUME NEW q \in Seq(Frames)
        PROVE  (OldIn(q))' = Before(q, stream')
    <3>1. \A i \in 1..Len(q) : q[i] \in Frames /\ q[i] # None
      <4>1. \A i \in 1..Len(q) : q[i] \in Frames
        BY <2>1
      <4> QED
        BY <4>1, NoFrame
    <3>2. {i \in 1..Len(q) : Old(q[i])'} = {i \in 1..Len(q) : q[i] < stream'}
      BY <3>1 DEF Old
    <3> QED
      BY <3>2, Zenon DEF OldIn, Before
  <2> QED
    BY <1>1, <2>1
<1>3. Before(inputs', stream') \in Nat /\ Before(ready', stream') \in Nat
  BY <1>1, BeforeType
<1>4. /\ Count(Old(filling)') = Left(filling', stream')
      /\ Count(JpegInHand' /\ Old(hand)') = Held(JpegInHand', hand', stream')
  BY DEF Count, Old, Left, Held
<1>5. Left(filling', stream') \in {0, 1} /\ Left(hand', stream') \in {0, 1}
  BY LeftType
<1>6. Held(JpegInHand', hand', stream') + Count(H264InHand' /\ Old(hand)') = Left(hand', stream')
  <2>1. CASE JpegInHand'
    BY <1>5, <2>1 DEF JpegInHand, H264InHand, Held, Count
  <2>2. CASE ~JpegInHand' /\ H264InHand'
    BY <1>5, <2>2 DEF Held, Count, Left, Old
  <2>3. CASE ~JpegInHand' /\ ~H264InHand'
    <3>1. hand' = None
      BY <2>3 DEF HandInv
    <3> QED
      BY <2>3, <3>1 DEF Held, Count, Left
  <2> QED
    BY <2>1, <2>2, <2>3
<1>7. Held(JpegInHand', hand', stream') \in Nat /\ Count(H264InHand' /\ Old(hand)') \in {0, 1}
  BY HeldType, CountType
<1> QED
  BY <1>2, <1>3, <1>4, <1>5, <1>6, <1>7 DEF OldInputs, OldOutputs, Entered
\* What is left of the stream before.
OldInv == OldInputs <= 1 /\ OldInputs + OldOutputs <= 2

\* A frame from before a stream is one of all.
LEMMA FewerThanAll ==
    ASSUME NEW q \in Seq(Frames), NEW f \in Frames \cup {None}, NEW n \in Nat, NEW b
    PROVE  /\ Before(q, n) <= Len(q) /\ Before(q, n) \in Nat /\ Len(q) \in Nat
           /\ Left(f, n) <= Count(f # None)
           /\ Held(b, f, n) <= Count(b)
<1>1. Before(q, n) <= Len(q) /\ Before(q, n) \in Nat /\ Len(q) \in Nat
  <2>1. Len(q) \in Nat
    OBVIOUS
  <2> QED
    BY <2>1, BeforeType
<1>2. Left(f, n) <= Count(f # None)
  BY DEF Left, Count
<1>3. Held(b, f, n) <= Count(b)
  BY DEF Left, Count, Held
<1> QED
  BY <1>1, <1>2, <1>3

\* Numbers that become less stay within their limits.
LEMMA NoMore ==
    ASSUME NEW a \in Nat, NEW b \in Nat, NEW c \in Nat, NEW d \in Nat,
           c <= a, c + d <= a + b, a <= 1, a + b <= 2
    PROVE  c <= 1 /\ c + d <= 2
OBVIOUS

\* The gate opens on what a start has left; then it becomes less.
LEMMA OldInvKept ==
    ASSUME SlotInv, SlotInv', StartInv, OldInv, [Next]_vars
    PROVE  OldInv'
<1>1. CASE StartEnable
  <2>1. /\ UNCHANGED <<inputs, ready, filling, hand, JpegInHand>> /\ ctrl = "forced"
    BY <1>1 DEF StartEnable, JpegInHand
  <2>2. Waiting + Count(JpegInHand) <= 1 /\ UnderWay <= 2
    BY <2>1 DEF StartInv, Answered, AskingPoints
  <2>3. stream' \in Nat
    BY MaxStreamsAssumption DEF SlotInv, FrameTypeOK
  <2>4. /\ inputs \in Seq(Frames) /\ ready \in Seq(Frames)
        /\ filling \in Frames \cup {None} /\ hand \in Frames \cup {None}
    BY DEF SlotInv, FrameTypeOK
  <2>5. /\ Before(inputs, stream') <= Len(inputs) /\ Before(inputs, stream') \in Nat
        /\ Before(ready, stream') <= Len(ready) /\ Before(ready, stream') \in Nat
        /\ Len(inputs) \in Nat /\ Len(ready) \in Nat
    BY <2>3, <2>4, FewerThanAll
  <2>6. /\ Left(filling, stream') <= Count(filling # None)
        /\ Left(hand, stream') <= Count(hand # None)
        /\ Held(JpegInHand, hand, stream') <= Count(JpegInHand)
    BY <2>3, <2>4, FewerThanAll
  <2>7. /\ Left(filling, stream') \in {0, 1} /\ Left(hand, stream') \in {0, 1}
        /\ Held(JpegInHand, hand, stream') \in Nat
        /\ Count(filling # None) \in {0, 1} /\ Count(hand # None) \in {0, 1}
        /\ Count(JpegInHand) \in {0, 1}
    BY LeftType, HeldType, CountType
  <2>8. /\ Entered(inputs, filling, stream') + Held(JpegInHand, hand, stream') <= 1
        /\ Entered(inputs, filling, stream') + Left(hand, stream')
             + Before(ready, stream') <= 2
    BY <2>2, <2>5, <2>6, <2>7 DEF Entered, Waiting, UnderWay
  <2> QED
    BY <2>1, <2>8, OldNext DEF SlotInv, OldInv
<1>2. CASE ~StartEnable
  <2>1. stream' = stream
    BY <1>2, Zenon DEF Next, Start, Stop, ControlStep, StartInputs, StartOutputs, AskDrain,
         Ask, Post, Opened, OpenTimeout, ForceFirst, StartDone, Fail, FailState, FailInputs,
         FailOutputs, StopGate, StopInputs, StopOutputs, CodecStep, Top, Open, Answer,
         NothingReceived, Off, Receive, CheckFails, CheckPasses, CheckFindsNoEncoder, Lost,
         LostState, LostInputs, LostOutputs, DecodeDrops, Decode, Encode, Encoded,
         EncodeFails, UploadStep, UploadTake, UploadReturn, Offer, Submit, ForceIdr
  <2>2. stream \in Nat /\ stream <= stream
    BY MaxStreamsAssumption DEF SlotInv, FrameTypeOK
  <2>3. Fewer(stream)
    BY <1>2, <2>2, NextFewer
  <2>4. OldInputs' <= OldInputs /\ OldInputs' + OldOutputs' <= OldInputs + OldOutputs
    BY <2>1, <2>3, OldNow, OldNext DEF SlotInv, Fewer
  <2>5. /\ OldInputs \in Nat /\ OldOutputs \in Nat
        /\ OldInputs' \in Nat /\ OldOutputs' \in Nat
    BY OldNow, OldNext DEF SlotInv
  <2>6. OldInputs <= 1 /\ OldInputs + OldOutputs <= 2
    BY DEF OldInv
  <2>7. OldInputs' <= 1 /\ OldInputs' + OldOutputs' <= 2
    BY <2>4, <2>5, <2>6, NoMore, Zenon
  <2> QED
    BY <2>7 DEF OldInv
<1> QED
  BY <1>1, <1>2

\* A stream starts with new pictures, but for one frame that had passed the gate
\* and one that was being encoded, and with a request for an IDR frame, whatever
\* the number of slots and streams (video_streamer_start, video_codec_task).
THEOREM FreshStartCorrect == Spec => []FreshStart
<1> DEFINE FreshInv == SlotInv /\ GateInv /\ StartInv /\ OldInv
<1>1. Init => FreshInv
  <2> SUFFICES ASSUME Init PROVE FreshInv
    OBVIOUS
  <2>1. SlotInv /\ GateInv
    BY InitSlots, InitGate
  <2>2. ctrl = "idle"
    BY DEF Init
  <2>3. StartInv
    BY <2>2 DEF StartInv, Answered, AskingPoints
  <2>4. OldInv
    <3>1. /\ inputs = <<>> /\ ready = <<>> /\ hand = None /\ filling = None
      BY DEF Init
    <3>2. OldInputs + OldOutputs = 0 /\ OldInputs = 0
      <4>1. Before(inputs, stream) = 0 /\ Before(ready, stream) = 0
        BY <3>1, BeforeEmpty
      <4>2. /\ Left(hand, stream) = 0 /\ Left(filling, stream) = 0
            /\ Held(JpegInHand, hand, stream) = 0
        BY <3>1, LeftType, HeldType
      <4> QED
        BY <2>1, <4>1, <4>2, OldNow DEF SlotInv, Entered
    <3> QED
      BY <3>2 DEF OldInv
  <2> QED
    BY <2>1, <2>3, <2>4
<1>2. FreshInv /\ [Next]_vars => FreshInv'
  <2> SUFFICES ASSUME FreshInv, [Next]_vars PROVE FreshInv'
    OBVIOUS
  <2>1. SlotInv'
    BY SlotStep
  <2>2. GateInv'
    BY ControlStepGate, CodecStepGate, OtherStepGate DEF Next
  <2> QED
    BY <2>1, <2>2, StartInvKept, OldInvKept
<1>3. FreshInv => FreshStart
  BY DEF GateInv, OldInv, FreshStart
<1> QED
  BY <1>1, <1>2, <1>3, PTL DEF Spec
=============================================================================
