------------------------- MODULE CameraPhotoProofs -------------------------
(***************************************************************************)
(* Proofs about a photo, for any number of frame copies and requests: its  *)
(* slot is held while it is saved (SavedFrameHeld), and a request is       *)
(* answered once (AnsweredOnce).  The reference counts are inductive       *)
(* together with the points at which the frame changes hands; what they    *)
(* count in the handoff queue is the number of its indices with the slot.  *)
(***************************************************************************)
EXTENDS CameraPhoto, Integers, FiniteSetTheorems, TLAPS

USE DEF vars, photoVars, taskVars, mcpVars, uvcVars, videoVars

-----------------------------------------------------------------------------
(* The invariants.                                                         *)

\* The callback has a slot while it runs, and a photo is ready only with one.
HandOver ==
    /\ uvcPc # "idle" => uvcSlot \in Slots
    /\ state = "ready" => data \in Slots
    /\ pc \in {"save", "saving"} => data \in Slots

SlotType ==
    /\ data \in Slots \cup {NoSlot} /\ giveBack \in Slots \cup {NoSlot}
    /\ uvcSlot \in Slots \cup {NoSlot}
    /\ refs \in [Slots -> 0..2]
    /\ handoff \in Seq(Slots) /\ Len(handoff) <= Cardinality(Slots)
    /\ video \subseteq Slots

SlotInv == SlotType /\ HandOver /\ SavedFrameHeld

\* A request is not answered before it is asked, while it waits to be sent, in
\* the queue, or while photo_task works on it; it is at one of these places.
AnswerInv ==
    /\ asked \in 0..MaxRequests
    /\ answers \in [Requests -> Statuses \cup {"none", "busy"}]
    /\ requests \in Seq(Requests) /\ Len(requests) <= 1
    /\ \A request \in Requests : request > asked => answers[request] = "none"
    /\ mcpPc = "send" =>
           /\ asked \in Requests /\ answers[asked] = "none"
           /\ requests # <<>> => requests[1] # asked
           /\ pc # "receive" => current # asked
    /\ requests # <<>> =>
           /\ requests[1] <= asked /\ answers[requests[1]] = "none"
           /\ pc # "receive" => current # requests[1]
    /\ pc # "receive" =>
           /\ current \in Requests /\ current <= asked
           /\ answers[current] = "none"

PhotoInv == TypeOK /\ SlotInv /\ AnswerInv

-----------------------------------------------------------------------------
(* How often a slot is in a queue.                                         *)

\* The indices of a queue at which a slot stands are finitely many.
LEMMA QueuedFinite ==
    ASSUME NEW q \in Seq(Slots), NEW slot
    PROVE  /\ IsFiniteSet({i \in 1..Len(q) : q[i] = slot})
           /\ Queued(q, slot) \in Nat
<1>1. IsFiniteSet(1..Len(q))
  BY FS_Interval
<1>2. IsFiniteSet({i \in 1..Len(q) : q[i] = slot})
  BY <1>1, FS_Subset
<1> QED
  BY <1>2, FS_CardinalityType DEF Queued

\* An empty queue holds nothing.
LEMMA QueuedEmpty ==
    ASSUME NEW slot
    PROVE  Queued(<<>>, slot) = 0
<1>1. {i \in 1..Len(<<>>) : <<>>[i] = slot} = {}
  OBVIOUS
<1> QED
  BY <1>1, FS_EmptySet DEF Queued

\* A slot that is put at the end of a queue is there once more.
LEMMA QueuedAppend ==
    ASSUME NEW q \in Seq(Slots), NEW f \in Slots, NEW slot
    PROVE  Queued(Append(q, f), slot)
               = Queued(q, slot) + (IF f = slot THEN 1 ELSE 0)
<1> DEFINE at == {i \in 1..Len(q) : q[i] = slot}
           atA == {i \in 1..Len(Append(q, f)) : Append(q, f)[i] = slot}
<1>1. IsFiniteSet(at) /\ Cardinality(at) = Queued(q, slot)
  BY QueuedFinite DEF Queued
<1>2. CASE f = slot
  <2>1. atA = at \cup {Len(q) + 1}
    BY <1>2
  <2>2. Len(q) + 1 \notin at
    OBVIOUS
  <2> HIDE DEF at, atA
  <2>3. Cardinality(atA) = Cardinality(at) + 1
    BY <1>1, <2>1, <2>2, FS_AddElement
  <2> QED
    BY <1>1, <1>2, <2>3 DEF Queued, atA
<1>3. CASE f # slot
  <2>1. atA = at
    BY <1>3
  <2>2. Queued(Append(q, f), slot) = Cardinality(atA)
    BY DEF Queued
  <2> HIDE DEF at, atA
  <2>3. Queued(Append(q, f), slot) = Queued(q, slot)
    BY <1>1, <2>1, <2>2
  <2>4. Queued(q, slot) \in Nat
    BY QueuedFinite
  <2> QED
    BY <1>3, <2>3, <2>4
<1> QED
  BY <1>2, <1>3

\* The slot that is taken from the front is there once less: the other indices
\* of the queue are those of its rest, moved by one.
LEMMA QueuedTail ==
    ASSUME NEW q \in Seq(Slots), q # <<>>, NEW slot
    PROVE  Queued(q, slot)
               = Queued(Tail(q), slot) + (IF Head(q) = slot THEN 1 ELSE 0)
<1> DEFINE at == {i \in 1..Len(q) : q[i] = slot}
           rest == {i \in 1..Len(Tail(q)) : Tail(q)[i] = slot}
           moved == {i \in 2..Len(q) : q[i] = slot}
           Move == [i \in rest |-> i + 1]
<1>1. Tail(q) \in Seq(Slots) /\ Len(q) \in Nat \ {0} /\ Len(Tail(q)) = Len(q) - 1
  OBVIOUS
<1>2. \A i \in 1..Len(Tail(q)) : Tail(q)[i] = q[i + 1]
  OBVIOUS
<1>3. IsFiniteSet(rest) /\ Cardinality(rest) = Queued(Tail(q), slot)
      /\ Queued(Tail(q), slot) \in Nat
  BY <1>1, QueuedFinite DEF Queued
<1>4. Move \in Bijection(rest, moved)
  <2>1. \A i \in rest : i + 1 \in moved
    BY <1>1, <1>2
  <2>2. \A i, j \in rest : i + 1 = j + 1 => i = j
    BY <1>1
  <2>3. \A j \in moved : \E i \in rest : i + 1 = j
    <3> SUFFICES ASSUME NEW j \in moved PROVE j - 1 \in rest /\ (j - 1) + 1 = j
      BY Zenon
    <3> QED
      BY <1>1, <1>2
  <2> HIDE DEF rest, moved
  <2> QED
    BY <2>1, <2>2, <2>3 DEF Bijection, Injection, Surjection, IsInjective
<1>5. IsFiniteSet(moved) /\ Cardinality(moved) = Cardinality(rest)
  <2> HIDE DEF rest, moved, Move
  <2> QED
    BY <1>3, <1>4, FS_Bijection DEF ExistsBijection
<1>6. CASE Head(q) = slot
  <2>1. at = moved \cup {1} /\ 1 \notin moved
    BY <1>1, <1>6
  <2> HIDE DEF at, moved, rest
  <2>2. Cardinality(at) = Cardinality(moved) + 1
    BY <1>5, <2>1, FS_AddElement
  <2> QED
    BY <1>3, <1>5, <1>6, <2>2 DEF Queued, at
<1>7. CASE Head(q) # slot
  <2>1. at = moved
    BY <1>1, <1>7
  <2>2. Queued(q, slot) = Cardinality(at)
    BY DEF Queued
  <2> HIDE DEF at, moved, rest
  <2>3. Queued(q, slot) = Queued(Tail(q), slot)
    BY <1>3, <1>5, <2>1, <2>2
  <2> QED
    BY <1>3, <1>7, <2>3
<1> QED
  BY <1>6, <1>7
-----------------------------------------------------------------------------
(* The slot of the photo.                                                  *)

\* What the queue lemmas need and give, for the handoff queue.
LEMMA HandoffType ==
    ASSUME SlotType, NEW slot \in Slots
    PROVE  /\ Queued(handoff, slot) \in Nat
           /\ refs[slot] \in 0..2
           /\ Cardinality(Slots) \in Nat
BY QueuedFinite, SlotsAssumption, FS_CardinalityType DEF SlotType

\* The number of holders is a number.
LEMMA HoldersType ==
    ASSUME SlotType, NEW slot \in Slots
    PROVE  Holders(slot) \in Nat
BY HandoffType DEF Holders

\* A holder that releases its slot takes its own reference only.
LEMMA ReleaseHeld ==
    ASSUME SlotInv, NEW slot \in Slots, refs' = Release(slot),
           \A other \in Slots :
               /\ Holders(other)' \in Nat
               /\ Holders(other)' + (IF other = slot THEN 1 ELSE 0) <= Holders(other)
    PROVE  /\ refs' \in [Slots -> 0..2]
           /\ \A other \in Slots : refs'[other] >= Holders(other)'
<1>1. refs' = [refs EXCEPT ![slot] = refs[slot] - 1] /\ refs \in [Slots -> 0..2]
  BY DEF Release, SlotInv, SlotType
<1>2. ASSUME NEW other \in Slots
      PROVE  refs'[other] \in 0..2 /\ refs'[other] >= Holders(other)'
  <2>1. /\ Holders(other) \in Nat /\ Holders(other)' \in Nat
        /\ refs[other] >= Holders(other) /\ refs[other] \in 0..2
    BY HoldersType, <1>1 DEF SlotInv, SavedFrameHeld
  <2>2. refs'[other] = IF other = slot THEN refs[other] - 1 ELSE refs[other]
    BY <1>1
  <2> QED
    BY <2>1, <2>2
<1> QED
  BY <1>1, <1>2

\* Initially nobody holds a slot.
LEMMA InitSlot == Init => SlotInv
<1> SUFFICES ASSUME Init PROVE SlotInv
  OBVIOUS
<1>1. SlotType
  BY SlotsAssumption, FS_CardinalityType DEF Init, SlotType
<1>2. HandOver
  BY DEF Init, HandOver
<1>3. SavedFrameHeld
  BY QueuedEmpty, SlotsAssumption DEF Init, SavedFrameHeld, Holders
<1> QED
  BY <1>1, <1>2, <1>3 DEF SlotInv

\* A step that moves no slot from one holder to another keeps the counts.
LEMMA SameHolders ==
    ASSUME SlotInv,
           UNCHANGED <<refs, data, giveBack, uvcSlot, handoff, video>>,
           uvcPc' = uvcPc \/ {uvcPc, uvcPc'} \subseteq {"idle", "notify", "pass"},
           HandOver'
    PROVE  SlotInv'
<1>1. SlotType'
  BY DEF SlotInv, SlotType
<1>2. \A slot \in Slots : Holders(slot)' = Holders(slot)
  BY DEF Holders
<1>3. SavedFrameHeld'
  BY <1>2, SlotsAssumption DEF SlotInv, SavedFrameHeld, HandOver
<1> QED
  BY <1>1, <1>3 DEF SlotInv

\* The MCP task has nothing to do with the slots.
LEMMA McpStepSlot == SlotInv /\ (Request \/ RequestSend) => SlotInv'
<1> SUFFICES ASSUME SlotInv, Request \/ RequestSend PROVE SlotInv'
  OBVIOUS
<1>1. /\ UNCHANGED <<refs, data, giveBack, uvcSlot, handoff, video, uvcPc, pc>>
      /\ state' = state \/ state' \in {"requested", "idle"}
  BY DEF Request, RequestSend
<1>2. HandOver'
  BY <1>1 DEF SlotInv, HandOver
<1> QED
  BY <1>1, <1>2, SameHolders

\* photo_task judges a ready photo, saves it, takes it out of the state and
\* gives it back.
LEMMA PhotoTaskStepSlot == SlotInv /\ PhotoTask => SlotInv'
<1> SUFFICES ASSUME SlotInv, PhotoTask PROVE SlotInv'
  OBVIOUS
<1> USE DEF TaskOnly, TaskMoves
<1>1. CASE TaskNotified \/ TaskTimeout \/ TaskCapture \/ TaskJudge \/ TaskTimedOut
           \/ TaskSave \/ TaskSaved
  <2>1. UNCHANGED <<refs, data, giveBack, uvcSlot, handoff, video, uvcPc>>
    BY <1>1 DEF TaskNotified, TaskTimeout, TaskCapture, TaskJudge, TaskTimedOut,
                TaskSave, TaskSaved
  <2>2. /\ state' = state \/ state' # "ready"
        /\ pc' \in {"save", "saving"} => state = "ready" \/ pc \in {"save", "saving"}
    BY <1>1 DEF TaskNotified, TaskTimeout, TaskCapture, TaskJudge, TaskTimedOut,
                TaskSave, TaskSaved
  <2>3. HandOver'
    BY <2>1, <2>2 DEF SlotInv, HandOver
  <2> QED
    BY <2>1, <2>3, SameHolders
<1>2. CASE TaskReceive
  <2>1. /\ UNCHANGED <<refs, giveBack, uvcSlot, handoff, video, uvcPc>>
        /\ data' = NoSlot /\ state' = "waitFrame" /\ pc' = "wait"
    BY <1>2 DEF TaskReceive
  <2>2. SlotType' /\ HandOver'
    BY <2>1 DEF SlotInv, SlotType, HandOver
  <2>3. ASSUME NEW slot \in Slots PROVE refs'[slot] >= Holders(slot)'
    BY <2>1, <2>3, HandoffType, SlotsAssumption
       DEF SlotInv, SavedFrameHeld, Holders
  <2> QED
    BY <2>1, <2>2, <2>3 DEF SlotInv, SavedFrameHeld
<1>3. CASE TaskFinish
  <2>1. /\ UNCHANGED <<refs, uvcSlot, handoff, video, uvcPc>>
        /\ giveBack' = data /\ data' = NoSlot
        /\ state' = "idle" /\ pc' = "complete"
    BY <1>3 DEF TaskFinish
  <2>2. SlotType' /\ HandOver'
    BY <2>1 DEF SlotInv, SlotType, HandOver
  <2>3. ASSUME NEW slot \in Slots PROVE refs'[slot] >= Holders(slot)'
    BY <2>1, <2>3, HandoffType, SlotsAssumption
       DEF SlotInv, SavedFrameHeld, Holders
  <2> QED
    BY <2>1, <2>2, <2>3 DEF SlotInv, SavedFrameHeld
<1>4. CASE TaskComplete
  <2>1. /\ UNCHANGED <<data, state, uvcSlot, handoff, video, uvcPc>>
        /\ refs' = IF giveBack = NoSlot THEN refs ELSE Release(giveBack)
        /\ giveBack' = NoSlot /\ pc' = "receive"
    BY <1>4 DEF TaskComplete
  <2>2. ASSUME NEW slot \in Slots
        PROVE  /\ Holders(slot)' \in Nat
               /\ Holders(slot)' + (IF slot = giveBack THEN 1 ELSE 0) <= Holders(slot)
    BY <2>1, <2>2, HandoffType, SlotsAssumption DEF SlotInv, Holders
  <2>3. /\ refs' \in [Slots -> 0..2]
        /\ \A slot \in Slots : refs'[slot] >= Holders(slot)'
    <3>1. CASE giveBack = NoSlot
      <4>1. ASSUME NEW slot \in Slots PROVE refs[slot] >= Holders(slot)'
        BY <2>2, <3>1, <4>1, HandoffType, HoldersType, SlotsAssumption
           DEF SlotInv, SavedFrameHeld
      <4> QED
        BY <2>1, <3>1, <4>1 DEF SlotInv, SlotType
    <3>2. CASE giveBack \in Slots
      BY <2>1, <2>2, <3>2, ReleaseHeld, SlotsAssumption
    <3> QED
      BY <3>1, <3>2 DEF SlotInv, SlotType
  <2>4. SlotType' /\ HandOver'
    BY <2>1, <2>3 DEF SlotInv, SlotType, HandOver
  <2> QED
    BY <2>1, <2>3, <2>4 DEF SlotInv, SavedFrameHeld
<1> QED
  BY <1>1, <1>2, <1>3, <1>4 DEF PhotoTask

\* The callback takes a free slot, hands its second reference to the photo or
\* gives it back, and the first to the video.
LEMMA UvcStepSlot == SlotInv /\ Uvc => SlotInv'
<1> SUFFICES ASSUME SlotInv, Uvc PROVE SlotInv'
  OBVIOUS
<1> USE DEF UvcOnly
<1>1. CASE SubmitNotify
  <2>1. /\ UNCHANGED <<refs, data, giveBack, uvcSlot, handoff, video, state, pc>>
        /\ uvcPc = "notify" /\ uvcPc' = "pass"
    BY <1>1 DEF SubmitNotify
  <2>2. HandOver'
    BY <2>1 DEF SlotInv, HandOver
  <2> QED
    BY <2>1, <2>2, SameHolders
<1>2. ASSUME NEW slot \in Slots, NEW accepting \in BOOLEAN,
             FrameArrives(slot, accepting)
      PROVE  SlotInv'
  <2>1. /\ UNCHANGED <<data, giveBack, handoff, video, state, pc>>
        /\ uvcPc' \in {"offer", "pass"} /\ uvcSlot' = slot /\ refs[slot] = 0
        /\ refs' = [refs EXCEPT ![slot] = IF uvcPc' = "offer" THEN 2 ELSE 1]
    BY <1>2 DEF FrameArrives
  <2>2. refs' \in [Slots -> 0..2]
    BY <2>1 DEF SlotInv, SlotType
  <2>3. SlotType' /\ HandOver'
    BY <2>1, <2>2 DEF SlotInv, SlotType, HandOver
  <2>4. ASSUME NEW other \in Slots PROVE refs'[other] >= Holders(other)'
    <3>1. /\ refs[other] \in 0..2 /\ refs[other] >= Holders(other)
          /\ Queued(handoff, other) \in Nat
      BY HandoffType DEF SlotInv, SavedFrameHeld
    <3>2. CASE other = slot
      <4>1. refs'[other] = IF uvcPc' = "offer" THEN 2 ELSE 1
        BY <2>1, <3>2 DEF SlotInv, SlotType
      <4>2. Holders(other) = 0 /\ Holders(other)
                >= (IF data = other THEN 1 ELSE 0) + (IF giveBack = other THEN 1 ELSE 0)
                   + Queued(handoff, other) + (IF other \in video THEN 1 ELSE 0)
        BY <2>1, <3>1, <3>2 DEF Holders
      <4>3. data # other /\ giveBack # other /\ Queued(handoff, other) = 0
            /\ other \notin video
        BY <3>1, <4>2
      <4> QED
        BY <2>1, <3>2, <4>1, <4>3 DEF Holders
    <3>3. CASE other # slot
      <4>1. refs'[other] = refs[other]
        BY <2>1, <3>3 DEF SlotInv, SlotType
      <4>2. Holders(other)' <= Holders(other) /\ Holders(other)' \in Nat
        BY <2>1, <3>1, <3>3 DEF Holders
      <4> QED
        BY <3>1, <4>1, <4>2, HoldersType DEF SlotInv
    <3> QED
      BY <3>2, <3>3
  <2> QED
    BY <2>1, <2>3, <2>4 DEF SlotInv, SavedFrameHeld
<1>3. CASE SubmitRefused
  <2>1. /\ UNCHANGED <<data, giveBack, uvcSlot, handoff, video, state, pc>>
        /\ uvcPc = "offer" /\ uvcPc' = "pass" /\ refs' = Release(uvcSlot)
    BY <1>3 DEF SubmitRefused
  <2>2. ASSUME NEW slot \in Slots
        PROVE  /\ Holders(slot)' \in Nat
               /\ Holders(slot)' + (IF slot = uvcSlot THEN 1 ELSE 0) <= Holders(slot)
    BY <2>1, <2>2, HandoffType DEF SlotInv, Holders
  <2>3. uvcSlot \in Slots
    BY <2>1 DEF SlotInv, HandOver
  <2>4. /\ refs' \in [Slots -> 0..2]
        /\ \A slot \in Slots : refs'[slot] >= Holders(slot)'
    BY <2>1, <2>2, <2>3, ReleaseHeld
  <2>5. SlotType' /\ HandOver'
    BY <2>1, <2>4 DEF SlotInv, SlotType, HandOver
  <2> QED
    BY <2>1, <2>4, <2>5 DEF SlotInv, SavedFrameHeld
<1>4. CASE SubmitClaim
  <2>1. /\ UNCHANGED <<refs, data, giveBack, uvcSlot, handoff, video, pc>>
        /\ uvcPc = "offer" /\ uvcPc' = "fill" /\ state' = "capturing"
    BY <1>4 DEF SubmitClaim
  <2>2. SlotType' /\ HandOver'
    BY <2>1 DEF SlotInv, SlotType, HandOver
  <2>3. \A slot \in Slots : Holders(slot)' = Holders(slot)
    BY <2>1 DEF Holders
  <2> QED
    BY <2>1, <2>2, <2>3 DEF SlotInv, SavedFrameHeld
<1>5. CASE SubmitFill
  <2>1. /\ UNCHANGED <<refs, giveBack, uvcSlot, handoff, video, pc>>
        /\ uvcPc = "fill" /\ uvcPc' = "notify" /\ data' = uvcSlot
        /\ uvcSlot \in Slots
    BY <1>5 DEF SubmitFill, SlotInv, HandOver
  <2>2. SlotType' /\ HandOver'
    BY <2>1 DEF SlotInv, SlotType, HandOver
  <2>3. ASSUME NEW slot \in Slots PROVE refs'[slot] >= Holders(slot)'
    BY <2>1, <2>3, HandoffType DEF SlotInv, SavedFrameHeld, Holders
  <2> QED
    BY <2>1, <2>2, <2>3, SlotsAssumption DEF SlotInv, SavedFrameHeld
<1>6. CASE PassOn
  <2>1. /\ UNCHANGED <<data, giveBack, video, state, pc>>
        /\ uvcPc = "pass" /\ uvcPc' = "idle" /\ uvcSlot' = NoSlot
        /\ uvcSlot \in Slots
    BY <1>6 DEF PassOn, SlotInv, HandOver
  <2>2. CASE Len(handoff) < Cardinality(Slots)
             /\ handoff' = Append(handoff, uvcSlot) /\ UNCHANGED refs
    <3>1. handoff' \in Seq(Slots) /\ Len(handoff') <= Cardinality(Slots)
      BY <2>1, <2>2, HandoffType DEF SlotInv, SlotType
    <3>2. SlotType' /\ HandOver'
      BY <2>1, <2>2, <3>1 DEF SlotInv, SlotType, HandOver
    <3>3. ASSUME NEW slot \in Slots PROVE refs'[slot] >= Holders(slot)'
      <4>1. Queued(handoff', slot)
                = Queued(handoff, slot) + (IF uvcSlot = slot THEN 1 ELSE 0)
        BY <2>1, <2>2, QueuedAppend DEF SlotInv, SlotType
      <4> QED
        BY <2>1, <2>2, <4>1, HandoffType, SlotsAssumption
           DEF SlotInv, SavedFrameHeld, Holders
    <3> QED
      BY <2>1, <3>2, <3>3 DEF SlotInv, SavedFrameHeld
  <2>3. CASE refs' = Release(uvcSlot) /\ UNCHANGED handoff
    <3>1. ASSUME NEW slot \in Slots
          PROVE  /\ Holders(slot)' \in Nat
                 /\ Holders(slot)' + (IF slot = uvcSlot THEN 1 ELSE 0) <= Holders(slot)
      BY <2>1, <2>3, <3>1, HandoffType, SlotsAssumption DEF SlotInv, Holders
    <3>2. /\ refs' \in [Slots -> 0..2]
          /\ \A slot \in Slots : refs'[slot] >= Holders(slot)'
      BY <2>1, <2>3, <3>1, ReleaseHeld
    <3>3. SlotType' /\ HandOver'
      BY <2>1, <2>3, <3>2 DEF SlotInv, SlotType, HandOver
    <3> QED
      BY <2>1, <3>2, <3>3 DEF SlotInv, SavedFrameHeld
  <2> QED
    BY <1>6, <2>2, <2>3 DEF PassOn
<1> QED
  BY <1>1, <1>2, <1>3, <1>4, <1>5, <1>6 DEF Uvc

\* The handoff task takes the first slot of its queue, and passes it to the
\* video or releases it; the video releases what it holds.
LEMMA VideoStepSlot ==
    SlotInv /\ (Handoff \/ \E slot \in Slots : VideoRelease(slot)) => SlotInv'
<1> SUFFICES ASSUME SlotInv, Handoff \/ \E slot \in Slots : VideoRelease(slot)
             PROVE  SlotInv'
  OBVIOUS
<1>1. UNCHANGED <<data, giveBack, uvcSlot, state, pc, uvcPc>>
  BY DEF Handoff, VideoRelease
<1>2. HandOver'
  BY <1>1 DEF SlotInv, HandOver
<1>3. CASE Handoff
  <2>1. /\ handoff # <<>> /\ handoff' = Tail(handoff)
        /\ \/ video' = video \cup {Head(handoff)} /\ UNCHANGED refs
           \/ refs' = Release(Head(handoff)) /\ UNCHANGED video
    BY <1>3 DEF Handoff
  <2>2. /\ handoff' \in Seq(Slots) /\ Len(handoff') = Len(handoff) - 1
        /\ Head(handoff) \in Slots /\ Len(handoff) \in Nat
    BY <2>1 DEF SlotInv, SlotType
  <2>3. Len(handoff') <= Cardinality(Slots)
    BY <2>2, SlotsAssumption, FS_CardinalityType DEF SlotInv, SlotType
  <2>4. ASSUME NEW slot \in Slots
        PROVE  /\ Queued(handoff, slot) = Queued(handoff', slot)
                   + (IF Head(handoff) = slot THEN 1 ELSE 0)
               /\ Queued(handoff', slot) \in Nat
    BY <2>1, <2>2, QueuedTail, QueuedFinite DEF SlotInv, SlotType
  <2>5. /\ refs' \in [Slots -> 0..2]
        /\ \A slot \in Slots : refs'[slot] >= Holders(slot)'
    <3>1. CASE video' = video \cup {Head(handoff)} /\ UNCHANGED refs
      <4>1. ASSUME NEW slot \in Slots PROVE refs'[slot] >= Holders(slot)'
        BY <1>1, <2>4, <3>1, HandoffType DEF SlotInv, SavedFrameHeld, Holders
      <4> QED
        BY <3>1, <4>1 DEF SlotInv, SlotType
    <3>2. CASE refs' = Release(Head(handoff)) /\ UNCHANGED video
      <4>1. ASSUME NEW slot \in Slots
            PROVE  /\ Holders(slot)' \in Nat
                   /\ Holders(slot)' + (IF slot = Head(handoff) THEN 1 ELSE 0)
                          <= Holders(slot)
        BY <1>1, <2>4, <3>2 DEF Holders
      <4> QED
        BY <2>2, <3>2, <4>1, ReleaseHeld
    <3> QED
      BY <2>1, <3>1, <3>2
  <2>6. SlotType'
    BY <1>1, <2>1, <2>2, <2>3, <2>5 DEF SlotInv, SlotType
  <2> QED
    BY <1>1, <1>2, <2>5, <2>6 DEF SlotInv, SavedFrameHeld
<1>4. ASSUME NEW slot \in Slots, VideoRelease(slot) PROVE SlotInv'
  <2>1. /\ slot \in video /\ video' = video \ {slot}
        /\ refs' = Release(slot) /\ UNCHANGED handoff
    BY <1>4 DEF VideoRelease
  <2>2. ASSUME NEW other \in Slots
        PROVE  /\ Holders(other)' \in Nat
               /\ Holders(other)' + (IF other = slot THEN 1 ELSE 0) <= Holders(other)
    BY <1>1, <2>1, <2>2, HandoffType DEF SlotInv, Holders
  <2>3. /\ refs' \in [Slots -> 0..2]
        /\ \A other \in Slots : refs'[other] >= Holders(other)'
    BY <2>1, <2>2, ReleaseHeld
  <2>4. SlotType'
    BY <1>1, <2>1, <2>3 DEF SlotInv, SlotType
  <2> QED
    BY <1>1, <1>2, <2>3, <2>4 DEF SlotInv, SavedFrameHeld
<1> QED
  BY <1>3, <1>4

\* The slots and their holders, in every reachable state.
LEMMA SlotInvariant == Spec => []SlotInv
<1>1. Init => SlotInv
  BY InitSlot
<1>2. SlotInv /\ [Next]_vars => SlotInv'
  <2> SUFFICES ASSUME SlotInv, [Next]_vars PROVE SlotInv'
    OBVIOUS
  <2>1. CASE UNCHANGED vars
    <3>1. UNCHANGED <<refs, data, giveBack, uvcSlot, handoff, video, uvcPc, pc, state>>
      BY <2>1
    <3>2. HandOver'
      BY <3>1 DEF SlotInv, HandOver
    <3> QED
      BY <3>1, <3>2, SameHolders
  <2> QED
    BY <2>1, McpStepSlot, PhotoTaskStepSlot, UvcStepSlot, VideoStepSlot DEF Next
<1> QED
  BY <1>1, <1>2, PTL DEF Spec

\* SavedFrameHeld is an invariant: whoever reads a slot has a reference to it,
\* and the photo being saved is such a slot.
THEOREM SavedFrameCorrect == Spec => []SavedFrameHeld
<1>1. SlotInv => SavedFrameHeld
  BY DEF SlotInv
<1> QED
  BY <1>1, SlotInvariant, PTL
-----------------------------------------------------------------------------
(* The answers.                                                            *)

\* What a queue of one request holds.
LEMMA OneRequest ==
    ASSUME NEW request \in Requests
    PROVE  /\ <<request>> \in Seq(Requests) /\ Len(<<request>>) = 1
           /\ <<request>> # <<>> /\ <<request>>[1] = request
OBVIOUS

\* The first request of a queue is one.
LEMMA FirstRequest ==
    ASSUME NEW q \in Seq(Requests), q # <<>>
    PROVE  Head(q) \in Requests /\ q[1] = Head(q)
OBVIOUS

\* And an empty queue is a queue.
LEMMA NoRequest == <<>> \in Seq(Requests) /\ Len(<<>>) = 0
OBVIOUS

\* Initially nothing is asked or answered.
LEMMA InitAnswer == Init => AnswerInv
BY MaxRequestsAssumption, NoRequest DEF Init, AnswerInv, Requests

\* What a step does to the answers: none of those given changes.
AnswersKept ==
    \A request \in Requests :
        answers[request] # "none" => answers'[request] = answers[request]

\* A request is new when it is asked, and leaves the sender once.
LEMMA McpStepAnswer ==
    AnswerInv /\ (Request \/ RequestSend) => AnswerInv' /\ AnswersKept
<1> SUFFICES ASSUME AnswerInv, Request \/ RequestSend
             PROVE  AnswerInv' /\ AnswersKept
  OBVIOUS
<1> USE MaxRequestsAssumption
<1>1. UNCHANGED <<pc, current>>
  BY DEF Request, RequestSend
<1>2. CASE Request
  <2>1. /\ mcpPc = "idle" /\ asked < MaxRequests /\ asked' = asked + 1
        /\ UNCHANGED requests
        /\ \/ mcpPc' = "send" /\ UNCHANGED answers
           \/ /\ answers' = [answers EXCEPT ![asked + 1] = "busy"]
              /\ UNCHANGED mcpPc
    BY <1>2 DEF Request
  <2>2. asked + 1 \in Requests /\ answers[asked + 1] = "none"
    BY <2>1 DEF AnswerInv, Requests
  <2>3. requests # <<>> => requests[1] \in Requests
    BY FirstRequest DEF AnswerInv
  <2> QED
    BY <1>1, <2>1, <2>2, <2>3 DEF AnswerInv, AnswersKept, Requests
<1>3. CASE RequestSend
  <2>1. mcpPc = "send" /\ mcpPc' = "idle" /\ UNCHANGED asked
    BY <1>3 DEF RequestSend
  <2>2. asked \in Requests /\ answers[asked] = "none"
    BY <2>1 DEF AnswerInv
  <2>3. CASE requests = <<>> /\ requests' = <<asked>> /\ UNCHANGED answers
    BY <1>1, <2>1, <2>2, <2>3, OneRequest DEF AnswerInv, AnswersKept, Requests
  <2>4. CASE answers' = [answers EXCEPT ![asked] = "busy"] /\ UNCHANGED requests
    <3>1. requests # <<>> => requests[1] \in Requests
      BY FirstRequest DEF AnswerInv
    <3> QED
      BY <1>1, <2>1, <2>2, <2>4, <3>1 DEF AnswerInv, AnswersKept, Requests
  <2> QED
    BY <1>3, <2>3, <2>4 DEF RequestSend
<1> QED
  BY <1>2, <1>3

\* photo_task takes a request out of the queue and answers it at the end.
LEMMA PhotoTaskStepAnswer ==
    AnswerInv /\ result \in Statuses /\ PhotoTask => AnswerInv' /\ AnswersKept
<1> SUFFICES ASSUME AnswerInv, result \in Statuses, PhotoTask
             PROVE  AnswerInv' /\ AnswersKept
  OBVIOUS
<1>1. UNCHANGED <<asked, mcpPc>>
  BY DEF PhotoTask, TaskReceive, TaskNotified, TaskTimeout, TaskCapture,
         TaskJudge, TaskTimedOut, TaskSave, TaskSaved, TaskFinish, TaskComplete,
         TaskOnly, TaskMoves
<1>2. CASE TaskReceive
  <2>1. /\ requests # <<>> /\ requests' = <<>> /\ current' = Head(requests)
        /\ pc = "receive" /\ pc' = "wait" /\ UNCHANGED answers
    BY <1>2 DEF TaskReceive
  <2>2. Head(requests) \in Requests /\ requests[1] = Head(requests)
    BY <2>1, FirstRequest DEF AnswerInv
  <2> QED
    BY <1>1, <2>1, <2>2, NoRequest DEF AnswerInv, AnswersKept
<1>3. CASE TaskComplete
  <2>1. /\ answers' = [answers EXCEPT ![current] = result]
        /\ pc = "complete" /\ pc' = "receive" /\ UNCHANGED requests
    BY <1>3 DEF TaskComplete, photoVars
  <2>2. requests # <<>> => requests[1] \in Requests
    BY FirstRequest DEF AnswerInv
  <2> QED
    BY <1>1, <2>1, <2>2, MaxRequestsAssumption
       DEF AnswerInv, AnswersKept, Requests
<1>4. CASE ~TaskReceive /\ ~TaskComplete
  <2>1. pc # "receive" /\ UNCHANGED <<answers, requests, current>>
    BY <1>4 DEF PhotoTask, TaskNotified, TaskTimeout, TaskCapture, TaskJudge,
                TaskTimedOut, TaskSave, TaskSaved, TaskFinish, TaskMoves
  <2> QED
    BY <1>1, <2>1 DEF AnswerInv, AnswersKept
<1> QED
  BY <1>2, <1>3, <1>4

\* The callback and the video answer nothing.
LEMMA OtherStepAnswer ==
    ASSUME AnswerInv,
           Uvc \/ Handoff \/ (\E slot \in Slots : VideoRelease(slot)) \/ UNCHANGED vars
    PROVE  AnswerInv' /\ AnswersKept
<1>1. UNCHANGED <<asked, mcpPc, pc, current, requests, answers>>
  BY DEF Uvc, UvcOnly, FrameArrives, SubmitRefused, SubmitClaim, SubmitFill,
         SubmitNotify, PassOn, Handoff, VideoRelease
<1> QED
  BY <1>1 DEF AnswerInv, AnswersKept

-----------------------------------------------------------------------------
(* The types that SlotInv and AnswerInv leave open.                        *)

RestType ==
    /\ state \in PhotoStates /\ notified \in BOOLEAN
    /\ pc \in {"receive", "wait", "capture", "wait20", "judge", "timeout",
               "save", "saving", "finish", "complete"}
    /\ taken \in BOOLEAN
    /\ current \in 0..MaxRequests /\ result \in Statuses
    /\ mcpPc \in {"idle", "send"}
    /\ uvcPc \in {"idle", "offer", "fill", "notify", "pass"}
    /\ uvcVideo \in BOOLEAN

\* Every step keeps them.
LEMMA RestStep == RestType /\ AnswerInv /\ [Next]_vars => RestType'
<1> SUFFICES ASSUME RestType, AnswerInv, [Next]_vars PROVE RestType'
  OBVIOUS
<1> USE DEF RestType, PhotoStates, Statuses
<1>1. CASE Request \/ RequestSend
  BY <1>1 DEF Request, RequestSend
<1>2. CASE TaskReceive
  <2>1. Head(requests) \in 0..MaxRequests
    BY <1>2, FirstRequest, MaxRequestsAssumption DEF TaskReceive, AnswerInv, Requests
  <2> QED
    BY <1>2, <2>1 DEF TaskReceive, TaskOnly
<1>3. CASE TaskNotified \/ TaskTimedOut \/ TaskSave \/ TaskSaved \/ TaskFinish
           \/ TaskComplete
  BY <1>3 DEF TaskNotified, TaskTimedOut, TaskSave, TaskSaved, TaskFinish,
              TaskComplete, TaskOnly
<1>4. CASE TaskTimeout \/ TaskCapture \/ TaskJudge
  BY <1>4 DEF TaskTimeout, TaskCapture, TaskJudge, TaskMoves, TaskOnly
<1>5. CASE Uvc
  BY <1>5 DEF Uvc, UvcOnly, FrameArrives, SubmitRefused, SubmitClaim,
              SubmitFill, SubmitNotify, PassOn
<1>6. CASE Handoff \/ (\E slot \in Slots : VideoRelease(slot)) \/ UNCHANGED vars
  BY <1>6 DEF Handoff, VideoRelease
<1> QED
  BY <1>1, <1>2, <1>3, <1>4, <1>5, <1>6 DEF Next, PhotoTask

\* AnswersKept for every step, with the invariant it needs.
LEMMA AnswerInvariant == Spec => [](RestType /\ AnswerInv)
<1>1. Init => RestType /\ AnswerInv
  <2> SUFFICES ASSUME Init PROVE RestType /\ AnswerInv
    OBVIOUS
  <2>1. notified \in BOOLEAN /\ taken \in BOOLEAN /\ uvcVideo \in BOOLEAN
    BY Zenon DEF Init
  <2>2. current \in 0..MaxRequests
    BY MaxRequestsAssumption DEF Init
  <2> QED
    BY <2>1, <2>2, InitAnswer DEF Init, RestType, PhotoStates, Statuses
<1>2. RestType /\ AnswerInv /\ [Next]_vars => (RestType /\ AnswerInv)'
  BY RestStep, McpStepAnswer, PhotoTaskStepAnswer, OtherStepAnswer
     DEF Next, RestType
<1> QED
  BY <1>1, <1>2, PTL DEF Spec

\* AnsweredOnce: an answer is given to a request that has none, as a request is
\* at one place only, the sender, the queue or photo_task.
THEOREM AnsweredOnceCorrect == Spec => AnsweredOnce
<1>1. RestType /\ AnswerInv /\ [Next]_vars => [AnswersKept]_vars
  BY McpStepAnswer, PhotoTaskStepAnswer, OtherStepAnswer DEF Next, RestType
<1> QED
  BY <1>1, AnswerInvariant, PTL DEF Spec, AnsweredOnce, AnswersKept

\* The variables keep their types.
THEOREM PhotoTypeCorrect == Spec => []TypeOK
<1>1. SlotInv /\ RestType /\ AnswerInv => TypeOK
  BY DEF SlotInv, SlotType, RestType, AnswerInv, TypeOK
<1> QED
  BY <1>1, SlotInvariant, AnswerInvariant, PTL
=============================================================================
