---------------------------- MODULE AlertClipProofs ----------------------------
(***************************************************************************)
(* Proofs about the film of an alert, for every frame rate, every length of *)
(* ring, clip and grant within the assumptions, and any number of alerts:   *)
(* the clip is a film (ClipIsFilm), it is changed by nobody while it is     *)
(* saved (SavedUnchanged), it is uploaded with its own grant                *)
(* (UploadOfItsGrant), and an alert finds its beginning in the ring         *)
(* (RingReady).                                                            *)
(***************************************************************************)
EXTENDS AlertClip, SequenceTheorems, TLAPS

USE DEF vars, jobVars, filmVars, frameVars, personVars

-----------------------------------------------------------------------------
(* The invariants.                                                          *)

\* The frames of the ring follow one another; before the frame of this tick is
\* pushed, none of them is of this tick.
RingInOrder ==
    /\ ring \in Seq(Nat \X BOOLEAN)
    /\ \A i, j \in 1 .. Len(ring) : i < j => ring[i][1] > ring[j][1]
    /\ due => \A i \in 1 .. Len(ring) : ring[i][1] > 0

\* So do those of a clip, up to the frame of this tick.
ClipInOrder ==
    /\ clip \in Seq(Int \X BOOLEAN)
    /\ phase \in {"recording", "saving"} => Film(clip)
    /\ phase = "recording" =>
         /\ \A i \in 1 .. Len(clip) : clip[i][1] <= Post /\ clip[i][1] <= since
         /\ due => \A i \in 1 .. Len(clip) : clip[i][1] < since

\* The last frames of the ring, as many as have come without a loss, are those
\* of the last ticks, one each.
Run ==
    /\ steady <= Len(ring)
    /\ \A k \in 0 .. steady - 1 :
         ring[Len(ring) - k][1] = IF due THEN k + 1 ELSE k

\* The encoder's last IDR frame is where its counter says, and of as many frames
\* as from one to the next, one is an IDR frame.
Idrs ==
    /\ LET k == IF gop = 0 THEN Gop - 1 ELSE gop - 1
       IN  k < steady => ring[Len(ring) - k][2]
    /\ \A k \in 0 .. steady - Gop :
         \E j \in k .. k + Gop - 1 : ring[Len(ring) - j][2]

\* A grant is for the event under way, whose film is then on the card.
JobInv ==
    /\ granted => ticket = event
    /\ phase = "idle" => ~granted
    /\ phase # "idle" => event \in Events
    /\ phase \in {"wait_grant", "uploading"} => event \in card /\ clip = << >>
    /\ phase = "uploading" => granted
    /\ person = "publish" => tried > 0

\* The types of the other variables.
RestType ==
    /\ gop \in 0 .. Gop - 1 /\ lost \in 0 .. MaxLost /\ steady \in 0 .. OldestAge
    /\ phase \in Phases /\ since \in 0 .. GrantTime + 1
    /\ event \in Events \cup {0} /\ ticket \in Events \cup {0}
    /\ valid \in 0 .. Validity /\ card \subseteq Events
    /\ person \in {"idle", "publish", "cancel"}
    /\ tried \in 0 .. MaxEvent /\ published \subseteq Events
    /\ rested \in 0 .. Rest

FlagsType == due \in BOOLEAN /\ granted \in BOOLEAN

FilmInv == RestType /\ FlagsType /\ RingInOrder /\ ClipInOrder /\ Run /\ Idrs /\ JobInv

-----------------------------------------------------------------------------
(* The ring.                                                                *)

\* A frame of the ring is a time and whether it is an IDR frame.
LEMMA RingFrame ==
    ASSUME NEW q \in Seq(Nat \X BOOLEAN), NEW i \in 1 .. Len(q)
    PROVE  q[i] \in Nat \X BOOLEAN /\ q[i][1] \in Nat /\ q[i][2] \in BOOLEAN
OBVIOUS

\* One more element.
LEMMA Appended ==
    ASSUME NEW S, NEW q \in Seq(S), NEW f \in S
    PROVE  /\ Append(q, f) \in Seq(S) /\ Len(Append(q, f)) = Len(q) + 1
           /\ Append(q, f)[Len(q) + 1] = f
           /\ \A i \in 1 .. Len(q) : Append(q, f)[i] = q[i]
OBVIOUS

\* The rest of a sequence from an index on, with one more element.
LEMMA RestAndOne ==
    ASSUME NEW S, NEW q \in Seq(S), NEW from \in 1 .. Len(q) + 1, NEW f \in S
    PROVE  LET r == Append(SubSeq(q, from, Len(q)), f)
           IN  /\ r \in Seq(S) /\ Len(q) \in Nat
               /\ Len(r) = Len(q) - from + 2
               /\ r[Len(r)] = f
               /\ \A i \in 1 .. Len(r) - 1 : r[i] = q[from + i - 1]
<1> DEFINE rest == SubSeq(q, from, Len(q))
<1>1. /\ rest \in Seq(S) /\ Len(rest) = Len(q) - from + 1
      /\ \A i \in 1 .. Len(rest) : rest[i] = q[from + i - 1]
  BY SubSeqProperties
<1> HIDE DEF rest
<1>2. /\ Append(rest, f) \in Seq(S) /\ Len(Append(rest, f)) = Len(rest) + 1
      /\ Append(rest, f)[Len(rest) + 1] = f
      /\ \A i \in 1 .. Len(rest) : Append(rest, f)[i] = rest[i]
  <2>1. rest \in Seq(S)
    BY <1>1
  <2> QED
    BY <2>1, Appended
<1>3. Len(q) \in Nat /\ from \in Nat
  OBVIOUS
<1>4. PICK r : r = Append(rest, f)
  OBVIOUS
<1>5. /\ r \in Seq(S) /\ Len(q) \in Nat
      /\ Len(r) = Len(q) - from + 2 /\ r[Len(r)] = f
      /\ \A i \in 1 .. Len(r) - 1 : r[i] = q[from + i - 1]
  <2>1. /\ r \in Seq(S) /\ Len(r) = Len(rest) + 1 /\ r[Len(rest) + 1] = f
        /\ \A i \in 1 .. Len(rest) : r[i] = rest[i]
    BY <1>2, <1>4, Zenon
  <2> QED
    BY <1>1, <1>3, <2>1
<1> QED
  BY <1>4, <1>5, Zenon DEF rest

\* What a push makes of the ring: its last frames, and the new one.
LEMMA Pushed ==
    ASSUME RingInOrder, PushToRing
    PROVE  \E from \in 1 .. Len(ring) + 1 :
               /\ \A j \in 1 .. from - 1 : Dropped(j)
               /\ ring' \in Seq(Nat \X BOOLEAN) /\ Len(ring) \in Nat
               /\ Len(ring') = Len(ring) - from + 2
               /\ ring'[Len(ring')] = Frame(0)
               /\ \A i \in 1 .. Len(ring') - 1 : ring'[i] = ring[from + i - 1]
<1>1. PICK from \in 1 .. Len(ring) + 1 :
          /\ \A j \in 1 .. from - 1 : Dropped(j)
          /\ ring' = Append(SubSeq(ring, from, Len(ring)), Frame(0))
  BY DEF PushToRing
<1>2. Frame(0) \in Nat \X BOOLEAN /\ ring \in Seq(Nat \X BOOLEAN)
  <2>1. (gop = 0) \in BOOLEAN
    BY Zenon
  <2> QED
    BY <2>1 DEF Frame, RingInOrder
<1>3. /\ ring' \in Seq(Nat \X BOOLEAN) /\ Len(ring) \in Nat
      /\ Len(ring') = Len(ring) - from + 2
      /\ ring'[Len(ring')] = Frame(0)
      /\ \A i \in 1 .. Len(ring') - 1 : ring'[i] = ring[from + i - 1]
  BY <1>1, <1>2, RestAndOne
<1> QED
  BY <1>1, <1>3

\* The frame that is pushed has age 0.
LEMMA FrameOf == \A time : Frame(time)[1] = time /\ Frame(time)[2] = (gop = 0)
BY DEF Frame

\* It is behind the others.
LEMMA PushKeepsOrder ==
    ASSUME RingInOrder, due, ~due', PushToRing
    PROVE  RingInOrder'
<1>1. PICK from \in 1 .. Len(ring) + 1 :
          /\ \A j \in 1 .. from - 1 : Dropped(j)
          /\ ring' \in Seq(Nat \X BOOLEAN) /\ Len(ring) \in Nat
          /\ Len(ring') = Len(ring) - from + 2
          /\ ring'[Len(ring')] = Frame(0)
          /\ \A i \in 1 .. Len(ring') - 1 : ring'[i] = ring[from + i - 1]
  BY Pushed
<1>0. /\ from \in Nat /\ from >= 1 /\ Len(ring) \in Nat /\ Len(ring') \in Nat
      /\ Len(ring') = Len(ring) - from + 2
  BY <1>1
<1>2. ASSUME NEW i \in 1 .. Len(ring'), NEW j \in 1 .. Len(ring'), i < j
      PROVE  ring'[i][1] > ring'[j][1]
  <2>1. /\ ring'[i] = ring[from + i - 1]
        /\ from + i - 1 \in 1 .. Len(ring)
    BY <1>1, <1>2
  <2>2. CASE j = Len(ring')
    <3>1. ring'[j][1] = 0
      BY <1>1, <2>2, FrameOf
    <3>2. ring[from + i - 1][1] > 0
      BY <2>1 DEF RingInOrder
    <3> QED
      BY <2>1, <3>1, <3>2
  <2>3. CASE j < Len(ring')
    <3>1. j \in 1 .. Len(ring') - 1 /\ ring'[j] = ring[from + j - 1]
      BY <1>1, <2>3
    <3>2. from + j - 1 \in 1 .. Len(ring) /\ from + i - 1 < from + j - 1
      BY <1>0, <1>2, <3>1
    <3>3. ring[from + i - 1][1] > ring[from + j - 1][1]
      BY <2>1, <3>2 DEF RingInOrder
    <3> QED
      BY <2>1, <3>1, <3>3
  <2> QED
    BY <1>0, <2>2, <2>3
<1> QED
  BY <1>1, <1>2 DEF RingInOrder

\* A push that dropped one of the last t - 1 frames would drop the t - 2nd before
\* the last.
LEMMA DropReaches ==
    ASSUME NEW n \in Nat, NEW from \in 1 .. n + 1, NEW s \in 0 .. n, NEW t \in Nat,
           t <= s + 1, from > n - (t - 1) + 1
    PROVE  t - 2 \in 0 .. s - 1 /\ n - (t - 2) \in 1 .. from - 1
OBVIOUS

\* A run is not broken by what is dropped: the frames of a run that are not too
\* old are kept, being fewer than the ring has room for.
LEMMA PushKeepsRun ==
    ASSUME RestType, RingInOrder, Run, due, PushToRing,
           steady' = Capped(steady, OldestAge)
    PROVE  /\ steady' \in 1 .. OldestAge /\ steady' <= steady + 1
           /\ Len(ring) \in Nat /\ Len(ring') \in Nat
           /\ steady' <= Len(ring')
           /\ ring'[Len(ring')] = Frame(0)
           /\ \A k \in 1 .. steady' - 1 :
                ring'[Len(ring') - k] = ring[Len(ring) - (k - 1)]
<1>1. PICK from \in 1 .. Len(ring) + 1 :
          /\ \A j \in 1 .. from - 1 : Dropped(j)
          /\ ring' \in Seq(Nat \X BOOLEAN) /\ Len(ring) \in Nat
          /\ Len(ring') = Len(ring) - from + 2
          /\ ring'[Len(ring')] = Frame(0)
          /\ \A i \in 1 .. Len(ring') - 1 : ring'[i] = ring[from + i - 1]
  BY Pushed
<1>2. /\ RingTime \in Nat /\ RingFrames \in Nat /\ RingTime < RingFrames
      /\ OldestAge = RingTime + 1 /\ steady \in 0 .. OldestAge /\ steady <= Len(ring)
  BY AlertAssumption, RingAssumption DEF OldestAge, RestType, Run
<1>3. /\ steady' \in 1 .. OldestAge /\ steady' <= steady + 1
      /\ steady' - 1 <= RingTime /\ steady' - 1 <= steady
  BY <1>2 DEF Capped
<1>4. /\ from \in 1 .. Len(ring) + 1 /\ Len(ring) \in Nat /\ steady' \in Nat
      /\ steady \in Nat /\ Len(ring') = Len(ring) - from + 2
      /\ steady <= Len(ring)
  BY <1>1, <1>2, <1>3
<1>5. from <= Len(ring) - (steady' - 1) + 1
  <2>1. SUFFICES ASSUME from > Len(ring) - (steady' - 1) + 1 PROVE FALSE
    BY <1>4
  <2>2. /\ steady' - 2 \in 0 .. steady - 1
        /\ Len(ring) - (steady' - 2) \in 1 .. from - 1
    BY <1>3, <1>4, <2>1, DropReaches
  <2>3. PICK k \in 0 .. steady - 1 : k = steady' - 2
    BY <2>2
  <2>4. Len(ring) - k \in 1 .. from - 1 /\ k \in Nat /\ k + 1 <= RingTime
    BY <1>2, <1>3, <1>4, <2>2, <2>3
  <2>5. Dropped(Len(ring) - k)
    BY <1>1, <2>4
  <2>6. ring[Len(ring) - k][1] = k + 1
    BY <2>3 DEF Run
  <2>7. ~TooOld(ring[Len(ring) - k])
    BY <1>2, <2>4, <2>6 DEF TooOld
  <2>8. ~(Len(ring) - (Len(ring) - k) + 1 >= RingFrames)
    BY <1>2, <1>4, <2>4
  <2> QED
    BY <2>5, <2>7, <2>8 DEF Dropped
<1>6. ASSUME NEW k \in 1 .. steady' - 1
      PROVE  ring'[Len(ring') - k] = ring[Len(ring) - (k - 1)]
  <2>1. Len(ring') - k \in 1 .. Len(ring') - 1
    BY <1>4, <1>5
  <2>2. from + (Len(ring') - k) - 1 = Len(ring) - (k - 1)
    BY <1>4
  <2> QED
    BY <1>1, <2>1, <2>2
<1>7. steady' <= Len(ring') /\ Len(ring') \in Nat
  BY <1>4, <1>5
<1> QED
  BY <1>1, <1>3, <1>4, <1>6, <1>7

\* So the run goes on,
LEMMA PushGoesOn ==
    ASSUME RestType, RingInOrder, Run, Idrs, due, ~due', PushToRing,
           steady' = Capped(steady, OldestAge),
           gop' = IF gop + 1 < Gop THEN gop + 1 ELSE 0
    PROVE  Run' /\ Idrs'
<1>1. /\ steady' \in 1 .. OldestAge /\ steady' <= steady + 1
      /\ Len(ring) \in Nat /\ Len(ring') \in Nat
      /\ steady' <= Len(ring')
      /\ ring'[Len(ring')] = Frame(0)
      /\ \A k \in 1 .. steady' - 1 :
           ring'[Len(ring') - k] = ring[Len(ring) - (k - 1)]
  BY PushKeepsRun
<1>2. /\ Gop \in Nat \ {0} /\ gop \in 0 .. Gop - 1 /\ steady \in Nat /\ steady' \in Nat
  BY <1>1, AlertAssumption DEF RestType, OldestAge
<1>3. Run'
  <2>1. ASSUME NEW k \in 0 .. steady' - 1
        PROVE  ring'[Len(ring') - k][1] = k
    <3>1. CASE k = 0
      BY <1>1, <3>1, FrameOf
    <3>2. CASE k > 0
      <4>1. k \in 1 .. steady' - 1 /\ k - 1 \in 0 .. steady - 1
        BY <1>1, <1>2, <3>2
      <4>2. ring[Len(ring) - (k - 1)][1] = (k - 1) + 1
        BY <4>1 DEF Run
      <4> QED
        BY <1>1, <4>1, <4>2
    <3> QED
      BY <1>2, <3>1, <3>2
  <2> QED
    BY <1>1, <2>1 DEF Run
<1>4. gop < steady' => ring'[Len(ring') - gop][2]
  <2>1. CASE gop = 0
    <3>1. Frame(0)[2]
      BY <2>1, FrameOf, Zenon
    <3>2. Len(ring') - gop = Len(ring')
      BY <1>1, <2>1
    <3> QED
      BY <1>1, <3>1, <3>2, Zenon
  <2>2. CASE gop > 0 /\ gop < steady'
    <3>1. gop \in 1 .. steady' - 1 /\ gop - 1 < steady
      BY <1>1, <1>2, <2>2
    <3>2. ring[Len(ring) - (gop - 1)][2]
      BY <1>2, <2>2, <3>1 DEF Idrs
    <3> QED
      BY <1>1, <3>1, <3>2
  <2> QED
    BY <1>2, <2>1, <2>2
<1>5. gop = IF gop' = 0 THEN Gop - 1 ELSE gop' - 1
  BY <1>2
<1>6. ASSUME NEW k \in 0 .. steady' - Gop
      PROVE  \E j \in k .. k + Gop - 1 : ring'[Len(ring') - j][2]
  <2>1. CASE k = 0
    <3>1. gop \in k .. k + Gop - 1 /\ gop < steady'
      BY <1>2, <2>1
    <3> QED
      BY <1>4, <3>1
  <2>2. CASE k > 0
    <3>1. k - 1 \in 0 .. steady - Gop
      BY <1>1, <1>2, <2>2
    <3>2. PICK j \in k - 1 .. (k - 1) + Gop - 1 : ring[Len(ring) - j][2]
      BY <3>1 DEF Idrs
    <3>3. j + 1 \in k .. k + Gop - 1 /\ j + 1 \in 1 .. steady' - 1 /\ (j + 1) - 1 = j
      BY <1>1, <1>2, <2>2
    <3>4. ring'[Len(ring') - (j + 1)] = ring[Len(ring) - j]
      BY <1>1, <3>3
    <3> QED
      BY <3>2, <3>3, <3>4
  <2> QED
    BY <1>2, <2>1, <2>2
<1> QED
  BY <1>3, <1>4, <1>5, <1>6 DEF Idrs

\* and without one nothing is said.
LEMMA NoRun ==
    ASSUME RestType', steady' = 0, Len(ring') \in Nat
    PROVE  Run' /\ Idrs'
<1>1. gop' \in 0 .. Gop - 1 /\ Gop \in Nat \ {0}
  BY AlertAssumption DEF RestType
<1>2. Run'
  BY DEF Run
<1>3. ~ ((IF gop' = 0 THEN Gop - 1 ELSE gop' - 1) < 0)
  <2>1. \A g \in 0 .. Gop - 1 : ~ ((IF g = 0 THEN Gop - 1 ELSE g - 1) < 0)
    BY <1>1
  <2> QED
    BY <1>1, <2>1
<1>4. 0 .. 0 - Gop = {}
  BY <1>1
<1> QED
  BY <1>2, <1>3, <1>4 DEF Idrs

\* A frame's time later every frame is that much older.
LEMMA OlderRing ==
    ASSUME RestType, RingInOrder, Run, Idrs, ~due, due', ring' = Aged(ring),
           UNCHANGED <<steady, gop>>
    PROVE  RingInOrder' /\ Run' /\ Idrs'
<1>1. /\ ring \in Seq(Nat \X BOOLEAN) /\ Len(ring) \in Nat
      /\ \A i \in 1 .. Len(ring) : ring[i][1] \in Nat /\ ring[i][2] \in BOOLEAN
  BY RingFrame DEF RingInOrder
<1>2. /\ ring' \in Seq(Nat \X BOOLEAN) /\ Len(ring') = Len(ring)
      /\ \A i \in 1 .. Len(ring) : ring'[i] = <<ring[i][1] + 1, ring[i][2]>>
  <2>1. \A i \in 1 .. Len(ring) : <<ring[i][1] + 1, ring[i][2]>> \in Nat \X BOOLEAN
    BY <1>1
  <2>2. ring' \in [1 .. Len(ring) -> Nat \X BOOLEAN]
    BY <2>1 DEF Aged
  <2> QED
    BY <1>1, <2>2, SeqDef DEF Aged
<1>3. RingInOrder'
  <2>1. ASSUME NEW i \in 1 .. Len(ring), NEW j \in 1 .. Len(ring), i < j
        PROVE  ring'[i][1] > ring'[j][1]
    <3>1. ring[i][1] > ring[j][1]
      BY <2>1 DEF RingInOrder
    <3> QED
      BY <1>1, <1>2, <3>1
  <2> QED
    BY <1>1, <1>2, <2>1 DEF RingInOrder
<1>4. Run'
  <2>1. ASSUME NEW k \in 0 .. steady - 1
        PROVE  ring'[Len(ring) - k][1] = k + 1
    <3>1. Len(ring) - k \in 1 .. Len(ring) /\ ring[Len(ring) - k][1] = k
      BY <1>1 DEF Run, RestType
    <3> QED
      BY <1>2, <3>1
  <2> QED
    BY <1>2, <2>1 DEF Run
<1>5. \A k \in 0 .. steady - 1 : ring'[Len(ring') - k][2] = ring[Len(ring) - k][2]
  <2>1. ASSUME NEW k \in 0 .. steady - 1
        PROVE  ring'[Len(ring') - k][2] = ring[Len(ring) - k][2]
    <3>1. Len(ring) - k \in 1 .. Len(ring) /\ Len(ring') - k = Len(ring) - k
      BY <1>1, <1>2 DEF Run, RestType
    <3>2. ring'[Len(ring) - k] = <<ring[Len(ring) - k][1] + 1, ring[Len(ring) - k][2]>>
      BY <1>2, <3>1
    <3> QED
      BY <3>1, <3>2
  <2> QED
    BY <2>1
<1>6. Gop \in Nat \ {0} /\ gop \in 0 .. Gop - 1 /\ steady \in Nat
  BY AlertAssumption DEF RestType, OldestAge
<1>7. Idrs'
  <2> DEFINE at == IF gop = 0 THEN Gop - 1 ELSE gop - 1
  <2>1. at < steady => ring'[Len(ring') - at][2]
    <3>1. at < steady => at \in 0 .. steady - 1 /\ ring[Len(ring) - at][2]
      BY <1>6 DEF Idrs
    <3> QED
      BY <1>5, <3>1
  <2>2. ASSUME NEW k \in 0 .. steady - Gop
        PROVE  \E j \in k .. k + Gop - 1 : ring'[Len(ring') - j][2]
    <3>1. PICK j \in k .. k + Gop - 1 : ring[Len(ring) - j][2]
      BY DEF Idrs
    <3>2. j \in 0 .. steady - 1
      BY <1>6
    <3> QED
      BY <1>5, <3>1, <3>2
  <2> QED
    BY <2>1, <2>2 DEF Idrs
<1> QED
  BY <1>3, <1>4, <1>7

\* What touches neither the ring nor what is pushed.
LEMMA SameRing ==
    ASSUME RingInOrder, Run, Idrs, UNCHANGED <<ring, due, steady, gop>>
    PROVE  RingInOrder' /\ Run' /\ Idrs'
BY DEF RingInOrder, Run, Idrs

\* A frame that does not go to the ring leaves it in order.
LEMMA OrderKept ==
    ASSUME RingInOrder, UNCHANGED ring, ~due'
    PROVE  RingInOrder' /\ Len(ring') \in Nat
BY DEF RingInOrder

-----------------------------------------------------------------------------
(* The clip.                                                                *)

\* Without a film there is nothing to say of it.
LEMMA NoFilm ==
    ASSUME clip' = << >>, phase' \notin {"recording", "saving"}
    PROVE  ClipInOrder'
BY DEF ClipInOrder

\* What does not touch the clip or the clock.
LEMMA SameFilm ==
    ASSUME ClipInOrder, UNCHANGED <<clip, since>>, due' => due,
           \/ phase' = phase
           \/ phase = "recording" /\ phase' = "saving"
           \/ phase' \notin {"recording", "saving"}
    PROVE  ClipInOrder'
BY DEF ClipInOrder, Film

\* A frame of the clip is a time and whether it is an IDR frame.
LEMMA ClipFrame ==
    ASSUME NEW q \in Seq(Int \X BOOLEAN), NEW i \in 1 .. Len(q)
    PROVE  q[i] \in Int \X BOOLEAN /\ q[i][1] \in Int /\ q[i][2] \in BOOLEAN
OBVIOUS

\* A film goes on with a frame that is younger than all of it.
LEMMA FilmGoesOn ==
    ASSUME NEW q \in Seq(Int \X BOOLEAN), NEW f \in Int \X BOOLEAN, Film(q),
           \A i \in 1 .. Len(q) : q[i][1] < f[1]
    PROVE  Film(Append(q, f))
<1>1. PICK r : r = Append(q, f)
  OBVIOUS
<1>2. /\ r \in Seq(Int \X BOOLEAN) /\ Len(r) = Len(q) + 1 /\ r[Len(q) + 1] = f
      /\ \A i \in 1 .. Len(q) : r[i] = q[i]
  BY <1>1, Appended
<1>3. Len(q) \in Nat /\ Len(q) > 0 /\ q[1][2] /\ q[1][1] <= -Pre
  BY DEF Film
<1>4. r[1] = q[1]
  BY <1>2, <1>3
<1>5. ASSUME NEW i \in 1 .. Len(r) - 1
      PROVE  r[i][1] < r[i + 1][1]
  <2>1. i \in 1 .. Len(q) /\ r[i] = q[i]
    BY <1>2, <1>3
  <2>2. CASE i = Len(q)
    BY <1>2, <2>1, <2>2
  <2>3. CASE i < Len(q)
    <3>1. i + 1 \in 1 .. Len(q) /\ i \in 1 .. Len(q) - 1
      BY <1>3, <2>1, <2>3
    <3>2. q[i][1] < q[i + 1][1]
      BY <3>1 DEF Film
    <3> QED
      BY <1>2, <2>1, <3>1, <3>2
  <2> QED
    BY <1>3, <2>1, <2>2, <2>3
<1>6. Len(r) > 0
  BY <1>2, <1>3
<1>7. r[1][2] /\ r[1][1] <= -Pre
  BY <1>3, <1>4
<1>8. Film(r)
  BY <1>5, <1>6, <1>7 DEF Film
<1> QED
  BY <1>1, <1>8

\* A frame that is pushed to the clip is the frame of this tick.
LEMMA ClipGoesOn ==
    ASSUME RestType, ClipInOrder, PushClip
    PROVE  ClipInOrder'
<1>1. /\ clip \in Seq(Int \X BOOLEAN) /\ Film(clip)
      /\ \A i \in 1 .. Len(clip) : clip[i][1] <= Post /\ clip[i][1] <= since
      /\ \A i \in 1 .. Len(clip) : clip[i][1] < since
  BY DEF ClipInOrder, PushClip, Recording, Encoded
<1>2. /\ clip' = Append(clip, Frame(since)) /\ since <= Post
      /\ UNCHANGED <<phase, since>>
  BY DEF PushClip, Recording
<1>9. ~due'
  BY Zenon DEF PushClip, Encoded
<1>3. since \in Int
  BY AlertAssumption DEF RestType
<1>4. Frame(since) \in Int \X BOOLEAN /\ Frame(since)[1] = since
  <2>1. (gop = 0) \in BOOLEAN
    BY Zenon
  <2> QED
    BY <1>3, <2>1 DEF Frame
<1>5. PICK f : f = Frame(since)
  OBVIOUS
<1>6. /\ clip' \in Seq(Int \X BOOLEAN) /\ Len(clip') = Len(clip) + 1
      /\ clip'[Len(clip) + 1] = f /\ \A i \in 1 .. Len(clip) : clip'[i] = clip[i]
  BY <1>1, <1>2, <1>4, <1>5, Appended
<1>7. Film(clip')
  <2>1. f \in Int \X BOOLEAN /\ clip' = Append(clip, f)
    BY <1>2, <1>4, <1>5
  <2>2. \A i \in 1 .. Len(clip) : clip[i][1] < f[1]
    BY <1>1, <1>4, <1>5
  <2> QED
    BY <1>1, <2>1, <2>2, FilmGoesOn
<1>8. ASSUME NEW i \in 1 .. Len(clip')
      PROVE  clip'[i][1] <= Post /\ clip'[i][1] <= since
  <2>1. CASE i = Len(clip) + 1
    BY <1>2, <1>3, <1>4, <1>5, <1>6, <2>1
  <2>2. CASE i \in 1 .. Len(clip)
    BY <1>1, <1>6, <2>2
  <2> QED
    BY <1>1, <1>6, <2>1, <2>2
<1> QED
  BY <1>2, <1>9, <1>6, <1>7, <1>8 DEF ClipInOrder

\* The beginning of a clip is a film of the time before the alert.
LEMMA BeginningIsFilm ==
    ASSUME RingInOrder, NEW first \in Starts
    PROVE  /\ FilmFrom(first) \in Seq(Int \X BOOLEAN)
           /\ Film(FilmFrom(first))
           /\ \A i \in 1 .. Len(FilmFrom(first)) :
                /\ FilmFrom(first)[i][1] <= 0
                /\ due => FilmFrom(first)[i][1] < 0
<1>1. /\ ring \in Seq(Nat \X BOOLEAN) /\ Len(ring) \in Nat
      /\ \A i \in 1 .. Len(ring) : ring[i][1] \in Nat /\ ring[i][2] \in BOOLEAN
  BY RingFrame DEF RingInOrder
<1>2. first \in 1 .. Len(ring) /\ ring[first][2] /\ ring[first][1] >= Pre
  BY DEF Starts
<1>3. PICK n \in Nat : n = Len(ring) - first + 1
  BY <1>1, <1>2
<1>4. \A i \in 1 .. n : first + i - 1 \in 1 .. Len(ring)
  BY <1>1, <1>2, <1>3
<1>5. PICK q : q = FilmFrom(first)
  OBVIOUS
<1>6. /\ q \in Seq(Int \X BOOLEAN) /\ Len(q) = n
      /\ \A i \in 1 .. n :
           q[i] = <<-ring[first + i - 1][1], ring[first + i - 1][2]>>
  <2>1. q = [i \in 1 .. n |-> <<-ring[first + i - 1][1], ring[first + i - 1][2]>>]
    BY <1>3, <1>5 DEF FilmFrom
  <2>2. \A i \in 1 .. n :
          <<-ring[first + i - 1][1], ring[first + i - 1][2]>> \in Int \X BOOLEAN
    <3>1. ASSUME NEW i \in 1 .. n
          PROVE  -ring[first + i - 1][1] \in Int /\ ring[first + i - 1][2] \in BOOLEAN
      <4>1. first + i - 1 \in 1 .. Len(ring)
        BY <1>4
      <4> QED
        BY <1>1, <4>1
    <3> QED
      BY <3>1
  <2>3. q \in [1 .. n -> Int \X BOOLEAN]
    BY <2>1, <2>2
  <2>4. q \in Seq(Int \X BOOLEAN)
    BY <2>3, SeqDef
  <2> QED
    BY <2>1, <2>3, <2>4
<1>7. ASSUME NEW i \in 1 .. n
      PROVE  q[i][1] = -ring[first + i - 1][1]
  BY <1>6
<1>8. Film(q)
  <2>1. n > 0 /\ 1 \in 1 .. n /\ first + 1 - 1 = first
    BY <1>1, <1>2, <1>3
  <2>2. q[1] = <<-ring[first][1], ring[first][2]>>
    BY <1>6, <2>1
  <2>3. q[1][2]
    BY <1>2, <2>2
  <2>4. q[1][1] <= -Pre
    <3>1. q[1][1] = -ring[first][1] /\ ring[first][1] \in Nat /\ Pre \in Nat
      BY <1>1, <1>2, <2>2, AlertAssumption
    <3> QED
      BY <1>2, <3>1
  <2>5. ASSUME NEW i \in 1 .. n - 1
        PROVE  q[i][1] < q[i + 1][1]
    <3>1. i \in 1 .. n /\ i + 1 \in 1 .. n /\ first + (i + 1) - 1 = (first + i - 1) + 1
      BY <1>2
    <3>2. first + i - 1 \in 1 .. Len(ring) /\ first + (i + 1) - 1 \in 1 .. Len(ring)
      BY <1>4, <3>1
    <3>3. ring[first + i - 1][1] > ring[first + (i + 1) - 1][1]
      BY <1>1, <3>1, <3>2 DEF RingInOrder
    <3>4. /\ ring[first + i - 1][1] \in Nat /\ ring[first + (i + 1) - 1][1] \in Nat
          /\ q[i][1] = -ring[first + i - 1][1]
          /\ q[i + 1][1] = -ring[first + (i + 1) - 1][1]
      BY <1>1, <1>7, <3>1, <3>2
    <3> QED
      BY <3>3, <3>4
  <2> QED
    BY <1>6, <2>1, <2>3, <2>4, <2>5 DEF Film
<1>9. ASSUME NEW i \in 1 .. n
      PROVE  q[i][1] <= 0 /\ (due => q[i][1] < 0)
  <2>1. /\ first + i - 1 \in 1 .. Len(ring) /\ ring[first + i - 1][1] \in Nat
    BY <1>1, <1>4
  <2>2. due => ring[first + i - 1][1] > 0
    BY <2>1 DEF RingInOrder
  <2> QED
    BY <1>7, <2>1, <2>2
<1> QED
  BY <1>5, <1>6, <1>8, <1>9

\* An alert takes it out of the ring.
LEMMA TriggerBegins ==
    ASSUME RestType, RingInOrder, Trigger
    PROVE  ClipInOrder'
<1>1. PICK first \in Starts : clip' = FilmFrom(first)
  BY DEF Trigger
<1>2. /\ clip' \in Seq(Int \X BOOLEAN) /\ Film(clip')
      /\ \A i \in 1 .. Len(clip') : clip'[i][1] <= 0 /\ (due => clip'[i][1] < 0)
  BY <1>1, BeginningIsFilm
<1>3. phase' = "recording" /\ since' = 0
  BY DEF Trigger
<1>4. due' = due
  BY Zenon DEF Trigger
<1>5. ASSUME NEW i \in 1 .. Len(clip')
      PROVE  clip'[i][1] <= Post
  BY <1>2, AlertAssumption, ClipFrame
<1> QED
  BY <1>2, <1>3, <1>4, <1>5 DEF ClipInOrder

\* The clip is behind the clock when a frame's time has passed.
LEMMA OlderClip ==
    ASSUME RestType, ClipInOrder, Tick
    PROVE  ClipInOrder'
<1>1. UNCHANGED <<clip, phase>>
  BY DEF Tick
<1>2. CASE phase # "recording"
  BY <1>1, <1>2 DEF ClipInOrder
<1>3. CASE phase = "recording"
  <2>1. since' = Capped(since, GrantTime + 1) /\ since \in Nat /\ GrantTime \in Nat
        /\ Post \in Nat /\ Post <= GrantTime
    BY <1>3, AlertAssumption, PostAssumption DEF Tick, RestType
  <2>2. since' = since + 1 \/ since' = GrantTime + 1
    BY <2>1 DEF Capped
  <2>3. since' \in Nat /\ clip \in Seq(Int \X BOOLEAN)
    BY <2>1, <2>2 DEF ClipInOrder
  <2>4. ASSUME NEW i \in 1 .. Len(clip)
        PROVE  clip[i][1] <= Post /\ clip[i][1] < since' /\ clip[i][1] <= since'
    <3>1. clip[i][1] \in Int
      BY <2>3, ClipFrame
    <3>2. clip[i][1] <= Post /\ clip[i][1] <= since
      BY <1>3 DEF ClipInOrder
    <3> QED
      BY <2>1, <2>2, <2>3, <3>1, <3>2
  <2>5. Film(clip)
    BY <1>3 DEF ClipInOrder
  <2> QED
    BY <1>1, <2>3, <2>4, <2>5 DEF ClipInOrder
<1> QED
  BY <1>2, <1>3

-----------------------------------------------------------------------------
(* Every step.                                                              *)

\* The flags.
LEMMA FlagsKept ==
    ASSUME FlagsType, [Next]_vars
    PROVE  FlagsType'
<1>1. CASE PushClip
  BY <1>1, Zenon DEF FlagsType, PushClip, Encoded, ResetJob
<1>2. CASE PushRing
  BY <1>2, Zenon DEF FlagsType, PushRing, Encoded, ResetJob
<1>3. CASE PushOverflow
  BY <1>3, Zenon DEF FlagsType, PushOverflow, Encoded, ResetJob
<1>4. CASE PushLost
  BY <1>4, Zenon DEF FlagsType, PushLost, Encoded, ResetJob
<1>5. CASE Trigger
  BY <1>5, Zenon DEF FlagsType, Trigger, Encoded, ResetJob
<1>6. CASE Publish
  BY <1>6, Zenon DEF FlagsType, Publish, Encoded, ResetJob
<1>7. CASE Cancel
  BY <1>7, Zenon DEF FlagsType, Cancel, Encoded, ResetJob
<1>8. CASE StartSaving
  BY <1>8, Zenon DEF FlagsType, StartSaving, Encoded, ResetJob
<1>9. CASE Saved
  BY <1>9, Zenon DEF FlagsType, Saved, Encoded, ResetJob
<1>10. CASE SaveFails
  BY <1>10, Zenon DEF FlagsType, SaveFails, Encoded, ResetJob
<1>11. CASE StartUpload
  BY <1>11, Zenon DEF FlagsType, StartUpload, Encoded, ResetJob
<1>12. CASE Uploaded
  BY <1>12, Zenon DEF FlagsType, Uploaded, Encoded, ResetJob
<1>13. CASE GiveUp
  BY <1>13, Zenon DEF FlagsType, GiveUp, Encoded, ResetJob
<1>14. CASE Tick
  BY <1>14, Zenon DEF FlagsType, Tick, Encoded, ResetJob
<1>15. CASE \E e \in Events : Grant(e)
  BY <1>15, Zenon DEF FlagsType, Grant
<1>16. CASE UNCHANGED vars
  BY <1>16, Zenon DEF FlagsType
<1> QED
  BY <1>1, <1>2, <1>3, <1>4, <1>5, <1>6, <1>7, <1>8, <1>9, <1>10, <1>11, <1>12, <1>13, <1>14, <1>15, <1>16
     DEF Next, Push, Task

\* The other types.
LEMMA RestKept ==
    ASSUME RestType, RingInOrder, JobInv, [Next]_vars
    PROVE  RestType'
<1>1. CASE PushClip
  BY <1>1, AlertAssumption DEF RestType, Phases, Events, OldestAge, PushClip, Encoded, ResetJob, Capped
<1>2. CASE PushRing
  BY <1>2, AlertAssumption DEF RestType, Phases, Events, OldestAge, PushRing, Encoded, ResetJob, Capped
<1>3. CASE PushOverflow
  BY <1>3, AlertAssumption DEF RestType, Phases, Events, OldestAge, PushOverflow, Encoded, ResetJob, Capped
<1>4. CASE PushLost
  BY <1>4, AlertAssumption DEF RestType, Phases, Events, OldestAge, PushLost, Encoded, ResetJob, Capped
<1>5. CASE Trigger
  BY <1>5, AlertAssumption DEF RestType, Phases, Events, OldestAge, Trigger, Encoded, ResetJob, Capped
<1>6. CASE Publish
  <2>1. tried \in Events
    BY <1>6, AlertAssumption DEF JobInv, RestType, Events, Publish
  <2>2. /\ person' \in {"idle", "cancel"} /\ rested' \in {0, rested}
        /\ published' \in {published, published \cup {tried}}
        /\ UNCHANGED <<tried, gop, lost, steady, phase, since, event, ticket, valid, card>>
    BY <1>6 DEF Publish
  <2> QED
    BY <2>1, <2>2, AlertAssumption DEF RestType
<1>7. CASE Cancel
  BY <1>7, AlertAssumption DEF RestType, Phases, Events, OldestAge, Cancel, Encoded, ResetJob, Capped
<1>8. CASE StartSaving
  BY <1>8, AlertAssumption DEF RestType, Phases, Events, OldestAge, StartSaving, Encoded, ResetJob, Capped
<1>9. CASE Saved
  <2>1. event \in Events /\ card' = card \cup {event}
    BY <1>9 DEF JobInv, Saved
  <2> QED
    BY <1>9, <2>1 DEF RestType, Phases, Saved
<1>10. CASE SaveFails
  BY <1>10, AlertAssumption DEF RestType, Phases, Events, OldestAge, SaveFails, Encoded, ResetJob, Capped
<1>11. CASE StartUpload
  BY <1>11, AlertAssumption DEF RestType, Phases, Events, OldestAge, StartUpload, Encoded, ResetJob, Capped
<1>12. CASE Uploaded
  <2>1. card' \subseteq card
    BY <1>12, Zenon DEF Uploaded
  <2> QED
    BY <1>12, <2>1, AlertAssumption DEF RestType, Phases, Uploaded, ResetJob
<1>13. CASE GiveUp
  BY <1>13, AlertAssumption DEF RestType, Phases, Events, OldestAge, GiveUp, Encoded, ResetJob, Capped
<1>14. CASE Tick
  BY <1>14, AlertAssumption DEF RestType, Phases, Events, OldestAge, Tick, Encoded, ResetJob, Capped
<1>15. CASE \E e \in Events : Grant(e)
  BY <1>15, AlertAssumption DEF RestType, Phases, Events, Grant
<1>16. CASE UNCHANGED vars
  BY <1>16 DEF RestType
<1> QED
  BY <1>1, <1>2, <1>3, <1>4, <1>5, <1>6, <1>7, <1>8, <1>9, <1>10, <1>11, <1>12, <1>13, <1>14, <1>15, <1>16
     DEF Next, Push, Task

\* The job.
LEMMA JobKept ==
    ASSUME FlagsType, RestType, JobInv, [Next]_vars
    PROVE  JobInv'
<1>1. CASE PushClip
  <2>1. /\ phase' = "recording" /\ phase = "recording"
        /\ UNCHANGED <<granted, ticket, event, person, tried>>
    BY <1>1, Zenon DEF PushClip, Recording, Encoded
  <2> QED
    BY <2>1 DEF JobInv
<1>2. CASE PushRing
  BY <1>2 DEF JobInv, FlagsType, RestType, Events, PushRing, Encoded, ResetJob
<1>3. CASE PushOverflow
  BY <1>3 DEF JobInv, FlagsType, RestType, Events, PushOverflow, Encoded, ResetJob
<1>4. CASE PushLost
  BY <1>4 DEF JobInv, FlagsType, RestType, Events, PushLost, Encoded, ResetJob
<1>5. CASE Trigger
  <2>1. /\ phase = "idle" /\ phase' = "recording" /\ event' = tried + 1
        /\ tried' = tried + 1 /\ tried < MaxEvent
        /\ UNCHANGED <<granted, ticket>>
    BY <1>5, Zenon DEF Trigger, Ready
  <2>2. event' \in Events /\ tried' > 0
    BY <2>1, AlertAssumption DEF RestType, Events
  <2> QED
    BY <2>1, <2>2 DEF JobInv
<1>6. CASE Publish
  BY <1>6 DEF JobInv, FlagsType, RestType, Events, Publish, Encoded, ResetJob
<1>7. CASE Cancel
  BY <1>7 DEF JobInv, FlagsType, RestType, Events, Cancel, Encoded, ResetJob
<1>8. CASE StartSaving
  BY <1>8 DEF JobInv, FlagsType, RestType, Events, StartSaving, Encoded, ResetJob
<1>9. CASE Saved
  BY <1>9 DEF JobInv, FlagsType, RestType, Events, Saved, Encoded, ResetJob
<1>10. CASE SaveFails
  BY <1>10 DEF JobInv, FlagsType, RestType, Events, SaveFails, Encoded, ResetJob
<1>11. CASE StartUpload
  BY <1>11 DEF JobInv, FlagsType, RestType, Events, StartUpload, Encoded, ResetJob
<1>12. CASE Uploaded
  BY <1>12 DEF JobInv, FlagsType, RestType, Events, Uploaded, Encoded, ResetJob
<1>13. CASE GiveUp
  BY <1>13 DEF JobInv, FlagsType, RestType, Events, GiveUp, Encoded, ResetJob
<1>14. CASE Tick
  BY <1>14 DEF JobInv, FlagsType, RestType, Events, Tick, Encoded, ResetJob
<1>15. CASE \E e \in Events : Grant(e)
  BY <1>15 DEF JobInv, GrantMatches, Grant
<1>16. CASE UNCHANGED vars
  BY <1>16 DEF JobInv
<1> QED
  BY <1>1, <1>2, <1>3, <1>4, <1>5, <1>6, <1>7, <1>8, <1>9, <1>10, <1>11, <1>12, <1>13, <1>14, <1>15, <1>16
     DEF Next, Push, Task

\* A push that goes to the ring.
LEMMA RingPush ==
    ASSUME FilmInv, PushRing, RestType'
    PROVE  RingInOrder' /\ Run' /\ Idrs' /\ ClipInOrder'
<1>1. /\ RestType /\ RingInOrder /\ ClipInOrder /\ Run /\ Idrs
  BY DEF FilmInv
<1>2. /\ due /\ ~due' /\ PushToRing /\ UNCHANGED <<clip, phase, since>>
  BY Zenon DEF PushRing, Encoded
<1>3. /\ steady' = Capped(steady, OldestAge)
      /\ gop' = IF gop + 1 < Gop THEN gop + 1 ELSE 0
  BY Zenon DEF PushRing, Encoded
<1> QED
  BY <1>1, <1>2, <1>3, PushKeepsOrder, PushGoesOn, SameFilm

\* A push after which a run begins anew.
LEMMA OtherPush ==
    ASSUME FilmInv, PushClip \/ PushOverflow \/ PushLost, RestType'
    PROVE  RingInOrder' /\ Run' /\ Idrs' /\ ClipInOrder'
<1>1. /\ RestType /\ RingInOrder /\ ClipInOrder
  BY DEF FilmInv
<1>2. due /\ ~due' /\ steady' = 0
  BY Zenon DEF PushClip, PushOverflow, PushLost, Encoded
<1>3. RingInOrder' /\ Len(ring') \in Nat
  <2>1. CASE UNCHANGED ring
    BY <1>1, <1>2, <2>1, OrderKept
  <2>2. CASE PushToRing
    <3>1. RingInOrder'
      BY <1>1, <1>2, <2>2, PushKeepsOrder
    <3>2. ring' \in Seq(Nat \X BOOLEAN)
      BY <3>1 DEF RingInOrder
    <3> QED
      BY <3>1, <3>2
  <2> QED
    BY <2>1, <2>2, Zenon DEF PushClip, PushOverflow, PushLost
<1>4. ClipInOrder'
  <2>1. CASE PushClip
    BY <1>1, <2>1, ClipGoesOn
  <2>2. CASE PushOverflow
    <3>1. clip' = << >> /\ phase' = "idle"
      BY <2>2 DEF PushOverflow, ResetJob
    <3> QED
      BY <3>1, NoFilm
  <2>3. CASE PushLost
    <3>1. UNCHANGED <<clip, phase, since>>
      BY <2>3, Zenon DEF PushLost
    <3> QED
      BY <1>1, <1>2, <3>1, SameFilm
  <2> QED
    BY <2>1, <2>2, <2>3
<1> QED
  BY <1>2, <1>3, <1>4, NoRun

\* An alert empties the ring.
LEMMA RingTaken ==
    ASSUME FilmInv, Trigger, RestType'
    PROVE  RingInOrder' /\ Run' /\ Idrs' /\ ClipInOrder'
<1>1. RestType /\ RingInOrder
  BY DEF FilmInv
<1>2. ring' = << >> /\ steady' = 0
  BY DEF Trigger
<1>3. RingInOrder' /\ Len(ring') \in Nat
  BY <1>2 DEF RingInOrder
<1> QED
  BY <1>1, <1>2, <1>3, TriggerBegins, NoRun

\* The other steps of the detector and of the alert task.
Quiet == Publish \/ Cancel \/ Task \/ (\E e \in Events : Grant(e)) \/ UNCHANGED vars

\* They leave the film alone, but that its recording may end.
LEMMA QuietKeeps ==
    ASSUME FilmInv, Quiet
    PROVE  RingInOrder' /\ Run' /\ Idrs' /\ ClipInOrder'
<1>1. /\ RingInOrder /\ ClipInOrder /\ Run /\ Idrs
  BY DEF FilmInv
<1>2. UNCHANGED <<ring, due, steady, gop>>
  BY Zenon DEF Quiet, Publish, Cancel, Task, StartSaving, Saved, SaveFails, StartUpload,
     Uploaded, GiveUp, Grant
<1>3. \/ UNCHANGED <<clip, phase, since>>
      \/ UNCHANGED <<clip, since>> /\ phase = "recording" /\ phase' = "saving"
      \/ UNCHANGED <<clip, since>> /\ phase' = "uploading"
      \/ clip' = << >> /\ (phase' = "idle" \/ phase' = "wait_grant")
  BY Zenon DEF Quiet, Publish, Cancel, Task, StartSaving, Saved, SaveFails, StartUpload,
     Uploaded, GiveUp, Grant, ResetJob
<1>4. ClipInOrder'
  BY <1>1, <1>2, <1>3, SameFilm, NoFilm
<1> QED
  BY <1>1, <1>2, <1>4, SameRing

\* The time goes on.
LEMMA TickKeeps ==
    ASSUME FilmInv, Tick
    PROVE  RingInOrder' /\ Run' /\ Idrs' /\ ClipInOrder'
<1>1. /\ RestType /\ RingInOrder /\ ClipInOrder /\ Run /\ Idrs
  BY DEF FilmInv
<1>2. ~due /\ due' /\ ring' = Aged(ring) /\ UNCHANGED <<steady, gop>>
  BY Zenon DEF Tick
<1> QED
  BY <1>1, <1>2, OlderRing, OlderClip

-----------------------------------------------------------------------------
(* The invariant.                                                           *)

\* It holds of an empty ring.
LEMMA FilmStarts == Init => FilmInv
<1> SUFFICES ASSUME Init PROVE FilmInv
  OBVIOUS
<1>1. RestType
  BY AlertAssumption DEF Init, RestType, Phases, OldestAge
<1>2. FlagsType
  BY Zenon DEF Init, FlagsType
<1>3. RingInOrder /\ ClipInOrder
  BY DEF Init, RingInOrder, ClipInOrder
<1>4. Gop \in Nat \ {0} /\ gop = 0 /\ steady = 0 /\ ring = << >>
  BY AlertAssumption DEF Init
<1>5. Run
  BY <1>4 DEF Run
<1>6. ~ (Gop - 1 < 0) /\ 0 .. 0 - Gop = {}
  BY <1>4
<1>7. Idrs
  BY <1>4, <1>6 DEF Idrs
<1>8. JobInv
  BY DEF Init, JobInv
<1> QED
  BY <1>1, <1>2, <1>3, <1>5, <1>7, <1>8 DEF FilmInv

\* Every step keeps it.
LEMMA FilmKept == FilmInv /\ [Next]_vars => FilmInv'
<1> SUFFICES ASSUME FilmInv, [Next]_vars PROVE FilmInv'
  OBVIOUS
<1>1. /\ RestType /\ FlagsType /\ RingInOrder /\ JobInv
  BY DEF FilmInv
<1>2. RestType' /\ FlagsType' /\ JobInv'
  BY <1>1, RestKept, FlagsKept, JobKept
<1>3. RingInOrder' /\ Run' /\ Idrs' /\ ClipInOrder'
  <2>1. CASE PushRing
    BY <1>2, <2>1, RingPush
  <2>2. CASE PushClip \/ PushOverflow \/ PushLost
    BY <1>2, <2>2, OtherPush
  <2>3. CASE Trigger
    BY <1>2, <2>3, RingTaken
  <2>4. CASE Quiet
    BY <2>4, QuietKeeps
  <2>5. CASE Tick
    BY <2>5, TickKeeps
  <2> QED
    BY <2>1, <2>2, <2>3, <2>4, <2>5 DEF Next, Push, Quiet
<1> QED
  BY <1>2, <1>3 DEF FilmInv

\* So it holds always.
LEMMA FilmAlways == Spec => []FilmInv
<1> QED
  BY FilmStarts, FilmKept, PTL DEF Spec

-----------------------------------------------------------------------------
(* What follows.                                                            *)

\* The states of the alert clip are of their types, whatever its lengths are.
THEOREM AlertTypeCorrect == Spec => []TypeOK
<1>1. FilmInv => TypeOK
  <2> SUFFICES ASSUME FilmInv PROVE TypeOK
    OBVIOUS
  <2>1. RestType /\ FlagsType /\ ring \in Seq(Nat \X BOOLEAN) /\ clip \in Seq(Int \X BOOLEAN)
    BY DEF FilmInv, RingInOrder, ClipInOrder
  <2> QED
    BY <2>1, Zenon DEF TypeOK, RestType, FlagsType
<1> QED
  BY <1>1, FilmAlways, PTL

\* A clip that is recorded or saved begins with an IDR frame at least as old as
\* the beginning of a film must be, and its frames follow one another in time.
THEOREM ClipIsFilmCorrect == Spec => []ClipIsFilm
<1>1. FilmInv => ClipIsFilm
  BY DEF FilmInv, ClipInOrder, ClipIsFilm
<1> QED
  BY <1>1, FilmAlways, PTL

\* What is uploaded has a file and a grant of its own event, and the frames of a
\* clip that is on the card are not kept any more.
THEOREM UploadOfItsGrantCorrect == Spec => []UploadOfItsGrant
<1>1. FilmInv => UploadOfItsGrant
  BY DEF FilmInv, JobInv, UploadOfItsGrant
<1> QED
  BY <1>1, FilmAlways, PTL

\* The clip is changed by nobody while it is saved without the lock.
THEOREM SavedUnchangedCorrect == Spec => SavedUnchanged
<1>1. [Next]_vars => [phase = "saving" /\ clip' # clip => Saved \/ SaveFails]_vars
  <2> SUFFICES ASSUME Next, phase = "saving", clip' # clip PROVE Saved \/ SaveFails
    BY Zenon
  <2>1. ~Push
    BY Zenon DEF Push, PushClip, PushRing, PushOverflow, PushLost, Recording
  <2>2. ~Trigger /\ ~Publish /\ ~Cancel /\ ~Tick
    BY Zenon DEF Trigger, Ready, Publish, Cancel, Cancellable, Tick
  <2>3. ASSUME NEW e \in Events, Grant(e) PROVE FALSE
    BY <2>3, Zenon DEF Grant
  <2>4. ~StartSaving /\ ~StartUpload /\ ~Uploaded /\ ~GiveUp
    BY Zenon DEF StartSaving, StartUpload, Uploaded, GiveUp
  <2> QED
    BY <2>1, <2>2, <2>3, <2>4, Zenon DEF Next, Task
<1> QED
  BY <1>1, PTL DEF Spec, SavedUnchanged

\* When as many frames have come in a row as the ring is long, an alert finds an
\* IDR frame that is old enough: of the Gop frames from the one that is Pre ticks
\* old on, one is an IDR frame, and the ring still has all of them.
THEOREM RingReadyCorrect == Spec => []RingReady
<1>1. FilmInv => RingReady
  <2> SUFFICES ASSUME FilmInv, phase = "idle", steady = OldestAge PROVE Ready
    BY DEF RingReady
  <2>1. RingInOrder /\ Run /\ Idrs
    BY DEF FilmInv
  <2>2. /\ ring \in Seq(Nat \X BOOLEAN) /\ Len(ring) \in Nat
        /\ \A i \in 1 .. Len(ring) : ring[i][1] \in Nat
    BY <2>1, RingFrame DEF RingInOrder
  <2>3. /\ Pre \in Nat /\ Gop \in Nat \ {0} /\ steady \in Nat /\ Pre + Gop <= steady
        /\ steady <= Len(ring)
    BY <2>1, AlertAssumption, RingAssumption DEF Run, OldestAge
  <2>4. PICK j \in Pre .. Pre + Gop - 1 : ring[Len(ring) - j][2]
    <3>1. Pre \in 0 .. steady - Gop
      BY <2>3
    <3> QED
      BY <2>1, <3>1 DEF Idrs
  <2>5. /\ j \in 0 .. steady - 1 /\ j >= Pre
        /\ Len(ring) - j \in 1 .. Len(ring) /\ 1 \in 1 .. Len(ring)
    BY <2>2, <2>3
  <2>6. ring[Len(ring) - j][1] = IF due THEN j + 1 ELSE j
    BY <2>1, <2>5 DEF Run
  <2>7. ring[Len(ring) - j][1] >= Pre
    BY <2>3, <2>5, <2>6
  <2>8. Starts # {}
    BY <2>4, <2>5, <2>7 DEF Starts
  <2>9. ring[1][1] >= Pre
    <3>1. CASE Len(ring) - j = 1
      BY <2>7, <3>1
    <3>2. CASE 1 < Len(ring) - j
      <4>1. ring[1][1] > ring[Len(ring) - j][1]
        BY <2>1, <2>5, <3>2 DEF RingInOrder
      <4>2. ring[1][1] \in Nat /\ ring[Len(ring) - j][1] \in Nat
        BY <2>2, <2>5
      <4> QED
        BY <2>3, <2>7, <4>1, <4>2
    <3> QED
      BY <2>2, <2>5, <3>1, <3>2
  <2> QED
    BY <2>8, <2>9 DEF Ready
<1> QED
  BY <1>1, FilmAlways, PTL
=============================================================================
