------------------------------- MODULE AlertClip -------------------------------
(***************************************************************************)
(* The film of an alert (components/alert_clip).  The codec task of the      *)
(* video streamer pushes every encoded frame; the last eleven seconds are    *)
(* kept in a ring.  When the person detector sees somebody, the ring becomes *)
(* the beginning of a clip, the frames of the next ten seconds its rest;     *)
(* the alert task then saves the clip on the card, without the lock, waits   *)
(* for the cloud to grant an upload of this event, and uploads the file.     *)
(*                                                                         *)
(* Every use of the state is a short critical section of one mutex, a step   *)
(* here.  The clock ticks once for a frame; times of the ring are ages,      *)
(* times of the clip are relative to the alert.  A frame is <<time, idr>>;   *)
(* the limits on bytes are taken as limits on frames.                        *)
(***************************************************************************)
EXTENDS Integers, Sequences

CONSTANTS Pre, Post,  \* ALERT_PRE_US, ALERT_POST_US in frames
          RingTime,   \* ALERT_RING_US
          RingFrames, \* ALERT_RING_FRAMES
          ClipFrames, \* ALERT_CLIP_FRAMES
          Gop,        \* frames from an IDR frame to the next, a second
          GrantTime,  \* the 40 seconds an alert waits for a grant
          Validity,   \* the longest a grant is valid
          Rest,       \* the ten minutes between two alerts
          MaxEvent,   \* how many alerts are tried
          MaxLost     \* how many frames are lost

ASSUME AlertAssumption ==
    /\ Pre \in Nat /\ Post \in Nat /\ RingTime \in Nat
    /\ RingFrames \in Nat \ {0} /\ ClipFrames \in Nat
    /\ Gop \in Nat \ {0} /\ GrantTime \in Nat /\ Validity \in Nat
    /\ Rest \in Nat /\ MaxEvent \in Nat /\ MaxLost \in Nat

\* 10 s of film are awaited before the 40 s of an alert are over.
ASSUME PostAssumption == Post <= GrantTime

\* The ring's 11 s are a second, a Gop, longer than the 10 s before an alert,
\* and at the 20 frames per second of a robot with a cloud they are 220 frames,
\* which is less than its 256.
ASSUME RingAssumption == Pre + Gop <= RingTime + 1 /\ RingTime < RingFrames

VARIABLES
    due,       \* the frame of this tick is still to be pushed
    gop,       \* how many frames the encoder is past an IDR frame
    ring,      \* s_ring: frames, the oldest first
    clip,      \* s_clip
    phase,     \* s_phase
    since,     \* s_trigger_us: ticks since the alert, up to GrantTime + 1
    event,     \* s_event_id, 0 for ""
    granted,   \* s_granted
    ticket,    \* s_ticket, s_alert_id: the event they are for
    valid,     \* s_grant_deadline_us: ticks for which the grant is valid
    card,      \* the events whose film is a file on the card
    person,    \* where the person detector is
    tried,     \* how many alerts it has begun: the event it is about
    published, \* the alerts the cloud knows of
    rested,    \* ticks since the last alert was published, up to Rest
    lost,      \* how many frames were lost
    steady     \* how many frames went to the ring in a row, up to RingTime + 1

jobVars == <<phase, since, event, granted, ticket, valid>>
filmVars == <<ring, clip>>
frameVars == <<due, gop, lost, steady>>
personVars == <<person, tried, published, rested>>
vars == <<frameVars, filmVars, jobVars, personVars, card>>

Events == 1 .. MaxEvent
Phases == {"idle", "recording", "saving", "wait_grant", "uploading"}
OldestAge == RingTime + 1

TypeOK ==
    /\ due \in BOOLEAN /\ gop \in 0 .. Gop - 1
    /\ ring \in Seq(Nat \X BOOLEAN)
    /\ clip \in Seq(Int \X BOOLEAN)
    /\ phase \in Phases
    /\ since \in 0 .. GrantTime + 1
    /\ event \in Events \cup {0} /\ ticket \in Events \cup {0}
    /\ granted \in BOOLEAN /\ valid \in 0 .. Validity
    /\ card \subseteq Events
    /\ person \in {"idle", "publish", "cancel"}
    /\ tried \in 0 .. MaxEvent /\ published \subseteq Events
    /\ rested \in 0 .. Rest
    /\ lost \in 0 .. MaxLost /\ steady \in 0 .. OldestAge

Init ==
    /\ due = TRUE /\ gop = 0 /\ lost = 0 /\ steady = 0
    /\ ring = << >> /\ clip = << >>
    /\ phase = "idle" /\ since = 0 /\ event = 0
    /\ granted = FALSE /\ ticket = 0 /\ valid = 0
    /\ card = {}
    /\ person = "idle" /\ tried = 0 /\ published = {} /\ rested = Rest

\* reset_job, with clear_clip.
ResetJob ==
    /\ phase' = "idle" /\ since' = 0 /\ event' = 0
    /\ granted' = FALSE /\ ticket' = 0 /\ valid' = 0
    /\ clip' = << >>

-----------------------------------------------------------------------------
(* alert_clip_push_h264, on the codec task.                                 *)

Capped(n, limit) == IF n < limit THEN n + 1 ELSE limit

Encoded ==
    /\ due
    /\ due' = FALSE
    /\ gop' = IF gop + 1 < Gop THEN gop + 1 ELSE 0
    /\ UNCHANGED <<personVars, card>>

Frame(time) == <<time, gop = 0>>

Recording == phase = "recording" /\ since <= Post

PushClip ==
    /\ Encoded
    /\ Recording
    /\ Len(clip) < ClipFrames
    /\ clip' = Append(clip, Frame(since))
    /\ steady' = 0
    /\ UNCHANGED <<ring, jobVars, lost>>

\* Mutant: the ring is as long as the beginning of a clip.
TooOld_AtPre(frame) == frame[1] > Pre

\* drop_oldest_ring until there is room and nothing is too old.
TooOld(frame) == frame[1] > RingTime

Dropped(j) == TooOld(ring[j]) \/ Len(ring) - j + 1 >= RingFrames

PushToRing ==
    \E from \in 1 .. Len(ring) + 1 :
        /\ \A j \in 1 .. from - 1 : Dropped(j)
        /\ from <= Len(ring) => ~Dropped(from)
        /\ ring' = Append(SubSeq(ring, from, Len(ring)), Frame(0))

PushRing ==
    /\ Encoded
    /\ ~Recording
    /\ PushToRing
    /\ steady' = Capped(steady, OldestAge)
    /\ UNCHANGED <<clip, jobVars, lost>>

\* A clip that has become too long, in frames or in bytes, is given up, and the
\* frame is the first of a new ring.
PushOverflow ==
    /\ Encoded
    /\ Recording
    /\ PushToRing
    /\ ResetJob
    /\ steady' = 0
    /\ UNCHANGED lost

\* No memory, a lock that is busy, or no frame at all.
PushLost ==
    /\ Encoded
    /\ lost < MaxLost
    /\ lost' = lost + 1
    /\ steady' = 0
    /\ UNCHANGED <<filmVars, jobVars>>

Push == PushClip \/ PushRing \/ PushOverflow \/ PushLost

-----------------------------------------------------------------------------
(* The person detector.                                                     *)

\* Mutant: any frame before the ten seconds will do.
Starts_AnyFrame == {i \in 1 .. Len(ring) : ring[i][1] >= Pre}

\* Where a clip would begin: the last IDR frame before the ten seconds.
Starts == {i \in 1 .. Len(ring) : ring[i][2] /\ ring[i][1] >= Pre}

\* The frames of the ring from then on, at their times before the alert.
FilmFrom(first) ==
    [i \in 1 .. Len(ring) - first + 1 |->
        <<-ring[first + i - 1][1], ring[first + i - 1][2]>>]

Ready == phase = "idle" /\ Starts # {} /\ ring[1][1] >= Pre

\* alert_clip_trigger.
Trigger ==
    /\ person = "idle"
    /\ rested = Rest /\ tried < MaxEvent
    /\ Ready
    /\ \E first \in Starts :
         /\ \A i \in Starts : i <= first
         /\ clip' = FilmFrom(first)
    /\ ring' = << >>
    /\ tried' = tried + 1
    /\ event' = tried + 1
    /\ since' = 0 /\ phase' = "recording"
    /\ person' = "publish"
    /\ steady' = 0
    /\ UNCHANGED <<granted, ticket, valid, due, gop, lost, published, rested, card>>

\* The alert is published.  A publication that fails may have reached the cloud.
Publish ==
    /\ person = "publish"
    /\ \/ /\ person' = "idle" /\ rested' = 0
          /\ published' = published \cup {tried}
       \/ /\ person' = "cancel" /\ UNCHANGED rested
          /\ published' \in {published, published \cup {tried}}
    /\ UNCHANGED <<tried, frameVars, filmVars, jobVars, card>>

\* Mutant: an alert that was not published is cancelled at any time.
Cancellable_Always == event = tried

\* alert_clip_cancel: the clip of another event, or one that is being saved, is
\* left alone, and so is any when the lock stays busy for 20 ms.
Cancellable == phase = "recording" /\ event = tried

Cancel ==
    /\ person = "cancel"
    /\ person' = "idle"
    /\ \/ Cancellable /\ ResetJob
       \/ UNCHANGED <<clip, jobVars>>
    /\ UNCHANGED <<ring, tried, published, rested, frameVars, card>>

-----------------------------------------------------------------------------
(* alert_clip_set_grant, for the MQTT task: a grant may come late, or twice. *)

\* Mutant: a grant is for whatever is under way.
GrantMatches_AnyEvent(e) == phase \in {"recording", "saving", "wait_grant"}

GrantMatches(e) == phase \in {"recording", "saving", "wait_grant"} /\ event = e

Grant(e) ==
    /\ e \in published
    /\ GrantMatches(e)
    /\ granted' = TRUE
    /\ ticket' = e
    /\ valid' \in 1 .. Validity
    /\ UNCHANGED <<phase, since, event, frameVars, filmVars, personVars, card>>

-----------------------------------------------------------------------------
(* alert_clip_task.                                                         *)

StartSaving ==
    /\ phase = "recording" /\ since >= Post
    /\ phase' = "saving"
    /\ UNCHANGED <<since, event, granted, ticket, valid, frameVars, filmVars,
                   personVars, card>>

\* save_clip_to_tf has written and read the file, or removed it again.
Saved ==
    /\ phase = "saving"
    /\ phase' = "wait_grant"
    /\ card' = card \cup {event}
    /\ clip' = << >>
    /\ UNCHANGED <<since, event, granted, ticket, valid, frameVars, ring, personVars>>

SaveFails ==
    /\ phase = "saving"
    /\ ResetJob
    /\ UNCHANGED <<ring, frameVars, personVars, card>>

StartUpload ==
    /\ phase = "wait_grant" /\ granted /\ valid > 0
    /\ phase' = "uploading"
    /\ UNCHANGED <<since, event, granted, ticket, valid, frameVars, filmVars,
                   personVars, card>>

\* The file is kept unless the cloud has confirmed it.
Uploaded ==
    /\ phase = "uploading"
    /\ ResetJob
    /\ \/ card' = card \ {event}
       \/ UNCHANGED card
    /\ UNCHANGED <<ring, frameVars, personVars>>

\* Mutant: without a grant there is nothing to expire.
GivenUp_Granted == granted /\ valid = 0

\* The grant has expired, or has not come.
GivenUp ==
    \/ granted /\ valid = 0
    \/ ~granted /\ since > GrantTime

GiveUp ==
    /\ phase = "wait_grant"
    /\ GivenUp
    /\ ResetJob
    /\ UNCHANGED <<ring, frameVars, personVars, card>>

Task == StartSaving \/ Saved \/ SaveFails \/ StartUpload \/ Uploaded \/ GiveUp

-----------------------------------------------------------------------------
(* Time: a frame later.                                                     *)

Aged(r) == [i \in 1 .. Len(r) |-> <<r[i][1] + 1, r[i][2]>>]

Tick ==
    /\ ~due
    /\ due' = TRUE
    /\ ring' = Aged(ring)
    /\ since' = IF phase = "idle" THEN 0 ELSE Capped(since, GrantTime + 1)
    /\ valid' = IF valid > 0 THEN valid - 1 ELSE 0
    /\ rested' = Capped(rested, Rest)
    /\ UNCHANGED <<gop, lost, steady, clip, phase, event, granted, ticket,
                   person, tried, published, card>>

Next ==
    \/ Push \/ Trigger \/ Publish \/ Cancel \/ Task \/ Tick
    \/ \E e \in Events : Grant(e)

Spec == Init /\ [][Next]_vars

\* Frames come and time passes; the alert task polls every 100 ms; the card and
\* HTTP end with a result; the person detector finishes what it has begun.
FairSpec ==
    /\ Spec
    /\ WF_vars(Push) /\ WF_vars(Tick) /\ WF_vars(Task)
    /\ WF_vars(Publish \/ Cancel)

-----------------------------------------------------------------------------
(* What must hold.                                                          *)

\* A clip begins with an IDR frame at least ten seconds before the alert, and
\* its frames follow one another in time: what the encoder pushes while the
\* alert is raised, saved or reset neither precedes it nor is mixed into it.
Film(frames) ==
    /\ Len(frames) > 0
    /\ frames[1][2] /\ frames[1][1] <= -Pre
    /\ \A i \in 1 .. Len(frames) - 1 : frames[i][1] < frames[i + 1][1]

ClipIsFilm == phase \in {"recording", "saving"} => Film(clip)

\* The clip the alert task saves without the lock is changed by nobody, be it by
\* a frame, by the cancellation of its alert or by the end of another.
SavedUnchanged ==
    [][phase = "saving" /\ clip' # clip => Saved \/ SaveFails]_vars

\* What is uploaded is the film of the event the ticket was issued for, and the
\* ticket does not change while it is used.
UploadOfItsGrant ==
    /\ phase = "uploading" => granted /\ ticket = event /\ event \in card
    /\ phase \in {"wait_grant", "uploading"} => clip = << >>

\* When frames have come for eleven seconds without a loss, an alert is not
\* refused for want of history or of an IDR frame to begin with: what is dropped
\* as too old is not wanted any more.
RingReady == phase = "idle" /\ steady = OldestAge => Ready

\* The next alert is not locked out for ever: every job ends.
JobEnds == phase # "idle" ~> phase = "idle"
=============================================================================
