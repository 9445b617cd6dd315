---------------------------- MODULE VoiceSession ----------------------------
(***************************************************************************)
(* What voice control promises, whatever its tasks do: the robot rests,     *)
(* has one conversation at a time, which it opens once and closes once, or  *)
(* has lent its microphone and its memory to WebRTC, which it does only     *)
(* from rest.                                                              *)
(***************************************************************************)
CONSTANT Ids  \* what a session may be called; 0 is no name

VARIABLES
    phase,    \* "rest", "opening", "open", "closing", "lent"
    session,  \* the session of the conversation
    line,     \* its audio channel is up
    sending   \* a packet of the microphone is on its way into the channel

sessionVars == <<phase, session, line, sending>>

Init ==
    /\ phase = "rest"
    /\ session = 0 /\ line = FALSE /\ sending = FALSE

WakeUp ==
    /\ phase = "rest" /\ phase' = "opening"
    /\ UNCHANGED <<session, line, sending>>

\* The session is bound once, and keeps its name until the line is closed.
Connect ==
    /\ phase = "opening" /\ phase' = "open"
    /\ session = 0 /\ session' \in Ids
    /\ ~line /\ line' = TRUE
    /\ UNCHANGED sending

\* The user is listened to while the line is open, and at no other time.
Send ==
    /\ phase = "open" /\ ~sending /\ sending' = TRUE
    /\ UNCHANGED <<phase, session, line>>

Sent ==
    /\ sending /\ sending' = FALSE
    /\ UNCHANGED <<phase, session, line>>

\* A conversation ends, or does not come about: never under a packet.
HangUp ==
    /\ phase \in {"opening", "open"} /\ phase' = "closing"
    /\ ~sending
    /\ UNCHANGED <<session, line, sending>>

Forget ==
    /\ phase = "closing"
    /\ session' = 0 /\ line' = FALSE
    /\ UNCHANGED <<phase, sending>>

Rest ==
    /\ phase = "closing" /\ phase' = "rest"
    /\ session = 0 /\ ~line
    /\ UNCHANGED <<session, line, sending>>

Lend ==
    /\ phase = "rest" /\ phase' = "lent"
    /\ UNCHANGED <<session, line, sending>>

TakeBack ==
    /\ phase = "lent" /\ phase' = "rest"
    /\ UNCHANGED <<session, line, sending>>

Next ==
    \/ WakeUp \/ Connect \/ Send \/ Sent \/ HangUp \/ Forget \/ Rest
    \/ Lend \/ TakeBack

Spec == Init /\ [][Next]_sessionVars

-----------------------------------------------------------------------------

\* At rest, and while lent, there is no session, no line and no packet.
Quiet == phase \in {"rest", "lent"} => session = 0 /\ ~line /\ ~sending

\* Why: a packet is under way only in an open conversation, and a conversation
\* to come has neither a name nor a line.
QuietInv ==
    /\ sending => phase = "open"
    /\ phase \in {"rest", "lent", "opening"} => session = 0 /\ ~line
=============================================================================
