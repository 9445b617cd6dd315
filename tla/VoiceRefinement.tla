--------------------------- MODULE VoiceRefinement ---------------------------
(***************************************************************************)
(* VoiceControl implements VoiceSession: where each phase of a conversation *)
(* is found in the state of the tasks.                                     *)
(***************************************************************************)
EXTENDS VoiceControl

\* enter_wake_idle has closed the gates and not yet arrived at set_voice_state.
GoingToRest == pc \in {"idleClose", "setEnc", "setCap"} /\ target = "idle"

Phase ==
    IF rtcPc = "on" THEN "lent"
    ELSE IF state = "idle" THEN "rest"
    ELSE IF "channel" \in bits THEN "open"
    ELSE IF state = "connecting" /\ ~GoingToRest THEN "opening"
    ELSE "closing"

Session == INSTANCE VoiceSession
    WITH Ids <- SessionIds,
         phase <- Phase, session <- sid, line <- udpUp, sending <- encPc = "send"

\* One conversation at a time, opened once and closed once: a late message of a
\* finished session does not bring it back to life or rename the next one, the
\* channel opens with the session and is closed before rest, no state switch
\* overtakes a packet, and WebRTC gets the audio only from rest.
ImplementsSession == Session!Spec
=============================================================================
