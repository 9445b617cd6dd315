---------------------------- MODULE WhipControlInv ----------------------------
(***************************************************************************)
(* Why a session leaves nothing behind: what the controller holds at every *)
(* place of its loop and of stop_session.  The conjunction is inductive    *)
(* (WhipControlProofs).                                                    *)
(***************************************************************************)
EXTENDS WhipControl

\* Where the controller is between two pieces of work.
Round == {"recv", "prepare", "camera", "loop", "exit"}
BeforeEnd == {"video", "peer", "cam", "camwait", "idle"}

\* There is a controller exactly when s_task says so; without one nothing is
\* under way.
TaskInv ==
    /\ task <=> wpc # "none"
    /\ ~task => state = "idle" /\ ~pending

\* stop_session runs with nothing pending, and it is stopping until the
\* session is forgotten.
StopInv ==
    /\ wpc \in StopPcs => ~pending
    /\ state = "stopping" <=> wpc \in BeforeEnd

\* A pending session is being started as soon as its resources are taken.
StartInv ==
    /\ state = "starting" => pending
    /\ pending => state \in {"idle", "starting"}
    /\ wpc \in {"suspend", "resources", "gather", "offer"} => state = "starting"
    /\ pending /\ ~(wpc \in {"suspend", "resources"}) =>
           (prepared <=> state = "starting")

\* What is held while a session is started, runs, and is stopped.
HeldInv ==
    /\ state = "starting" /\ wpc # "suspend" => suspended
    /\ state = "starting" /\ ~(wpc \in {"suspend", "resources"}) => video
    /\ state \in {"connecting", "streaming"} =>
           peer /\ video /\ prepared /\ suspended /\ wpc \in Round
    /\ wpc \in {"gather", "offer"} => peer
    /\ peer => \/ wpc \in {"gather", "offer", "video", "peer"}
               \/ state \in {"connecting", "streaming"}
    /\ video => state # "idle" /\ ~(wpc \in BeforeEnd \ {"video"})
    /\ state = "idle" /\ wpc # "audio" /\ suspended => resumeFailed

\* One start at most is in the queue, and then nothing else is under way.
SingleStart ==
    \A i, j \in 1..Len(commands) :
        commands[i].type = "start" /\ commands[j].type = "start" => i = j

QueueInv ==
    /\ StartQueued => task /\ state = "idle" /\ ~pending /\ wpc \in Round
    /\ SingleStart

\* The id is that of a session asked for, pending, or not yet stopped.
IdInv == state = "idle" /\ ~pending /\ ~StartQueued => sid = 0

\* A stream that is not announced is not ready; without a camera task there
\* is no stream.
CameraInv ==
    /\ started <=> cam # "none"
    /\ ~(cam \in {"notify", "recheck", "run"}) => ~announced
    /\ ~(cam \in {"recheck", "run", "unready"}) => ~ready

\* The first session waits for the card before it asks for the camera.
StorageInv ==
    /\ ~storage => ~started
    /\ wpc = "camera" /\ pending /\ state = "idle" => ~started

SessionInv ==
    /\ TaskInv /\ StopInv /\ StartInv /\ HeldInv /\ QueueInv /\ IdInv
    /\ CameraInv /\ StorageInv

\* While a peer is open, a camera that is not ready has sent its stop, which
\* is for any session, or is about to, or has found the queue full.
HasPeer == wpc \in {"gather", "offer"} \/ state \in {"connecting", "streaming"}

AnyStopQueued ==
    \E i \in 1..Len(commands) :
        commands[i].type = "stop" /\ commands[i].sid = 0

BlindInv ==
    HasPeer /\ ~ready =>
        AnyStopQueued \/ cam = "post" \/ usb = "post" \/ missed

=============================================================================
