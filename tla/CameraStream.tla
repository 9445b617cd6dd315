----------------------------- MODULE CameraStream -----------------------------
(***************************************************************************)
(* The camera task (main/camera_driver.c) and how the WebRTC controller     *)
(* starts and stops it (main/main.c).  The task is created by the first     *)
(* session; then every session parks it and wakes it up, through the bits  *)
(* of an event group.  The USB driver reports a disconnected camera or a   *)
(* transfer error from a task of its own.                                  *)
(*                                                                         *)
(* The readiness of the camera is kept twice: announced, so that a stream  *)
(* announces itself once, and ready, what the controller reads.  Taking it *)
(* back (camera_mark_unready) clears one and then the other; what the      *)
(* controller does with the news is in WhipControl.                        *)
(***************************************************************************)
EXTENDS Naturals, Sequences

VARIABLES
    started,   \* s_rtc_camera_started: the camera task was created and runs
    cam,       \* where the camera task is
    camRet,    \* and where it goes on after camera_mark_unready
    hasEvents, \* s_camera_events exists
    events,    \* its bits; "fault" stands for DISCONNECTED and for ERROR
    announced, \* s_camera_ready_announced
    ready,     \* s_camera_ready of the controller
    usb        \* where the callback of the USB driver is

cameraVars == <<started, cam, camRet, hasEvents, events, announced, ready, usb>>

\* Where the task is while a stream is open.
StreamOpen == {"first", "announce", "notify", "recheck", "unready", "post",
               "run", "stopping"}

CamPcs == {"none", "boot", "install", "top", "parked", "waking"} \cup StreamOpen

CameraTypeOK ==
    /\ started \in BOOLEAN
    /\ cam \in CamPcs
    /\ camRet \in {"run", "stopping"}
    /\ hasEvents \in BOOLEAN
    /\ events \subseteq {"stop", "stopped", "start", "fault"}
    /\ announced \in BOOLEAN
    /\ ready \in BOOLEAN
    /\ usb \in {"idle", "unready", "post", "set"}

CameraInit ==
    /\ started = FALSE
    /\ cam = "none" /\ camRet = "run"
    /\ hasEvents = FALSE /\ events = {}
    /\ announced = FALSE /\ ready = FALSE
    /\ usb = "idle"

-----------------------------------------------------------------------------
(* What the controller calls.                                              *)

\* rtc_camera_start, first use: an event group to announce readiness with,
\* nothing announced, and the task.
CreateCamera ==
    /\ ~started
    /\ started' = TRUE
    /\ cam' = "boot"
    /\ announced' = FALSE
    /\ ready' = FALSE
    /\ UNCHANGED <<camRet, hasEvents, events, usb>>

\* camera_driver_request_start: wake a parked task, or one that is to park.
WakeCamera ==
    /\ started /\ hasEvents
    /\ events' = IF events \cap {"stop", "stopped"} = {}
                 THEN events ELSE events \cup {"start"}
    /\ UNCHANGED <<started, cam, camRet, hasEvents, announced, ready, usb>>

\* camera_driver_request_stop, up to the wait: a request, unless the task is
\* parked already.
NeedNotStop == ~started \/ ~hasEvents \/ "stopped" \in events

RequestCameraStop ==
    /\ ~NeedNotStop
    /\ events' = events \cup {"stop"}
    /\ UNCHANGED <<started, cam, camRet, hasEvents, announced, ready, usb>>

-----------------------------------------------------------------------------
(* The camera task.                                                        *)

CamGoto(place) ==
    /\ cam' = place
    /\ UNCHANGED <<started, camRet, hasEvents, announced, ready, usb>>

\* camera_driver_run has returned: camera_task allows another to be created.
CamEnds ==
    /\ cam' = "none"
    /\ started' = FALSE
    /\ UNCHANGED <<camRet, announced, ready, usb>>

\* A new event group, then the frame pool and the handoff task, or not.
CamBoot ==
    /\ cam = "boot"
    /\ hasEvents' = TRUE
    /\ events' = {}
    /\ \/ cam' = "install" /\ UNCHANGED <<started, camRet, announced, ready, usb>>
       \/ CamEnds

\* Without a USB stack the event group is deleted.
CamInstall ==
    /\ cam = "install"
    /\ \/ CamGoto("top") /\ UNCHANGED events
       \/ CamEnds /\ hasEvents' = FALSE /\ events' = {}

\* camera_wait_for_start_request, up to the wait.
Park == CamGoto("parked") /\ events' = events \cup {"stopped"}

\* A stop request is looked at first; then the formats are waited for, three
\* seconds at a time, the events of the last stream forgotten and the stream
\* opened.
CamTop ==
    /\ cam = "top"
    /\ IF "stop" \in events
       THEN Park
       ELSE CamGoto("first") /\ events' = events \ {"fault"}

CamWoken ==
    /\ cam = "parked"
    /\ "start" \in events
    /\ CamGoto("waking")
    /\ UNCHANGED events

\* The wait is over; only now are the three bits cleared.
CamClearBits ==
    /\ cam = "waking"
    /\ CamGoto("top")
    /\ events' = events \ {"stop", "stopped", "start"}

\* camera_mark_unready, first half, on the camera task.
CamUnannounce(next) ==
    /\ announced' = FALSE
    /\ cam' = "unready"
    /\ camRet' = next
    /\ UNCHANGED <<started, hasEvents, events, ready, usb>>

\* camera_start and camera_wait_first_frame: a frame, unless the USB driver has
\* reported something, or none in time.
CamFirst ==
    /\ cam = "first"
    /\ \/ "fault" \notin events /\ CamGoto("announce") /\ UNCHANGED events
       \/ CamUnannounce("stopping")

CamAnnounce ==
    /\ cam = "announce"
    /\ announced' = TRUE
    /\ cam' = IF announced THEN "run" ELSE "notify"
    /\ UNCHANGED <<started, camRet, hasEvents, events, ready, usb>>

\* webrtc_whip_notify_camera_ready.
CamNotify ==
    /\ cam = "notify"
    /\ ready' = TRUE
    /\ cam' = "recheck"
    /\ UNCHANGED <<started, camRet, hasEvents, events, announced, usb>>

CamReturn == cam' = camRet /\ camRet' = "run"

\* The USB driver may have taken the readiness back while it was announced.
CamRecheck ==
    /\ cam = "recheck"
    /\ IF ~announced \/ "fault" \in events
       THEN CamUnannounce("run")
       ELSE CamGoto("run") /\ UNCHANGED events

CamRun_KeepsReady == cam = "run" /\ CamGoto("stopping") /\ UNCHANGED events

\* The wait of the streaming loop ends with an event, or with the second
\* report in a row without a frame.
CamRun == cam = "run" /\ CamUnannounce("stopping")

\* The stream is stopped, drained and closed, which succeeds only when no
\* callback is under way; a failure ends the task.
CamStopStream ==
    /\ cam = "stopping"
    /\ \/ CamEnds /\ UNCHANGED <<hasEvents, events>>
       \/ /\ usb = "idle"
          /\ IF "stop" \in events THEN Park ELSE CamGoto("top") /\ UNCHANGED events

CameraSteps ==
    \/ CamBoot \/ CamInstall \/ CamTop \/ CamWoken \/ CamClearBits
    \/ CamFirst \/ CamAnnounce \/ CamNotify \/ CamRecheck
    \/ CamRun \/ CamStopStream

-----------------------------------------------------------------------------
(* camera_stream_event_cb, on the task of the USB driver.                  *)

UsbUnannounce ==
    /\ usb = "idle"
    /\ cam \in StreamOpen
    /\ announced' = FALSE
    /\ usb' = "unready"
    /\ UNCHANGED <<started, cam, camRet, hasEvents, events, ready>>

UsbSetBit ==
    /\ usb = "set"
    /\ events' = IF hasEvents THEN events \cup {"fault"} ELSE events
    /\ usb' = "idle"
    /\ UNCHANGED <<started, cam, camRet, hasEvents, announced, ready>>

\* The stream that announces itself is the stream that is open: between two
\* streams nothing is announced, however the callbacks of the old one and the
\* announcement crossed (camera_driver.c:1254).
ReadyOfThisStream ==
    cam \notin StreamOpen \/ cam \in {"first", "announce"} =>
        ~announced /\ ~ready

=============================================================================
