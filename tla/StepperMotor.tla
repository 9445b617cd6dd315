---------------------------- MODULE StepperMotor ----------------------------
(***************************************************************************)
(* The stepper motor: the driver (components/stepper_motor) and the MCP    *)
(* tools motion.move_steps / motion.rotate_by and motion.stop that use it  *)
(* (components/cloud_mqtt/cloud_mcp.c).  Four actors share the driver:     *)
(*   - the MCP task, which accepts a movement (one at a time) and creates  *)
(*     a worker task for it, and which answers motion.stop;                *)
(*   - the worker: power the H bridge, step, power it off, reply;          *)
(*   - the nFAULT interrupt, which latches the fault;                      *)
(*   - the one-shot step timer.                                            *)
(* Only the worker takes s_move_mutex, and there is one worker at a time,  *)
(* so the mutex is not modelled.  Which of the four phases is on, and the  *)
(* direction, are abstracted: the coils are off, or driven.                *)
(***************************************************************************)
EXTENDS Naturals, FiniteSets

CONSTANTS
    MaxSteps, \* steps of a movement (200 in the code)
    MaxJobs   \* movements requested, a bound of the model

ASSUME MaxStepsAssumption == MaxSteps \in Nat \ {0}
ASSUME MaxJobsAssumption == MaxJobs \in Nat \ {0}

VARIABLES
    \* cloud_mcp.c
    busy,      \* s_motion_busy
    asked,     \* movements requested so far
    job,       \* the last request accepted, 0 initially
    mcpPc,     \* the MCP task: "idle", or "give" inside stepper_motor_stop
    replies,   \* replies owed or sent: request -> "none", "owed", "sent"
    \* stepper_motor.c
    pc,        \* the worker
    left,      \* steps left to do
    initialized, enabled, moving, stopRequested, faultLatched,
    stepEvent, \* the binary semaphore s_step_event
    timerOn,   \* s_step_timer runs
    \* the hardware
    awake,     \* nSLEEP is high
    driven,    \* some H bridge input is high
    faultLow,  \* nFAULT is low
    intrOn,    \* the nFAULT interrupt is enabled
    \* ghosts, of the movement under way
    faultSeen, \* nFAULT interrupted since the bridge was powered
    late       \* phases driven since such an interrupt, or since a stop

mcpVars    == <<busy, asked, job, mcpPc, replies>>
driverVars == <<initialized, enabled, moving, stopRequested, faultLatched>>
wakeVars   == <<stepEvent, timerOn>>
pinVars    == <<awake, driven, faultLow, intrOn>>
ghostVars  == <<faultSeen, late>>

vars == <<mcpVars, pc, left, driverVars, wakeVars, pinVars, ghostVars>>

Jobs == 1..MaxJobs
WorkerPcs == {"none", "init", "enable", "settle", "confirm", "begin", "drain",
              "fault1", "stop1", "drive", "wait", "fault2", "stop2",
              "release", "disable", "idle"}

McpTypeOK ==
    /\ busy \in BOOLEAN
    /\ asked \in 0..MaxJobs
    /\ job \in 0..asked
    /\ mcpPc \in {"idle", "give"}
    /\ replies \in [Jobs -> {"none", "owed", "sent"}]

WorkerTypeOK ==
    /\ pc \in WorkerPcs
    /\ left \in 0..MaxSteps
    /\ late \in 0..MaxSteps

DriverTypeOK ==
    /\ initialized \in BOOLEAN /\ enabled \in BOOLEAN
    /\ moving \in BOOLEAN /\ stopRequested \in BOOLEAN
    /\ faultLatched \in BOOLEAN /\ faultSeen \in BOOLEAN
    /\ stepEvent \in BOOLEAN /\ timerOn \in BOOLEAN
    /\ awake \in BOOLEAN /\ driven \in BOOLEAN
    /\ faultLow \in BOOLEAN /\ intrOn \in BOOLEAN

TypeOK == McpTypeOK /\ WorkerTypeOK /\ DriverTypeOK

Init ==
    /\ busy = FALSE /\ asked = 0 /\ job = 0 /\ mcpPc = "idle"
    /\ replies = [request \in Jobs |-> "none"]
    /\ pc = "none" /\ left = 0
    /\ initialized = FALSE /\ enabled = FALSE
    /\ moving = FALSE /\ stopRequested = FALSE /\ faultLatched = FALSE
    /\ stepEvent = FALSE /\ timerOn = FALSE
    /\ awake = FALSE /\ driven = FALSE /\ faultLow = FALSE /\ intrOn = FALSE
    /\ faultSeen = FALSE /\ late = 0

-----------------------------------------------------------------------------
(* The MCP task.                                                           *)

McpUnchanged == UNCHANGED <<driverVars, timerOn, pinVars>>

\* A movement while another one is under way, or for which there is no
\* memory, is refused with an error reply.
MoveRefused ==
    /\ mcpPc = "idle"
    /\ asked < MaxJobs
    /\ asked' = asked + 1
    /\ replies' = [replies EXCEPT ![asked + 1] = "sent"]
    /\ UNCHANGED <<busy, job, mcpPc, pc, left, stepEvent, ghostVars>>
    /\ McpUnchanged

\* Claim the motor and create the worker, which will reply.
MoveAccepted(steps) ==
    /\ mcpPc = "idle"
    /\ asked < MaxJobs
    /\ ~busy
    /\ asked' = asked + 1
    /\ job' = asked + 1
    /\ busy' = TRUE
    /\ replies' = [replies EXCEPT ![asked + 1] = "owed"]
    /\ pc' = "init"
    /\ left' = steps
    /\ UNCHANGED <<mcpPc, stepEvent, ghostVars>>
    /\ McpUnchanged

\* motion.stop: stepper_motor_stop marks the movement, then wakes it.
StopMark ==
    /\ mcpPc = "idle"
    /\ stopRequested' = (stopRequested \/ moving)
    /\ mcpPc' = IF moving THEN "give" ELSE "idle"
    /\ UNCHANGED <<busy, asked, job, replies, pc, left, initialized, enabled, moving,
                   faultLatched, wakeVars, pinVars, faultSeen, late>>

StopGive ==
    /\ mcpPc = "give"
    /\ mcpPc' = "idle"
    /\ stepEvent' = TRUE
    /\ UNCHANGED <<busy, asked, job, replies, pc, left, ghostVars>>
    /\ McpUnchanged

Mcp ==
    \/ MoveRefused
    \/ \E steps \in 1..MaxSteps : MoveAccepted(steps)
    \/ StopMark \/ StopGive

-----------------------------------------------------------------------------
(* The hardware: the nFAULT line, its interrupt and the step timer.        *)

HardwareUnchanged ==
    UNCHANGED <<mcpVars, pc, left, initialized, enabled, moving,
                stopRequested, awake, driven, intrOn, late>>

\* The line falls, which interrupts; while the bridge sleeps it may fall too.
FaultFalls ==
    /\ ~faultLow
    /\ faultLow' = TRUE
    /\ IF intrOn
       THEN /\ faultLatched' = TRUE
            /\ stepEvent' = (stepEvent \/ moving)
            /\ faultSeen' = TRUE
       ELSE UNCHANGED <<faultLatched, stepEvent, faultSeen>>
    /\ UNCHANGED timerOn
    /\ HardwareUnchanged

FaultRises ==
    /\ faultLow
    /\ faultLow' = FALSE
    /\ UNCHANGED <<faultLatched, stepEvent, faultSeen, timerOn>>
    /\ HardwareUnchanged

TimerExpires ==
    /\ timerOn
    /\ timerOn' = FALSE
    /\ stepEvent' = TRUE
    /\ UNCHANGED <<faultLatched, faultLow, faultSeen>>
    /\ HardwareUnchanged

Hardware == FaultFalls \/ FaultRises \/ TimerExpires

-----------------------------------------------------------------------------
(* The worker.                                                             *)

fault_active == faultLow \/ faultLatched

disable_hardware == driven' = FALSE /\ awake' = FALSE /\ enabled' = FALSE

Goto(label) == pc' = label

OnlyWorkerMoves ==
    UNCHANGED <<mcpVars, left, driverVars, wakeVars, pinVars, ghostVars>>

\* stepper_motor_init succeeds once; when it fails the worker goes on to
\* stepper_motor_disable, which then does nothing.
WorkerInit ==
    /\ pc = "init"
    /\ \/ initialized' = TRUE /\ intrOn' = TRUE /\ Goto("enable")
       \/ ~initialized /\ UNCHANGED <<initialized, intrOn>> /\ Goto("disable")
    /\ UNCHANGED <<mcpVars, left, enabled, moving, stopRequested, faultLatched,
                   wakeVars, awake, driven, faultLow, ghostVars>>

\* stepper_motor_enable: interrupt off, inputs low, bridge awake ...
WorkerEnable ==
    /\ pc = "enable"
    /\ intrOn' = FALSE
    /\ driven' = FALSE
    /\ awake' = TRUE
    /\ Goto("settle")
    /\ UNCHANGED <<mcpVars, left, driverVars, wakeVars, faultLow, ghostVars>>

\* ... 2 ms later the latch takes the level of the line ...
WorkerSettle ==
    /\ pc = "settle"
    /\ faultLatched' = faultLow
    /\ intrOn' = TRUE
    /\ faultSeen' = FALSE
    /\ late' = 0
    /\ Goto("confirm")
    /\ UNCHANGED <<mcpVars, left, initialized, enabled, moving, stopRequested,
                   wakeVars, awake, driven, faultLow>>

\* ... and a fault that is still there powers the bridge off again.
WorkerConfirm ==
    /\ pc = "confirm"
    /\ IF fault_active
       THEN disable_hardware /\ Goto("disable")
       ELSE enabled' = TRUE /\ UNCHANGED <<awake, driven>> /\ Goto("begin")
    /\ UNCHANGED <<mcpVars, left, initialized, moving, stopRequested,
                   faultLatched, wakeVars, faultLow, intrOn, ghostVars>>

MoveBegin_ClearsFault ==
    /\ pc = "begin"
    /\ moving' = TRUE
    /\ stopRequested' = FALSE
    /\ faultLatched' = FALSE
    /\ Goto("drain")
    /\ UNCHANGED <<mcpVars, left, initialized, enabled, wakeVars, pinVars,
                   ghostVars>>

\* stepper_motor_move_steps: the latch is kept, an old stop is not.
MoveBegin ==
    /\ pc = "begin"
    /\ moving' = TRUE
    /\ stopRequested' = FALSE
    /\ Goto("drain")
    /\ UNCHANGED <<mcpVars, left, initialized, enabled, faultLatched, wakeVars,
                   pinVars, ghostVars>>

\* Top of the loop: drop the wake-ups of the step before.
DrainEvent ==
    /\ pc = "drain"
    /\ stepEvent' = FALSE
    /\ Goto("fault1")
    /\ UNCHANGED <<mcpVars, left, driverVars, timerOn, pinVars, ghostVars>>

\* A fault powers the bridge off and ends the movement.
CheckFault(at, next) ==
    /\ pc = at
    /\ IF fault_active
       THEN disable_hardware /\ Goto("release")
       ELSE UNCHANGED <<driven, awake, enabled>> /\ Goto(next)
    /\ UNCHANGED <<mcpVars, left, initialized, moving, stopRequested,
                   faultLatched, wakeVars, faultLow, intrOn, ghostVars>>

CheckStop(at, next) ==
    /\ pc = at
    /\ Goto(IF stopRequested THEN "release" ELSE next)
    /\ OnlyWorkerMoves

DrivePhase_PeriodicTimer ==
    /\ pc = "drive"
    /\ driven' = TRUE
    /\ timerOn' = ~driven
    /\ left' = left - 1
    /\ late' = IF faultSeen \/ stopRequested THEN late + 1 ELSE late
    /\ Goto("wait")
    /\ UNCHANGED <<mcpVars, driverVars, stepEvent, awake, faultLow, intrOn, faultSeen>>

\* Drive the next phase and start the timer of the step.
DrivePhase ==
    /\ pc = "drive"
    /\ driven' = TRUE
    /\ timerOn' = TRUE
    /\ left' = left - 1
    /\ late' = IF faultSeen \/ stopRequested THEN late + 1 ELSE late
    /\ Goto("wait")
    /\ UNCHANGED <<mcpVars, driverVars, stepEvent, awake, faultLow, intrOn, faultSeen>>

\* The timer cannot be started: the bridge is powered off.
DriveFails ==
    /\ pc = "drive"
    /\ disable_hardware
    /\ Goto("release")
    /\ UNCHANGED <<mcpVars, left, initialized, moving, stopRequested,
                   faultLatched, wakeVars, faultLow, intrOn, ghostVars>>

\* The timer, a stop or a fault ends the wait.
StepWaited ==
    /\ pc = "wait"
    /\ stepEvent
    /\ stepEvent' = FALSE
    /\ timerOn' = FALSE
    /\ Goto("fault2")
    /\ UNCHANGED <<mcpVars, left, driverVars, pinVars, ghostVars>>

MoveEnd_KeepsHolding ==
    /\ pc = "release"
    /\ moving' = FALSE
    /\ stopRequested' = FALSE
    /\ Goto("idle")
    /\ UNCHANGED <<mcpVars, left, initialized, enabled, faultLatched, wakeVars,
                   pinVars, ghostVars>>

\* release_move_mutex, after the loop.
MoveEnd ==
    /\ pc = "release"
    /\ moving' = FALSE
    /\ stopRequested' = FALSE
    /\ Goto("disable")
    /\ UNCHANGED <<mcpVars, left, initialized, enabled, faultLatched, wakeVars,
                   pinVars, ghostVars>>

\* stepper_motor_disable, whatever happened before.
WorkerDisable ==
    /\ pc = "disable"
    /\ IF initialized THEN disable_hardware
                      ELSE UNCHANGED <<driven, awake, enabled>>
    /\ Goto("idle")
    /\ UNCHANGED <<mcpVars, left, initialized, moving, stopRequested,
                   faultLatched, wakeVars, faultLow, intrOn, ghostVars>>

\* Give the motor back; the worker's reply is still to be sent.
WorkerIdle ==
    /\ pc = "idle"
    /\ busy' = FALSE
    /\ Goto("none")
    /\ UNCHANGED <<asked, job, mcpPc, replies, left, driverVars, wakeVars, pinVars,
                   ghostVars>>

\* A worker that gave the motor back replies, perhaps after the next worker
\* has started.
WorkerReply(request) ==
    /\ replies[request] = "owed"
    /\ request # job \/ ~busy
    /\ replies' = [replies EXCEPT ![request] = "sent"]
    /\ UNCHANGED <<busy, asked, job, mcpPc, pc, left, driverVars, wakeVars, pinVars,
                   ghostVars>>

MoreSteps == left > 0

Worker ==
    \/ WorkerInit \/ WorkerEnable \/ WorkerSettle \/ WorkerConfirm
    \/ MoveBegin \/ DrainEvent
    \/ CheckFault("fault1", "stop1") \/ CheckStop("stop1", "drive")
    \/ DrivePhase \/ DriveFails \/ StepWaited
    \/ CheckFault("fault2", "stop2")
    \/ CheckStop("stop2", IF MoreSteps THEN "drain" ELSE "release")
    \/ MoveEnd \/ WorkerDisable \/ WorkerIdle

Next ==
    \/ Mcp \/ Hardware \/ Worker
    \/ \E request \in Jobs : WorkerReply(request)

Spec == Init /\ [][Next]_vars

\* Every task and the timer go on; nothing is assumed of the MCP requests or
\* of the fault line.
FairSpec ==
    /\ Spec
    /\ WF_vars(Worker) /\ WF_vars(TimerExpires) /\ WF_vars(StopGive)
    /\ \A request \in Jobs : WF_vars(WorkerReply(request))

-----------------------------------------------------------------------------
(* Properties.                                                             *)

\* The motor is powered only on behalf of the movement under way: once the
\* motor is given back, coils are off, the bridge sleeps and no stop or event
\* of the old movement can reach the next one but through the drained event.
CoilsOffAtRest ==
    /\ ~busy => ~driven /\ ~awake /\ ~enabled
    /\ driven => awake
    /\ moving => enabled \/ pc = "release"
    /\ stopRequested => moving

\* A fault after the bridge was powered, or a stop of a movement under way,
\* lets at most one more phase through, the one being written.
AtMostOnePhaseLate == late <= 1

\* Every accepted movement is answered, whatever stops, fails or faults.
EveryRequestAnswered ==
    \A request \in Jobs : replies[request] = "owed" ~> replies[request] = "sent"

=============================================================================
