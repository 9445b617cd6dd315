------------------------ MODULE StepperMotorProofs ------------------------
(***************************************************************************)
(* Proofs that the motor is powered only by the movement under way         *)
(* (CoilsOffAtRest), and that a fault or a stop lets at most one phase     *)
(* through (AtMostOnePhaseLate), for movements of any length and any       *)
(* number of them; and type correctness.  MotorInv is the inductive        *)
(* invariant: what the worker may assume of the driver at each of its      *)
(* places.                                                                 *)
(***************************************************************************)
EXTENDS StepperMotor, TLAPS

\* The tuples of variables, and the moves of the worker.
USE DEF vars, mcpVars, driverVars, wakeVars, pinVars, ghostVars
USE DEF Goto, OnlyWorkerMoves, McpUnchanged, HardwareUnchanged

-----------------------------------------------------------------------------

\* From stepper_motor_move_steps on: the bridge is awake and enabled.
PoweredPcs == {"begin", "drain", "fault1", "stop1", "drive", "wait", "fault2",
               "stop2"}

\* The loop of a movement, with its two ways out.
MovingPcs == {"drain", "fault1", "stop1", "drive", "wait", "fault2", "stop2",
              "release"}

\* The motor is claimed as long as there is a worker, and the driver says
\* "moving" exactly while the worker is in the loop.
WorkerInv ==
    /\ busy <=> pc # "none"
    /\ moving <=> pc \in MovingPcs
    /\ stopRequested => moving

\* Before and after its worker has powered it, the bridge is off; only an
\* initialised driver, which stepper_motor_disable does not skip, powers it.
PowerInv ==
    /\ pc \in {"none", "init", "enable", "idle"} => ~awake /\ ~driven /\ ~enabled
    /\ awake \/ driven \/ enabled => initialized
    /\ pc \in {"enable", "settle", "confirm"} => initialized
    /\ pc \in {"settle", "confirm"} \cup PoweredPcs => awake
    /\ pc \in PoweredPcs => enabled
    /\ driven => awake

\* An interrupt is latched until the next movement.  A phase that was driven
\* too late is found by the checks after it: by the first one if there was a
\* fault, by the second one if there was a stop.
LateInv ==
    /\ faultSeen => faultLatched
    /\ late \in {0, 1}
    /\ pc \in {"confirm", "begin", "drain", "fault1", "stop1", "drive"} => late = 0
    /\ pc \in {"wait", "fault2"} /\ late = 1 => faultLatched \/ stopRequested
    /\ pc = "stop2" /\ late = 1 => stopRequested

MotorInv == WorkerInv /\ PowerInv /\ LateInv

\* Initially there is no worker and everything is off.
LEMMA InitMotor == Init => MotorInv
BY DEF Init, MotorInv, WorkerInv, PowerInv, LateInv, MovingPcs, PoweredPcs

\* The worker keeps the invariant, place by place.
LEMMA WorkerStepMotor == MotorInv /\ Worker => MotorInv'
<1> SUFFICES ASSUME MotorInv, Worker PROVE MotorInv'
  OBVIOUS
<1> USE DEF MotorInv, WorkerInv, PowerInv, LateInv, MovingPcs, PoweredPcs,
            disable_hardware, fault_active
<1>1. CASE WorkerInit
  BY <1>1 DEF WorkerInit
<1>2. CASE WorkerEnable
  BY <1>2 DEF WorkerEnable
<1>3. CASE WorkerSettle
  BY <1>3 DEF WorkerSettle
<1>4. CASE WorkerConfirm
  BY <1>4 DEF WorkerConfirm
<1>5. CASE MoveBegin
  BY <1>5 DEF MoveBegin
<1>6. CASE DrainEvent
  BY <1>6 DEF DrainEvent
<1>7. CASE CheckFault("fault1", "stop1")
  BY <1>7 DEF CheckFault
<1>8. CASE CheckStop("stop1", "drive")
  BY <1>8 DEF CheckStop
<1>9. CASE DrivePhase
  BY <1>9 DEF DrivePhase
<1>10. CASE DriveFails
  BY <1>10 DEF DriveFails
<1>11. CASE StepWaited
  BY <1>11 DEF StepWaited
<1>12. CASE CheckFault("fault2", "stop2")
  BY <1>12 DEF CheckFault
<1>13. CASE CheckStop("stop2", IF MoreSteps THEN "drain" ELSE "release")
  BY <1>13 DEF CheckStop
<1>14. CASE MoveEnd
  BY <1>14 DEF MoveEnd
<1>15. CASE WorkerDisable
  BY <1>15 DEF WorkerDisable
<1>16. CASE WorkerIdle
  BY <1>16 DEF WorkerIdle
<1> QED
  BY <1>1, <1>2, <1>3, <1>4, <1>5, <1>6, <1>7, <1>8, <1>9, <1>10, <1>11,
     <1>12, <1>13, <1>14, <1>15, <1>16 DEF Worker

\* So do the MCP task, which claims the motor and marks a stop, the fault
\* line with its interrupt, the timer, and a worker that replies late.
LEMMA OtherStepMotor ==
    /\ MotorInv
    /\ Mcp \/ Hardware \/ (\E request \in Jobs : WorkerReply(request)) \/ UNCHANGED vars
    => MotorInv'
<1> SUFFICES ASSUME MotorInv,
                    \/ Mcp \/ Hardware \/ UNCHANGED vars
                    \/ \E request \in Jobs : WorkerReply(request)
             PROVE  MotorInv'
  OBVIOUS
<1> USE DEF MotorInv, WorkerInv, PowerInv, LateInv, MovingPcs, PoweredPcs
<1>1. CASE MoveRefused
  BY <1>1 DEF MoveRefused
<1>2. CASE \E steps \in 1..MaxSteps : MoveAccepted(steps)
  BY <1>2 DEF MoveAccepted
<1>3. CASE StopMark
  <2>1. stopRequested' <=> stopRequested \/ moving
    BY <1>3, Zenon DEF StopMark
  <2>2. UNCHANGED <<busy, pc, initialized, enabled, moving, faultLatched, pinVars, ghostVars>>
    BY <1>3 DEF StopMark
  <2> QED
    BY <2>1, <2>2
<1>4. CASE StopGive
  BY <1>4 DEF StopGive
<1>5. CASE FaultFalls
  BY <1>5 DEF FaultFalls
<1>6. CASE FaultRises \/ TimerExpires
  BY <1>6 DEF FaultRises, TimerExpires
<1>7. CASE \E request \in Jobs : WorkerReply(request)
  BY <1>7 DEF WorkerReply
<1>8. CASE UNCHANGED vars
  BY <1>8
<1> QED
  BY <1>1, <1>2, <1>3, <1>4, <1>5, <1>6, <1>7, <1>8 DEF Mcp, Hardware

\* MotorInv holds in every state.
THEOREM MotorCorrect == Spec => []MotorInv
<1>1. MotorInv /\ [Next]_vars => MotorInv'
  BY WorkerStepMotor, OtherStepMotor DEF Next
<1> QED
  BY <1>1, InitMotor, PTL DEF Spec

\* When the motor is given back the coils are off, the bridge sleeps and no
\* stop is left over for the next movement.
THEOREM CoilsOffAtRestCorrect == Spec => []CoilsOffAtRest
<1>1. MotorInv => CoilsOffAtRest
  BY DEF MotorInv, WorkerInv, PowerInv, CoilsOffAtRest, MovingPcs, PoweredPcs
<1> QED
  BY <1>1, MotorCorrect, PTL

\* stepper_motor_move_steps drives at most one phase after a fault or a stop.
THEOREM AtMostOnePhaseLateCorrect == Spec => []AtMostOnePhaseLate
<1>1. MotorInv => AtMostOnePhaseLate
  BY DEF MotorInv, LateInv, AtMostOnePhaseLate
<1> QED
  BY <1>1, MotorCorrect, PTL

-----------------------------------------------------------------------------
(* Type correctness: that the count of steps left never underflows.        *)

\* A phase is driven only while there is a step left to do.
LeftInv ==
    pc \in {"init", "enable", "settle", "confirm", "begin", "drain", "fault1",
            "stop1", "drive"} => left > 0

TypeInv == TypeOK /\ LeftInv

\* The worker keeps the types: it counts down only from a positive number, and
\* what it does late is bounded by MotorInv.
LEMMA WorkerStepType == TypeInv /\ MotorInv' /\ Worker => TypeInv'
<1> SUFFICES ASSUME TypeInv, MotorInv', Worker PROVE TypeInv'
  OBVIOUS
<1>1. McpTypeOK'
  <2>1. UNCHANGED <<asked, job, mcpPc, replies>> /\ busy' \in {busy, FALSE}
    BY DEF Worker, WorkerInit, WorkerEnable, WorkerSettle, WorkerConfirm,
           MoveBegin, DrainEvent, CheckFault, CheckStop, DrivePhase, DriveFails,
           StepWaited, MoveEnd, WorkerDisable, WorkerIdle
  <2> QED
    BY <2>1 DEF TypeInv, TypeOK, McpTypeOK
<1>2. pc' \in WorkerPcs
  BY DEF Worker, WorkerInit, WorkerEnable, WorkerSettle, WorkerConfirm,
         MoveBegin, DrainEvent, CheckFault, CheckStop, DrivePhase, DriveFails,
         StepWaited, MoveEnd, WorkerDisable, WorkerIdle, WorkerPcs
<1>3. left' \in 0..MaxSteps /\ LeftInv'
  <2> USE DEF TypeInv, TypeOK, WorkerTypeOK, LeftInv
  <2>1. CASE DrivePhase
    BY <2>1, MaxStepsAssumption DEF DrivePhase
  <2>2. CASE CheckStop("stop2", IF MoreSteps THEN "drain" ELSE "release")
    BY <2>2 DEF CheckStop, MoreSteps
  <2>3. CASE CheckFault("fault1", "stop1") \/ CheckStop("stop1", "drive")
             \/ CheckFault("fault2", "stop2")
    BY <2>3 DEF CheckFault, CheckStop
  <2>4. CASE WorkerInit \/ WorkerEnable \/ WorkerSettle \/ WorkerConfirm
             \/ MoveBegin \/ DrainEvent
    BY <2>4 DEF WorkerInit, WorkerEnable, WorkerSettle, WorkerConfirm, MoveBegin,
                DrainEvent
  <2>5. CASE DriveFails \/ StepWaited \/ MoveEnd \/ WorkerDisable \/ WorkerIdle
    BY <2>5 DEF DriveFails, StepWaited, MoveEnd, WorkerDisable, WorkerIdle
  <2> QED
    BY <2>1, <2>2, <2>3, <2>4, <2>5 DEF Worker
<1>4. late' \in 0..MaxSteps
  BY MaxStepsAssumption DEF MotorInv, LateInv
<1>5. DriverTypeOK'
  <2> USE DEF TypeInv, TypeOK, DriverTypeOK, disable_hardware
  <2>1. CASE WorkerInit
    BY <2>1 DEF WorkerInit
  <2>2. CASE WorkerEnable
    BY <2>2 DEF WorkerEnable
  <2>3. CASE WorkerSettle
    BY <2>3 DEF WorkerSettle
  <2>4. CASE WorkerConfirm
    BY <2>4 DEF WorkerConfirm
  <2>5. CASE MoveBegin
    BY <2>5 DEF MoveBegin
  <2>6. CASE DrainEvent
    BY <2>6 DEF DrainEvent
  <2>7. CASE CheckFault("fault1", "stop1")
    BY <2>7 DEF CheckFault
  <2>8. CASE CheckStop("stop1", "drive")
    BY <2>8 DEF CheckStop
  <2>9. CASE DrivePhase
    BY <2>9 DEF DrivePhase
  <2>10. CASE DriveFails
    BY <2>10 DEF DriveFails
  <2>11. CASE StepWaited
    BY <2>11 DEF StepWaited
  <2>12. CASE CheckFault("fault2", "stop2")
    BY <2>12 DEF CheckFault
  <2>13. CASE CheckStop("stop2", IF MoreSteps THEN "drain" ELSE "release")
    BY <2>13 DEF CheckStop
  <2>14. CASE MoveEnd
    BY <2>14 DEF MoveEnd
  <2>15. CASE WorkerDisable
    BY <2>15 DEF WorkerDisable
  <2>16. CASE WorkerIdle
    BY <2>16 DEF WorkerIdle
  <2> QED
    BY <2>1, <2>2, <2>3, <2>4, <2>5, <2>6, <2>7, <2>8, <2>9, <2>10, <2>11,
       <2>12, <2>13, <2>14, <2>15, <2>16 DEF Worker
<1> QED
  BY <1>1, <1>2, <1>3, <1>4, <1>5 DEF TypeInv, TypeOK, WorkerTypeOK

\* So does everything else.
LEMMA OtherStepType ==
    /\ TypeInv
    /\ Mcp \/ Hardware \/ (\E request \in Jobs : WorkerReply(request)) \/ UNCHANGED vars
    => TypeInv'
<1> SUFFICES ASSUME TypeInv,
                    \/ Mcp \/ Hardware \/ UNCHANGED vars
                    \/ \E request \in Jobs : WorkerReply(request)
             PROVE  TypeInv'
  OBVIOUS
<1>1. CASE MoveRefused
  <2>1. McpTypeOK'
    BY <1>1, MaxJobsAssumption DEF MoveRefused, TypeInv, TypeOK, McpTypeOK, Jobs
  <2> QED
    BY <1>1, <2>1 DEF MoveRefused, TypeInv, TypeOK, WorkerTypeOK, DriverTypeOK, LeftInv
<1>2. CASE \E steps \in 1..MaxSteps : MoveAccepted(steps)
  <2>1. McpTypeOK'
    BY <1>2, MaxJobsAssumption DEF MoveAccepted, TypeInv, TypeOK, McpTypeOK, Jobs
  <2>2. WorkerTypeOK' /\ LeftInv'
    BY <1>2, MaxStepsAssumption
       DEF MoveAccepted, TypeInv, TypeOK, WorkerTypeOK, LeftInv, WorkerPcs
  <2>3. DriverTypeOK'
    BY <1>2 DEF MoveAccepted, TypeInv, TypeOK, DriverTypeOK
  <2> QED
    BY <2>1, <2>2, <2>3 DEF TypeInv, TypeOK
<1>3. CASE StopMark \/ StopGive \/ Hardware \/ UNCHANGED vars
  <2>1. UNCHANGED <<busy, asked, job, replies, pc, left, late>>
    BY <1>3 DEF StopMark, StopGive, Hardware, FaultFalls, FaultRises, TimerExpires
  <2>2. mcpPc' \in {mcpPc, "idle", "give"}
    BY <1>3 DEF StopMark, StopGive, Hardware, FaultFalls, FaultRises, TimerExpires
  <2>3. DriverTypeOK'
    <3>1. CASE StopMark
      <4>1. stopRequested' \in BOOLEAN
        BY <3>1, Zenon DEF StopMark
      <4> QED
        BY <3>1, <4>1 DEF StopMark, TypeInv, TypeOK, DriverTypeOK
    <3>2. CASE FaultFalls
      <4>1. stepEvent' = (stepEvent \/ moving) \/ stepEvent' = stepEvent
        BY <3>2 DEF FaultFalls
      <4>2. stepEvent' \in BOOLEAN
        BY <4>1, Zenon DEF TypeInv, TypeOK, DriverTypeOK
      <4> QED
        BY <3>2, <4>2 DEF FaultFalls, TypeInv, TypeOK, DriverTypeOK
    <3>3. CASE StopGive
      BY <3>3 DEF StopGive, TypeInv, TypeOK, DriverTypeOK
    <3>4. CASE FaultRises
      BY <3>4 DEF FaultRises, TypeInv, TypeOK, DriverTypeOK
    <3>5. CASE TimerExpires
      BY <3>5 DEF TimerExpires, TypeInv, TypeOK, DriverTypeOK
    <3>6. CASE UNCHANGED vars
      BY <3>6 DEF TypeInv, TypeOK, DriverTypeOK
    <3> QED
      BY <1>3, <3>1, <3>2, <3>3, <3>4, <3>5, <3>6 DEF Hardware
  <2> QED
    BY <2>1, <2>2, <2>3 DEF TypeInv, TypeOK, McpTypeOK, WorkerTypeOK, LeftInv
<1>4. CASE \E request \in Jobs : WorkerReply(request)
  <2>1. McpTypeOK'
    BY <1>4 DEF WorkerReply, TypeInv, TypeOK, McpTypeOK
  <2> QED
    BY <1>4, <2>1 DEF WorkerReply, TypeInv, TypeOK, WorkerTypeOK, DriverTypeOK, LeftInv
<1> QED
  BY <1>1, <1>2, <1>3, <1>4 DEF Mcp, Hardware

\* Every variable keeps its type; the steps left are never negative.
THEOREM TypeCorrect == Spec => []TypeOK
<1>1. Init => TypeInv
  <2>1. Init => McpTypeOK
    <3>1. Init => replies \in [Jobs -> {"none", "owed", "sent"}]
      BY DEF Init
    <3>2. Init => busy \in BOOLEAN /\ mcpPc \in {"idle", "give"}
      BY DEF Init
    <3>3. Init => asked = 0 /\ job = 0
      BY DEF Init
    <3>4. 0 \in 0..MaxJobs /\ 0 \in 0..0
      BY MaxJobsAssumption
    <3> QED
      BY <3>1, <3>2, <3>3, <3>4 DEF McpTypeOK
  <2>2. Init => WorkerTypeOK /\ LeftInv
    BY MaxStepsAssumption DEF Init, WorkerTypeOK, LeftInv, WorkerPcs
  <2>3. Init => DriverTypeOK
    BY DEF Init, DriverTypeOK
  <2> QED
    BY <2>1, <2>2, <2>3 DEF TypeInv, TypeOK
<1>2. TypeInv /\ MotorInv' /\ [Next]_vars => TypeInv'
  BY WorkerStepType, OtherStepType DEF Next
<1>3. TypeInv => TypeOK
  BY DEF TypeInv
<1> QED
  BY <1>1, <1>2, <1>3, MotorCorrect, PTL DEF Spec

=============================================================================
