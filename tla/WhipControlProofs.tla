--------------------------- MODULE WhipControlProofs ---------------------------
(***************************************************************************)
(* A preview leaves nothing behind, for any number of session ids: the     *)
(* invariant of WhipControlInv is inductive.  Every lemma about a group of *)
(* actions has a step per action, and under it the four parts of the types *)
(* and the invariant.                                                      *)
(***************************************************************************)
EXTENDS WhipControlInv, TLAPS

USE DEF cameraVars, sharedVars, controlVars, localVars, mediaVars, vars
USE DEF Goto, Return, OthersUnchanged, StopUnchanged, WhipUnchanged

-----------------------------------------------------------------------------
(* The queue.                                                              *)

\* The queue is reset.
LEMMA NoCommand ==
    ASSUME commands' = <<>>
    PROVE  ~StartQueued' /\ SingleStart' /\ commands' \in Seq(Commands)
  BY DEF StartQueued, SingleStart

\* A stop joins the queue or is dropped.
LEMMA SendStop ==
    ASSUME QueueTypeOK,
           NEW command \in Commands, command.type = "stop", Send(command)
    PROVE  /\ commands' \in Seq(Commands) /\ Len(commands') <= QueueLen
           /\ StartQueued' => StartQueued
           /\ StartQueued => StartQueued'
           /\ SingleStart => SingleStart'
  <1>1. CASE Len(commands) < QueueLen
    <2>1. commands' = Append(commands, command)
      BY <1>1 DEF Send
    <2>2. /\ commands' \in Seq(Commands) /\ Len(commands') = Len(commands) + 1
          /\ \A i \in 1..Len(commands) : commands'[i] = commands[i]
          /\ commands'[Len(commands) + 1] = command
      BY <2>1 DEF QueueTypeOK
    <2> QED BY <1>1, <2>2 DEF StartQueued, SingleStart, QueueLen
  <1>2. CASE ~(Len(commands) < QueueLen)
    <2>1. commands' = commands
      BY <1>2 DEF Send
    <2> QED BY <2>1 DEF StartQueued, SingleStart, QueueTypeOK
  <1> QED BY <1>1, <1>2

\* A start joins a queue that holds none.
LEMMA SendStart ==
    ASSUME commands \in Seq(Commands), Len(commands) < QueueLen,
           NEW command \in Commands, command.type = "start", Send(command),
           ~StartQueued
    PROVE  /\ commands' \in Seq(Commands) /\ Len(commands') <= QueueLen
           /\ SingleStart'
  <1>1. commands' = Append(commands, command)
    BY DEF Send
  <1>2. /\ commands' \in Seq(Commands) /\ Len(commands') = Len(commands) + 1
        /\ \A i \in 1..Len(commands) : commands'[i] = commands[i]
        /\ commands'[Len(commands) + 1] = command
    BY <1>1
  <1> QED BY <1>2 DEF StartQueued, SingleStart, QueueLen

\* The first command is taken: if it was the start, none is left.
LEMMA TakeFirst ==
    ASSUME commands \in Seq(Commands), Len(commands) <= QueueLen,
           commands # <<>>, commands' = Tail(commands)
    PROVE  /\ commands' \in Seq(Commands) /\ Len(commands') <= QueueLen
           /\ Head(commands) \in Commands
           /\ StartQueued' => StartQueued
           /\ SingleStart => SingleStart'
           /\ Head(commands).type = "start" => StartQueued
           /\ Head(commands).type = "start" /\ SingleStart => ~StartQueued'
           /\ Head(commands).type = "stop" /\ StartQueued => StartQueued'
  <1>1. /\ commands' \in Seq(Commands) /\ Len(commands') = Len(commands) - 1
        /\ Len(commands) \in Nat \ {0}
        /\ \A i \in 1..Len(commands') : commands'[i] = commands[i + 1]
        /\ Head(commands) = commands[1] /\ commands[1] \in Commands
    OBVIOUS
  <1>2. StartQueued' => StartQueued
    BY <1>1 DEF StartQueued
  <1>3. SingleStart => SingleStart'
    <2> SUFFICES ASSUME SingleStart,
                        NEW i \in 1..Len(commands'),
                        NEW j \in 1..Len(commands'),
                        commands'[i].type = "start",
                        commands'[j].type = "start"
                 PROVE  i = j
      BY DEF SingleStart
    <2>1. i + 1 \in 1..Len(commands) /\ j + 1 \in 1..Len(commands)
      BY <1>1
    <2> QED BY <1>1, <2>1 DEF SingleStart
  <1>4. Head(commands).type = "start" => StartQueued
    BY <1>1 DEF StartQueued
  <1>5. Head(commands).type = "start" /\ SingleStart => ~StartQueued'
    <2> SUFFICES ASSUME commands[1].type = "start", SingleStart,
                        NEW i \in 1..Len(commands'),
                        commands'[i].type = "start"
                 PROVE  FALSE
      BY <1>1 DEF StartQueued
    <2>1. i + 1 \in 1..Len(commands) /\ 1 \in 1..Len(commands)
      BY <1>1
    <2> QED BY <1>1, <2>1 DEF SingleStart
  <1>6. Head(commands).type = "stop" /\ StartQueued => StartQueued'
    <2> SUFFICES ASSUME commands[1].type = "stop",
                        NEW i \in 1..Len(commands), commands[i].type = "start"
                 PROVE  StartQueued'
      BY <1>1 DEF StartQueued
    <2>1. i - 1 \in 1..Len(commands') /\ commands'[i - 1] = commands[i]
      BY <1>1
    <2> QED BY <2>1 DEF StartQueued
  <1> QED BY <1>1, <1>2, <1>3, <1>4, <1>5, <1>6 DEF QueueLen

\* A step that does not touch the queue.
LEMMA QueueKept ==
    ASSUME UNCHANGED commands
    PROVE  /\ StartQueued' <=> StartQueued
           /\ SingleStart' <=> SingleStart
  BY DEF StartQueued, SingleStart

-----------------------------------------------------------------------------
(* The controller.                                                         *)

USE DEF StopPcs, WhipPcs, Round, BeforeEnd
USE DEF SessionInv, TaskInv, StopInv, StartInv, HeldInv, QueueInv, IdInv,
        CameraInv, StorageInv

\* stop_session, from any of its callers.
LEMMA StopSessionPreserves ==
    ASSUME TypeOK, SessionInv, StopSession
    PROVE  TypeOK' /\ SessionInv'
  <1>1. CASE StopVideo
    <2>1. QueueTypeOK' /\ SessionTypeOK'
      BY <1>1, WhipAssumption
      DEF StopVideo, TypeOK, QueueTypeOK, SessionTypeOK, Nobody
    <2>2. CameraTypeOK' /\ PlaceTypeOK'
      BY <1>1
      DEF StopVideo, TypeOK, CameraTypeOK, PlaceTypeOK, WhipStates
    <2>3. FlagTypeOK'
      BY <1>1
      DEF StopVideo, TypeOK, FlagTypeOK
    <2>4. SessionInv'
      BY <1>1, QueueKept
      DEF StopVideo, TypeOK, FlagTypeOK, PlaceTypeOK, WhipStates
    <2> QED BY <2>1, <2>2, <2>3, <2>4 DEF TypeOK
  <1>2. CASE StopPeer
    <2>1. QueueTypeOK' /\ SessionTypeOK'
      BY <1>2, WhipAssumption
      DEF StopPeer, TypeOK, QueueTypeOK, SessionTypeOK, Nobody
    <2>2. CameraTypeOK' /\ PlaceTypeOK'
      BY <1>2
      DEF StopPeer, TypeOK, CameraTypeOK, PlaceTypeOK, WhipStates
    <2>3. FlagTypeOK'
      BY <1>2
      DEF StopPeer, TypeOK, FlagTypeOK
    <2>4. SessionInv'
      BY <1>2, QueueKept
      DEF StopPeer, TypeOK, FlagTypeOK, PlaceTypeOK, WhipStates
    <2> QED BY <2>1, <2>2, <2>3, <2>4 DEF TypeOK
  <1>3. CASE StopCamera
    <2>1. QueueTypeOK' /\ SessionTypeOK'
      BY <1>3, WhipAssumption
      DEF StopCamera, NeedNotStop, RequestCameraStop, TypeOK, QueueTypeOK,
          SessionTypeOK, Nobody
    <2>2. CameraTypeOK' /\ PlaceTypeOK'
      BY <1>3
      DEF StopCamera, NeedNotStop, RequestCameraStop, TypeOK, CameraTypeOK,
          PlaceTypeOK, WhipStates
    <2>3. FlagTypeOK'
      BY <1>3
      DEF StopCamera, NeedNotStop, RequestCameraStop, TypeOK, FlagTypeOK
    <2>4. SessionInv'
      BY <1>3, QueueKept
      DEF StopCamera, NeedNotStop, RequestCameraStop, TypeOK, FlagTypeOK,
          PlaceTypeOK, WhipStates
    <2> QED BY <2>1, <2>2, <2>3, <2>4 DEF TypeOK
  <1>4. CASE StopCameraWait
    <2>1. QueueTypeOK' /\ SessionTypeOK'
      BY <1>4, WhipAssumption
      DEF StopCameraWait, TypeOK, QueueTypeOK, SessionTypeOK, Nobody
    <2>2. CameraTypeOK' /\ PlaceTypeOK'
      BY <1>4
      DEF StopCameraWait, TypeOK, CameraTypeOK, PlaceTypeOK, WhipStates
    <2>3. FlagTypeOK'
      BY <1>4
      DEF StopCameraWait, TypeOK, FlagTypeOK
    <2>4. SessionInv'
      BY <1>4, QueueKept
      DEF StopCameraWait, TypeOK, FlagTypeOK, PlaceTypeOK, WhipStates
    <2> QED BY <2>1, <2>2, <2>3, <2>4 DEF TypeOK
  <1>5. CASE StopIdle
    <2>1. QueueTypeOK' /\ SessionTypeOK'
      BY <1>5, WhipAssumption
      DEF StopIdle, TypeOK, QueueTypeOK, SessionTypeOK, Nobody
    <2>2. CameraTypeOK' /\ PlaceTypeOK'
      BY <1>5
      DEF StopIdle, TypeOK, CameraTypeOK, PlaceTypeOK, WhipStates
    <2>3. FlagTypeOK'
      BY <1>5
      DEF StopIdle, TypeOK, FlagTypeOK
    <2>4. SessionInv'
      BY <1>5, QueueKept
      DEF StopIdle, TypeOK, FlagTypeOK, PlaceTypeOK, WhipStates
    <2> QED BY <2>1, <2>2, <2>3, <2>4 DEF TypeOK
  <1>6. CASE StopAudio
    <2>1. QueueTypeOK' /\ SessionTypeOK'
      BY <1>6, WhipAssumption
      DEF StopAudio, TypeOK, QueueTypeOK, SessionTypeOK, Nobody
    <2>2. CameraTypeOK' /\ PlaceTypeOK'
      BY <1>6
      DEF StopAudio, TypeOK, CameraTypeOK, PlaceTypeOK, WhipStates
    <2>3. FlagTypeOK'
      BY <1>6
      DEF StopAudio, TypeOK, FlagTypeOK
    <2>4. SessionInv'
      BY <1>6, QueueKept
      DEF StopAudio, TypeOK, FlagTypeOK, PlaceTypeOK, WhipStates
    <2> QED BY <2>1, <2>2, <2>3, <2>4 DEF TypeOK
  <1> QED
    BY <1>1, <1>2, <1>3, <1>4, <1>5, <1>6
    DEF StopSession

\* The queue is read.
LEMMA ReceivePreserves ==
    ASSUME TypeOK, SessionInv, ReceiveNothing \/ ReceiveStop \/ ReceiveStart
    PROVE  TypeOK' /\ SessionInv'
  <1>1. CASE ReceiveNothing
    <2>1. QueueTypeOK' /\ SessionTypeOK'
      BY <1>1, WhipAssumption
      DEF ReceiveNothing, TypeOK, QueueTypeOK, SessionTypeOK, Nobody
    <2>2. CameraTypeOK' /\ PlaceTypeOK'
      BY <1>1
      DEF ReceiveNothing, TypeOK, CameraTypeOK, PlaceTypeOK, WhipStates
    <2>3. FlagTypeOK'
      BY <1>1
      DEF ReceiveNothing, TypeOK, FlagTypeOK
    <2>4. SessionInv'
      BY <1>1, QueueKept
      DEF ReceiveNothing, TypeOK, FlagTypeOK, PlaceTypeOK, WhipStates
    <2> QED BY <2>1, <2>2, <2>3, <2>4 DEF TypeOK
  <1>2. CASE ReceiveStop
    <2> DEFINE matches == Matches(Head(commands))
    <2>1. /\ QueueTypeOK'
          /\ StartQueued' <=> StartQueued
          /\ SingleStart => SingleStart'
      BY <1>2, TakeFirst DEF ReceiveStop, TypeOK, QueueTypeOK
    <2>2. /\ wpc = "recv" /\ UNCHANGED <<task, mediaVars>> /\ OthersUnchanged
          /\ \/ /\ ~matches /\ Goto("prepare")
                /\ UNCHANGED <<state, sid, localVars>>
             \/ /\ pending /\ GiveUp("prepare")
                /\ sid' = 0 /\ prepared' = FALSE /\ asked' = FALSE
             \/ /\ ~pending /\ CallStop("prepare")
                /\ UNCHANGED <<sid, localVars>>
      BY <1>2 DEF ReceiveStop, GiveUp
    <2> HIDE DEF matches
    <2>3. SessionTypeOK'
      BY <2>2, WhipAssumption DEF GiveUp, TypeOK, SessionTypeOK, Nobody
    <2>4. CameraTypeOK' /\ PlaceTypeOK'
      BY <2>2
      DEF GiveUp, CallStop, TypeOK, CameraTypeOK, PlaceTypeOK, WhipStates
    <2>5. FlagTypeOK'
      BY <2>2 DEF GiveUp, TypeOK, FlagTypeOK
    <2>6. SessionInv'
      BY <2>1, <2>2
      DEF GiveUp, CallStop, TypeOK, FlagTypeOK, PlaceTypeOK, WhipStates
    <2> QED BY <2>1, <2>3, <2>4, <2>5, <2>6 DEF TypeOK
  <1>3. CASE ReceiveStart
    <2>1. /\ QueueTypeOK' /\ Head(commands) \in Commands
          /\ StartQueued /\ (SingleStart => SingleStart' /\ ~StartQueued')
      BY <1>3, TakeFirst DEF ReceiveStart, TypeOK, QueueTypeOK
    <2>2. Head(commands).sid \in Sessions
      BY <1>3, <2>1 DEF ReceiveStart, Commands
    <2>3. SessionTypeOK'
      BY <1>3, <2>2, WhipAssumption
      DEF ReceiveStart, TypeOK, SessionTypeOK, Sessions, Nobody
    <2>4. CameraTypeOK' /\ PlaceTypeOK'
      BY <1>3
      DEF ReceiveStart, TypeOK, CameraTypeOK, PlaceTypeOK, WhipStates
    <2>5. FlagTypeOK'
      BY <1>3 DEF ReceiveStart, TypeOK, FlagTypeOK
    <2>6. SessionInv'
      BY <1>3, <2>1
      DEF ReceiveStart, TypeOK, FlagTypeOK, PlaceTypeOK, WhipStates
    <2> QED BY <2>1, <2>3, <2>4, <2>5, <2>6 DEF TypeOK
  <1> QED
    BY <1>1, <1>2, <1>3

\* The resources are taken.
LEMMA PreparePreserves ==
    ASSUME TypeOK, SessionInv, \/ Prepare \/ PrepareSuspend
                                  \/ PrepareResources \/ PrepareFails
    PROVE  TypeOK' /\ SessionInv'
  <1>1. CASE Prepare
    <2>1. QueueTypeOK' /\ SessionTypeOK'
      BY <1>1, WhipAssumption
      DEF Prepare, TypeOK, QueueTypeOK, SessionTypeOK, Nobody
    <2>2. CameraTypeOK' /\ PlaceTypeOK'
      BY <1>1
      DEF Prepare, TypeOK, CameraTypeOK, PlaceTypeOK, WhipStates
    <2>3. FlagTypeOK'
      BY <1>1
      DEF Prepare, TypeOK, FlagTypeOK
    <2>4. SessionInv'
      BY <1>1, QueueKept
      DEF Prepare, TypeOK, FlagTypeOK, PlaceTypeOK, WhipStates
    <2> QED BY <2>1, <2>2, <2>3, <2>4 DEF TypeOK
  <1>2. CASE PrepareSuspend
    <2>1. QueueTypeOK' /\ SessionTypeOK'
      BY <1>2, WhipAssumption
      DEF PrepareSuspend, TypeOK, QueueTypeOK, SessionTypeOK, Nobody
    <2>2. CameraTypeOK' /\ PlaceTypeOK'
      BY <1>2
      DEF PrepareSuspend, TypeOK, CameraTypeOK, PlaceTypeOK, WhipStates
    <2>3. FlagTypeOK'
      BY <1>2
      DEF PrepareSuspend, TypeOK, FlagTypeOK
    <2>4. SessionInv'
      BY <1>2, QueueKept
      DEF PrepareSuspend, TypeOK, FlagTypeOK, PlaceTypeOK, WhipStates
    <2> QED BY <2>1, <2>2, <2>3, <2>4 DEF TypeOK
  <1>3. CASE PrepareResources
    <2>1. QueueTypeOK' /\ SessionTypeOK'
      BY <1>3, WhipAssumption
      DEF PrepareResources, TypeOK, QueueTypeOK, SessionTypeOK, Nobody
    <2>2. CameraTypeOK' /\ PlaceTypeOK'
      BY <1>3
      DEF PrepareResources, TypeOK, CameraTypeOK, PlaceTypeOK, WhipStates
    <2>3. FlagTypeOK'
      BY <1>3
      DEF PrepareResources, TypeOK, FlagTypeOK
    <2>4. SessionInv'
      BY <1>3, QueueKept
      DEF PrepareResources, TypeOK, FlagTypeOK, PlaceTypeOK, WhipStates
    <2> QED BY <2>1, <2>2, <2>3, <2>4 DEF TypeOK
  <1>4. CASE PrepareFails
    <2>1. QueueTypeOK' /\ SessionTypeOK'
      BY <1>4, WhipAssumption
      DEF PrepareFails, GiveUp, CallStop, TypeOK, QueueTypeOK, SessionTypeOK,
          Nobody
    <2>2. CameraTypeOK' /\ PlaceTypeOK'
      BY <1>4
      DEF PrepareFails, GiveUp, CallStop, TypeOK, CameraTypeOK, PlaceTypeOK,
          WhipStates
    <2>3. FlagTypeOK'
      BY <1>4
      DEF PrepareFails, GiveUp, CallStop, TypeOK, FlagTypeOK
    <2>4. SessionInv'
      BY <1>4, QueueKept
      DEF PrepareFails, GiveUp, CallStop, TypeOK, FlagTypeOK, PlaceTypeOK,
          WhipStates
    <2> QED BY <2>1, <2>2, <2>3, <2>4 DEF TypeOK
  <1> QED
    BY <1>1, <1>2, <1>3, <1>4

\* The camera is asked for and waited for.
LEMMA CameraStagePreserves ==
    ASSUME TypeOK, SessionInv, \/ NothingToStart \/ CameraAsk
                                  \/ CameraRefused \/ CameraNotYet
                                  \/ CameraTimeout
    PROVE  TypeOK' /\ SessionInv'
  <1>1. CASE NothingToStart
    <2>1. QueueTypeOK' /\ SessionTypeOK'
      BY <1>1, WhipAssumption
      DEF NothingToStart, TypeOK, QueueTypeOK, SessionTypeOK, Nobody
    <2>2. CameraTypeOK' /\ PlaceTypeOK'
      BY <1>1
      DEF NothingToStart, TypeOK, CameraTypeOK, PlaceTypeOK, WhipStates
    <2>3. FlagTypeOK'
      BY <1>1
      DEF NothingToStart, TypeOK, FlagTypeOK
    <2>4. SessionInv'
      BY <1>1, QueueKept
      DEF NothingToStart, TypeOK, FlagTypeOK, PlaceTypeOK, WhipStates
    <2> QED BY <2>1, <2>2, <2>3, <2>4 DEF TypeOK
  <1>2. CASE CameraAsk
    <2>1. QueueTypeOK' /\ SessionTypeOK'
      BY <1>2, WhipAssumption
      DEF CameraAsk, NeedsCamera, CreateCamera, WakeCamera, CamPcs, TypeOK,
          QueueTypeOK, SessionTypeOK, Nobody
    <2>2. CameraTypeOK' /\ PlaceTypeOK'
      BY <1>2
      DEF CameraAsk, NeedsCamera, CreateCamera, WakeCamera, CamPcs, TypeOK,
          CameraTypeOK, PlaceTypeOK, WhipStates
    <2>3. FlagTypeOK'
      BY <1>2
      DEF CameraAsk, NeedsCamera, CreateCamera, WakeCamera, CamPcs, TypeOK,
          FlagTypeOK
    <2>4. SessionInv'
      BY <1>2, QueueKept
      DEF CameraAsk, NeedsCamera, CreateCamera, WakeCamera, CamPcs, TypeOK,
          FlagTypeOK, PlaceTypeOK, WhipStates
    <2> QED BY <2>1, <2>2, <2>3, <2>4 DEF TypeOK
  <1>3. CASE CameraRefused
    <2>1. QueueTypeOK' /\ SessionTypeOK'
      BY <1>3, WhipAssumption
      DEF CameraRefused, NeedsCamera, GiveUp, CallStop, TypeOK, QueueTypeOK,
          SessionTypeOK, Nobody
    <2>2. CameraTypeOK' /\ PlaceTypeOK'
      BY <1>3
      DEF CameraRefused, NeedsCamera, GiveUp, CallStop, TypeOK, CameraTypeOK,
          PlaceTypeOK, WhipStates
    <2>3. FlagTypeOK'
      BY <1>3
      DEF CameraRefused, NeedsCamera, GiveUp, CallStop, TypeOK, FlagTypeOK
    <2>4. SessionInv'
      BY <1>3, QueueKept
      DEF CameraRefused, NeedsCamera, GiveUp, CallStop, TypeOK, FlagTypeOK,
          PlaceTypeOK, WhipStates
    <2> QED BY <2>1, <2>2, <2>3, <2>4 DEF TypeOK
  <1>4. CASE CameraNotYet
    <2>1. QueueTypeOK' /\ SessionTypeOK'
      BY <1>4, WhipAssumption
      DEF CameraNotYet, TypeOK, QueueTypeOK, SessionTypeOK, Nobody
    <2>2. CameraTypeOK' /\ PlaceTypeOK'
      BY <1>4
      DEF CameraNotYet, TypeOK, CameraTypeOK, PlaceTypeOK, WhipStates
    <2>3. FlagTypeOK'
      BY <1>4
      DEF CameraNotYet, TypeOK, FlagTypeOK
    <2>4. SessionInv'
      BY <1>4, QueueKept
      DEF CameraNotYet, TypeOK, FlagTypeOK, PlaceTypeOK, WhipStates
    <2> QED BY <2>1, <2>2, <2>3, <2>4 DEF TypeOK
  <1>5. CASE CameraTimeout
    <2>1. QueueTypeOK' /\ SessionTypeOK'
      BY <1>5, WhipAssumption
      DEF CameraTimeout, NeedsCamera, GiveUp, CallStop, TypeOK, QueueTypeOK,
          SessionTypeOK, Nobody
    <2>2. CameraTypeOK' /\ PlaceTypeOK'
      BY <1>5
      DEF CameraTimeout, NeedsCamera, GiveUp, CallStop, TypeOK, CameraTypeOK,
          PlaceTypeOK, WhipStates
    <2>3. FlagTypeOK'
      BY <1>5
      DEF CameraTimeout, NeedsCamera, GiveUp, CallStop, TypeOK, FlagTypeOK
    <2>4. SessionInv'
      BY <1>5, QueueKept
      DEF CameraTimeout, NeedsCamera, GiveUp, CallStop, TypeOK, FlagTypeOK,
          PlaceTypeOK, WhipStates
    <2> QED BY <2>1, <2>2, <2>3, <2>4 DEF TypeOK
  <1> QED
    BY <1>1, <1>2, <1>3, <1>4, <1>5

\* The session is started.
LEMMA StartPreserves ==
    ASSUME TypeOK, SessionInv, \/ StartPeer \/ StartFails \/ Gathered
                                  \/ GatherEnds \/ OfferAnswered \/ OfferFails
    PROVE  TypeOK' /\ SessionInv'
  <1>1. CASE StartPeer
    <2>1. QueueTypeOK' /\ SessionTypeOK'
      BY <1>1, WhipAssumption
      DEF StartPeer, MayStart, TypeOK, QueueTypeOK, SessionTypeOK, Nobody
    <2>2. CameraTypeOK' /\ PlaceTypeOK'
      BY <1>1
      DEF StartPeer, MayStart, TypeOK, CameraTypeOK, PlaceTypeOK, WhipStates
    <2>3. FlagTypeOK'
      BY <1>1
      DEF StartPeer, MayStart, TypeOK, FlagTypeOK
    <2>4. SessionInv'
      BY <1>1, QueueKept
      DEF StartPeer, MayStart, TypeOK, FlagTypeOK, PlaceTypeOK, WhipStates
    <2> QED BY <2>1, <2>2, <2>3, <2>4 DEF TypeOK
  <1>2. CASE StartFails
    <2>1. QueueTypeOK' /\ SessionTypeOK'
      BY <1>2, WhipAssumption
      DEF StartFails, MayStart, CallStop, TypeOK, QueueTypeOK, SessionTypeOK,
          Nobody
    <2>2. CameraTypeOK' /\ PlaceTypeOK'
      BY <1>2
      DEF StartFails, MayStart, CallStop, TypeOK, CameraTypeOK, PlaceTypeOK,
          WhipStates
    <2>3. FlagTypeOK'
      BY <1>2
      DEF StartFails, MayStart, CallStop, TypeOK, FlagTypeOK
    <2>4. SessionInv'
      BY <1>2, QueueKept
      DEF StartFails, MayStart, CallStop, TypeOK, FlagTypeOK, PlaceTypeOK,
          WhipStates
    <2> QED BY <2>1, <2>2, <2>3, <2>4 DEF TypeOK
  <1>3. CASE Gathered
    <2>1. QueueTypeOK' /\ SessionTypeOK'
      BY <1>3, WhipAssumption
      DEF Gathered, TypeOK, QueueTypeOK, SessionTypeOK, Nobody
    <2>2. CameraTypeOK' /\ PlaceTypeOK'
      BY <1>3
      DEF Gathered, TypeOK, CameraTypeOK, PlaceTypeOK, WhipStates
    <2>3. FlagTypeOK'
      BY <1>3
      DEF Gathered, TypeOK, FlagTypeOK
    <2>4. SessionInv'
      BY <1>3, QueueKept
      DEF Gathered, TypeOK, FlagTypeOK, PlaceTypeOK, WhipStates
    <2> QED BY <2>1, <2>2, <2>3, <2>4 DEF TypeOK
  <1>4. CASE GatherEnds
    <2>1. QueueTypeOK' /\ SessionTypeOK'
      BY <1>4, WhipAssumption
      DEF GatherEnds, GiveUp, CallStop, TypeOK, QueueTypeOK, SessionTypeOK,
          Nobody
    <2>2. CameraTypeOK' /\ PlaceTypeOK'
      BY <1>4
      DEF GatherEnds, GiveUp, CallStop, TypeOK, CameraTypeOK, PlaceTypeOK,
          WhipStates
    <2>3. FlagTypeOK'
      BY <1>4
      DEF GatherEnds, GiveUp, CallStop, TypeOK, FlagTypeOK
    <2>4. SessionInv'
      BY <1>4, QueueKept
      DEF GatherEnds, GiveUp, CallStop, TypeOK, FlagTypeOK, PlaceTypeOK,
          WhipStates
    <2> QED BY <2>1, <2>2, <2>3, <2>4 DEF TypeOK
  <1>5. CASE OfferAnswered
    <2>1. QueueTypeOK' /\ SessionTypeOK'
      BY <1>5, WhipAssumption
      DEF OfferAnswered, TypeOK, QueueTypeOK, SessionTypeOK, Nobody
    <2>2. CameraTypeOK' /\ PlaceTypeOK'
      BY <1>5
      DEF OfferAnswered, TypeOK, CameraTypeOK, PlaceTypeOK, WhipStates
    <2>3. FlagTypeOK'
      BY <1>5
      DEF OfferAnswered, TypeOK, FlagTypeOK
    <2>4. SessionInv'
      BY <1>5, QueueKept
      DEF OfferAnswered, TypeOK, FlagTypeOK, PlaceTypeOK, WhipStates
    <2> QED BY <2>1, <2>2, <2>3, <2>4 DEF TypeOK
  <1>6. CASE OfferFails
    <2>1. QueueTypeOK' /\ SessionTypeOK'
      BY <1>6, WhipAssumption
      DEF OfferFails, GiveUp, CallStop, TypeOK, QueueTypeOK, SessionTypeOK,
          Nobody
    <2>2. CameraTypeOK' /\ PlaceTypeOK'
      BY <1>6
      DEF OfferFails, GiveUp, CallStop, TypeOK, CameraTypeOK, PlaceTypeOK,
          WhipStates
    <2>3. FlagTypeOK'
      BY <1>6
      DEF OfferFails, GiveUp, CallStop, TypeOK, FlagTypeOK
    <2>4. SessionInv'
      BY <1>6, QueueKept
      DEF OfferFails, GiveUp, CallStop, TypeOK, FlagTypeOK, PlaceTypeOK,
          WhipStates
    <2> QED BY <2>1, <2>2, <2>3, <2>4 DEF TypeOK
  <1> QED
    BY <1>1, <1>2, <1>3, <1>4, <1>5, <1>6

\* The peer is polled, and the controller ends or goes on.
LEMMA LoopPreserves ==
    ASSUME TypeOK, SessionInv, \/ PeerStays \/ PeerConnects \/ PeerFails
                                  \/ StreamEnds \/ ExitOrGoOn
    PROVE  TypeOK' /\ SessionInv'
  <1>1. CASE PeerStays
    <2>1. QueueTypeOK' /\ SessionTypeOK'
      BY <1>1, WhipAssumption
      DEF PeerStays, TypeOK, QueueTypeOK, SessionTypeOK, Nobody
    <2>2. CameraTypeOK' /\ PlaceTypeOK'
      BY <1>1
      DEF PeerStays, TypeOK, CameraTypeOK, PlaceTypeOK, WhipStates
    <2>3. FlagTypeOK'
      BY <1>1
      DEF PeerStays, TypeOK, FlagTypeOK
    <2>4. SessionInv'
      BY <1>1, QueueKept
      DEF PeerStays, TypeOK, FlagTypeOK, PlaceTypeOK, WhipStates
    <2> QED BY <2>1, <2>2, <2>3, <2>4 DEF TypeOK
  <1>2. CASE PeerConnects
    <2>1. QueueTypeOK' /\ SessionTypeOK'
      BY <1>2, WhipAssumption
      DEF PeerConnects, TypeOK, QueueTypeOK, SessionTypeOK, Nobody
    <2>2. CameraTypeOK' /\ PlaceTypeOK'
      BY <1>2
      DEF PeerConnects, TypeOK, CameraTypeOK, PlaceTypeOK, WhipStates
    <2>3. FlagTypeOK'
      BY <1>2
      DEF PeerConnects, TypeOK, FlagTypeOK
    <2>4. SessionInv'
      BY <1>2, QueueKept
      DEF PeerConnects, TypeOK, FlagTypeOK, PlaceTypeOK, WhipStates
    <2> QED BY <2>1, <2>2, <2>3, <2>4 DEF TypeOK
  <1>3. CASE PeerFails
    <2>1. QueueTypeOK' /\ SessionTypeOK'
      BY <1>3, WhipAssumption
      DEF PeerFails, CallStop, TypeOK, QueueTypeOK, SessionTypeOK, Nobody
    <2>2. CameraTypeOK' /\ PlaceTypeOK'
      BY <1>3
      DEF PeerFails, CallStop, TypeOK, CameraTypeOK, PlaceTypeOK, WhipStates
    <2>3. FlagTypeOK'
      BY <1>3
      DEF PeerFails, CallStop, TypeOK, FlagTypeOK
    <2>4. SessionInv'
      BY <1>3, QueueKept
      DEF PeerFails, CallStop, TypeOK, FlagTypeOK, PlaceTypeOK, WhipStates
    <2> QED BY <2>1, <2>2, <2>3, <2>4 DEF TypeOK
  <1>4. CASE StreamEnds
    <2>1. QueueTypeOK' /\ SessionTypeOK'
      BY <1>4, WhipAssumption
      DEF StreamEnds, CallStop, TypeOK, QueueTypeOK, SessionTypeOK, Nobody
    <2>2. CameraTypeOK' /\ PlaceTypeOK'
      BY <1>4
      DEF StreamEnds, CallStop, TypeOK, CameraTypeOK, PlaceTypeOK, WhipStates
    <2>3. FlagTypeOK'
      BY <1>4
      DEF StreamEnds, CallStop, TypeOK, FlagTypeOK
    <2>4. SessionInv'
      BY <1>4, QueueKept
      DEF StreamEnds, CallStop, TypeOK, FlagTypeOK, PlaceTypeOK, WhipStates
    <2> QED BY <2>1, <2>2, <2>3, <2>4 DEF TypeOK
  <1>5. CASE ExitOrGoOn
    <2>1. QueueTypeOK' /\ SessionTypeOK'
      BY <1>5, WhipAssumption
      DEF ExitOrGoOn, TypeOK, QueueTypeOK, SessionTypeOK, Nobody
    <2>2. CameraTypeOK' /\ PlaceTypeOK'
      BY <1>5
      DEF ExitOrGoOn, TypeOK, CameraTypeOK, PlaceTypeOK,
          WhipStates
    <2>3. FlagTypeOK'
      BY <1>5
      DEF ExitOrGoOn, TypeOK, FlagTypeOK
    <2>4. SessionInv'
      <3>1. commands = <<>> => ~StartQueued
        BY DEF StartQueued
      <3> QED
        BY <1>5, <3>1, QueueKept
        DEF ExitOrGoOn, TypeOK, FlagTypeOK, PlaceTypeOK, WhipStates
    <2> QED BY <2>1, <2>2, <2>3, <2>4 DEF TypeOK
  <1> QED
    BY <1>1, <1>2, <1>3, <1>4, <1>5

-----------------------------------------------------------------------------
(* The requests of the server, and the card.                               *)

\* A start is accepted, or refused for want of a task.
LEMMA RequestPreserves ==
    ASSUME TypeOK, SessionInv,
           (\E session \in Sessions : RequestStart(session)) \/ RequestStartFails
    PROVE  TypeOK' /\ SessionInv'
  <1>1. CASE \E session \in Sessions : RequestStart(session)
    <2> PICK session \in Sessions : RequestStart(session)
      BY <1>1
    <2> DEFINE start == [type |-> "start", sid |-> session]
    <2>1. /\ start \in Commands /\ start.type = "start"
          /\ Send(start) /\ Len(commands) < QueueLen /\ ~StartQueued
      BY DEF RequestStart, Commands
    <2>2. QueueTypeOK' /\ SingleStart'
      BY <2>1, SendStart DEF TypeOK, QueueTypeOK
    <2>3. SessionTypeOK'
      BY WhipAssumption
      DEF RequestStart, TypeOK, SessionTypeOK, Sessions, Nobody
    <2>4. CameraTypeOK' /\ PlaceTypeOK'
      BY DEF RequestStart, TypeOK, CameraTypeOK, PlaceTypeOK, WhipStates
    <2>5. FlagTypeOK'
      BY DEF RequestStart, TypeOK, FlagTypeOK
    <2>6. StartQueued'
      <3>1. commands' = Append(commands, start) /\ commands \in Seq(Commands)
        BY <2>1 DEF Send, TypeOK, QueueTypeOK
      <3>2. /\ Len(commands') = Len(commands) + 1 /\ Len(commands) \in Nat
            /\ commands'[Len(commands) + 1] = start
        BY <2>1, <3>1
      <3> QED BY <2>1, <3>2 DEF StartQueued
    <2>7. SessionInv'
      BY <2>2, <2>6
      DEF RequestStart, TypeOK, FlagTypeOK, PlaceTypeOK, WhipStates
    <2> QED BY <2>2, <2>3, <2>4, <2>5, <2>7 DEF TypeOK
  <1>2. CASE RequestStartFails
    <2>1. QueueTypeOK' /\ SessionTypeOK'
      BY <1>2, WhipAssumption
      DEF RequestStartFails, TypeOK, QueueTypeOK, SessionTypeOK, QueueLen
    <2>2. CameraTypeOK' /\ PlaceTypeOK'
      BY <1>2
      DEF RequestStartFails, TypeOK, CameraTypeOK, PlaceTypeOK, WhipStates
    <2>3. FlagTypeOK'
      BY <1>2 DEF RequestStartFails, TypeOK, FlagTypeOK
    <2>4. SessionInv'
      BY <1>2, NoCommand
      DEF RequestStartFails, TypeOK, FlagTypeOK, PlaceTypeOK, WhipStates
    <2> QED BY <2>1, <2>2, <2>3, <2>4 DEF TypeOK
  <1> QED BY <1>1, <1>2

\* What stops nothing but sends or is about to send a stop: the controller's
\* variables stay, the queue gains a stop at most.
LEMMA StopSentPreserves ==
    ASSUME TypeOK, SessionInv, CameraTypeOK', CameraInv', started' => started,
           NEW command \in Commands, command.type = "stop",
           UNCHANGED commands \/ Send(command),
           UNCHANGED <<task, state, sid, controlVars, localVars, mediaVars>>,
           storage' \in BOOLEAN, storage => storage', mcp' \in 0..Nobody,
           missed' \in BOOLEAN
    PROVE  TypeOK' /\ SessionInv'
  <1>1. /\ QueueTypeOK'
        /\ StartQueued' <=> StartQueued
        /\ SingleStart => SingleStart'
    BY SendStop, QueueKept DEF TypeOK, QueueTypeOK
  <1>2. SessionTypeOK'
    BY DEF TypeOK, SessionTypeOK
  <1>3. PlaceTypeOK'
    BY DEF TypeOK, PlaceTypeOK
  <1>4. FlagTypeOK'
    BY DEF TypeOK, FlagTypeOK
  <1>5. SessionInv'
    BY <1>1
  <1> QED BY <1>1, <1>2, <1>3, <1>4, <1>5 DEF TypeOK

\* A stop command for any session.
LEMMA AnyStop == [type |-> "stop", sid |-> 0] \in Commands
  BY DEF Commands

\* A stop is asked for, in two steps; the card is mounted or not.
LEMMA StopRequestPreserves ==
    ASSUME TypeOK, SessionInv,
           \/ \E session \in Stoppable : RequestStop(session)
           \/ RequestStopSend \/ StorageDone
    PROVE  TypeOK' /\ SessionInv'
  <1>1. CameraTypeOK /\ mcp \in 0..Nobody /\ storage \in BOOLEAN
        /\ missed \in BOOLEAN
    BY DEF TypeOK, SessionTypeOK, FlagTypeOK
  <1>2. ASSUME UNCHANGED cameraVars
        PROVE  CameraTypeOK' /\ CameraInv' /\ (started' => started)
    BY <1>1, <1>2 DEF CameraTypeOK
  <1>3. CASE \E session \in Stoppable : RequestStop(session)
    <2>1. mcp' \in 0..Nobody
      BY <1>3, WhipAssumption DEF RequestStop, Stoppable, Nobody
    <2> QED
      BY <1>1, <1>2, <1>3, <2>1, AnyStop, StopSentPreserves DEF RequestStop
  <1>4. CASE RequestStopSend
    <2> DEFINE stop == [type |-> "stop", sid |-> mcp]
    <2>1. mcp \in 1..(MaxSession + 1) \cup {0} /\ mcp' \in 0..Nobody
      BY <1>1, <1>4, WhipAssumption DEF RequestStopSend, Nobody
    <2>2. stop \in Commands /\ stop.type = "stop"
      BY <2>1 DEF Commands, Stoppable
    <2>3. Send(stop)
      BY <1>4 DEF RequestStopSend
    <2> HIDE DEF stop
    <2> QED
      BY <1>1, <1>2, <1>4, <2>1, <2>2, <2>3, StopSentPreserves
      DEF RequestStopSend
  <1>5. CASE StorageDone
    BY <1>1, <1>2, <1>5, AnyStop, StopSentPreserves DEF StorageDone
  <1> QED BY <1>3, <1>4, <1>5

-----------------------------------------------------------------------------
(* The camera.                                                             *)

USE DEF CamGoto, CamEnds, Park, CamUnannounce, CamReturn

\* Readiness follows the stream, on the camera task and on that of the USB
\* driver, and neither creates a camera task.
LEMMA CameraStepsPreserve ==
    ASSUME CameraTypeOK, CameraInv, CameraSteps \/ UsbUnannounce \/ UsbSetBit
    PROVE  CameraTypeOK' /\ CameraInv' /\ (started' => started)
  <1> USE DEF CameraTypeOK, CamPcs, StreamOpen
  <1>1. CASE CamBoot
    <2>1. CameraTypeOK'
      BY <1>1 DEF CamBoot
    <2>2. started /\ ~announced /\ ~ready /\ UNCHANGED <<announced, ready>>
      BY <1>1 DEF CamBoot
    <2>3. started' <=> cam' # "none"
      BY <1>1, <2>2 DEF CamBoot
    <2> QED BY <2>1, <2>2, <2>3
  <1>2. CASE CamInstall
    <2>1. CameraTypeOK'
      BY <1>2 DEF CamInstall
    <2>2. started /\ ~announced /\ ~ready /\ UNCHANGED <<announced, ready>>
      BY <1>2 DEF CamInstall
    <2>3. started' <=> cam' # "none"
      BY <1>2, <2>2 DEF CamInstall
    <2> QED BY <2>1, <2>2, <2>3
  <1>3. CASE CamTop
    BY <1>3 DEF CamTop
  <1>4. CASE CamWoken
    BY <1>4 DEF CamWoken
  <1>5. CASE CamClearBits
    BY <1>5 DEF CamClearBits
  <1>6. CASE CamFirst
    <2>1. CameraTypeOK'
      BY <1>6 DEF CamFirst
    <2>2. started /\ ~announced /\ ~ready /\ UNCHANGED <<started, ready>>
      BY <1>6 DEF CamFirst
    <2>3. announced' = FALSE
      BY <1>6, <2>2 DEF CamFirst
    <2>4. cam' \in {"announce", "unready"}
      BY <1>6 DEF CamFirst
    <2> QED BY <2>1, <2>2, <2>3, <2>4
  <1>7. CASE CamAnnounce
    BY <1>7 DEF CamAnnounce
  <1>8. CASE CamNotify
    BY <1>8 DEF CamNotify
  <1>9. CASE CamRecheck
    BY <1>9 DEF CamRecheck
  <1>10. CASE CamRun
    BY <1>10 DEF CamRun
  <1>11. CASE CamStopStream
    <2>1. CameraTypeOK'
      BY <1>11 DEF CamStopStream
    <2>2. started /\ ~announced /\ ~ready /\ UNCHANGED <<announced, ready>>
      BY <1>11 DEF CamStopStream
    <2>3. started' <=> cam' # "none"
      BY <1>11, <2>2 DEF CamStopStream
    <2> QED BY <2>1, <2>2, <2>3
  <1>12. CASE UsbUnannounce
    BY <1>12 DEF UsbUnannounce
  <1>13. CASE UsbSetBit
    BY <1>13 DEF UsbSetBit
  <1> QED
    BY <1>1, <1>2, <1>3, <1>4, <1>5, <1>6, <1>7, <1>8,
       <1>9, <1>10, <1>11, <1>12, <1>13
    DEF CameraSteps

\* The camera and the USB driver do to the controller what a stop request does.
LEMMA CameraPreserves ==
    ASSUME TypeOK, SessionInv, Camera \/ Usb
    PROVE  TypeOK' /\ SessionInv'
  <1>1. /\ CameraTypeOK /\ CameraInv
        /\ mcp \in 0..Nobody /\ storage \in BOOLEAN /\ missed \in BOOLEAN
    BY DEF TypeOK, SessionTypeOK, FlagTypeOK
  <1>2. CASE (CameraSteps \/ UsbUnannounce \/ UsbSetBit) /\ WhipUnchanged
    <2>1. CameraTypeOK' /\ CameraInv' /\ (started' => started)
      BY <1>1, <1>2, CameraStepsPreserve
    <2> QED
      BY <1>1, <1>2, <2>1, AnyStop, StopSentPreserves
  <1>3. CASE CamUnready \/ UsbUnready
    <2>1. CameraTypeOK' /\ CameraInv' /\ (started' => started)
      <3>1. CameraTypeOK'
        BY <1>1, <1>3
        DEF CamUnready, UsbUnready, CameraTypeOK, CamPcs, StreamOpen
      <3>2. CameraInv' /\ (started' => started)
        BY <1>1, <1>3 DEF CamUnready, UsbUnready, CameraTypeOK
      <3> QED BY <3>1, <3>2
    <2>2. WhipUnchanged
      BY <1>3 DEF CamUnready, UsbUnready
    <2> QED
      BY <1>1, <2>1, <2>2, AnyStop, StopSentPreserves
  <1>4. CASE CamPost \/ UsbPost
    <2>1. CameraTypeOK' /\ CameraInv' /\ (started' => started)
      <3>1. CameraTypeOK'
        BY <1>1, <1>4 DEF CamPost, UsbPost, CameraTypeOK, CamPcs, StreamOpen
      <3>2. CameraInv' /\ (started' => started)
        BY <1>1, <1>4 DEF CamPost, UsbPost, CameraTypeOK
      <3> QED BY <3>1, <3>2
    <2>2. /\ Send([type |-> "stop", sid |-> 0]) /\ missed' \in BOOLEAN
          /\ UNCHANGED <<task, state, sid, controlVars, localVars, mediaVars,
                         storage, mcp>>
      BY <1>1, <1>4 DEF CamPost, UsbPost, SendUnready
    <2> QED
      BY <1>1, <2>1, <2>2, AnyStop, StopSentPreserves
  <1> QED BY <1>2, <1>3, <1>4 DEF Camera, Usb

-----------------------------------------------------------------------------
(* The theorems.                                                           *)

\* The preview begins with everything at rest.
LEMMA InitInv == Init => TypeOK /\ SessionInv
  <1> SUFFICES ASSUME Init PROVE TypeOK /\ SessionInv
    OBVIOUS
  <1> USE DEF Init, CameraInit
  <1>1. QueueTypeOK /\ SessionTypeOK
    BY WhipAssumption DEF QueueTypeOK, SessionTypeOK, QueueLen, Nobody
  <1>2. CameraTypeOK /\ PlaceTypeOK /\ FlagTypeOK
    BY DEF CameraTypeOK, CamPcs, PlaceTypeOK, FlagTypeOK, WhipStates
  <1>3. SessionInv
    BY DEF StartQueued, SingleStart
  <1> QED BY <1>1, <1>2, <1>3 DEF TypeOK

\* Every step keeps the types and the invariant.
LEMMA NextInv == TypeOK /\ SessionInv /\ [Next]_vars => TypeOK' /\ SessionInv'
  <1> SUFFICES ASSUME TypeOK, SessionInv, [Next]_vars
               PROVE  TypeOK' /\ SessionInv'
    OBVIOUS
  <1>1. CASE Controller
    BY <1>1, StopSessionPreserves, ReceivePreserves, PreparePreserves,
       CameraStagePreserves, StartPreserves, LoopPreserves
    DEF Controller
  <1>2. CASE Camera \/ Usb
    BY <1>2, CameraPreserves
  <1>3. CASE Mcp \/ StorageDone
    BY <1>3, RequestPreserves, StopRequestPreserves DEF Mcp
  <1>4. CASE UNCHANGED vars
    <2>1. CameraTypeOK' /\ CameraInv' /\ (started' => started)
      BY <1>4 DEF TypeOK, CameraTypeOK
    <2>2. mcp' \in 0..Nobody /\ storage' \in BOOLEAN /\ missed' \in BOOLEAN
      BY <1>4 DEF TypeOK, SessionTypeOK, FlagTypeOK
    <2> QED
      BY <1>4, <2>1, <2>2, AnyStop, StopSentPreserves
  <1> QED BY <1>1, <1>2, <1>3, <1>4 DEF Next

\* The news that the camera is gone reaches the controller or finds the queue
\* full.
LEMMA SendAnyStop ==
    ASSUME QueueTypeOK, missed \in BOOLEAN, SendUnready
    PROVE  AnyStopQueued' \/ missed' = TRUE
  <1> DEFINE stop == [type |-> "stop", sid |-> 0]
  <1>1. CASE Len(commands) < QueueLen
    <2>1. commands' = Append(commands, stop)
      BY <1>1 DEF SendUnready, Send
    <2>2. /\ Len(commands') = Len(commands) + 1 /\ Len(commands) \in Nat
          /\ commands'[Len(commands) + 1] = stop
      BY <2>1 DEF QueueTypeOK
    <2> QED BY <2>2 DEF AnyStopQueued
  <1>2. CASE ~(Len(commands) < QueueLen)
    <2>1. Len(commands) \in Nat /\ Len(commands) <= QueueLen
      BY DEF QueueTypeOK
    <2>2. Len(commands) = QueueLen
      <3>1. ASSUME NEW n \in Nat, n <= 2, ~(n < 2) PROVE n = 2
        BY <3>1
      <3> HIDE DEF QueueTypeOK
      <3> QED BY <1>2, <2>1, <3>1 DEF QueueLen
    <2>3. missed' = (missed \/ Len(commands) = QueueLen)
      BY DEF SendUnready
    <2> QED BY <2>2, <2>3
  <1> QED BY <1>1, <1>2

\* A stop for any session stays in the queue when another is sent.
LEMMA KeepAnyStop ==
    ASSUME QueueTypeOK, NEW command \in Commands,
           UNCHANGED commands \/ Send(command), AnyStopQueued
    PROVE  AnyStopQueued'
  <1>1. CASE commands' = Append(commands, command)
    <2>1. /\ Len(commands') = Len(commands) + 1 /\ Len(commands) \in Nat
          /\ \A i \in 1..Len(commands) : commands'[i] = commands[i]
      BY <1>1 DEF QueueTypeOK
    <2> QED BY <2>1 DEF AnyStopQueued
  <1>2. CASE commands' = commands
    BY <1>2 DEF AnyStopQueued
  <1> QED BY <1>1, <1>2 DEF Send

\* A command is taken: a stop for any session stays, or was the one taken.
LEMMA TakeAnyStop ==
    ASSUME QueueTypeOK, commands # <<>>, commands' = Tail(commands),
           AnyStopQueued
    PROVE  \/ AnyStopQueued'
           \/ Head(commands).type = "stop" /\ Head(commands).sid = 0
  <1>1. /\ Len(commands') = Len(commands) - 1 /\ Len(commands) \in Nat \ {0}
        /\ \A i \in 1..Len(commands') : commands'[i] = commands[i + 1]
        /\ Head(commands) = commands[1]
    BY DEF QueueTypeOK
  <1>2. PICK i \in 1..Len(commands) :
            commands[i].type = "stop" /\ commands[i].sid = 0
    BY DEF AnyStopQueued
  <1>3. CASE i = 1
    BY <1>1, <1>2, <1>3
  <1>4. CASE i # 1
    <2>1. i - 1 \in 1..Len(commands') /\ commands'[i - 1] = commands[i]
      BY <1>1, <1>4
    <2> QED BY <1>2, <2>1 DEF AnyStopQueued
  <1> QED BY <1>3, <1>4

\* The other tasks: only the camera and the USB driver take readiness back.
LEMMA OthersBlind ==
    ASSUME TypeOK, SessionInv, BlindInv, Camera \/ Usb \/ Mcp \/ StorageDone
    PROVE  BlindInv'
  <1> USE DEF BlindInv, HasPeer
  <1>0. /\ QueueTypeOK /\ missed \in BOOLEAN /\ ready \in BOOLEAN
        /\ state \in WhipStates /\ mcp \in 0..Nobody
    BY DEF TypeOK, FlagTypeOK, CameraTypeOK, PlaceTypeOK, SessionTypeOK
  <1>1. CASE CameraSteps /\ WhipUnchanged
    <2>1. AnyStopQueued => AnyStopQueued'
      BY <1>0, <1>1, AnyStop, KeepAnyStop
    <2>2. cam # "post" /\ UNCHANGED usb /\ (ready => ready')
      BY <1>1
      DEF CameraSteps, CamBoot, CamInstall, CamTop, CamWoken, CamClearBits,
          CamFirst, CamAnnounce, CamNotify, CamRecheck, CamRun, CamStopStream
    <2> QED BY <1>1, <2>1, <2>2
  <1>2. CASE (UsbUnannounce \/ UsbSetBit) /\ WhipUnchanged
    <2>1. AnyStopQueued => AnyStopQueued'
      BY <1>0, <1>2, AnyStop, KeepAnyStop
    <2> QED BY <1>2, <2>1 DEF UsbUnannounce, UsbSetBit
  <1>3. CASE CamUnready \/ UsbUnready
    <2>1. AnyStopQueued => AnyStopQueued'
      BY <1>0, <1>3, AnyStop, KeepAnyStop DEF CamUnready, UsbUnready
    <2>2. HasPeer => WorthStopping
      BY <1>0 DEF WorthStopping
    <2>3. UNCHANGED <<wpc, state, missed>>
      BY <1>3 DEF CamUnready, UsbUnready
    <2>4. cam = "post" => cam' = "post"
      BY <1>3 DEF CamUnready, UsbUnready
    <2>5. usb = "post" => usb' = "post"
      BY <1>3 DEF CamUnready, UsbUnready
    <2>6. HasPeer /\ ready => cam' = "post" \/ usb' = "post"
      BY <1>3, <2>2 DEF CamUnready, UsbUnready, MustStop
    <2> QED BY <2>1, <2>3, <2>4, <2>5, <2>6
  <1>4. CASE CamPost \/ UsbPost
    <2>1. AnyStopQueued' \/ missed' = TRUE
      BY <1>0, <1>4, SendAnyStop DEF CamPost, UsbPost
    <2> QED BY <2>1
  <1>5. CASE \E session \in Sessions : RequestStart(session)
    BY <1>5, RequestPreserves DEF RequestStart
  <1>6. CASE RequestStartFails
    BY <1>6 DEF RequestStartFails
  <1>7. CASE \/ \E session \in Stoppable : RequestStop(session)
             \/ StorageDone
    <2>1. AnyStopQueued => AnyStopQueued'
      BY <1>0, <1>7, AnyStop, KeepAnyStop DEF RequestStop, StorageDone
    <2> QED BY <1>7, <2>1 DEF RequestStop, StorageDone
  <1>8. CASE RequestStopSend
    <2>1. [type |-> "stop", sid |-> mcp] \in Commands
      BY <1>0, <1>8, WhipAssumption
      DEF RequestStopSend, Commands, Stoppable, Nobody
    <2>2. AnyStopQueued => AnyStopQueued'
      BY <1>0, <1>8, <2>1, KeepAnyStop DEF RequestStopSend
    <2> QED BY <1>8, <2>2 DEF RequestStopSend
  <1> QED
    BY <1>1, <1>2, <1>3, <1>4, <1>5, <1>6, <1>7, <1>8 DEF Camera, Usb, Mcp

\* The controller: a peer is opened while the camera is ready, and a stop for
\* any session is obeyed.
LEMMA ControllerBlind ==
    ASSUME TypeOK, SessionInv, BlindInv, Controller
    PROVE  BlindInv'
  <1> USE DEF BlindInv, HasPeer
  <1>0. QueueTypeOK /\ state \in WhipStates
    BY DEF TypeOK, PlaceTypeOK
  <1>1. CASE ReceiveStop
    <2>1. HasPeer' => HasPeer /\ ~Matches(Head(commands))
      BY <1>1 DEF ReceiveStop, GiveUp, CallStop
    <2>2. Head(commands).sid # 0 \/ Matches(Head(commands))
      BY DEF Matches
    <2>3. HasPeer' /\ AnyStopQueued => AnyStopQueued'
      BY <1>0, <1>1, <2>1, <2>2, TakeAnyStop DEF ReceiveStop
    <2>4. UNCHANGED <<cam, usb, ready, missed>>
      BY <1>1 DEF ReceiveStop
    <2> QED BY <2>1, <2>3, <2>4
  <1>2. CASE ReceiveStart
    <2>1. state = "idle" /\ state' = "idle" /\ wpc' = "prepare"
      BY <1>0, <1>2, TakeFirst DEF ReceiveStart, QueueTypeOK
    <2> QED BY <2>1
  <1>3. ASSUME UNCHANGED <<commands, missed>>, HasPeer' => HasPeer,
               UNCHANGED cameraVars
        PROVE  BlindInv'
    BY <1>3 DEF AnyStopQueued
  <1>4. CASE StopSession
    <2>1. HasPeer' => FALSE
      BY <1>4, StopSessionPreserves
      DEF StopSession, StopVideo, StopPeer, StopCamera, StopCameraWait,
          StopIdle, StopAudio
    <2> QED BY <2>1
  <1>5. CASE ReceiveNothing
    BY <1>3, <1>5 DEF ReceiveNothing
  <1>6. CASE \/ Prepare \/ PrepareSuspend \/ PrepareResources \/ PrepareFails
    BY <1>3, <1>6
    DEF Prepare, PrepareSuspend, PrepareResources, PrepareFails, GiveUp,
        CallStop
  <1>7. CASE CameraAsk
    BY <1>7 DEF CameraAsk, NeedsCamera
  <1>8. CASE NothingToStart \/ CameraRefused \/ CameraNotYet \/ CameraTimeout
    BY <1>3, <1>8
    DEF NothingToStart, CameraRefused, CameraNotYet, CameraTimeout, GiveUp,
        CallStop
  <1>9. CASE StartPeer
    BY <1>9 DEF StartPeer, MayStart
  <1>10. CASE StartFails
    BY <1>3, <1>10 DEF StartFails, CallStop
  <1>11. CASE Gathered \/ GatherEnds \/ OfferAnswered \/ OfferFails
    BY <1>3, <1>11
    DEF Gathered, GatherEnds, OfferAnswered, OfferFails, GiveUp, CallStop
  <1>12. CASE \/ PeerStays \/ PeerConnects \/ PeerFails \/ StreamEnds
              \/ ExitOrGoOn
    BY <1>3, <1>12
    DEF PeerStays, PeerConnects, PeerFails, StreamEnds, ExitOrGoOn, CallStop
  <1> QED
    BY <1>1, <1>2, <1>4, <1>5, <1>6, <1>7, <1>8, <1>9, <1>10, <1>11, <1>12
    DEF Controller

HIDE DEF vars, SessionInv

\* Every variable of the preview keeps its type: the controller's place and
\* state, its queue of two, and the camera's bits.
THEOREM WhipTypeCorrect == Spec => []TypeOK
  <1> QED BY InitInv, NextInv, PTL DEF Spec

\* What the controller holds at every place of its loop and of stop_session.
THEOREM SessionInvariant == Spec => []SessionInv
  <1> QED BY InitInv, NextInv, PTL DEF Spec

\* webrtc_whip.c:1461: when the controller has ended, no peer, encoder, session
\* id or suspended voice pipeline is left.
THEOREM NothingIsLeftBehind == Spec => []NothingLeftBehind
  <1>1. SessionInv => NothingLeftBehind
    BY DEF NothingLeftBehind, SessionInv
  <1> QED BY <1>1, SessionInvariant, PTL

\* webrtc_whip.c:1463: the controller does not end with a start in its queue.
THEOREM NoStartIsLost == Spec => []StartNotLost
  <1>1. SessionInv => StartNotLost
    BY DEF StartNotLost, SessionInv
  <1> QED BY <1>1, SessionInvariant, PTL

\* webrtc_whip.c:1422: a session that connects or streams has its peer, its
\* encoder and the voice pipeline's memory, and no peer is open without one.
THEOREM StreamsAreComplete == Spec => []StreamComplete
  <1>1. TypeOK /\ SessionInv => StreamComplete
    BY DEF StreamComplete, SessionInv, TypeOK, PlaceTypeOK, WhipStates
  <1> QED BY <1>1, SessionInvariant, WhipTypeCorrect, PTL

\* camera_driver.c:1254: the announcement of one stream does not outlive it.
THEOREM ReadinessIsOfThisStream == Spec => []ReadyOfThisStream
  <1>1. SessionInv => ReadyOfThisStream
    BY DEF ReadyOfThisStream, SessionInv, StreamOpen
  <1> QED BY <1>1, SessionInvariant, PTL

\* webrtc_whip.c:1519: a session whose camera is no longer ready has a stop in
\* the queue that it will obey, or one on its way, or the queue was full.
THEOREM BlindSessionsStop == Spec => []BlindSessionStops
  <1>1. Init => BlindInv
    BY DEF Init, BlindInv, HasPeer
  <1>2. TypeOK /\ SessionInv /\ BlindInv /\ [Next]_vars => BlindInv'
    <2>1. CASE UNCHANGED vars
      BY <2>1 DEF BlindInv, HasPeer, AnyStopQueued, vars
    <2> QED
      BY <2>1, OthersBlind, ControllerBlind DEF Next
  <1>3. BlindInv => BlindSessionStops
    BY DEF BlindInv, HasPeer, AnyStopQueued, BlindSessionStops, Matches
  <1> QED BY <1>1, <1>2, <1>3, WhipTypeCorrect, SessionInvariant, PTL DEF Spec

=============================================================================
