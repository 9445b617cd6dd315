------------------------------ MODULE WakeWord ------------------------------
(***************************************************************************)
(* The wake word engine (components/xiaozhi_audio/wake_word.c): one AFE    *)
(* shared by WakeNet and by the echo-cancelled PCM the encoder uploads.    *)
(* Its detection task runs beside every caller.  Callers gate WakeNet      *)
(* (wake_word_start / wake_word_stop) and the PCM stream                   *)
(* (wake_word_enable_voice_processing) by changing a flag and bumping a    *)
(* generation number; the detection task works with a copy of both that it *)
(* took before the blocking fetch, and compares generations afterwards.    *)
(*                                                                         *)
(* Generations are only ever compared for equality with the copy the       *)
(* detection task holds, so the model keeps "the copy is still current"    *)
(* instead of the number (detFresh, outFresh).                             *)
(*                                                                         *)
(* This module holds the state and the operations; VoiceControl composes   *)
(* them with the tasks that call them.                                     *)
(***************************************************************************)

VARIABLES
    afe,       \* the engine: "down", "up", or "stopping" while it is freed
    running,   \* WAKE_EVENT_RUNNING: WakeNet is wanted
    voiceOut,  \* uplink_enabled: processed PCM goes to the output stream
    pcm,       \* the output stream holds at least one frame
    detPc,     \* the detection task: "top", "fetch", "hit", "callback", "gone"
    detOn,     \* its copy "detecting"
    detFresh,  \* its copy of wake_generation is current
    outFresh   \* its copy of output_generation is current

wwVars == <<afe, running, voiceOut, pcm, detPc, detOn, detFresh, outFresh>>

WakeWordTypeOK ==
    /\ afe \in {"down", "up", "stopping"}
    /\ running \in BOOLEAN
    /\ voiceOut \in BOOLEAN
    /\ pcm \in BOOLEAN
    /\ detPc \in {"top", "fetch", "hit", "callback", "gone"}
    /\ detOn \in BOOLEAN
    /\ detFresh \in BOOLEAN
    /\ outFresh \in BOOLEAN

\* After xiaozhi_audio_start: the engine is up and WakeNet is wanted.
WakeWordInit ==
    /\ afe = "up"
    /\ running = TRUE
    /\ voiceOut = FALSE
    /\ pcm = FALSE
    /\ detPc = "top"
    /\ detOn = FALSE
    /\ detFresh = FALSE
    /\ outFresh = FALSE

-----------------------------------------------------------------------------
(* Operations of the callers.  Each is a no-op once the engine is freed.   *)

SetRunning(wanted) ==
    /\ running' = IF afe = "down" THEN running ELSE wanted
    /\ detFresh' = (detFresh /\ afe = "down")

\* wake_word_start
WakeStart == SetRunning(TRUE)

\* wake_word_stop
WakeStop == SetRunning(FALSE)

\* wake_word_enable_voice_processing: only a change empties the stream.
EnableVoiceProcessing(on) ==
    IF afe = "down" \/ voiceOut = on
    THEN UNCHANGED <<voiceOut, pcm, outFresh>>
    ELSE /\ voiceOut' = on
         /\ pcm' = FALSE
         /\ outFresh' = FALSE

\* wake_word_read_pcm returns a frame (it returns none when this is false).
ReadPcm ==
    /\ afe = "up"
    /\ voiceOut
    /\ pcm
    /\ pcm' \in BOOLEAN

\* wake_word_init succeeds: a fresh context and a fresh detection task.
EngineInit ==
    /\ afe' = "up"
    /\ running' = FALSE
    /\ voiceOut' = FALSE
    /\ pcm' = FALSE
    /\ detPc' = "top"
    /\ detOn' = FALSE
    /\ detFresh' = FALSE
    /\ outFresh' = FALSE

\* wake_word_deinit asks the detection task to leave ...
EngineStopping ==
    /\ afe' = "stopping"
    /\ UNCHANGED <<running, voiceOut, pcm, detPc, detOn, detFresh, outFresh>>

EngineFree_NotWaiting ==
    /\ afe' = "down"
    /\ running' = FALSE
    /\ voiceOut' = FALSE
    /\ pcm' = FALSE
    /\ UNCHANGED <<detPc, detOn, detFresh, outFresh>>

\* ... and frees the engine once it has left.
EngineFree ==
    /\ detPc = "gone"
    /\ afe' = "down"
    /\ running' = FALSE
    /\ voiceOut' = FALSE
    /\ pcm' = FALSE
    /\ UNCHANGED <<detPc, detOn, detFresh, outFresh>>

-----------------------------------------------------------------------------
(* The detection task.                                                     *)

\* Top of the loop: copy the generations and RUNNING, apply them to WakeNet.
DetectTop ==
    /\ detPc = "top"
    /\ afe = "up"
    /\ detOn' = running
    /\ detFresh' = TRUE
    /\ outFresh' = TRUE
    /\ detPc' = "fetch"
    /\ UNCHANGED <<afe, running, voiceOut, pcm>>

\* The copies live until the end of the iteration.
DropCopies == detOn' = FALSE /\ detFresh' = FALSE /\ outFresh' = FALSE

\* The fetch timed out or returned no audio.
DetectNothing ==
    /\ detPc = "fetch"
    /\ detPc' = "top"
    /\ DropCopies
    /\ UNCHANGED <<afe, running, voiceOut, pcm>>

\* A valid frame: its PCM is stored if the stream was not switched meanwhile;
\* a wake word counts only if WakeNet was not switched meanwhile.
DetectFrame ==
    /\ detPc = "fetch"
    /\ pcm' = (pcm \/ (voiceOut /\ outFresh))
    /\ detPc' \in {"top"} \cup (IF detOn /\ detFresh THEN {"hit"} ELSE {})
    /\ DropCopies
    /\ UNCHANGED <<afe, running, voiceOut>>

\* A wake word: stop WakeNet first, then tell the owner (in "callback").
DetectHit ==
    /\ detPc = "hit"
    /\ WakeStop
    /\ detPc' = "callback"
    /\ UNCHANGED <<afe, voiceOut, pcm, detOn, outFresh>>

\* wake_word_deinit set "stopping" and woke the task.
DetectExit ==
    /\ detPc = "top"
    /\ afe = "stopping"
    /\ detPc' = "gone"
    /\ UNCHANGED <<afe, running, voiceOut, pcm, detOn, detFresh, outFresh>>

=============================================================================
