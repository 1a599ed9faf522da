--------------------------- MODULE AssistSession ---------------------------
(***************************************************************************)
(* The voice-assistant session of the panel (src/main.cpp, assist_* and    *)
(* mic_* functions).  One UI thread runs LVGL timers and touch events;     *)
(* detached pipeline threads (start_assist_pipeline) run one command each  *)
(* and hand their results back through a mutex-protected FIFO; the         *)
(* push-to-talk / wake capture (AssistAudioCapture) and the wake-word      *)
(* listener (WakeWordListener) are threads of their own; the MQTT thread   *)
(* may blank or wake the screen at any moment.                             *)
(*                                                                         *)
(* Abstractions.  PCM data is "enough for a command" (3200 samples) or     *)
(* not.  Deadlines (restart_after, hide_at, the capture's silence and      *)
(* length limits) are armed flags that time may let fire at any moment.    *)
(* Texts, levels and colours are left out, and so is the conversation id,  *)
(* which no decision of the panel reads; the history keeps, for an answer, *)
(* the generation of the pipeline that produced it.                        *)
(***************************************************************************)
EXTENDS Naturals, Sequences

CONSTANTS
    Slots,        \* detached pipeline threads that may exist at once (bound)
    MaxGen,       \* sessions explored: bound on assist_pipeline_generation
    HistoryMax,   \* answers kept in assist_history (6 in the code)
    MuteOnBlank   \* mic_mute_on_blank, which no reachable handler changes

ASSUME BoundsAssumption ==
    /\ MaxGen \in Nat
    /\ HistoryMax \in Nat \ {0}
    /\ MuteOnBlank \in BOOLEAN

VARIABLES
    gen,          \* assist_pipeline_generation
    running,      \* assist_pipeline_running
    phase,        \* what each pipeline thread is doing
    wgen,         \* the generation each pipeline thread captured
    queue,        \* assist_pipeline_pending_results
    audio,        \* what g_assist_audio records for
    samples,      \* assist_pcm_samples holds at least 3200 samples
    speech,       \* assist_wake_speech_detected
    capture,      \* assist_wake_capture_active
    wakePending,  \* assist_wake_pending
    listener,     \* g_wake_word_listener.is_running()
    restartDue,   \* assist_wake_restart_after has passed
    overlay,      \* assist_overlay and its state
    hideArmed,    \* assist_overlay_hide_at # 0
    screen,       \* which settings screen is on top
    pttDisabled,  \* LV_STATE_DISABLED of assist_ptt_button
    held,         \* the widget under the finger
    blanked,      \* g_screen_blanked
    wakeEnabled,  \* mic_wake_enabled
    wakeFile,     \* /tuya/data/ha_mic_wake_enabled
    history,      \* assist_history
    ui            \* "timer": assist_runtime_timer_cb is between its halves

vars == <<gen, running, phase, wgen, queue, audio, samples, speech, capture,
          wakePending, listener, restartDue, overlay, hideArmed, screen,
          pttDisabled, held, blanked, wakeEnabled, wakeFile, history, ui>>

workerVars == <<phase, wgen>>
micVars    == <<audio, samples, speech, capture>>
settingVars == <<wakeEnabled, wakeFile>>

LivePhases  == {"live", "heard", "speaking", "fallback"}
Phases      == LivePhases \cup {"idle", "ending"}
FinalKinds  == {"answer", "followup", "error"}
Kinds       == FinalKinds \cup {"transcript", "playback"}
Overlays    == {"hidden", "listening", "processing", "transcript",
                "speaking", "done", "error"}
Screens     == {"main", "settings", "mic", "assist"}
Recordings  == {"ptt", "wake"}      \* captures whose handler keeps samples
Gens        == 0 .. MaxGen
Results     == [gen : Gens, kind : Kinds]

TypeOK ==
    /\ gen \in Gens
    /\ running \in BOOLEAN
    /\ phase \in [Slots -> Phases]
    /\ wgen \in [Slots -> Gens]
    /\ queue \in Seq(Results)
    /\ audio \in Recordings \cup {"off", "mic"}
    /\ samples \in BOOLEAN /\ speech \in BOOLEAN /\ capture \in BOOLEAN
    /\ wakePending \in BOOLEAN /\ listener \in BOOLEAN /\ restartDue \in BOOLEAN
    /\ overlay \in Overlays /\ hideArmed \in BOOLEAN
    /\ screen \in Screens /\ pttDisabled \in BOOLEAN
    /\ held \in {"none", "ptt", "back"}
    /\ blanked \in BOOLEAN /\ wakeEnabled \in BOOLEAN /\ wakeFile \in BOOLEAN
    /\ history \in Seq(Gens)
    /\ ui \in {"idle", "timer"}

(***************************************************************************)
(* The panel starts with the static defaults: mic_wake_enabled is TRUE     *)
(* whatever the saved setting says, which is read only when the            *)
(* microphone screen opens.                                                *)
(***************************************************************************)
Init ==
    /\ gen = 0 /\ running = FALSE
    /\ phase = [s \in Slots |-> "idle"] /\ wgen = [s \in Slots |-> 0]
    /\ queue = <<>>
    /\ audio = "off" /\ samples = FALSE /\ speech = FALSE /\ capture = FALSE
    /\ wakePending = FALSE /\ listener = FALSE /\ restartDue = FALSE
    /\ overlay = "hidden" /\ hideArmed = FALSE
    /\ screen = "main" /\ pttDisabled = FALSE /\ held = "none"
    /\ blanked = FALSE
    /\ wakeEnabled = TRUE /\ wakeFile \in BOOLEAN
    /\ history = <<>>
    /\ ui = "idle"

-----------------------------------------------------------------------------
(* Parts of handlers.                                                      *)

\* assist_overlay_set_state only matters while the overlay object exists;
\* it disarms the hide deadline, which the caller may arm again.
OverlaySetState(state, armed) ==
    /\ overlay' = IF overlay = "hidden" THEN "hidden" ELSE state
    /\ hideArmed' = (armed /\ overlay # "hidden")

\* show_assist_overlay: creates or reuses the overlay and wakes the screen.
ShowAssistOverlay(state, armed) ==
    /\ overlay' = state
    /\ hideArmed' = armed
    /\ blanked' = FALSE

HideAssistOverlay == overlay' = "hidden" /\ hideArmed' = FALSE

\* ++assist_pipeline_generation, for at most MaxGen sessions.
NextGeneration == gen < MaxGen /\ gen' = gen + 1

\* start_assist_pipeline: a new detached thread takes the samples and the
\* current generation.
StartAssistPipeline ==
    \E s \in Slots :
        /\ phase[s] = "idle"
        /\ phase' = [phase EXCEPT ![s] = "live"]
        /\ wgen' = [wgen EXCEPT ![s] = gen]
        /\ running' = TRUE
        /\ samples' = FALSE
        /\ OverlaySetState("processing", FALSE)
        /\ pttDisabled' = (pttDisabled \/ screen = "assist")
        \* an expired conversation is reset first
        /\ history' \in {history, <<>>}

\* begin_wake_command_capture: recording may fail to start.
BeginWakeCommandCapture ==
    /\ NextGeneration
    /\ samples' = FALSE /\ speech' = FALSE
    /\ \/ /\ audio' = "wake" /\ capture' = TRUE
          /\ ShowAssistOverlay("listening", FALSE)
          /\ UNCHANGED restartDue
       \/ /\ audio' = "off" /\ capture' = FALSE
          /\ ShowAssistOverlay("error", TRUE)
          /\ restartDue' = FALSE

\* start_wake_word_listener: refused while wake word is off or the blanked
\* screen mutes it; otherwise old capture processes are killed and the new
\* listener starts, or fails (no configuration, no assets, no process).
ListenerAllowed == wakeEnabled /\ ~(blanked /\ MuteOnBlank)

StartWakeWordListener ==
    \/ ListenerAllowed /\ listener' \in BOOLEAN
    \/ ~ListenerAllowed /\ UNCHANGED listener

-----------------------------------------------------------------------------
(* apply_assist_pipeline_result and apply_next_assist_pipeline_result.     *)

\* The last HistoryMax answers, the new one included.
Remember(h, g) ==
    LET h2 == Append(h, g)
    IN IF Len(h2) > HistoryMax THEN Tail(h2) ELSE h2

\* An answer whose transcript is empty is not remembered.
RecordAnswer(r) == history' \in {history, Remember(history, r.gen)}

ApplyProgress(r) ==
    /\ r.kind \in {"transcript", "playback"}
    /\ OverlaySetState(IF r.kind = "transcript" THEN "transcript"
                       ELSE "speaking", FALSE)
    /\ UNCHANGED <<gen, micVars, restartDue, blanked, pttDisabled, history>>

ApplyAnswer(r) ==
    /\ r.kind = "answer"
    /\ RecordAnswer(r)
    /\ OverlaySetState("done", TRUE)
    /\ pttDisabled' = FALSE
    /\ UNCHANGED <<gen, micVars, restartDue, blanked>>

ApplyFollowup(r) ==
    /\ r.kind = "followup"
    /\ RecordAnswer(r)
    /\ BeginWakeCommandCapture
    /\ pttDisabled' = FALSE

\* Variant: the error never arms the hide deadline.
ApplyErrorStays(r) ==
    /\ r.kind = "error"
    /\ ShowAssistOverlay("error", FALSE)
    /\ pttDisabled' = FALSE
    /\ UNCHANGED <<gen, micVars, restartDue, history>>

ApplyError(r) ==
    /\ r.kind = "error"
    /\ ShowAssistOverlay("error", TRUE)
    /\ pttDisabled' = FALSE
    /\ UNCHANGED <<gen, micVars, restartDue, history>>

\* Variant: the buttons are enabled although a newer pipeline runs.
ApplyStaleAlwaysEnables ==
    /\ pttDisabled' = (pttDisabled /\ screen # "assist")
    /\ UNCHANGED <<gen, micVars, restartDue, overlay, hideArmed, blanked, history>>

\* Variant: a superseded result is dropped without a look at the buttons.
ApplyStaleForgetsButtons ==
    UNCHANGED <<gen, micVars, restartDue, overlay, hideArmed, blanked, pttDisabled, history>>

\* A result of a superseded generation only re-enables the buttons.
ApplyStale ==
    /\ pttDisabled' = (pttDisabled /\ ~(screen = "assist" /\ ~running))
    /\ UNCHANGED <<gen, micVars, restartDue, overlay, hideArmed, blanked, history>>

\* Variant: superseded results are applied too.
IsCurrentOrOlder(r) == r.gen <= gen

IsCurrent(r) == r.gen = gen

ApplyAssistPipelineResult(r) ==
    \/ /\ IsCurrent(r)
       /\ ApplyProgress(r) \/ ApplyAnswer(r) \/ ApplyFollowup(r) \/ ApplyError(r)
    \/ /\ ~IsCurrent(r)
       /\ ApplyStale

ApplyNext ==
    \/ /\ queue = <<>>
       /\ UNCHANGED <<gen, queue, micVars, restartDue, overlay, hideArmed,
                      blanked, pttDisabled, history>>
    \/ /\ queue # <<>>
       /\ queue' = Tail(queue)
       /\ ApplyAssistPipelineResult(Head(queue))

-----------------------------------------------------------------------------
(* assist_runtime_timer_cb, every 100 ms: first it applies one result,     *)
(* then it looks at the flags.  Other threads run between the halves.      *)

RuntimeTimerApply ==
    /\ ui = "idle" /\ ui' = "timer"
    /\ ApplyNext
    /\ UNCHANGED <<running, workerVars, wakePending, listener, screen, held,
                   settingVars>>

\* Variant: a wake word interrupts a running pipeline.
WakeRequestedWhileRunning == wakePending /\ ~capture /\ audio = "off" /\ gen < MaxGen

WakeRequested ==
    /\ wakePending /\ ~running /\ ~capture /\ audio = "off"
    /\ gen < MaxGen

\* The listener's thread can still raise the flag before it is joined.
RuntimeTimerWake ==
    /\ ui = "timer" /\ ui' = "idle"
    /\ WakeRequested
    /\ wakePending' \in {FALSE, listener}
    /\ listener' = FALSE
    /\ BeginWakeCommandCapture
    /\ UNCHANGED <<running, workerVars, queue, screen, pttDisabled, held,
                   settingVars, history>>

\* finish_wake_command_capture(speech): the silence or length limit is reached.
RuntimeTimerFinishCapture ==
    /\ ui = "timer" /\ ui' = "idle"
    /\ ~WakeRequested /\ capture
    /\ capture' = FALSE /\ audio' = "off"
    /\ \/ speech /\ samples /\ StartAssistPipeline /\ UNCHANGED restartDue
       \/ /\ ~(speech /\ samples)
          /\ samples' = FALSE
          /\ OverlaySetState("error", TRUE)
          /\ restartDue' = FALSE
          /\ UNCHANGED <<running, workerVars, pttDisabled, history>>
    /\ UNCHANGED <<gen, queue, speech, wakePending, listener, screen, held,
                   blanked, settingVars>>

RestartWanted ==
    ~running /\ audio = "off" /\ ~listener /\ restartDue

RuntimeTimerListen ==
    /\ ui = "timer" /\ ui' = "idle"
    /\ ~WakeRequested /\ ~capture /\ RestartWanted
    /\ StartWakeWordListener
    /\ restartDue' = listener'
    /\ UNCHANGED <<gen, running, workerVars, queue, micVars, wakePending, overlay,
                   hideArmed, screen, pttDisabled, held, blanked, settingVars,
                   history>>

\* Nothing to do, or the capture is within its limits.
RuntimeTimerIdle ==
    /\ ui = "timer" /\ ui' = "idle"
    /\ ~WakeRequested
    /\ capture \/ ~RestartWanted
    /\ UNCHANGED <<gen, running, workerVars, queue, micVars, wakePending, listener,
                   restartDue, overlay, hideArmed, screen, pttDisabled, held,
                   blanked, settingVars, history>>

\* assist_level_timer_cb, every 100 ms while the Assist screen is open.
LevelTimer ==
    /\ ui = "idle" /\ screen = "assist" /\ queue # <<>>
    /\ ApplyNext
    /\ UNCHANGED <<running, workerVars, wakePending, listener, screen, held,
                   settingVars, ui>>

\* assist_overlay_timer_cb: the hide deadline passed.
OverlayTimer ==
    /\ ui = "idle" /\ overlay # "hidden" /\ hideArmed
    /\ HideAssistOverlay
    /\ UNCHANGED <<gen, running, workerVars, queue, micVars, wakePending, listener,
                   restartDue, screen, pttDisabled, held, blanked, settingVars,
                   history, ui>>

RestartDelayElapses ==
    /\ ~restartDue /\ restartDue' = TRUE
    /\ UNCHANGED <<gen, running, workerVars, queue, micVars, wakePending, listener,
                   overlay, hideArmed, screen, pttDisabled, held, blanked,
                   settingVars, history, ui>>

-----------------------------------------------------------------------------
(* Touch events.  The overlay covers the whole display and the first touch *)
(* on a blanked screen is consumed, so a press needs neither; a press that *)
(* began earlier still ends on its own widget.  LVGL delivers no event to  *)
(* a disabled button.                                                      *)

CanPress == ui = "idle" /\ held = "none" /\ overlay = "hidden" /\ ~blanked

\* assist_ptt_event_cb, LV_EVENT_PRESSED.
PttPress ==
    /\ CanPress /\ screen = "assist" /\ ~pttDisabled
    /\ held' = "ptt"
    /\ \/ /\ running
          /\ UNCHANGED <<gen, samples, audio, listener, restartDue, overlay,
                         hideArmed, blanked>>
       \/ /\ ~running
          /\ NextGeneration
          /\ samples' = FALSE
          /\ listener' = FALSE
          /\ restartDue' = FALSE
          /\ \/ audio' = "ptt" /\ ShowAssistOverlay("listening", FALSE)
             \/ audio' = "off" /\ ShowAssistOverlay("error", TRUE)
    /\ UNCHANGED <<running, workerVars, queue, speech, capture, wakePending,
                   screen, pttDisabled, settingVars, history, ui>>

\* assist_ptt_event_cb, LV_EVENT_RELEASED or LV_EVENT_PRESS_LOST.
PttRelease ==
    /\ ui = "idle" /\ held = "ptt" /\ held' = "none"
    /\ \/ /\ pttDisabled
          /\ UNCHANGED <<running, workerVars, audio, samples, overlay, hideArmed,
                         pttDisabled, history>>
       \/ /\ ~pttDisabled
          /\ audio' = "off"
          /\ \/ samples /\ StartAssistPipeline
             \/ /\ ~samples
                /\ OverlaySetState("error", TRUE)
                /\ UNCHANGED <<running, workerVars, samples, pttDisabled, history>>
    /\ UNCHANGED <<gen, queue, speech, capture, wakePending, listener, restartDue,
                   screen, blanked, settingVars, ui>>

\* assist_overlay_cancel_event_cb.
CancelOverlay ==
    /\ ui = "idle" /\ overlay # "hidden" /\ held = "none" /\ ~blanked
    /\ NextGeneration
    /\ capture' = FALSE /\ audio' = "off"
    /\ restartDue' = FALSE
    /\ HideAssistOverlay
    /\ pttDisabled' = (pttDisabled /\ running)
    /\ UNCHANGED <<running, workerVars, queue, samples, speech, wakePending,
                   listener, screen, held, blanked, settingVars, history, ui>>

\* assist_new_conversation_event_cb.
NewConversation ==
    /\ CanPress /\ screen = "assist" /\ ~running
    /\ history' = <<>>
    /\ UNCHANGED <<gen, running, workerVars, queue, micVars, wakePending, listener,
                   restartDue, overlay, hideArmed, screen, pttDisabled, held,
                   blanked, settingVars, ui>>

OpenSettings ==
    /\ CanPress /\ screen = "main" /\ screen' = "settings"
    /\ UNCHANGED <<gen, running, workerVars, queue, micVars, wakePending, listener,
                   restartDue, overlay, hideArmed, pttDisabled, held, blanked,
                   settingVars, history, ui>>

\* create_assist_screen.
OpenAssist ==
    /\ CanPress /\ screen = "settings" /\ screen' = "assist"
    /\ pttDisabled' = running
    /\ UNCHANGED <<gen, running, workerVars, queue, micVars, wakePending, listener,
                   restartDue, overlay, hideArmed, held, blanked, settingVars,
                   history, ui>>

\* create_microphone_screen: loads the setting, swaps the listener for the
\* level test.
OpenMicrophone ==
    /\ CanPress /\ screen = "settings" /\ screen' = "mic"
    /\ wakeEnabled' = wakeFile
    /\ listener' = FALSE
    /\ audio' \in {"mic", "off"}
    /\ UNCHANGED <<gen, running, workerVars, queue, samples, speech, capture,
                   wakePending, restartDue, overlay, hideArmed, pttDisabled, held,
                   blanked, wakeFile, history, ui>>

\* mic_toggle_event_cb, setting 0; the other settings' switches are bound to
\* sound_toggle_event_cb and never reach it.
ToggleWakeWord ==
    /\ CanPress /\ screen = "mic"
    /\ wakeEnabled' = ~wakeEnabled /\ wakeFile' = ~wakeEnabled
    /\ listener' = (listener /\ ~wakeEnabled)
    /\ UNCHANGED <<gen, running, workerVars, queue, micVars, wakePending,
                   restartDue, overlay, hideArmed, screen, pttDisabled, held,
                   blanked, history, ui>>

BackPress ==
    /\ CanPress /\ screen # "main" /\ held' = "back"
    /\ UNCHANGED <<gen, running, workerVars, queue, micVars, wakePending, listener,
                   restartDue, overlay, hideArmed, screen, pttDisabled, blanked,
                   settingVars, history, ui>>

\* Variant: closing the microphone screen leaves its recording open.
BackLeavesRecording ==
    /\ ui = "idle" /\ held = "back" /\ held' = "none"
    /\ \/ screen = "mic" /\ screen' = "settings"
       \/ screen = "settings" /\ screen' = "main"
    /\ StartWakeWordListener
    /\ UNCHANGED <<gen, running, workerVars, queue, micVars, wakePending, restartDue,
                   overlay, hideArmed, pttDisabled, blanked, settingVars, history, ui>>

\* close_microphone_screen, alone or from close_settings: recording stops
\* and the listener starts, whatever else is going on.
BackClosesMicrophone ==
    /\ ui = "idle" /\ held = "back" /\ held' = "none"
    /\ \/ screen = "mic" /\ screen' = "settings"
       \/ screen = "settings" /\ screen' = "main"
    /\ audio' = "off"
    /\ StartWakeWordListener
    /\ UNCHANGED <<gen, running, workerVars, queue, samples, speech, capture,
                   wakePending, restartDue, overlay, hideArmed, pttDisabled,
                   blanked, settingVars, history, ui>>

\* close_assist_screen.
BackClosesAssist ==
    /\ ui = "idle" /\ held = "back" /\ held' = "none"
    /\ screen = "assist" /\ screen' = "settings"
    /\ NextGeneration
    /\ HideAssistOverlay
    /\ queue' = <<>>
    /\ audio' = "off"
    /\ pttDisabled' = FALSE
    /\ UNCHANGED <<running, workerVars, samples, speech, capture, wakePending,
                   listener, restartDue, blanked, settingVars, history, ui>>

\* The finger slides off the Back button.
BackReleaseElsewhere ==
    /\ ui = "idle" /\ held = "back" /\ held' = "none"
    /\ UNCHANGED <<gen, running, workerVars, queue, micVars, wakePending, listener,
                   restartDue, overlay, hideArmed, screen, pttDisabled, blanked,
                   settingVars, history, ui>>

\* MQTT screen commands (any time), screensaver, waking touch.
BlankOrWake ==
    /\ blanked' = ~blanked
    /\ UNCHANGED <<gen, running, workerVars, queue, micVars, wakePending, listener,
                   restartDue, overlay, hideArmed, screen, pttDisabled, held,
                   settingVars, history, ui>>

-----------------------------------------------------------------------------
(* The other threads.                                                      *)

threadFrame == <<gen, restartDue, overlay, hideArmed, screen, pttDisabled, held,
                 blanked, settingVars, history, ui>>

\* on_progress: the child reported the transcript, then the playback, which
\* may be repeated by the download fallback.
PipelineProgress(s) ==
    /\ \/ /\ phase[s] = "live"
          /\ phase' = [phase EXCEPT ![s] = "heard"]
          /\ queue' = Append(queue, [gen |-> wgen[s], kind |-> "transcript"])
       \/ /\ phase[s] = "heard"
          /\ phase' = [phase EXCEPT ![s] = "speaking"]
          /\ queue' = Append(queue, [gen |-> wgen[s], kind |-> "playback"])
       \/ /\ phase[s] = "speaking"
          /\ phase' = [phase EXCEPT ![s] = "fallback"]
          /\ queue' = Append(queue, [gen |-> wgen[s], kind |-> "playback"])
    /\ UNCHANGED <<threadFrame, running, wgen, micVars, wakePending, listener>>

\* run_assist_pipeline_process returned: answer, error, time-out or cancel.
PipelineReturns(s) ==
    /\ phase[s] \in LivePhases
    /\ phase' = [phase EXCEPT ![s] = "ending"]
    /\ running' = FALSE
    /\ UNCHANGED <<threadFrame, wgen, queue, micVars, wakePending, listener>>

\* Variant: the final result is queued before the running flag is cleared.
PipelinePushesEarly(s) ==
    /\ phase[s] \in LivePhases \cup {"ending"}
    /\ \E k \in FinalKinds :
        /\ k = "followup" => wgen[s] < MaxGen
        /\ queue' = Append(queue, [gen |-> wgen[s], kind |-> k])
    /\ phase' = [phase EXCEPT ![s] = "idle"]
    /\ wgen' = [wgen EXCEPT ![s] = 0]
    /\ UNCHANGED <<threadFrame, running, micVars, wakePending, listener>>

\* The final result enters the queue and the thread ends.
PipelinePushesFinal(s) ==
    /\ phase[s] = "ending"
    /\ \E k \in FinalKinds :
        /\ k = "followup" => wgen[s] < MaxGen
        /\ queue' = Append(queue, [gen |-> wgen[s], kind |-> k])
    /\ phase' = [phase EXCEPT ![s] = "idle"]
    /\ wgen' = [wgen EXCEPT ![s] = 0]
    /\ UNCHANGED <<threadFrame, running, micVars, wakePending, listener>>

\* The frame handlers of the two recordings.
RecordSamples ==
    /\ audio \in Recordings
    /\ \/ samples' = TRUE /\ UNCHANGED speech
       \/ audio = "wake" /\ speech' = TRUE /\ UNCHANGED samples
    /\ UNCHANGED <<threadFrame, running, workerVars, queue, audio, capture,
                   wakePending, listener>>

\* arecord exits by itself (device busy, killed).
RecordingDies ==
    /\ audio # "off" /\ audio' = "off"
    /\ UNCHANGED <<threadFrame, running, workerVars, queue, samples, speech,
                   capture, wakePending, listener>>

\* A "WAKE" line of the worker.
WakeWordHeard ==
    /\ listener /\ wakePending' = TRUE
    /\ UNCHANGED <<threadFrame, running, workerVars, queue, micVars, listener>>

ListenerDies ==
    /\ listener /\ listener' = FALSE
    /\ UNCHANGED <<threadFrame, running, workerVars, queue, micVars, wakePending>>

-----------------------------------------------------------------------------
RuntimeTimerDecide ==
    RuntimeTimerWake \/ RuntimeTimerFinishCapture \/ RuntimeTimerListen \/ RuntimeTimerIdle

Timers ==
    RuntimeTimerApply \/ RuntimeTimerDecide \/ LevelTimer \/ OverlayTimer \/ RestartDelayElapses

Touches ==
    \/ PttPress \/ PttRelease \/ CancelOverlay \/ NewConversation
    \/ OpenSettings \/ OpenAssist \/ OpenMicrophone \/ ToggleWakeWord
    \/ BackPress \/ BackClosesMicrophone \/ BackClosesAssist \/ BackReleaseElsewhere

Threads ==
    \/ \E s \in Slots : PipelineProgress(s) \/ PipelineReturns(s) \/ PipelinePushesFinal(s)
    \/ RecordSamples \/ RecordingDies \/ WakeWordHeard \/ ListenerDies \/ BlankOrWake

Next == Timers \/ Touches \/ Threads

Spec == Init /\ [][Next]_vars

-----------------------------------------------------------------------------
(* Safety.                                                                 *)

Live(s)   == phase[s] \in LivePhases
IsFinal(r) == r.kind \in FinalKinds

\* At most one pipeline process runs at a time, although the flag that guards
\* start_assist_pipeline is cleared by a detached thread and tested in three
\* different handlers (release of the button, end of a capture, follow-up).
AtMostOnePipeline == \A s, t \in Slots : Live(s) /\ Live(t) => s = t

\* While a pipeline runs nothing records a further command: the samples were
\* handed over and no push-to-talk or wake capture is open, not even one that
\* a follow-up question opens when a final result is applied.
NoCommandDuringPipeline == running => ~samples /\ audio \notin Recordings

\* The push-to-talk button of an open Assist screen is enabled only while no
\* pipeline runs (the button is a second, visible, copy of the running flag).
EnabledButtonMeansIdle == screen = "assist" /\ ~pttDisabled => ~running

\* A disabled push-to-talk button is never orphaned: some thread or queued
\* final result will still come by that enables it again, even when results
\* were superseded or arrive after running was cleared.
DisabledButtonHasReleaser ==
    pttDisabled => \/ running
                   \/ \E s \in Slots : phase[s] = "ending"
                   \/ \E i \in DOMAIN queue : IsFinal(queue[i])

\* The history lists every pipeline's answer at most once and in the order the
\* commands were given, whatever the order in which threads push results.
HistoryInCommandOrder ==
    \A i, j \in DOMAIN history : i < j => history[i] < history[j]

\* Every pipeline thread keeps the contract that PipelineProcess implements,
\* so that the session's view of a thread and the process behind it agree:
\* no report out of turn, none after the running flag was cleared, one final.
Thread(s) == INSTANCE PipelineContract WITH phase <- phase[s]

ThreadsKeepContract ==
    /\ \A s \in Slots : Thread(s)!Init
    /\ [][\A s \in Slots : [Thread(s)!Next]_(phase[s])]_vars

(* The inductive invariant behind the four properties on pipelines and the *)
(* button; AssistSession_proofs proves it.                                 *)

Busy(s) == phase[s] # "idle"

\* The running flag is exactly the existence of a live pipeline thread.
RunningIsLive == running <=> \E s \in Slots : Live(s)

\* No thread or queued result carries a generation that was not yet issued.
GenerationsIssued ==
    /\ \A s \in Slots : wgen[s] <= gen
    /\ \A i \in DOMAIN queue : queue[i].gen <= gen

\* The live pipeline is the newest: older threads and finals lie strictly
\* behind its generation, so a final of the current generation means idle.
LiveIsNewest ==
    \A s \in Slots : Live(s) =>
        /\ \A t \in Slots : Busy(t) /\ t # s => wgen[t] < wgen[s]
        /\ \A i \in DOMAIN queue : IsFinal(queue[i]) => queue[i].gen < wgen[s]

\* A command being recorded, or recorded and not handed over, belongs to a
\* generation for which no pipeline was started.
RecordingIsFresh ==
    samples \/ audio \in Recordings =>
        /\ \A t \in Slots : Busy(t) => wgen[t] < gen
        /\ \A i \in DOMAIN queue : IsFinal(queue[i]) => queue[i].gen < gen

DisabledOnlyOnScreen == pttDisabled => screen = "assist"

SessionInv ==
    /\ TypeOK
    /\ RunningIsLive
    /\ GenerationsIssued
    /\ LiveIsNewest
    /\ RecordingIsFresh
    /\ DisabledOnlyOnScreen
    /\ NoCommandDuringPipeline
    /\ EnabledButtonMeansIdle
    /\ DisabledButtonHasReleaser

\* CHANGELOG: the capture processes never compete for the ALSA device hw:0,0.
NoCaptureConflict == ~(listener /\ audio # "off")

-----------------------------------------------------------------------------
(* Liveness.  The main loop runs every LVGL timer again and again; a       *)
(* pipeline returns because its process is killed after 245 s at the       *)
(* latest; a capture ends after 10 s; a finger is lifted at some point.    *)
(* The UI thread serves timers in turn, so an action of its idle state     *)
(* that stays wanted is strongly fair.                                     *)

Fairness ==
    /\ WF_vars(RuntimeTimerApply)
    /\ WF_vars(RuntimeTimerDecide)
    /\ SF_vars(RuntimeTimerFinishCapture)
    /\ SF_vars(OverlayTimer)
    /\ SF_vars(PttRelease)
    /\ WF_vars(RestartDelayElapses)
    /\ \A s \in Slots : WF_vars(PipelineReturns(s)) /\ WF_vars(PipelinePushesFinal(s))

FairSpec == Spec /\ Fairness

\* The overlay, which covers the whole display, never stays for ever, once no
\* more sessions are started.  A result lost or dropped without a successor
\* would break this.
OverlayResolves == []<>(overlay = "hidden")

\* A disabled push-to-talk button is enabled again (or its screen closed).
ButtonComesBack == []<>(~pttDisabled)

\* Wake-word listening resumes after every session: once the setting stays on,
\* the screen awake and the microphone test closed, the listener runs again and
\* again, or its start is tried and fails again and again, however captures,
\* pipelines and touches were interleaved before.
ListeningResumes ==
    <>[](wakeEnabled /\ ~blanked /\ screen # "mic")
      => []<>listener \/ []<><<RuntimeTimerListen /\ ~listener'>>_vars

=============================================================================
