------------------------ MODULE AssistSession_proofs ------------------------
(***************************************************************************)
(* Proofs about AssistSession for any number of pipeline threads, any      *)
(* bound on the sessions and any length of the history.                    *)
(***************************************************************************)
EXTENDS AssistSession, TLAPS

\* What is left of a queue when its head is taken.
LEMMA TailFacts ==
    ASSUME NEW S, NEW q \in Seq(S), q # <<>>
    PROVE  /\ Head(q) \in S /\ Head(q) = q[1] /\ 1 \in DOMAIN q
           /\ Tail(q) \in Seq(S)
           /\ \A i \in DOMAIN Tail(q) : i + 1 \in DOMAIN q /\ Tail(q)[i] = q[i + 1]
           /\ \A j \in DOMAIN q : j # 1 => j - 1 \in DOMAIN Tail(q) /\ Tail(q)[j - 1] = q[j]
  OBVIOUS

\* A queue with one more result at its end.
LEMMA AppendFacts ==
    ASSUME NEW S, NEW q \in Seq(S), NEW x \in S
    PROVE  /\ Append(q, x) \in Seq(S)
           /\ \A i \in DOMAIN q : i \in DOMAIN Append(q, x) /\ Append(q, x)[i] = q[i]
           /\ \A i \in DOMAIN Append(q, x) :
                 \/ i \in DOMAIN q /\ Append(q, x)[i] = q[i]
                 \/ i = Len(q) + 1 /\ Append(q, x)[i] = x
           /\ Len(q) + 1 \in DOMAIN Append(q, x) /\ Append(q, x)[Len(q) + 1] = x
  OBVIOUS

\* The remembered history stays a sequence of generations.
LEMMA RememberType ==
    ASSUME NEW h \in Seq(Gens), NEW g \in Gens
    PROVE  Remember(h, g) \in Seq(Gens)
  <1>1. Append(h, g) \in Seq(Gens) /\ Append(h, g) # <<>>
    BY AppendFacts
  <1>2. Tail(Append(h, g)) \in Seq(Gens)
    BY <1>1, TailFacts
  <1>. QED
    BY <1>1, <1>2 DEF Remember

\* A new session's generation is within the explored range.
LEMMA NextGenerationType ==
    ASSUME gen \in Gens, NextGeneration
    PROVE  gen' \in Gens /\ gen' = gen + 1
  BY BoundsAssumption DEF Gens, NextGeneration

-----------------------------------------------------------------------------
(* Type correctness.                                                       *)

\* Starting a pipeline keeps the variables it changes typed.
LEMMA StartPipelineType ==
    ASSUME TypeOK, StartAssistPipeline
    PROVE  /\ running' \in BOOLEAN /\ samples' \in BOOLEAN
           /\ phase' \in [Slots -> Phases] /\ wgen' \in [Slots -> Gens]
           /\ overlay' \in Overlays /\ hideArmed' \in BOOLEAN
           /\ pttDisabled' \in BOOLEAN
           /\ history' \in Seq(Gens)
  <1>1. running' \in BOOLEAN /\ samples' \in BOOLEAN /\ pttDisabled' \in BOOLEAN
    BY Zenon DEF StartAssistPipeline
  <1>2. hideArmed' \in BOOLEAN
    BY Zenon DEF StartAssistPipeline, OverlaySetState
  <1>3. PICK s \in Slots : /\ phase' = [phase EXCEPT ![s] = "live"]
                           /\ wgen' = [wgen EXCEPT ![s] = gen]
    BY Zenon DEF StartAssistPipeline
  <1>4. phase' \in [Slots -> Phases] /\ wgen' \in [Slots -> Gens]
    BY <1>3 DEF TypeOK, Phases, LivePhases
  <1>5. overlay' \in Overlays
    BY DEF TypeOK, StartAssistPipeline, OverlaySetState, Overlays
  <1>6. history' \in {history, <<>>}
    BY Zenon DEF StartAssistPipeline
  <1>7. history' \in Seq(Gens)
    <2>1. history \in Seq(Gens)
      BY DEF TypeOK
    <2>2. <<>> \in Seq(Gens)
      OBVIOUS
    <2>. QED BY <1>6, <2>1, <2>2, Zenon
  <1>. QED
    BY <1>1, <1>2, <1>4, <1>5, <1>7

\* Starting a wake capture keeps the variables it changes typed.
LEMMA BeginCaptureType ==
    ASSUME TypeOK, BeginWakeCommandCapture
    PROVE  /\ gen' \in Gens
           /\ audio' \in Recordings \cup {"off", "mic"}
           /\ samples' \in BOOLEAN /\ speech' \in BOOLEAN /\ capture' \in BOOLEAN
           /\ restartDue' \in BOOLEAN /\ blanked' \in BOOLEAN
           /\ overlay' \in Overlays /\ hideArmed' \in BOOLEAN
  BY NextGenerationType
     DEF TypeOK, BeginWakeCommandCapture, ShowAssistOverlay, Overlays, Recordings

\* Applying the next result keeps the variables it changes typed.
LEMMA ApplyNextType ==
    ASSUME TypeOK, ApplyNext
    PROVE  /\ gen' \in Gens /\ queue' \in Seq(Results)
           /\ audio' \in Recordings \cup {"off", "mic"}
           /\ samples' \in BOOLEAN /\ speech' \in BOOLEAN /\ capture' \in BOOLEAN
           /\ restartDue' \in BOOLEAN /\ blanked' \in BOOLEAN
           /\ overlay' \in Overlays /\ hideArmed' \in BOOLEAN
           /\ pttDisabled' \in BOOLEAN /\ history' \in Seq(Gens)
  <1>1. CASE queue = <<>>
    BY <1>1 DEF ApplyNext, TypeOK, micVars
  <1>2. CASE queue # <<>>
    <2>. DEFINE r == Head(queue)
    <2>1. r \in Results /\ Tail(queue) \in Seq(Results)
      BY <1>2, TailFacts DEF TypeOK
    <2>2. queue' \in Seq(Results) /\ ApplyAssistPipelineResult(r)
      BY <1>2, <2>1 DEF ApplyNext
    <2>3. r.gen \in Gens /\ Remember(history, r.gen) \in Seq(Gens)
      BY <2>1, RememberType DEF TypeOK, Results
    <2>. HIDE DEF r
    <2>4. CASE ApplyProgress(r)
      BY <2>2, <2>4 DEF ApplyProgress, OverlaySetState, TypeOK, Overlays, micVars
    <2>5. CASE ApplyAnswer(r)
      BY <2>2, <2>3, <2>5 DEF ApplyAnswer, RecordAnswer, OverlaySetState, TypeOK, Overlays, micVars
    <2>6. CASE ApplyFollowup(r)
      BY <2>2, <2>3, <2>6, BeginCaptureType DEF ApplyFollowup, RecordAnswer, TypeOK
    <2>7. CASE ApplyError(r)
      BY <2>2, <2>7 DEF ApplyError, ShowAssistOverlay, TypeOK, Overlays, micVars
    <2>8. CASE ApplyStale
      BY <2>2, <2>8 DEF ApplyStale, TypeOK, micVars
    <2>. QED
      BY <2>2, <2>4, <2>5, <2>6, <2>7, <2>8 DEF ApplyAssistPipelineResult
  <1>. QED
    BY <1>1, <1>2

\* Every step keeps every variable within its type.
LEMMA TypeStep ==
    ASSUME TypeOK, [Next]_vars
    PROVE  TypeOK'
  <1>. USE DEF workerVars, micVars, settingVars
  <1>1. CASE RuntimeTimerApply
    BY <1>1, ApplyNextType DEF RuntimeTimerApply, TypeOK
  <1>2. CASE RuntimeTimerWake
    BY <1>2, BeginCaptureType DEF RuntimeTimerWake, TypeOK
  <1>3. CASE RuntimeTimerFinishCapture
    <2>1. CASE StartAssistPipeline
      BY <1>3, <2>1, StartPipelineType
         DEF RuntimeTimerFinishCapture, TypeOK
    <2>2. CASE ~StartAssistPipeline
      <3>1. capture' \in BOOLEAN /\ samples' \in BOOLEAN /\ restartDue' \in BOOLEAN
        BY <1>3, <2>2, Zenon DEF RuntimeTimerFinishCapture
      <3>2. hideArmed' \in BOOLEAN /\ overlay' \in Overlays
        BY <1>3, <2>2 DEF RuntimeTimerFinishCapture, OverlaySetState, TypeOK, Overlays
      <3>3. UNCHANGED <<running, workerVars, pttDisabled, history, gen, queue, speech,
                        wakePending, listener, screen, held, blanked, settingVars>>
        BY <1>3, <2>2 DEF RuntimeTimerFinishCapture
      <3>4. audio' = "off" /\ ui' = "idle"
        BY <1>3 DEF RuntimeTimerFinishCapture
      <3>. QED
        BY <3>1, <3>2, <3>3, <3>4 DEF TypeOK
    <2>. QED BY <2>1, <2>2
  <1>4. CASE RuntimeTimerListen
    BY <1>4 DEF RuntimeTimerListen, StartWakeWordListener, TypeOK
  <1>5. CASE RuntimeTimerIdle
    BY <1>5 DEF RuntimeTimerIdle, TypeOK
  <1>6. CASE LevelTimer
    BY <1>6, ApplyNextType DEF LevelTimer, TypeOK
  <1>7. CASE OverlayTimer
    <2>1. hideArmed' \in BOOLEAN /\ overlay' \in Overlays
      BY <1>7 DEF OverlayTimer, HideAssistOverlay, Overlays
    <2>. QED
      BY <1>7, <2>1 DEF OverlayTimer, TypeOK
  <1>8. CASE RestartDelayElapses
    BY <1>8 DEF RestartDelayElapses, TypeOK
  <1>9. CASE PttPress
    <2>1. UNCHANGED <<running, workerVars, queue, speech, capture, wakePending,
                      screen, pttDisabled, settingVars, history, ui>> /\ held' = "ptt"
      BY <1>9 DEF PttPress
    <2>2. CASE running
      BY <1>9, <2>1, <2>2 DEF PttPress, TypeOK
    <2>3. CASE ~running
      <3>1. samples' \in BOOLEAN /\ listener' \in BOOLEAN /\ restartDue' \in BOOLEAN
        BY <1>9, <2>3, Zenon DEF PttPress
      <3>2. blanked' \in BOOLEAN /\ hideArmed' \in BOOLEAN
        BY <1>9, <2>3, Zenon DEF PttPress, ShowAssistOverlay
      <3>3. overlay' \in Overlays /\ audio' \in Recordings \cup {"off", "mic"}
        BY <1>9, <2>3 DEF PttPress, ShowAssistOverlay, Overlays, Recordings
      <3>4. gen' \in Gens
        BY <1>9, <2>3, NextGenerationType DEF PttPress, TypeOK
      <3>. QED
        BY <2>1, <3>1, <3>2, <3>3, <3>4 DEF TypeOK
    <2>. QED BY <2>2, <2>3
  <1>10. CASE PttRelease
    <2>1. CASE StartAssistPipeline
      BY <1>10, <2>1, StartPipelineType DEF PttRelease, TypeOK
    <2>2. CASE ~StartAssistPipeline
      <3>1. hideArmed' \in BOOLEAN /\ overlay' \in Overlays
        BY <1>10, <2>2 DEF PttRelease, OverlaySetState, TypeOK, Overlays
      <3>2. UNCHANGED <<running, workerVars, samples, pttDisabled, history, gen, queue,
                        speech, capture, wakePending, listener, restartDue, screen,
                        blanked, settingVars, ui>>
        BY <1>10, <2>2 DEF PttRelease
      <3>3. audio' \in {"off", audio} /\ held' = "none"
        BY <1>10, <2>2 DEF PttRelease
      <3>. QED
        BY <3>1, <3>2, <3>3 DEF TypeOK
    <2>. QED BY <2>1, <2>2
  <1>11. CASE CancelOverlay
    BY <1>11, NextGenerationType DEF CancelOverlay, HideAssistOverlay, TypeOK, Overlays
  <1>12. CASE NewConversation
    BY <1>12 DEF NewConversation, TypeOK
  <1>13. CASE OpenSettings
    BY <1>13 DEF OpenSettings, TypeOK, Screens
  <1>14. CASE OpenAssist
    BY <1>14 DEF OpenAssist, TypeOK, Screens
  <1>15. CASE OpenMicrophone
    <2>1. wakeEnabled' \in BOOLEAN /\ listener' \in BOOLEAN
      BY <1>15 DEF OpenMicrophone, TypeOK
    <2>2. audio' \in Recordings \cup {"off", "mic"} /\ screen' \in Screens
      BY <1>15 DEF OpenMicrophone, Screens
    <2>. QED
      BY <1>15, <2>1, <2>2 DEF OpenMicrophone, TypeOK
  <1>16. CASE ToggleWakeWord
    BY <1>16 DEF ToggleWakeWord, TypeOK
  <1>17. CASE BackPress
    BY <1>17 DEF BackPress, TypeOK
  <1>18. CASE BackClosesMicrophone
    BY <1>18 DEF BackClosesMicrophone, StartWakeWordListener, TypeOK, Screens
  <1>19. CASE BackClosesAssist
    <2>1. hideArmed' \in BOOLEAN /\ pttDisabled' \in BOOLEAN
      BY <1>19, Zenon DEF BackClosesAssist, HideAssistOverlay
    <2>2. gen' \in Gens
      BY <1>19, NextGenerationType DEF BackClosesAssist, TypeOK
    <2>3. overlay' \in Overlays /\ screen' \in Screens /\ queue' \in Seq(Results)
      BY <1>19 DEF BackClosesAssist, HideAssistOverlay, Overlays, Screens
    <2>. QED
      BY <1>19, <2>1, <2>2, <2>3 DEF BackClosesAssist, TypeOK
  <1>20. CASE BackReleaseElsewhere
    BY <1>20 DEF BackReleaseElsewhere, TypeOK
  <1>21. ASSUME NEW s \in Slots, PipelineProgress(s)
         PROVE  TypeOK'
    <2>1. \A k \in Kinds : [gen |-> wgen[s], kind |-> k] \in Results
      BY DEF TypeOK, Results
    <2>2. PICK k \in Kinds : queue' = Append(queue, [gen |-> wgen[s], kind |-> k])
      BY <1>21 DEF PipelineProgress, Kinds
    <2>3. queue' \in Seq(Results)
      BY <2>1, <2>2, AppendFacts DEF TypeOK
    <2>4. phase' \in [Slots -> Phases]
      BY <1>21 DEF PipelineProgress, TypeOK, Phases, LivePhases
    <2>. QED
      BY <1>21, <2>3, <2>4 DEF PipelineProgress, threadFrame, TypeOK
  <1>22. ASSUME NEW s \in Slots, PipelineReturns(s)
         PROVE  TypeOK'
    <2>1. running' \in BOOLEAN /\ phase' \in [Slots -> Phases]
      BY <1>22 DEF PipelineReturns, TypeOK, Phases
    <2>. QED
      BY <1>22, <2>1 DEF PipelineReturns, threadFrame, TypeOK
  <1>23. ASSUME NEW s \in Slots, PipelinePushesFinal(s)
         PROVE  TypeOK'
    <2>1. PICK k \in FinalKinds : queue' = Append(queue, [gen |-> wgen[s], kind |-> k])
      BY <1>23 DEF PipelinePushesFinal
    <2>2. [gen |-> wgen[s], kind |-> k] \in Results
      BY DEF TypeOK, Results, Kinds
    <2>3. queue' \in Seq(Results)
      BY <2>1, <2>2, AppendFacts DEF TypeOK
    <2>4. 0 \in Gens
      BY BoundsAssumption DEF Gens
    <2>. QED
      BY <1>23, <2>3, <2>4 DEF PipelinePushesFinal, threadFrame, TypeOK, Phases
  <1>24. CASE RecordSamples
    <2>1. samples' \in BOOLEAN /\ speech' \in BOOLEAN
      BY <1>24 DEF RecordSamples, TypeOK
    <2>. QED
      BY <1>24, <2>1 DEF RecordSamples, threadFrame, TypeOK
  <1>25. CASE RecordingDies
    BY <1>25 DEF RecordingDies, threadFrame, TypeOK
  <1>26. CASE WakeWordHeard
    BY <1>26 DEF WakeWordHeard, threadFrame, TypeOK
  <1>27. CASE ListenerDies
    <2>1. listener' \in BOOLEAN
      BY <1>27, Zenon DEF ListenerDies
    <2>. QED
      BY <1>27, <2>1 DEF ListenerDies, threadFrame, TypeOK
  <1>28. CASE BlankOrWake
    BY <1>28 DEF BlankOrWake, TypeOK
  <1>29. CASE UNCHANGED vars
    BY <1>29 DEF vars, TypeOK
  <1>. QED
    BY <1>1, <1>2, <1>3, <1>4, <1>5, <1>6, <1>7, <1>8, <1>9, <1>10, <1>11, <1>12,
       <1>13, <1>14, <1>15, <1>16, <1>17, <1>18, <1>19, <1>20, <1>21, <1>22, <1>23,
       <1>24, <1>25, <1>26, <1>27, <1>28, <1>29
       DEF Next, Timers, Touches, Threads, RuntimeTimerDecide

\* The panel starts in a typed state.
LEMMA TypeInit == Init => TypeOK
  <1>1. 0 \in Gens
    BY BoundsAssumption DEF Gens
  <1>2. Init => wgen \in [Slots -> Gens] /\ phase \in [Slots -> Phases]
    BY <1>1 DEF Init, Phases
  <1>3. Init => queue \in Seq(Results) /\ history \in Seq(Gens)
    BY DEF Init
  <1>. QED
    BY <1>1, <1>2, <1>3 DEF Init, TypeOK, Overlays, Screens, Recordings

\* Type correctness of the session for every bound and every number of threads.
THEOREM SessionTyped == Spec => []TypeOK
  <1>1. TypeOK /\ [Next]_vars => TypeOK'
    BY TypeStep
  <1>. QED
    BY TypeInit, <1>1, PTL DEF Spec

-----------------------------------------------------------------------------
(* The inductive invariant.                                                *)

\* Generations are naturals wherever they are kept.
LEMMA GenerationsAreNaturals ==
    ASSUME TypeOK
    PROVE  /\ gen \in Nat
           /\ \A s \in Slots : wgen[s] \in Nat
           /\ \A i \in DOMAIN queue : queue[i].gen \in Nat
  <1>1. Gens \subseteq Nat
    BY BoundsAssumption DEF Gens
  <1>2. \A i \in DOMAIN queue : queue[i] \in Results
    BY DEF TypeOK
  <1>3. \A i \in DOMAIN queue : queue[i].gen \in Gens
    BY <1>2 DEF Results
  <1>. QED
    BY <1>1, <1>3 DEF TypeOK

\* There is one live thread at most: each would be newer than the other.
LEMMA LiveIsUnique ==
    ASSUME SessionInv, NEW s \in Slots, NEW t \in Slots, Live(s), Live(t)
    PROVE  s = t
  <1>1. wgen[s] \in Nat /\ wgen[t] \in Nat
    BY GenerationsAreNaturals DEF SessionInv
  <1>2. Busy(s) /\ Busy(t)
    BY DEF Live, Busy, LivePhases
  <1>. QED
    BY <1>1, <1>2 DEF SessionInv, LiveIsNewest

\* A final result of the current generation is applied only when no pipeline runs.
LEMMA CurrentFinalMeansIdle ==
    ASSUME SessionInv, NEW i \in DOMAIN queue, IsFinal(queue[i]), queue[i].gen = gen
    PROVE  ~running
  <1>1. SUFFICES ASSUME NEW s \in Slots, Live(s) PROVE FALSE
    BY DEF SessionInv, RunningIsLive
  <1>2. queue[i].gen < wgen[s] /\ wgen[s] <= gen
    BY <1>1 DEF SessionInv, LiveIsNewest, GenerationsIssued
  <1>. QED
    BY <1>2, GenerationsAreNaturals DEF SessionInv

\* Steps that leave the pipelines and their results alone and open no recording.
LEMMA QuietStep ==
    ASSUME SessionInv, TypeOK',
           UNCHANGED <<gen, running, phase, wgen, queue, pttDisabled>>,
           samples' => samples \/ audio \in Recordings,
           audio' \in Recordings => audio \in Recordings,
           screen' = "assist" <=> screen = "assist"
    PROVE  SessionInv'
  <1>1. RunningIsLive' /\ GenerationsIssued' /\ LiveIsNewest'
    BY DEF SessionInv, RunningIsLive, GenerationsIssued, LiveIsNewest, Live, Busy, IsFinal
  <1>2. RecordingIsFresh'
    BY DEF SessionInv, RecordingIsFresh, Busy, IsFinal
  <1>3. NoCommandDuringPipeline'
    BY DEF SessionInv, NoCommandDuringPipeline
  <1>4. DisabledOnlyOnScreen' /\ EnabledButtonMeansIdle'
    BY DEF SessionInv, DisabledOnlyOnScreen, EnabledButtonMeansIdle
  <1>5. DisabledButtonHasReleaser'
    BY DEF SessionInv, DisabledButtonHasReleaser, IsFinal
  <1>. QED
    BY <1>1, <1>2, <1>3, <1>4, <1>5 DEF SessionInv

\* What the pipelines owe each other.
PipelineInv == RunningIsLive /\ GenerationsIssued /\ LiveIsNewest /\ RecordingIsFresh
               /\ NoCommandDuringPipeline

\* What the button owes the pipelines.
ButtonInv == DisabledOnlyOnScreen /\ EnabledButtonMeansIdle /\ DisabledButtonHasReleaser

\* Results may leave the queue.
LEMMA DroppingResults ==
    ASSUME SessionInv, TypeOK', UNCHANGED <<gen, running, phase, wgen, audio, samples>>,
           \A i \in DOMAIN queue' : \E j \in DOMAIN queue : queue'[i] = queue[j]
    PROVE  PipelineInv'
  <1>1. RunningIsLive' /\ NoCommandDuringPipeline'
    BY DEF SessionInv, RunningIsLive, Live, NoCommandDuringPipeline
  <1>2. GenerationsIssued'
    BY DEF SessionInv, GenerationsIssued
  <1>3. LiveIsNewest'
    BY DEF SessionInv, LiveIsNewest, Live, Busy, IsFinal
  <1>4. RecordingIsFresh'
    BY DEF SessionInv, RecordingIsFresh, Busy, IsFinal
  <1>. QED
    BY <1>1, <1>2, <1>3, <1>4 DEF PipelineInv

\* A new session outdates every thread and every queued result.
LEMMA NewSession ==
    ASSUME SessionInv, TypeOK', gen' = gen + 1, UNCHANGED <<running, phase, wgen>>,
           \A i \in DOMAIN queue' : \E j \in DOMAIN queue : queue'[i] = queue[j],
           running => ~samples' /\ audio' \notin Recordings
    PROVE  PipelineInv'
  <1>1. \A s \in Slots : wgen[s] < gen'
    BY GenerationsAreNaturals DEF SessionInv, GenerationsIssued
  <1>2. \A i \in DOMAIN queue' : queue'[i].gen < gen'
    BY GenerationsAreNaturals DEF SessionInv, GenerationsIssued
  <1>3. gen' \in Nat /\ (\A s \in Slots : wgen'[s] \in Nat)
        /\ (\A i \in DOMAIN queue' : queue'[i].gen \in Nat)
    BY GenerationsAreNaturals DEF SessionInv
  <1>4. RunningIsLive' /\ NoCommandDuringPipeline'
    BY DEF SessionInv, RunningIsLive, Live, NoCommandDuringPipeline
  <1>5. GenerationsIssued'
    BY <1>1, <1>2, <1>3 DEF GenerationsIssued
  <1>6. LiveIsNewest'
    BY DEF SessionInv, LiveIsNewest, Live, Busy, IsFinal
  <1>7. RecordingIsFresh'
    BY <1>1, <1>2 DEF RecordingIsFresh, Busy, IsFinal
  <1>. QED
    BY <1>4, <1>5, <1>6, <1>7 DEF PipelineInv

\* A command that was recorded is handed to a new pipeline.
LEMMA StartPipelineStep ==
    ASSUME SessionInv, TypeOK', StartAssistPipeline, samples,
           UNCHANGED <<gen, queue, screen>>, audio' = "off"
    PROVE  SessionInv'
  <1>1. PICK s \in Slots : /\ phase[s] = "idle"
                           /\ phase' = [phase EXCEPT ![s] = "live"]
                           /\ wgen' = [wgen EXCEPT ![s] = gen]
    BY Zenon DEF StartAssistPipeline
  <1>2. running' /\ ~samples' /\ pttDisabled' = (pttDisabled \/ screen = "assist")
    BY Zenon DEF StartAssistPipeline
  <1>3. ~running /\ (\A t \in Slots : ~Live(t))
    BY DEF SessionInv, NoCommandDuringPipeline, RunningIsLive
  <1>4. /\ \A t \in Slots : t # s => phase'[t] = phase[t] /\ wgen'[t] = wgen[t]
        /\ phase'[s] = "live" /\ wgen'[s] = gen
    BY <1>1 DEF SessionInv, TypeOK
  <1>5. RunningIsLive'
    BY <1>2, <1>4 DEF RunningIsLive, Live, LivePhases
  <1>6. GenerationsIssued'
    BY <1>4, GenerationsAreNaturals DEF SessionInv, GenerationsIssued
  <1>7. LiveIsNewest'
    <2>1. \A t \in Slots : Live(t)' => t = s
      BY <1>3, <1>4 DEF Live
    <2>2. \A t \in Slots : t # s /\ Busy(t)' => wgen'[t] < wgen'[s]
      BY <1>4 DEF SessionInv, RecordingIsFresh, Busy
    <2>3. \A i \in DOMAIN queue' : IsFinal(queue'[i]) => queue'[i].gen < wgen'[s]
      BY <1>4 DEF SessionInv, RecordingIsFresh, IsFinal
    <2>. QED
      BY <2>1, <2>2, <2>3 DEF LiveIsNewest, IsFinal
  <1>8. RecordingIsFresh' /\ NoCommandDuringPipeline'
    BY <1>2 DEF RecordingIsFresh, NoCommandDuringPipeline, Recordings
  <1>9. DisabledOnlyOnScreen' /\ EnabledButtonMeansIdle'
    BY <1>2 DEF SessionInv, DisabledOnlyOnScreen, EnabledButtonMeansIdle
  <1>10. DisabledButtonHasReleaser'
    BY <1>2 DEF DisabledButtonHasReleaser
  <1>. QED
    BY <1>5, <1>6, <1>7, <1>8, <1>9, <1>10 DEF SessionInv

\* What the runtime and level timers do to the queue's head.
LEMMA ApplyNextStep ==
    ASSUME SessionInv, TypeOK', ApplyNext, UNCHANGED <<running, phase, wgen, screen>>
    PROVE  SessionInv'
  <1>1. CASE queue = <<>>
    <2>1. UNCHANGED <<gen, queue, audio, samples, pttDisabled>>
      BY <1>1 DEF ApplyNext, micVars
    <2>. QED
      BY <2>1, QuietStep
  <1>2. CASE queue # <<>>
    <2>1. queue' = Tail(queue) /\ ApplyAssistPipelineResult(Head(queue))
      BY <1>2 DEF ApplyNext
    <2>2. /\ Head(queue) = queue[1] /\ 1 \in DOMAIN queue
          /\ \A i \in DOMAIN queue' : i + 1 \in DOMAIN queue /\ queue'[i] = queue[i + 1]
          /\ \A j \in DOMAIN queue : j # 1 => j - 1 \in DOMAIN queue' /\ queue'[j - 1] = queue[j]
      BY <1>2, <2>1, TailFacts DEF SessionInv, TypeOK
    <2>3. \A i \in DOMAIN queue' : \E j \in DOMAIN queue : queue'[i] = queue[j]
      BY <2>2
    <2>. DEFINE r == queue[1]
    <2>4. r = Head(queue)
      BY <2>2
    <2>5. CASE IsCurrent(r) /\ ApplyProgress(r)
      <3>1. UNCHANGED <<gen, audio, samples, pttDisabled>> /\ ~IsFinal(r)
        BY <2>5 DEF ApplyProgress, micVars, IsFinal, FinalKinds
      <3>2. PipelineInv'
        BY <2>3, <3>1, DroppingResults
      <3>3. DisabledOnlyOnScreen' /\ EnabledButtonMeansIdle'
        BY <3>1 DEF SessionInv, DisabledOnlyOnScreen, EnabledButtonMeansIdle
      <3>4. DisabledButtonHasReleaser'
        BY <2>2, <3>1 DEF SessionInv, DisabledButtonHasReleaser, IsFinal
      <3>. QED
        BY <3>2, <3>3, <3>4 DEF SessionInv, PipelineInv
    <2>6. CASE IsCurrent(r) /\ (ApplyAnswer(r) \/ ApplyError(r))
      <3>1. UNCHANGED <<gen, audio, samples>> /\ IsFinal(r) /\ r.gen = gen
        BY <2>6 DEF ApplyAnswer, ApplyError, micVars, IsFinal, FinalKinds, IsCurrent
      <3>2. ~pttDisabled'
        BY <2>6, Zenon DEF ApplyAnswer, ApplyError
      <3>3. ~running
        BY <2>2, <3>1, CurrentFinalMeansIdle
      <3>4. PipelineInv'
        BY <2>3, <3>1, DroppingResults
      <3>5. ButtonInv'
        BY <3>2, <3>3 DEF ButtonInv, DisabledOnlyOnScreen, EnabledButtonMeansIdle,
                          DisabledButtonHasReleaser
      <3>. QED
        BY <3>4, <3>5 DEF SessionInv, PipelineInv, ButtonInv
    <2>7. CASE IsCurrent(r) /\ ApplyFollowup(r)
      <3>1. gen' = gen + 1 /\ IsFinal(r) /\ r.gen = gen
        BY <2>7 DEF ApplyFollowup, BeginWakeCommandCapture, NextGeneration, IsFinal,
                    FinalKinds, IsCurrent
      <3>2. ~pttDisabled'
        BY <2>7, Zenon DEF ApplyFollowup
      <3>3. ~running
        BY <2>2, <3>1, CurrentFinalMeansIdle
      <3>4. PipelineInv'
        BY <2>3, <3>1, <3>3, NewSession
      <3>5. ButtonInv'
        BY <3>2, <3>3 DEF ButtonInv, DisabledOnlyOnScreen, EnabledButtonMeansIdle,
                          DisabledButtonHasReleaser
      <3>. QED
        BY <3>4, <3>5 DEF SessionInv, PipelineInv, ButtonInv
    <2>8. CASE ApplyStale
      <3>1. UNCHANGED <<gen, audio, samples>>
        BY <2>8 DEF ApplyStale, micVars
      <3>2. pttDisabled' = (pttDisabled /\ ~(screen = "assist" /\ ~running))
        BY <2>8 DEF ApplyStale
      <3>3. PipelineInv'
        BY <2>3, <3>1, DroppingResults
      <3>4. ButtonInv'
        BY <3>2 DEF SessionInv, ButtonInv, DisabledOnlyOnScreen, EnabledButtonMeansIdle,
                    DisabledButtonHasReleaser
      <3>. QED
        BY <3>3, <3>4 DEF SessionInv, PipelineInv, ButtonInv
    <2>. QED
      BY <2>1, <2>4, <2>5, <2>6, <2>7, <2>8 DEF ApplyAssistPipelineResult
  <1>. QED
    BY <1>1, <1>2

\* The detached pipeline thread's own steps.
LEMMA PipelineProgressStep ==
    ASSUME SessionInv, TypeOK', NEW s \in Slots, PipelineProgress(s)
    PROVE  SessionInv'
  <1>1. UNCHANGED <<gen, running, wgen, audio, samples, screen, pttDisabled>>
    BY DEF PipelineProgress, threadFrame, micVars
  <1>2. PICK k \in {"transcript", "playback"} :
            queue' = Append(queue, [gen |-> wgen[s], kind |-> k])
    BY DEF PipelineProgress
  <1>. DEFINE r == [gen |-> wgen[s], kind |-> k]
  <1>3. r \in Results /\ ~IsFinal(r) /\ r.gen = wgen[s]
    BY DEF SessionInv, TypeOK, Results, Kinds, IsFinal, FinalKinds
  <1>4. /\ \A i \in DOMAIN queue : i \in DOMAIN queue' /\ queue'[i] = queue[i]
        /\ \A i \in DOMAIN queue' : (i \in DOMAIN queue /\ queue'[i] = queue[i]) \/ queue'[i] = r
    BY <1>2, <1>3, AppendFacts DEF SessionInv, TypeOK
  <1>5. /\ Live(s) /\ Live(s)'
        /\ \A t \in Slots : t # s => phase'[t] = phase[t]
        /\ phase[s] # "ending"
    BY DEF SessionInv, TypeOK, PipelineProgress, Live, LivePhases
  <1>6. \A t \in Slots : (Live(t)' <=> Live(t)) /\ (Busy(t)' <=> Busy(t))
    BY <1>5 DEF Live, Busy, LivePhases
  <1>. HIDE DEF r
  <1>7. RunningIsLive' /\ NoCommandDuringPipeline'
    BY <1>1, <1>6 DEF SessionInv, RunningIsLive, NoCommandDuringPipeline
  <1>8. GenerationsIssued'
    BY <1>1, <1>3, <1>4 DEF SessionInv, GenerationsIssued
  <1>9. \A i \in DOMAIN queue' : IsFinal(queue'[i]) => i \in DOMAIN queue /\ queue'[i] = queue[i]
    BY <1>3, <1>4
  <1>10. LiveIsNewest'
    BY <1>1, <1>6, <1>9 DEF SessionInv, LiveIsNewest, IsFinal
  <1>11. RecordingIsFresh'
    BY <1>1, <1>6, <1>9 DEF SessionInv, RecordingIsFresh, IsFinal
  <1>12. DisabledOnlyOnScreen' /\ EnabledButtonMeansIdle'
    BY <1>1 DEF SessionInv, DisabledOnlyOnScreen, EnabledButtonMeansIdle
  <1>13. DisabledButtonHasReleaser'
    BY <1>1, <1>4, <1>5 DEF SessionInv, DisabledButtonHasReleaser, IsFinal
  <1>. QED
    BY <1>7, <1>8, <1>10, <1>11, <1>12, <1>13 DEF SessionInv

\* The running flag is cleared before the final result is queued.
LEMMA PipelineReturnsStep ==
    ASSUME SessionInv, TypeOK', NEW s \in Slots, PipelineReturns(s)
    PROVE  SessionInv'
  <1>1. UNCHANGED <<gen, wgen, queue, audio, samples, screen, pttDisabled>>
    BY DEF PipelineReturns, threadFrame, micVars
  <1>2. ~running'
    BY Zenon DEF PipelineReturns
  <1>3. /\ Live(s) /\ phase'[s] = "ending"
        /\ \A t \in Slots : t # s => phase'[t] = phase[t]
    BY DEF SessionInv, TypeOK, PipelineReturns, Live
  <1>4. \A t \in Slots : ~Live(t)'
    BY <1>3, LiveIsUnique DEF Live, LivePhases
  <1>5. \A t \in Slots : Busy(t)' => Busy(t)
    BY <1>3 DEF Busy, Live, LivePhases
  <1>6. RunningIsLive' /\ NoCommandDuringPipeline' /\ LiveIsNewest'
    BY <1>2, <1>4 DEF RunningIsLive, NoCommandDuringPipeline, LiveIsNewest
  <1>7. GenerationsIssued'
    BY <1>1 DEF SessionInv, GenerationsIssued
  <1>8. RecordingIsFresh'
    BY <1>1, <1>5 DEF SessionInv, RecordingIsFresh, IsFinal
  <1>9. DisabledOnlyOnScreen' /\ EnabledButtonMeansIdle'
    BY <1>1, <1>2 DEF SessionInv, DisabledOnlyOnScreen, EnabledButtonMeansIdle
  <1>10. DisabledButtonHasReleaser'
    BY <1>3 DEF DisabledButtonHasReleaser
  <1>. QED
    BY <1>6, <1>7, <1>8, <1>9, <1>10 DEF SessionInv

\* The thread ends with one final result in the queue.
LEMMA PipelinePushesFinalStep ==
    ASSUME SessionInv, TypeOK', NEW s \in Slots, PipelinePushesFinal(s)
    PROVE  SessionInv'
  <1>1. UNCHANGED <<gen, running, audio, samples, screen, pttDisabled>>
    BY DEF PipelinePushesFinal, threadFrame, micVars
  <1>2. PICK k \in FinalKinds : queue' = Append(queue, [gen |-> wgen[s], kind |-> k])
    BY DEF PipelinePushesFinal
  <1>. DEFINE r == [gen |-> wgen[s], kind |-> k]
  <1>3. r \in Results /\ IsFinal(r) /\ r.gen = wgen[s]
    BY DEF SessionInv, TypeOK, Results, Kinds, IsFinal
  <1>4. /\ \A i \in DOMAIN queue : i \in DOMAIN queue' /\ queue'[i] = queue[i]
        /\ \A i \in DOMAIN queue' : (i \in DOMAIN queue /\ queue'[i] = queue[i]) \/ queue'[i] = r
        /\ \E i \in DOMAIN queue' : queue'[i] = r
    BY <1>2, <1>3, AppendFacts DEF SessionInv, TypeOK
  <1>5. /\ phase[s] = "ending" /\ phase'[s] = "idle" /\ wgen'[s] = 0
        /\ \A t \in Slots : t # s => phase'[t] = phase[t] /\ wgen'[t] = wgen[t]
    BY DEF SessionInv, TypeOK, PipelinePushesFinal
  <1>6. /\ \A t \in Slots : (Live(t)' <=> Live(t)) /\ (Live(t) => t # s)
        /\ \A t \in Slots : Busy(t)' => Busy(t) /\ t # s
        /\ Busy(s)
    BY <1>5 DEF Live, Busy, LivePhases
  <1>. HIDE DEF r
  <1>7. RunningIsLive' /\ NoCommandDuringPipeline'
    BY <1>1, <1>6 DEF SessionInv, RunningIsLive, NoCommandDuringPipeline
  <1>8. GenerationsIssued'
    BY <1>1, <1>3, <1>4, <1>5, GenerationsAreNaturals DEF SessionInv, GenerationsIssued
  <1>9. LiveIsNewest'
    <2>1. \A t \in Slots : Live(t) => wgen[s] < wgen[t]
      BY <1>6 DEF SessionInv, LiveIsNewest
    <2>. QED
      BY <1>3, <1>4, <1>5, <1>6, <2>1 DEF SessionInv, LiveIsNewest, IsFinal
  <1>10. RecordingIsFresh'
    BY <1>1, <1>3, <1>4, <1>5, <1>6 DEF SessionInv, RecordingIsFresh, IsFinal
  <1>11. DisabledOnlyOnScreen' /\ EnabledButtonMeansIdle'
    BY <1>1 DEF SessionInv, DisabledOnlyOnScreen, EnabledButtonMeansIdle
  <1>12. DisabledButtonHasReleaser'
    BY <1>3, <1>4 DEF DisabledButtonHasReleaser, IsFinal
  <1>. QED
    BY <1>7, <1>8, <1>9, <1>10, <1>11, <1>12 DEF SessionInv

\* Every step keeps the invariant.
LEMMA SessionInvStep ==
    ASSUME SessionInv, [Next]_vars
    PROVE  SessionInv'
  <1>. USE DEF workerVars, micVars
  <1>0. TypeOK'
    BY TypeStep DEF SessionInv
  <1>1. CASE RuntimeTimerListen
    BY <1>0, <1>1, QuietStep DEF RuntimeTimerListen
  <1>2. CASE RuntimeTimerIdle
    BY <1>0, <1>2, QuietStep DEF RuntimeTimerIdle
  <1>3. CASE OverlayTimer
    BY <1>0, <1>3, QuietStep DEF OverlayTimer
  <1>4. CASE RestartDelayElapses
    BY <1>0, <1>4, QuietStep DEF RestartDelayElapses
  <1>5. CASE NewConversation
    BY <1>0, <1>5, QuietStep DEF NewConversation
  <1>6. CASE OpenSettings
    BY <1>0, <1>6, QuietStep DEF OpenSettings
  <1>7. CASE OpenMicrophone
    BY <1>0, <1>7, QuietStep DEF OpenMicrophone, Recordings
  <1>8. CASE ToggleWakeWord
    BY <1>0, <1>8, QuietStep DEF ToggleWakeWord
  <1>9. CASE BackPress
    BY <1>0, <1>9, QuietStep DEF BackPress
  <1>10. CASE BackClosesMicrophone
    BY <1>0, <1>10, QuietStep DEF BackClosesMicrophone, Recordings
  <1>11. CASE BackReleaseElsewhere
    BY <1>0, <1>11, QuietStep DEF BackReleaseElsewhere
  <1>12. CASE RecordSamples
    BY <1>0, <1>12, QuietStep DEF RecordSamples, threadFrame
  <1>13. CASE RecordingDies
    BY <1>0, <1>13, QuietStep DEF RecordingDies, threadFrame, Recordings
  <1>14. CASE WakeWordHeard
    BY <1>0, <1>14, QuietStep DEF WakeWordHeard, threadFrame
  <1>15. CASE ListenerDies
    BY <1>0, <1>15, QuietStep DEF ListenerDies, threadFrame
  <1>16. CASE BlankOrWake
    BY <1>0, <1>16, QuietStep DEF BlankOrWake
  <1>17. CASE UNCHANGED vars
    BY <1>0, <1>17, QuietStep DEF vars
  <1>18. CASE RuntimeTimerApply
    BY <1>0, <1>18, ApplyNextStep DEF RuntimeTimerApply
  <1>19. CASE LevelTimer
    BY <1>0, <1>19, ApplyNextStep DEF LevelTimer
  <1>20. CASE RuntimeTimerWake
    <2>1. gen' = gen + 1 /\ ~running
      BY <1>20 DEF RuntimeTimerWake, WakeRequested, BeginWakeCommandCapture, NextGeneration
    <2>2. UNCHANGED <<running, phase, wgen, queue, screen, pttDisabled>>
      BY <1>20 DEF RuntimeTimerWake
    <2>3. PipelineInv'
      BY <1>0, <2>1, <2>2, NewSession
    <2>4. ButtonInv'
      BY <2>1, <2>2 DEF SessionInv, ButtonInv, DisabledOnlyOnScreen, EnabledButtonMeansIdle,
                        DisabledButtonHasReleaser, IsFinal
    <2>. QED
      BY <1>0, <2>3, <2>4 DEF SessionInv, PipelineInv, ButtonInv
  <1>21. CASE RuntimeTimerFinishCapture
    <2>1. CASE samples /\ StartAssistPipeline
      BY <1>0, <1>21, <2>1, StartPipelineStep DEF RuntimeTimerFinishCapture
    <2>2. CASE ~(samples /\ StartAssistPipeline)
      <3>1. UNCHANGED <<gen, running, phase, wgen, queue, pttDisabled, screen>>
        BY <1>21, <2>2 DEF RuntimeTimerFinishCapture
      <3>2. ~samples' /\ audio' = "off"
        BY <1>21, <2>2, Zenon DEF RuntimeTimerFinishCapture
      <3>. QED
        BY <1>0, <3>1, <3>2, QuietStep DEF Recordings
    <2>. QED BY <2>1, <2>2
  <1>22. CASE PttPress
    <2>1. UNCHANGED <<running, phase, wgen, queue, screen, pttDisabled>>
      BY <1>22 DEF PttPress
    <2>2. CASE running
      BY <1>0, <1>22, <2>1, <2>2, QuietStep DEF PttPress
    <2>3. CASE ~running
      <3>1. gen' = gen + 1
        BY <1>22, <2>3 DEF PttPress, NextGeneration
      <3>2. PipelineInv'
        BY <1>0, <2>1, <2>3, <3>1, NewSession
      <3>3. ButtonInv'
        BY <2>1 DEF SessionInv, ButtonInv, DisabledOnlyOnScreen, EnabledButtonMeansIdle,
                    DisabledButtonHasReleaser, IsFinal
      <3>. QED
        BY <1>0, <3>2, <3>3 DEF SessionInv, PipelineInv, ButtonInv
    <2>. QED BY <2>2, <2>3
  <1>23. CASE PttRelease
    <2>1. CASE samples /\ audio' = "off" /\ StartAssistPipeline
      BY <1>0, <1>23, <2>1, StartPipelineStep DEF PttRelease
    <2>2. CASE ~(samples /\ audio' = "off" /\ StartAssistPipeline)
      <3>1. UNCHANGED <<gen, running, phase, wgen, queue, pttDisabled, screen, samples>>
        BY <1>23, <2>2 DEF PttRelease
      <3>2. audio' \in {"off", audio}
        BY <1>23, <2>2 DEF PttRelease
      <3>. QED
        BY <1>0, <3>1, <3>2, QuietStep DEF Recordings
    <2>. QED BY <2>1, <2>2
  <1>24. CASE CancelOverlay
    <2>1. gen' = gen + 1 /\ UNCHANGED <<running, phase, wgen, queue, screen, samples>>
      BY <1>24 DEF CancelOverlay, NextGeneration
    <2>2. audio' = "off" /\ pttDisabled' = (pttDisabled /\ running)
      BY <1>24 DEF CancelOverlay
    <2>3. PipelineInv'
      BY <1>0, <2>1, <2>2, NewSession DEF SessionInv, NoCommandDuringPipeline, Recordings
    <2>4. ButtonInv'
      BY <2>1, <2>2 DEF SessionInv, ButtonInv, DisabledOnlyOnScreen, EnabledButtonMeansIdle,
                        DisabledButtonHasReleaser
    <2>. QED
      BY <1>0, <2>3, <2>4 DEF SessionInv, PipelineInv, ButtonInv
  <1>25. CASE OpenAssist
    <2>1. UNCHANGED <<gen, running, phase, wgen, queue, audio, samples>>
      BY <1>25 DEF OpenAssist
    <2>2. screen' = "assist" /\ pttDisabled' = running
      BY <1>25 DEF OpenAssist
    <2>3. PipelineInv'
      BY <1>0, <2>1, DroppingResults
    <2>4. ButtonInv'
      BY <2>1, <2>2 DEF SessionInv, ButtonInv, DisabledOnlyOnScreen, EnabledButtonMeansIdle,
                        DisabledButtonHasReleaser
    <2>. QED
      BY <1>0, <2>3, <2>4 DEF SessionInv, PipelineInv, ButtonInv
  <1>26. CASE BackClosesAssist
    <2>1. gen' = gen + 1 /\ UNCHANGED <<running, phase, wgen, samples>>
      BY <1>26 DEF BackClosesAssist, NextGeneration
    <2>2. audio' = "off" /\ queue' = <<>> /\ screen' = "settings"
      BY <1>26 DEF BackClosesAssist
    <2>3. ~pttDisabled'
      BY <1>26, Zenon DEF BackClosesAssist
    <2>4. PipelineInv'
      BY <1>0, <2>1, <2>2, NewSession DEF SessionInv, NoCommandDuringPipeline, Recordings
    <2>5. ButtonInv'
      BY <2>2, <2>3 DEF ButtonInv, DisabledOnlyOnScreen, EnabledButtonMeansIdle,
                        DisabledButtonHasReleaser
    <2>. QED
      BY <1>0, <2>4, <2>5 DEF SessionInv, PipelineInv, ButtonInv
  <1>27. ASSUME NEW s \in Slots, PipelineProgress(s) \/ PipelineReturns(s) \/ PipelinePushesFinal(s)
         PROVE  SessionInv'
    BY <1>0, <1>27, PipelineProgressStep, PipelineReturnsStep, PipelinePushesFinalStep
  <1>. QED
    BY <1>1, <1>2, <1>3, <1>4, <1>5, <1>6, <1>7, <1>8, <1>9, <1>10, <1>11, <1>12, <1>13,
       <1>14, <1>15, <1>16, <1>17, <1>18, <1>19, <1>20, <1>21, <1>22, <1>23, <1>24, <1>25, <1>26,
       <1>27
       DEF Next, Timers, Touches, Threads, RuntimeTimerDecide

\* The panel starts with no pipeline, no result and no recording.
LEMMA SessionInvInit == Init => SessionInv
  <1>. SUFFICES ASSUME Init PROVE SessionInv
    OBVIOUS
  <1>1. TypeOK
    BY TypeInit
  <1>2. /\ ~running /\ ~samples /\ ~pttDisabled
        /\ \A s \in Slots : phase[s] = "idle" /\ wgen[s] = 0
    BY DEF Init
  <1>3. gen = 0 /\ queue = <<>> /\ audio = "off"
    BY DEF Init
  <1>4. RunningIsLive /\ LiveIsNewest
    BY <1>2 DEF RunningIsLive, LiveIsNewest, Live, LivePhases
  <1>5. GenerationsIssued
    BY <1>2, <1>3 DEF GenerationsIssued
  <1>6. RecordingIsFresh /\ NoCommandDuringPipeline
    BY <1>2, <1>3 DEF RecordingIsFresh, NoCommandDuringPipeline, Recordings
  <1>7. DisabledOnlyOnScreen /\ EnabledButtonMeansIdle /\ DisabledButtonHasReleaser
    BY <1>2 DEF DisabledOnlyOnScreen, EnabledButtonMeansIdle, DisabledButtonHasReleaser
  <1>. QED
    BY <1>1, <1>4, <1>5, <1>6, <1>7 DEF SessionInv

\* The invariant holds in every reachable state.
THEOREM SessionInvariant == Spec => []SessionInv
  <1>1. SessionInv /\ [Next]_vars => SessionInv'
    BY SessionInvStep
  <1>. QED
    BY SessionInvInit, <1>1, PTL DEF Spec

\* Two pipeline processes never run at the same time, whatever handler started
\* them and however late older threads end.
THEOREM OnePipeline == Spec => []AtMostOnePipeline
  <1>1. SessionInv => AtMostOnePipeline
    BY LiveIsUnique DEF AtMostOnePipeline
  <1>. QED
    BY SessionInvariant, <1>1, PTL

\* No command is recorded while a pipeline runs.
THEOREM NoRecordingWhileRunning == Spec => []NoCommandDuringPipeline
  <1>1. SessionInv => NoCommandDuringPipeline
    BY DEF SessionInv
  <1>. QED
    BY SessionInvariant, <1>1, PTL

\* An enabled push-to-talk button never starts a second command.
THEOREM ButtonShowsIdle == Spec => []EnabledButtonMeansIdle
  <1>1. SessionInv => EnabledButtonMeansIdle
    BY DEF SessionInv
  <1>. QED
    BY SessionInvariant, <1>1, PTL

\* A disabled push-to-talk button always has something on its way to enable it.
THEOREM ButtonHasReleaser == Spec => []DisabledButtonHasReleaser
  <1>1. SessionInv => DisabledButtonHasReleaser
    BY DEF SessionInv
  <1>. QED
    BY SessionInvariant, <1>1, PTL

-----------------------------------------------------------------------------
(* The history.                                                            *)

\* What is remembered is not newer than the session, and older than a command
\* that is being recorded.
HistoryIsPast ==
    \A h \in DOMAIN history :
        /\ history[h] <= gen
        /\ samples \/ audio \in Recordings => history[h] < gen

\* A generation belongs to one thread or to one final result in the queue.
OneFinalPerCommand ==
    /\ \A s, t \in Slots : s # t /\ Busy(s) /\ Busy(t) => wgen[s] # wgen[t]
    /\ \A s \in Slots, i \in DOMAIN queue :
          Busy(s) /\ IsFinal(queue[i]) => queue[i].gen # wgen[s]
    /\ \A i, j \in DOMAIN queue :
          i # j /\ IsFinal(queue[i]) /\ IsFinal(queue[j]) => queue[i].gen # queue[j].gen

\* A command whose answer is remembered has no thread and no final result left.
AnsweredIsOver ==
    \A h \in DOMAIN history :
        /\ \A s \in Slots : Busy(s) => wgen[s] # history[h]
        /\ \A i \in DOMAIN queue : IsFinal(queue[i]) => queue[i].gen # history[h]

HistoryInv == HistoryIsPast /\ OneFinalPerCommand /\ AnsweredIsOver /\ HistoryInCommandOrder

\* The history keeps its order, less its oldest answer when it is full.
LEMMA RememberFacts ==
    ASSUME NEW h \in Seq(Gens), NEW g \in Gens
    PROVE  /\ Remember(h, g) \in Seq(Gens)
           /\ \E d \in {0, 1} : \A i \in DOMAIN Remember(h, g) :
                 \/ i + d \in DOMAIN h /\ Remember(h, g)[i] = h[i + d]
                 \/ i + d = Len(h) + 1 /\ Remember(h, g)[i] = g
  <1>. DEFINE a == Append(h, g)
  <1>1. a \in Seq(Gens) /\ a # <<>> /\ Len(a) = Len(h) + 1
        /\ \A i \in DOMAIN a : \/ i \in DOMAIN h /\ a[i] = h[i]
                               \/ i = Len(h) + 1 /\ a[i] = g
    BY AppendFacts
  <1>2. Tail(a) \in Seq(Gens)
        /\ \A i \in DOMAIN Tail(a) : i \in Nat /\ i + 1 \in DOMAIN a /\ Tail(a)[i] = a[i + 1]
    BY <1>1, TailFacts
  <1>3. Remember(h, g) = Tail(a) \/ Remember(h, g) = a
    BY Zenon DEF Remember
  <1>. HIDE DEF a
  <1>4. CASE Remember(h, g) = Tail(a)
    <2>1. \A i \in DOMAIN Tail(a) : \/ i + 1 \in DOMAIN h /\ Tail(a)[i] = h[i + 1]
                                    \/ i + 1 = Len(h) + 1 /\ Tail(a)[i] = g
      BY <1>1, <1>2
    <2>. QED
      BY <1>2, <1>4, <2>1, Zenon
  <1>5. CASE Remember(h, g) = a
    <2>1. \A i \in DOMAIN a : i + 0 = i
      BY <1>1
    <2>. QED
      BY <1>1, <1>5, <2>1, SMT
  <1>. QED
    BY <1>3, <1>4, <1>5

\* Naturals, wherever a generation is kept.
LEMMA HistoryNaturals ==
    ASSUME TypeOK
    PROVE  /\ gen \in Nat /\ (\A s \in Slots : wgen[s] \in Nat)
           /\ (\A i \in DOMAIN queue : queue[i].gen \in Nat)
           /\ (\A h \in DOMAIN history : h \in Nat /\ history[h] \in Nat)
  <1>1. Gens \subseteq Nat
    BY BoundsAssumption DEF Gens
  <1>2. history \in Seq(Gens)
    BY DEF TypeOK
  <1>3. \A h \in DOMAIN history : h \in Nat /\ history[h] \in Gens
    BY <1>2, SMT
  <1>4. gen \in Nat /\ (\A s \in Slots : wgen[s] \in Nat)
    BY <1>1 DEF TypeOK
  <1>5. \A i \in DOMAIN queue : queue[i].gen \in Nat
    BY GenerationsAreNaturals
  <1>. QED
    BY <1>1, <1>3, <1>4, <1>5

\* Steps that start no thread, add no result and remember nothing.
LEMMA HistoryKept ==
    ASSUME SessionInv, HistoryInv,
           UNCHANGED <<phase, wgen>>, history' \in {history, <<>>}, gen' \in {gen, gen + 1},
           samples' \/ audio' \in Recordings => samples \/ audio \in Recordings \/ gen' = gen + 1,
           NEW d \in {0, 1},
           \A i \in DOMAIN queue' : i \in Nat /\ i + d \in DOMAIN queue /\ queue'[i] = queue[i + d]
    PROVE  HistoryInv'
  <1>1. /\ gen \in Nat /\ \A h \in DOMAIN history : history[h] \in Nat
    BY HistoryNaturals DEF SessionInv
  <1>2. HistoryIsPast'
    BY <1>1, SMT DEF HistoryInv, HistoryIsPast
  <1>3. OneFinalPerCommand'
    BY SMT DEF HistoryInv, OneFinalPerCommand, Busy, IsFinal
  <1>4. AnsweredIsOver'
    BY SMT DEF HistoryInv, AnsweredIsOver, Busy, IsFinal
  <1>5. HistoryInCommandOrder'
    BY SMT DEF HistoryInv, HistoryInCommandOrder
  <1>. QED
    BY <1>2, <1>3, <1>4, <1>5 DEF HistoryInv

\* Steps that leave the queue alone as well.
LEMMA HistoryQuiet ==
    ASSUME SessionInv, HistoryInv,
           UNCHANGED <<phase, wgen, queue>>, history' \in {history, <<>>}, gen' \in {gen, gen + 1},
           samples' \/ audio' \in Recordings => samples \/ audio \in Recordings \/ gen' = gen + 1
    PROVE  HistoryInv'
  <1>1. \A i \in DOMAIN queue' : i \in Nat /\ i + 0 \in DOMAIN queue /\ queue'[i] = queue[i + 0]
    BY DEF SessionInv, TypeOK
  <1>. QED
    BY <1>1, HistoryKept

\* A new thread has a generation that nobody had before.
LEMMA HistoryStart ==
    ASSUME SessionInv, HistoryInv, StartAssistPipeline, samples,
           UNCHANGED <<gen, queue>>, audio' = "off"
    PROVE  HistoryInv'
  <1>1. PICK s \in Slots : /\ phase[s] = "idle"
                           /\ phase' = [phase EXCEPT ![s] = "live"]
                           /\ wgen' = [wgen EXCEPT ![s] = gen]
    BY Zenon DEF StartAssistPipeline
  <1>2. ~samples' /\ history' \in {history, <<>>}
    BY Zenon DEF StartAssistPipeline
  <1>3. /\ \A t \in Slots : Busy(t) => wgen[t] < gen
        /\ \A i \in DOMAIN queue : IsFinal(queue[i]) => queue[i].gen < gen
        /\ \A h \in DOMAIN history : history[h] < gen
    BY DEF SessionInv, RecordingIsFresh, HistoryInv, HistoryIsPast
  <1>4. /\ gen \in Nat /\ (\A t \in Slots : wgen[t] \in Nat)
        /\ (\A i \in DOMAIN queue : queue[i].gen \in Nat)
        /\ (\A h \in DOMAIN history : history[h] \in Nat)
        /\ phase \in [Slots -> Phases] /\ wgen \in [Slots -> Gens]
    BY HistoryNaturals DEF SessionInv, TypeOK
  <1>5. HistoryIsPast'
    BY <1>2, <1>3, <1>4, SMT DEF HistoryInv, HistoryIsPast, Recordings
  <1>6. OneFinalPerCommand'
    BY <1>1, <1>3, <1>4, SMT DEF HistoryInv, OneFinalPerCommand, Busy, IsFinal
  <1>7. AnsweredIsOver'
    BY <1>1, <1>2, <1>3, <1>4, SMT DEF HistoryInv, AnsweredIsOver, Busy, IsFinal
  <1>8. HistoryInCommandOrder'
    BY <1>2, SMT DEF HistoryInv, HistoryInCommandOrder
  <1>. QED
    BY <1>5, <1>6, <1>7, <1>8 DEF HistoryInv

\* The answer of the current generation is remembered.
LEMMA HistoryRemembers ==
    ASSUME SessionInv, HistoryInv, UNCHANGED <<phase, wgen>>, queue # <<>>, queue' = Tail(queue),
           IsFinal(Head(queue)), Head(queue).gen = gen, history' = Remember(history, gen),
           gen' = gen + 1 \/ (gen' = gen /\ UNCHANGED <<samples, audio>>)
    PROVE  HistoryInv'
  <1>1. /\ gen \in Nat /\ gen \in Gens
        /\ (\A h \in DOMAIN history : h \in Nat /\ history[h] \in Nat)
        /\ history \in Seq(Gens) /\ queue \in Seq(Results)
    BY HistoryNaturals DEF SessionInv, TypeOK
  <1>2. /\ Head(queue) = queue[1] /\ 1 \in DOMAIN queue
        /\ \A i \in DOMAIN queue' : i \in Nat /\ i + 1 \in DOMAIN queue /\ i + 1 # 1
                                    /\ queue'[i] = queue[i + 1]
    BY <1>1, TailFacts
  <1>3. \A h \in DOMAIN history : history[h] < gen
    <2>1. \A h \in DOMAIN history : history[h] <= gen /\ history[h] # gen
      BY <1>2 DEF HistoryInv, HistoryIsPast, AnsweredIsOver
    <2>. QED
      BY <1>1, <2>1
  <1>4. ~samples /\ audio \notin Recordings
    BY <1>1, <1>2 DEF SessionInv, RecordingIsFresh
  <1>5. PICK d \in {0, 1} : \A i \in DOMAIN history' :
                 \/ i + d \in DOMAIN history /\ history'[i] = history[i + d]
                 \/ i + d = Len(history) + 1 /\ history'[i] = gen
    <2>1. \E d \in {0, 1} : \A i \in DOMAIN Remember(history, gen) :
                 \/ i + d \in DOMAIN history /\ Remember(history, gen)[i] = history[i + d]
                 \/ i + d = Len(history) + 1 /\ Remember(history, gen)[i] = gen
      BY <1>1, RememberFacts, Zenon
    <2>. QED
      BY <2>1, Zenon
  <1>6. \A i \in DOMAIN history' : i \in Nat
    BY <1>1, RememberFacts
  <1>7. HistoryIsPast'
    <2>1. \A i \in DOMAIN history' : history'[i] <= gen /\ history'[i] \in Nat
      BY <1>1, <1>3, <1>5, SMT
    <2>. QED
      BY <1>1, <1>4, <2>1, SMT DEF HistoryIsPast
  <1>8. OneFinalPerCommand'
    BY <1>2, SMT DEF HistoryInv, OneFinalPerCommand, Busy, IsFinal
  <1>9. AnsweredIsOver'
    <2>1. \A s \in Slots : Busy(s) => wgen[s] # gen
      BY <1>2 DEF HistoryInv, OneFinalPerCommand
    <2>2. \A i \in DOMAIN queue' : IsFinal(queue'[i]) => queue'[i].gen # gen
      BY <1>2, SMT DEF HistoryInv, OneFinalPerCommand, IsFinal
    <2>. QED
      BY <1>2, <1>5, <2>1, <2>2, SMT DEF HistoryInv, AnsweredIsOver, Busy, IsFinal
  <1>10. HistoryInCommandOrder'
    <2>1. \A i, j \in DOMAIN history : i < j => history[i] < history[j]
      BY DEF HistoryInv, HistoryInCommandOrder
    <2>2. \A i \in DOMAIN history : i <= Len(history)
      BY <1>1
    <2>. QED
      BY <1>1, <1>3, <1>5, <1>6, <2>1, <2>2, SMT DEF HistoryInCommandOrder
  <1>. QED
    BY <1>7, <1>8, <1>9, <1>10 DEF HistoryInv

LEMMA HistoryApplies ==
    ASSUME SessionInv, HistoryInv, ApplyNext, UNCHANGED <<phase, wgen>>
    PROVE  HistoryInv'
  <1>1. CASE queue = <<>>
    BY <1>1, HistoryQuiet DEF ApplyNext, micVars
  <1>2. CASE queue # <<>>
    <2>. DEFINE r == Head(queue)
    <2>1. /\ queue' = Tail(queue) /\ ApplyAssistPipelineResult(r)
          /\ \A i \in DOMAIN queue' :
                i \in Nat /\ i + 1 \in DOMAIN queue /\ queue'[i] = queue[i + 1]
      BY <1>2, TailFacts DEF ApplyNext, SessionInv, TypeOK
    <2>. HIDE DEF r
    <2>2. CASE ApplyProgress(r) \/ ApplyError(r) \/ ApplyStale
      <3>1. UNCHANGED <<gen, history, samples, audio>>
        BY <2>2, Zenon DEF ApplyProgress, ApplyError, ApplyStale, micVars
      <3>. QED
        BY <2>1, <3>1, HistoryKept
    <2>3. CASE IsCurrent(r) /\ ApplyAnswer(r)
      <3>1. /\ UNCHANGED <<gen, samples, audio>> /\ r.gen = gen /\ IsFinal(r)
            /\ history' \in {history, Remember(history, gen)}
        BY <2>3, SMT DEF IsCurrent, ApplyAnswer, RecordAnswer, IsFinal, FinalKinds, micVars
      <3>2. CASE history' = history
        BY <2>1, <3>1, <3>2, HistoryKept
      <3>3. CASE history' = Remember(history, gen)
        BY <1>2, <2>1, <3>1, <3>3, HistoryRemembers DEF r
      <3>. QED
        BY <3>1, <3>2, <3>3
    <2>4. CASE IsCurrent(r) /\ ApplyFollowup(r)
      <3>1. /\ gen' = gen + 1 /\ r.gen = gen /\ IsFinal(r)
            /\ history' \in {history, Remember(history, gen)}
        BY <2>4, SMT DEF IsCurrent, ApplyFollowup, RecordAnswer, IsFinal, FinalKinds,
           BeginWakeCommandCapture, NextGeneration
      <3>2. CASE history' = history
        BY <2>1, <3>1, <3>2, HistoryKept
      <3>3. CASE history' = Remember(history, gen)
        BY <1>2, <2>1, <3>1, <3>3, HistoryRemembers DEF r
      <3>. QED
        BY <3>1, <3>2, <3>3
    <2>. QED
      BY <2>1, <2>2, <2>3, <2>4, Zenon DEF ApplyAssistPipelineResult
  <1>. QED
    BY <1>1, <1>2

\* A thread reports, or ends with its final result.
LEMMA HistoryThread ==
    ASSUME SessionInv, HistoryInv, NEW s \in Slots,
           PipelineProgress(s) \/ PipelineReturns(s) \/ PipelinePushesFinal(s)
    PROVE  HistoryInv'
  <1>1. UNCHANGED <<gen, history, samples, audio>>
    BY Zenon DEF PipelineProgress, PipelineReturns, PipelinePushesFinal, threadFrame, micVars
  <1>2. /\ phase \in [Slots -> Phases] /\ wgen \in [Slots -> Gens] /\ queue \in Seq(Results)
        /\ \A i \in DOMAIN queue : i \in Nat /\ i # Len(queue) + 1
    BY DEF SessionInv, TypeOK
  <1>3. HistoryIsPast' /\ HistoryInCommandOrder'
    BY <1>1 DEF HistoryInv, HistoryIsPast, HistoryInCommandOrder
  <1>4. CASE PipelineProgress(s)
    <2>1. /\ wgen' = wgen /\ \A t \in Slots : Busy(t)' => Busy(t)
      BY <1>2, <1>4, SMT DEF PipelineProgress, Busy
    <2>2. PICK k \in {"transcript", "playback"} :
             queue' = Append(queue, [gen |-> wgen[s], kind |-> k])
      BY <1>4, Zenon DEF PipelineProgress
    <2>3. [gen |-> wgen[s], kind |-> k] \in Results
      BY <1>2 DEF Results, Kinds
    <2>4. \A i \in DOMAIN queue' : IsFinal(queue'[i]) => i \in DOMAIN queue /\ queue'[i] = queue[i]
      BY <1>2, <2>2, <2>3, AppendFacts DEF IsFinal, FinalKinds
    <2>5. OneFinalPerCommand'
      BY <2>1, <2>4, SMT DEF HistoryInv, OneFinalPerCommand, IsFinal
    <2>6. AnsweredIsOver'
      BY <1>1, <2>1, <2>4, SMT DEF HistoryInv, AnsweredIsOver, IsFinal
    <2>. QED
      BY <1>3, <2>5, <2>6 DEF HistoryInv
  <1>5. CASE PipelineReturns(s)
    <2>1. /\ UNCHANGED <<wgen, queue>> /\ \A t \in Slots : Busy(t)' => Busy(t)
      BY <1>2, <1>5, SMT DEF PipelineReturns, Busy, LivePhases
    <2>2. OneFinalPerCommand'
      BY <2>1, SMT DEF HistoryInv, OneFinalPerCommand, IsFinal
    <2>3. AnsweredIsOver'
      BY <1>1, <2>1, SMT DEF HistoryInv, AnsweredIsOver, IsFinal
    <2>. QED
      BY <1>3, <2>2, <2>3 DEF HistoryInv
  <1>6. CASE PipelinePushesFinal(s)
    <2>1. /\ Busy(s)
          /\ \A t \in Slots : Busy(t)' => Busy(t) /\ t # s /\ wgen'[t] = wgen[t]
      BY <1>2, <1>6, SMT DEF PipelinePushesFinal, Busy
    <2>2. PICK k \in FinalKinds : queue' = Append(queue, [gen |-> wgen[s], kind |-> k])
      BY <1>6, Zenon DEF PipelinePushesFinal
    <2>3. [gen |-> wgen[s], kind |-> k] \in Results
      BY <1>2 DEF Results, Kinds
    <2>4. \A i \in DOMAIN queue' :
             \/ i \in DOMAIN queue /\ queue'[i] = queue[i]
             \/ i = Len(queue) + 1 /\ queue'[i].gen = wgen[s]
      BY <1>2, <2>2, <2>3, AppendFacts
    <2>5. OneFinalPerCommand'
      BY <1>2, <2>1, <2>4, SMT DEF HistoryInv, OneFinalPerCommand, IsFinal
    <2>6. AnsweredIsOver'
      BY <1>1, <2>1, <2>4, SMT DEF HistoryInv, AnsweredIsOver, IsFinal
    <2>. QED
      BY <1>3, <2>5, <2>6 DEF HistoryInv
  <1>. QED
    BY <1>4, <1>5, <1>6

LEMMA HistoryStep ==
    ASSUME SessionInv, HistoryInv, [Next]_vars
    PROVE  HistoryInv'
  <1>. USE DEF workerVars, micVars
  <1>1. CASE \/ RuntimeTimerListen \/ RuntimeTimerIdle \/ OverlayTimer \/ RestartDelayElapses
             \/ NewConversation \/ OpenSettings \/ OpenAssist \/ ToggleWakeWord \/ BackPress
             \/ BackReleaseElsewhere \/ WakeWordHeard \/ ListenerDies \/ BlankOrWake
             \/ UNCHANGED vars
    <2>1. UNCHANGED <<phase, wgen, queue, gen, samples, audio>> /\ history' \in {history, <<>>}
      BY <1>1, Zenon DEF RuntimeTimerListen, RuntimeTimerIdle, OverlayTimer, RestartDelayElapses,
         NewConversation, OpenSettings, OpenAssist, ToggleWakeWord, BackPress, BackReleaseElsewhere,
         WakeWordHeard, ListenerDies, BlankOrWake, threadFrame, vars
    <2>. QED
      BY <2>1, HistoryQuiet
  <1>2. CASE OpenMicrophone \/ BackClosesMicrophone \/ RecordingDies
    <2>1. UNCHANGED <<phase, wgen, queue, gen, samples, history>> /\ audio' \in {"off", "mic"}
      BY <1>2, Zenon DEF OpenMicrophone, BackClosesMicrophone, RecordingDies, threadFrame
    <2>. QED
      BY <2>1, HistoryQuiet DEF Recordings
  <1>3. CASE RecordSamples
    BY <1>3, HistoryQuiet DEF RecordSamples, threadFrame
  <1>4. CASE RuntimeTimerApply \/ LevelTimer
    BY <1>4, HistoryApplies DEF RuntimeTimerApply, LevelTimer
  <1>5. CASE RuntimeTimerWake
    BY <1>5, HistoryQuiet DEF RuntimeTimerWake, BeginWakeCommandCapture, NextGeneration
  <1>6. CASE PttPress
    <2>1. UNCHANGED <<phase, wgen, queue, history>>
      BY <1>6 DEF PttPress
    <2>2. gen' = gen + 1 \/ UNCHANGED <<gen, samples, audio>>
      BY <1>6, Zenon DEF PttPress, NextGeneration
    <2>. QED
      BY <2>1, <2>2, HistoryQuiet
  <1>7. CASE CancelOverlay
    BY <1>7, HistoryQuiet DEF CancelOverlay, NextGeneration
  <1>8. CASE BackClosesAssist
    <2>1. /\ gen' = gen + 1 /\ UNCHANGED <<phase, wgen, history>> /\ queue' = <<>>
      BY <1>8 DEF BackClosesAssist, NextGeneration
    <2>2. \A i \in DOMAIN queue' : i \in Nat /\ i + 0 \in DOMAIN queue /\ queue'[i] = queue[i + 0]
      BY <2>1
    <2>. QED
      BY <2>1, <2>2, HistoryKept
  <1>9. CASE RuntimeTimerFinishCapture
    <2>1. CASE samples /\ StartAssistPipeline
      BY <1>9, <2>1, HistoryStart DEF RuntimeTimerFinishCapture
    <2>2. CASE ~(samples /\ StartAssistPipeline)
      <3>1. UNCHANGED <<gen, phase, wgen, queue, history>> /\ ~samples' /\ audio' = "off"
        BY <1>9, <2>2, Zenon DEF RuntimeTimerFinishCapture
      <3>. QED
        BY <3>1, HistoryQuiet DEF Recordings
    <2>. QED
      BY <2>1, <2>2
  <1>10. CASE PttRelease
    <2>1. CASE samples /\ audio' = "off" /\ StartAssistPipeline
      BY <1>10, <2>1, HistoryStart DEF PttRelease
    <2>2. CASE ~(samples /\ audio' = "off" /\ StartAssistPipeline)
      <3>1. UNCHANGED <<gen, phase, wgen, queue, history, samples>> /\ audio' \in {"off", audio}
        BY <1>10, <2>2, Zenon DEF PttRelease
      <3>. QED
        BY <3>1, HistoryQuiet DEF Recordings
    <2>. QED
      BY <2>1, <2>2
  <1>11. ASSUME NEW s \in Slots, PipelineProgress(s) \/ PipelineReturns(s) \/ PipelinePushesFinal(s)
         PROVE  HistoryInv'
    BY <1>11, HistoryThread
  <1>. QED
    BY <1>1, <1>2, <1>3, <1>4, <1>5, <1>6, <1>7, <1>8, <1>9, <1>10, <1>11, Zenon
       DEF Next, Timers, Touches, Threads, RuntimeTimerDecide

\* assist_history lists every pipeline's answer at most once and in the order
\* of the commands, for any number of threads and any length of the history.
THEOREM HistoryOrdered == Spec => []HistoryInCommandOrder
  <1>1. Init => HistoryInv
    BY SMT DEF Init, HistoryInv, HistoryIsPast, OneFinalPerCommand, AnsweredIsOver,
       HistoryInCommandOrder, Busy
  <1>2. SessionInv /\ HistoryInv /\ [Next]_vars => HistoryInv'
    BY HistoryStep
  <1>3. HistoryInv => HistoryInCommandOrder
    BY DEF HistoryInv
  <1>. QED
    BY SessionInvariant, <1>1, <1>2, <1>3, PTL DEF Spec

-----------------------------------------------------------------------------
(* The contract of the threads.                                            *)

LEMMA ContractStep ==
    ASSUME TypeOK, [Next]_vars, NEW t \in Slots
    PROVE  [Thread(t)!Next]_(phase[t])
  <1>. USE DEF workerVars, Thread!Next
  <1>1. phase \in [Slots -> Phases]
    BY DEF TypeOK
  <1>2. CASE UNCHANGED phase
    BY <1>2
  <1>3. CASE \E s \in Slots : PipelineProgress(s)
    BY <1>1, <1>3, SMT DEF PipelineProgress, Thread!Progress
  <1>4. CASE \E s \in Slots : PipelineReturns(s)
    BY <1>1, <1>4, SMT DEF PipelineReturns, Thread!Return, Thread!LivePhases, LivePhases
  <1>5. CASE \E s \in Slots : PipelinePushesFinal(s)
    BY <1>1, <1>5, SMT DEF PipelinePushesFinal, Thread!PushFinal
  <1>6. CASE StartAssistPipeline
    BY <1>1, <1>6, SMT DEF StartAssistPipeline, Thread!Start
  <1>. QED
    BY <1>2, <1>3, <1>4, <1>5, <1>6, Zenon DEF Next, Timers, Touches, Threads, RuntimeTimerDecide,
       RuntimeTimerApply, RuntimeTimerWake, RuntimeTimerFinishCapture, RuntimeTimerListen,
       RuntimeTimerIdle, LevelTimer, OverlayTimer, RestartDelayElapses, PttPress, PttRelease,
       CancelOverlay, NewConversation, OpenSettings, OpenAssist, OpenMicrophone, ToggleWakeWord,
       BackPress, BackClosesMicrophone, BackClosesAssist, BackReleaseElsewhere, RecordSamples,
       RecordingDies, WakeWordHeard, ListenerDies, BlankOrWake, vars

\* Every pipeline thread of the session keeps the contract that PipelineProcess
\* is proved to implement.
THEOREM ContractKept == Spec => ThreadsKeepContract
  <1>1. Init => \A s \in Slots : Thread(s)!Init
    BY DEF Init, Thread!Init
  <1>2. TypeOK /\ [Next]_vars => [\A s \in Slots : [Thread(s)!Next]_(phase[s])]_vars
    BY ContractStep
  <1>. QED
    BY SessionTyped, <1>1, <1>2, PTL DEF Spec, ThreadsKeepContract

=============================================================================
