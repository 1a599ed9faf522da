--------------------------- MODULE Watchdog_proofs ---------------------------
(***************************************************************************)
(* Proofs about Watchdog for any number of scripts at work at a time.      *)
(***************************************************************************)
EXTENDS Watchdog, FiniteSetTheorems, TLAPS

-----------------------------------------------------------------------------
(* The inductive invariant.                                                *)

\* Scripts that have killed the panels and will start one.
Launchers == {j \in Jobs : job[j] \in {"haLaunch", "saveLaunch"}}

\* The watchdog has seen no panel and will start one, however many there are
\* by then.
WdLaunching == IF wd \in {"pauseAuto", "killAuto", "launch"} THEN 1 ELSE 0

\* Panels that run and panels that are about to be started.
PanelsToCome == panels + Cardinality(Launchers) + WdLaunching <= Cardinality(Jobs) + 1

IInv == TypeOK /\ PanelsToCome

-----------------------------------------------------------------------------
(* Type correctness.                                                       *)

WdPlaces == {"portal", "settings", "look", "lookAuto", "pause", "kill",
             "pauseAuto", "killAuto", "launch"}
JobPlaces == HaSwitch \cup TuyaSwitch \cup SaveScript \cup {"none", "status", "helper"}

LEMMA JobGoesToType ==
    ASSUME job \in [Jobs -> JobPlaces], NEW j, NEW next \in JobPlaces, NEW killed,
           JobGoesTo(j, next, killed)
    PROVE  job' \in [Jobs -> JobPlaces]
  BY SMT DEF JobGoesTo, JobPlaces

LEMMA JobType ==
    ASSUME TypeOK, [Next]_vars
    PROVE  job' \in [Jobs -> JobPlaces]
  <1> USE DEF JobPlaces, HaSwitch, TuyaSwitch, SaveScript
  <1>1. job \in [Jobs -> JobPlaces]
    BY DEF TypeOK
  <1>2. CASE PanelDies
    BY <1>1, <1>2, SMT DEF PanelDies
  <1>3. CASE \E j \in Jobs, next \in JobPlaces, killed \in BOOLEAN : JobGoesTo(j, next, killed)
    BY <1>1, <1>3, JobGoesToType, Zenon
  <1>4. CASE \E j \in Jobs : Request(j)
    BY <1>3, <1>4, Zenon DEF Request
  <1>5. CASE \E j \in Jobs : JobStep(j)
    BY <1>3, <1>5, Zenon DEF JobStep, HaStops, HaKills, ScriptLaunches, TuyaKills, TuyaContinues,
       TuyaStarts, SaveAnswers, SaveKills, StatusAnswers, HelperEnds
  <1>6. CASE UNCHANGED job
    BY <1>1, <1>6
  <1>7. QED
    BY <1>2, <1>4, <1>5, <1>6, Zenon DEF Next, vars, WatchdogStep, MonitorStartsGui, GuiDies,
       BinaryChanges, FactoryChanges, PortalStarts, PortalStops, PortalAutostartSwitched,
       WdServes, WdReads, WdLooks, WdPauses, WdKills, WdPausesToLaunch, WdKillsToLaunch, WdLaunches

LEMMA PanelType ==
    ASSUME TypeOK, [Next]_vars
    PROVE  panels' \in Nat /\ cause' \in {"none", "died", "missing", "mistaken"}
  <1>1. panels \in Nat /\ cause \in {"none", "died", "missing", "mistaken"}
    BY DEF TypeOK
  <1>2. CASE PanelDies
    BY <1>1, <1>2, SMT DEF PanelDies
  <1>3. CASE LaunchPanel
    BY <1>1, <1>3, SMT DEF LaunchPanel
  <1>4. CASE panels' \in {0, panels} /\ cause' \in {cause, "none", "mistaken"}
    BY <1>1, <1>4
  <1>5. CASE \E j \in Jobs : JobStep(j)
    BY <1>3, <1>4, <1>5, Zenon DEF JobStep, HaStops, HaKills, ScriptLaunches, TuyaKills,
       TuyaContinues, TuyaStarts, SaveAnswers, SaveKills, StatusAnswers, HelperEnds, KillHaPanels
  <1>6. QED
    BY <1>2, <1>3, <1>4, <1>5, Zenon DEF Next, vars, WatchdogStep, MonitorStartsGui, GuiDies,
       BinaryChanges, FactoryChanges, PortalStarts, PortalStops, PortalAutostartSwitched, Request,
       WdServes, WdReads, WdLooks, WdPauses, WdKills, WdPausesToLaunch, WdKillsToLaunch, WdLaunches

LEMMA WatchdogType ==
    ASSUME TypeOK, [Next]_vars
    PROVE  wd' \in WdPlaces
  <1>1. wd \in WdPlaces
    BY DEF TypeOK, WdPlaces
  <1>2. CASE WatchdogStep
    BY <1>1, <1>2, SMT DEF WdPlaces, WatchdogStep, WdServes, WdReads, WdLooks, WdPauses, WdKills,
       WdPausesToLaunch, WdKillsToLaunch, WdLaunches
  <1>3. CASE UNCHANGED wd
    BY <1>1, <1>3
  <1>4. QED
    BY <1>2, <1>3, Zenon DEF Next, vars, MonitorStartsGui, GuiDies, PanelDies, BinaryChanges,
       FactoryChanges, PortalStarts, PortalStops, PortalAutostartSwitched, Request, JobStep,
       HaStops, HaKills, ScriptLaunches, TuyaKills, TuyaContinues, TuyaStarts, SaveAnswers,
       SaveKills, StatusAnswers, HelperEnds

SwitchesOK ==
    /\ gui \in BOOLEAN /\ monitor \in {"run", "stopped"}
    /\ autostart \in BOOLEAN /\ webAuto \in BOOLEAN /\ httpd \in BOOLEAN
    /\ installed \in BOOLEAN /\ factory \in BOOLEAN

LEMMA SwitchesType ==
    ASSUME TypeOK, [Next]_vars
    PROVE  SwitchesOK'
  <1>1. SwitchesOK
    BY DEF TypeOK, SwitchesOK
  <1>2. CASE \E j \in Jobs : Request(j) \/ JobStep(j)
    BY <1>1, <1>2, Zenon DEF SwitchesOK, settings, Request, JobStep, HaStops, HaKills,
       ScriptLaunches, TuyaKills, TuyaContinues, TuyaStarts, SaveAnswers, SaveKills,
       StatusAnswers, HelperEnds
  <1>3. CASE WatchdogStep \/ UNCHANGED vars
    BY <1>1, <1>3, Zenon DEF SwitchesOK, settings, vars, WatchdogStep, WdServes, WdReads, WdLooks,
       WdPauses, WdKills, WdPausesToLaunch, WdKillsToLaunch, WdLaunches
  <1>4. CASE MonitorStartsGui \/ GuiDies \/ PanelDies \/ BinaryChanges \/ FactoryChanges
    BY <1>1, <1>4, Zenon DEF SwitchesOK, settings, MonitorStartsGui, GuiDies, PanelDies,
       BinaryChanges, FactoryChanges
  <1>5. CASE PortalStarts \/ PortalStops \/ PortalAutostartSwitched
    BY <1>1, <1>5, Zenon DEF SwitchesOK, settings, PortalStarts, PortalStops,
       PortalAutostartSwitched
  <1>6. QED
    BY <1>2, <1>3, <1>4, <1>5, Zenon DEF Next

LEMMA TypeStep ==
    ASSUME TypeOK, [Next]_vars
    PROVE  TypeOK'
  BY JobType, PanelType, WatchdogType, SwitchesType, Zenon
     DEF TypeOK, JobPlaces, WdPlaces, SwitchesOK

-----------------------------------------------------------------------------
(* Panels do not pile up.                                                  *)

\* The launchers are counted among the jobs.
LEMMA LauncherFacts ==
    ASSUME TypeOK
    PROVE  /\ Cardinality(Jobs) \in Nat /\ Cardinality(Launchers) \in Nat
           /\ IsFiniteSet(Launchers) /\ Cardinality(Launchers) <= Cardinality(Jobs)
           /\ WdLaunching \in {0, 1}
  <1>1. Launchers \subseteq Jobs
    BY DEF Launchers
  <1>2. QED
    BY <1>1, JobsAssumption, FS_Subset, FS_CardinalityType DEF WdLaunching

LEMMA NextLauncherFacts ==
    ASSUME TypeOK'
    PROVE  /\ Cardinality(Launchers') \in Nat
           /\ Cardinality(Launchers') <= Cardinality(Jobs)
           /\ WdLaunching' \in {0, 1}
  <1>1. Launchers' \subseteq Jobs
    BY DEF Launchers
  <1>2. QED
    BY <1>1, JobsAssumption, FS_Subset, FS_CardinalityType DEF WdLaunching

LEMMA PanelsStep ==
    ASSUME IInv, [Next]_vars
    PROVE  PanelsToCome'
  <1> USE DEF HaSwitch, TuyaSwitch, SaveScript, NamedHaPanel
  <1>1. TypeOK /\ TypeOK' /\ PanelsToCome /\ panels \in Nat /\ panels' \in Nat
    BY TypeStep DEF IInv, TypeOK
  <1>2. /\ Cardinality(Jobs) \in Nat /\ Cardinality(Launchers) \in Nat
        /\ Cardinality(Launchers') \in Nat /\ Cardinality(Launchers') <= Cardinality(Jobs)
        /\ WdLaunching \in {0, 1} /\ WdLaunching' \in {0, 1}
    BY <1>1, LauncherFacts, NextLauncherFacts
  <1>3. CASE panels' = 0
    BY <1>2, <1>3, SMT DEF PanelsToCome
  <1>4. CASE Launchers' = Launchers /\ panels' <= panels /\ WdLaunching' <= WdLaunching
    BY <1>1, <1>2, <1>4, SMT DEF PanelsToCome
  <1>5. ASSUME NEW j \in Jobs, ScriptLaunches(j)
        PROVE  PanelsToCome'
    <2>1. j \in Launchers /\ Launchers' = Launchers \ {j}
      BY <1>1, <1>5, SMT DEF TypeOK, ScriptLaunches, JobGoesTo, Launchers
    <2>2. Cardinality(Launchers') = Cardinality(Launchers) - 1
      BY <1>1, <2>1, LauncherFacts, FS_RemoveElement
    <2>3. panels' <= panels + 1 /\ WdLaunching' = WdLaunching
      BY <1>1, <1>5, SMT DEF ScriptLaunches, LaunchPanel, WdLaunching
    <2>4. QED
      BY <1>1, <1>2, <2>2, <2>3, SMT DEF PanelsToCome
  <1>6. CASE WdLaunches
    <2>1. Launchers' = Launchers /\ panels' <= panels + 1 /\ WdLaunching = 1 /\ WdLaunching' = 0
      BY <1>1, <1>6, SMT DEF WdLaunches, LaunchPanel, WdLaunching, Launchers
    <2>2. QED
      BY <1>1, <1>2, <2>1, SMT DEF PanelsToCome
  <1>7. CASE WdLooks
    <2>1. CASE HaPanelProcess
      BY <1>1, <1>4, <1>7, <2>1, SMT DEF WdLooks, WdLaunching, Launchers
    <2>2. CASE ~HaPanelProcess
      BY <1>1, <1>3, <1>7, <2>2, SMT DEF WdLooks, HaPanelProcess
    <2>3. QED
      BY <2>1, <2>2
  <1>8. CASE PanelDies
    BY <1>1, <1>4, <1>8, SMT DEF TypeOK, PanelDies, WdLaunching, Launchers
  <1>9. CASE \E j \in Jobs : HaKills(j) \/ TuyaKills(j) \/ SaveKills(j)
    BY <1>3, <1>9, Zenon DEF HaKills, TuyaKills, SaveKills, KillHaPanels
  <1>10. ASSUME NEW j \in Jobs, NEW next \in {"none", "haStop", "haKill", "tuyaKill", "tuyaCont",
                                "tuyaStart", "config", "status", "saveKill"},
                JobGoesTo(j, next, FALSE), job[j] \notin {"haLaunch", "saveLaunch"}
         PROVE  Launchers' = Launchers
    BY <1>1, <1>10, SMT DEF TypeOK, JobGoesTo, Launchers
  <1>11. CASE \E j \in Jobs : \/ Request(j) \/ HaStops(j) \/ TuyaContinues(j) \/ TuyaStarts(j)
                              \/ SaveAnswers(j) \/ StatusAnswers(j) \/ HelperEnds(j)
    <2>1. UNCHANGED <<panels, wd>>
      BY <1>11, Zenon DEF Request, HaStops, TuyaContinues, TuyaStarts, SaveAnswers, StatusAnswers,
         HelperEnds
    <2>2. \E j \in Jobs, next \in {"none", "haStop", "haKill", "tuyaKill", "tuyaCont",
                                   "tuyaStart", "config", "status", "saveKill"} :
             JobGoesTo(j, next, FALSE)
             /\ job[j] \in {"none", "haStop", "tuyaCont", "tuyaStart", "config", "status", "helper"}
      BY <1>11, Zenon DEF Request, HaStops, TuyaContinues, TuyaStarts, SaveAnswers, StatusAnswers,
         HelperEnds
    <2>3. Launchers' = Launchers
      BY <1>10, <2>2
    <2>4. QED
      BY <1>1, <1>2, <1>4, <2>1, <2>3, SMT DEF WdLaunching
  <1>12. CASE UNCHANGED <<panels, job>> /\ WatchdogStep
    BY <1>1, <1>2, <1>4, <1>7, <1>12, SMT DEF WatchdogStep, WdServes, WdReads, WdPauses, WdKills,
       WdPausesToLaunch, WdKillsToLaunch, WdLaunches, WdLaunching, Launchers
  <1>13. CASE UNCHANGED <<panels, job, wd>>
    BY <1>1, <1>2, <1>4, <1>13, SMT DEF WdLaunching, Launchers
  <1>14. QED
    BY <1>5, <1>6, <1>8, <1>9, <1>11, <1>12, <1>13, Zenon DEF Next, JobStep, WatchdogStep, vars,
       MonitorStartsGui, GuiDies, BinaryChanges, FactoryChanges, PortalStarts, PortalStops,
       PortalAutostartSwitched, WdServes, WdReads, WdLooks, WdPauses, WdKills, WdPausesToLaunch,
       WdKillsToLaunch

-----------------------------------------------------------------------------
(* The theorems.                                                           *)

LEMMA InitIInv == Init => IInv
  <1> SUFFICES ASSUME Init PROVE IInv
    OBVIOUS
  <1>1. TypeOK
    BY Zenon DEF Init, TypeOK, HaSwitch, TuyaSwitch, SaveScript
  <1>2. Launchers = {} /\ WdLaunching = 0 /\ panels = 0
    BY DEF Init, Launchers, WdLaunching
  <1>3. PanelsToCome
    BY <1>1, <1>2, LauncherFacts, FS_EmptySet, SMT DEF PanelsToCome
  <1>4. QED
    BY <1>1, <1>3 DEF IInv

\* The inductive invariant holds in every state of every behaviour.
THEOREM Invariance == Spec => []IInv
  <1>1. IInv /\ [Next]_vars => IInv'
    BY TypeStep, PanelsStep DEF IInv
  <1>2. QED
    BY InitIInv, <1>1, PTL DEF Spec

\* Every variable keeps its type.
THEOREM TypeCorrect == Spec => []TypeOK
  BY Invariance, PTL DEF IInv

\* ha_watchdog.sh, action.sh and save_config.sh: however launchers overlap, they
\* leave one panel each at most, for any number of scripts at work.
THEOREM PanelsBounded == Spec => []OnePanelPerLauncher
  <1>1. IInv => OnePanelPerLauncher
    BY LauncherFacts, SMT DEF IInv, TypeOK, PanelsToCome, OnePanelPerLauncher
  <1>2. QED
    BY Invariance, <1>1, PTL

=============================================================================
