------------------------------ MODULE Watchdog ------------------------------
(***************************************************************************)
(* Who has the screen: ha_watchdog.sh, the portal's scripts action.sh and  *)
(* save_config.sh, the panel and the stock firmware's GUI (voice_control)  *)
(* with its supervisor (the OEM tuya_monitor.sh), all started and killed   *)
(* by name.                                                                *)
(*                                                                         *)
(* Abstractions.  A command of a script is a step; time is left out, so a  *)
(* sleep is a step that takes as long as it likes.  A restart of the       *)
(* device is an initial state: only the settings and the binary survive    *)
(* it, and Init lets them be anything.                                     *)
(***************************************************************************)
EXTENDS Naturals, FiniteSets

CONSTANT Jobs     \* requests served at a time, and helpers left behind (bound)

ASSUME JobsAssumption == IsFiniteSet(Jobs)

VARIABLES
    panels,       \* panels that run
    gui,          \* voice_control or voice_control_safe_mode runs
    monitor,      \* the OEM supervisor, which killall -STOP stops
    autostart,    \* ha_autostart of the configuration file
    webAuto,      \* web_autostart of it
    httpd,        \* the portal's server runs
    installed,    \* /tuya/data/ha_panel can be executed
    factory,      \* voice_control_factory runs, or its flag is there
    wd,           \* where ha_watchdog.sh is
    job,          \* where each script is
    cause         \* history: why there may be no panel

vars == <<panels, gui, monitor, autostart, webAuto, httpd, installed, factory, wd, job, cause>>

settings == <<autostart, webAuto, httpd, installed, factory>>

\* Jobs in these places are processes called ha_panel.
NamedHaPanel == {"config", "status", "helper"}

HaSwitch   == {"haStop", "haKill", "haLaunch"}
TuyaSwitch == {"tuyaKill", "tuyaCont", "tuyaStart"}
SaveScript == {"config", "saveKill", "saveLaunch"}

TypeOK ==
    /\ panels \in Nat /\ gui \in BOOLEAN /\ monitor \in {"run", "stopped"}
    /\ autostart \in BOOLEAN /\ webAuto \in BOOLEAN /\ httpd \in BOOLEAN
    /\ installed \in BOOLEAN /\ factory \in BOOLEAN
    /\ wd \in {"portal", "settings", "look", "lookAuto", "pause", "kill",
               "pauseAuto", "killAuto", "launch"}
    /\ job \in [Jobs -> HaSwitch \cup TuyaSwitch \cup SaveScript \cup {"none", "status", "helper"}]
    /\ cause \in {"none", "died", "missing", "mistaken"}

Init ==
    /\ panels = 0 /\ gui = FALSE /\ monitor = "run"
    /\ autostart \in BOOLEAN /\ webAuto \in BOOLEAN /\ installed \in BOOLEAN
    /\ httpd = FALSE /\ factory = FALSE /\ wd = "portal"
    /\ job = [j \in Jobs |-> "none"] /\ cause = "none"

-----------------------------------------------------------------------------
(* Processes by name.                                                      *)

\* pidof ha_panel
HaPanelProcess == panels > 0 \/ \E j \in Jobs : job[j] \in NamedHaPanel

\* killall -9 ha_panel, as far as it hits panels.
KillHaPanels == panels' = 0

\* job j goes on to its next command; with killed, killall -9 ha_panel has
\* also ended the jobs of that name.
JobGoesTo(j, next, killed) ==
    job' = [i \in Jobs |-> CASE i = j                               -> next
                             [] i # j /\ killed /\ job[i] \in NamedHaPanel -> "none"
                             [] OTHER                               -> job[i]]

\* The binary is executed, if there is one.
LaunchPanel ==
    /\ panels' = IF installed THEN panels + 1 ELSE panels
    /\ cause' = CASE installed -> "none" [] ~installed /\ panels = 0 -> "missing"
                  [] OTHER -> cause

-----------------------------------------------------------------------------
(* The stock firmware, the panel and the file system.                      *)

MonitorStartsGui ==
    /\ monitor = "run" /\ ~gui /\ gui' = TRUE
    /\ UNCHANGED <<panels, monitor, settings, wd, job, cause>>

GuiDies ==
    /\ gui /\ gui' = FALSE
    /\ UNCHANGED <<panels, monitor, settings, wd, job, cause>>

\* The panel ends; its Assist helper, called ha_panel too, may outlive it.
PanelDies ==
    /\ panels > 0 /\ panels' = panels - 1
    /\ cause' = IF panels = 1 THEN "died" ELSE cause
    /\ \/ UNCHANGED job
       \/ \E j \in Jobs : job[j] = "none" /\ job' = [job EXCEPT ![j] = "helper"]
    /\ UNCHANGED <<gui, monitor, settings, wd>>

\* assist_pipeline_child_main's alarm at the latest.
HelperEnds(j) ==
    /\ job[j] = "helper" /\ JobGoesTo(j, "none", FALSE)
    /\ UNCHANGED <<panels, gui, monitor, settings, wd, cause>>

\* An update replaces the binary, or loses it.
BinaryChanges ==
    /\ installed' = ~installed
    /\ UNCHANGED <<panels, gui, monitor, autostart, webAuto, httpd, factory, wd, job, cause>>

FactoryChanges ==
    /\ factory' = ~factory
    /\ UNCHANGED <<panels, gui, monitor, autostart, webAuto, httpd, installed, wd, job, cause>>

\* The portal's screen on the panel, or the start of a panel.
PortalStarts ==
    /\ panels > 0 /\ ~httpd /\ httpd' = TRUE
    /\ UNCHANGED <<panels, gui, monitor, autostart, webAuto, installed, factory, wd, job, cause>>

\* The same screen, or the end of the onboarding.
PortalStops ==
    /\ panels > 0 /\ httpd /\ httpd' = FALSE
    /\ UNCHANGED <<panels, gui, monitor, autostart, webAuto, installed, factory, wd, job, cause>>

PortalAutostartSwitched ==
    /\ panels > 0 /\ webAuto' = ~webAuto
    /\ UNCHANGED <<panels, gui, monitor, autostart, httpd, installed, factory, wd, job, cause>>

-----------------------------------------------------------------------------
(* The portal's scripts.                                                   *)

\* A request is served.
Request(j) ==
    /\ httpd /\ job[j] = "none"
    /\ \/ JobGoesTo(j, "haStop", FALSE) \/ JobGoesTo(j, "tuyaKill", FALSE)
       \/ installed /\ JobGoesTo(j, "config", FALSE)
       \/ installed /\ JobGoesTo(j, "status", FALSE)
    /\ UNCHANGED <<panels, gui, monitor, settings, wd, cause>>

\* start_ha and restart_app.
HaStops(j) ==
    /\ job[j] = "haStop" /\ JobGoesTo(j, "haKill", FALSE)
    /\ monitor' = "stopped"
    /\ UNCHANGED <<panels, gui, settings, wd, cause>>

HaKills(j) ==
    /\ job[j] = "haKill" /\ JobGoesTo(j, "haLaunch", TRUE)
    /\ gui' = FALSE /\ KillHaPanels
    /\ UNCHANGED <<monitor, settings, wd, cause>>

\* The last command of start_ha and of a save.
ScriptLaunches(j) ==
    /\ job[j] \in {"haLaunch", "saveLaunch"} /\ JobGoesTo(j, "none", FALSE)
    /\ LaunchPanel
    /\ UNCHANGED <<gui, monitor, settings, wd>>

\* start_tuya.
TuyaKills(j) ==
    /\ job[j] = "tuyaKill" /\ JobGoesTo(j, "tuyaCont", TRUE)
    /\ KillHaPanels
    /\ UNCHANGED <<gui, monitor, settings, wd, cause>>

\* Variant: the supervisor is not continued.
TuyaLeavesMonitor(j) ==
    /\ job[j] = "tuyaCont" /\ JobGoesTo(j, "tuyaStart", FALSE)
    /\ cause' = "none"
    /\ UNCHANGED <<panels, gui, monitor, settings, wd>>

TuyaContinues(j) ==
    /\ job[j] = "tuyaCont" /\ JobGoesTo(j, "tuyaStart", FALSE)
    /\ monitor' = "run" /\ cause' = "none"
    /\ UNCHANGED <<panels, gui, settings, wd>>

\* Without a GUI, one more supervisor.
TuyaStarts(j) ==
    /\ job[j] = "tuyaStart" /\ JobGoesTo(j, "none", FALSE)
    /\ IF gui THEN UNCHANGED <<monitor, cause>> ELSE monitor' = "run" /\ cause' = "none"
    /\ UNCHANGED <<panels, gui, settings, wd>>

\* ha_panel --cgi-config ends: the system section may have been saved.
SaveAnswers(j) ==
    /\ job[j] = "config"
    /\ \/ /\ JobGoesTo(j, "saveKill", FALSE)
          /\ autostart' \in BOOLEAN /\ webAuto' \in BOOLEAN
       \/ JobGoesTo(j, "none", FALSE) /\ UNCHANGED <<autostart, webAuto>>
    /\ UNCHANGED <<panels, gui, monitor, httpd, installed, factory, wd, cause>>

\* Variant: the running panel is not killed first.
SaveSparesPanel(j) ==
    /\ job[j] = "saveKill" /\ JobGoesTo(j, "saveLaunch", FALSE)
    /\ UNCHANGED <<panels, gui, monitor, settings, wd, cause>>

SaveKills(j) ==
    /\ job[j] = "saveKill" /\ JobGoesTo(j, "saveLaunch", TRUE)
    /\ KillHaPanels
    /\ UNCHANGED <<gui, monitor, settings, wd, cause>>

\* ha_panel --cgi-status ends.
StatusAnswers(j) ==
    /\ job[j] = "status" /\ JobGoesTo(j, "none", FALSE)
    /\ UNCHANGED <<panels, gui, monitor, settings, wd, cause>>

-----------------------------------------------------------------------------
(* ha_watchdog.sh.                                                         *)

WdServes ==
    /\ wd = "portal" /\ wd' = "settings"
    /\ httpd' = (httpd \/ webAuto)
    /\ UNCHANGED <<panels, gui, monitor, autostart, webAuto, installed, factory, job, cause>>

\* HA_AUTOSTART and FACTORY_ACTIVE.
WdReads ==
    /\ wd = "settings"
    /\ wd' = CASE factory               -> "portal"
               [] ~factory /\ autostart -> "lookAuto"
               [] OTHER                 -> "look"
    /\ UNCHANGED <<panels, gui, monitor, settings, job, cause>>

\* Variant: a panel is started only in the place of a GUI.
WdLooksForGui ==
    /\ wd \in {"look", "lookAuto"}
    /\ wd' = CASE HaPanelProcess                           -> "pause"
               [] ~HaPanelProcess /\ wd = "lookAuto" /\ gui -> "pauseAuto"
               [] OTHER                                    -> "portal"
    /\ UNCHANGED <<panels, gui, monitor, settings, job, cause>>

WdLooks ==
    /\ wd \in {"look", "lookAuto"}
    /\ wd' = CASE HaPanelProcess                     -> "pause"
               [] ~HaPanelProcess /\ wd = "lookAuto" -> "pauseAuto"
               [] OTHER                              -> "portal"
    /\ UNCHANGED <<panels, gui, monitor, settings, job, cause>>

\* Variant: a running panel does not pause the supervisor.
WdDoesNotPause ==
    /\ wd = "pause" /\ wd' = "kill"
    /\ UNCHANGED <<panels, gui, monitor, settings, job, cause>>

\* A panel was seen; by now there may be none.
WdPauses ==
    /\ wd = "pause" /\ wd' = "kill"
    /\ monitor' = "stopped"
    /\ cause' = IF panels = 0 THEN "mistaken" ELSE cause
    /\ UNCHANGED <<panels, gui, settings, job>>

WdKills ==
    /\ wd = "kill" /\ wd' = "portal"
    /\ gui' = FALSE
    /\ UNCHANGED <<panels, monitor, settings, job, cause>>

\* None was seen, and one is to be started.
WdPausesToLaunch ==
    /\ wd = "pauseAuto" /\ wd' = "killAuto"
    /\ monitor' = "stopped"
    /\ UNCHANGED <<panels, gui, settings, job, cause>>

WdKillsToLaunch ==
    /\ wd = "killAuto" /\ wd' = "launch"
    /\ gui' = FALSE
    /\ UNCHANGED <<panels, monitor, settings, job, cause>>

WdLaunches ==
    /\ wd = "launch" /\ wd' = "portal"
    /\ LaunchPanel
    /\ UNCHANGED <<gui, monitor, settings, job>>

-----------------------------------------------------------------------------
WatchdogStep ==
    \/ WdServes \/ WdReads \/ WdLooks \/ WdPauses \/ WdKills
    \/ WdPausesToLaunch \/ WdKillsToLaunch \/ WdLaunches

JobStep(j) ==
    \/ HaStops(j) \/ HaKills(j) \/ ScriptLaunches(j)
    \/ TuyaKills(j) \/ TuyaContinues(j) \/ TuyaStarts(j)
    \/ SaveAnswers(j) \/ SaveKills(j) \/ StatusAnswers(j) \/ HelperEnds(j)

Next ==
    \/ MonitorStartsGui \/ GuiDies \/ PanelDies \/ BinaryChanges \/ FactoryChanges
    \/ PortalStarts \/ PortalStops \/ PortalAutostartSwitched
    \/ WatchdogStep
    \/ \E j \in Jobs : Request(j) \/ JobStep(j)

Spec == Init /\ [][Next]_vars

-----------------------------------------------------------------------------
(* Safety.                                                                 *)

\* Panels drawing on the same frame buffer do not pile up: launchers that
\* overlap (ha_watchdog.sh:91, action.sh:37, save_config.sh:9) leave one each,
\* since every script kills the panels of all the others first.
OnePanelPerLauncher == panels <= Cardinality(Jobs) + 1

-----------------------------------------------------------------------------
(* Liveness.  The watchdog, the scripts and the OEM supervisor run, and a  *)
(* CGI program ends.                                                       *)

Fairness ==
    /\ WF_vars(WatchdogStep) /\ WF_vars(MonitorStartsGui)
    /\ \A j \in Jobs : WF_vars(JobStep(j))

FairSpec == Spec /\ Fairness

CgiRuns == \E j \in Jobs : job[j] \in {"config", "status"}
NoJobs  == \A j \in Jobs : job[j] = "none"

\* "The watchdog keeps HA Panel on screen": with ha_autostart on and no CGI
\* program taken for a panel (ha_watchdog.sh:80), a panel comes back however
\* often it dies, is killed, or leaves a helper behind.
PanelComesBack ==
    <>[](autostart /\ installed /\ ~factory /\ ~CgiRuns) => []<>(panels > 0)

\* Two applications never share the screen for good: once the scripts rest,
\* the watchdog pauses the supervisor and kills the GUI beside a panel.
ScreenSettles == <>[](~factory /\ NoJobs) => <>[]~(gui /\ panels > 0)

\* Why a screen may stay dark, neither a panel nor the GUI on it: the factory
\* mode is on, the binary is missing, CGI programs run again and again (the
\* watchdog takes each for a panel), or ha_autostart is off and the last panel
\* died, could not be executed, or was not one (the watchdog paused the
\* supervisor for a CGI program, a helper, or a panel already killed).  There
\* is no other reason.
DarkIsExplained ==
    []<>(panels > 0 \/ gui \/ factory \/ ~installed \/ CgiRuns
         \/ (~autostart /\ cause # "none"))

=============================================================================
