---------------------------- MODULE ConfigStore ----------------------------
(***************************************************************************)
(* The configuration file of the panel and everyone who writes it: the     *)
(* panel application (settings screens, boot, onboarding), the CGI program *)
(* of the web portal (the same binary with --cgi-config, under a file      *)
(* lock), the portal's scripts that kill and start the application, and    *)
(* the watchdog that starts it.  killall takes the CGI programs along,     *)
(* because they have the application's name.                               *)
(*                                                                         *)
(* A configuration keeps, per section, whether the user set it; texts are  *)
(* left out.  A save opens a temporary file, writes it and renames it; it  *)
(* may fail (full disk) or be killed anywhere, and then leaves the         *)
(* temporary file behind.                                                  *)
(***************************************************************************)
EXTENDS Naturals, FiniteSets

CONSTANTS
    Panels,     \* application processes that may exist at once (bound)
    Cgis,       \* requests of the web portal in progress at once (bound)
    MaxReqs,    \* requests and edits of a run (bound)
    Nobody,     \* the lock is free
    Absent,     \* there is no file
    Partial     \* a file whose end is missing

\* ha_url and entities, ha_token, MQTT section, web_autostart, ha_autostart.
Configs  == [ha : BOOLEAN, token : BOOLEAN, mqtt : BOOLEAN, web : BOOLEAN, auto : BOOLEAN]

ASSUME StoreAssumption ==
    /\ Panels \cap Cgis = {} /\ Nobody \notin Cgis
    /\ Absent \notin Configs /\ Partial \notin Configs /\ Absent # Partial
    /\ MaxReqs \in Nat

VARIABLES
    file,     \* /tuya/data/ha_config.json
    tmp,      \* the temporary files, by the process id in their names
    mem,      \* the configuration variables of each process
    saving,   \* how far the save of each process is
    pc,       \* where each process, or the script around it, is
    req,      \* the form of each request
    lock,     \* holder of ha_config.lock
    stale,    \* requests that loaded the file before the panel replaced it
    cut,      \* requests whose httpd was killed: no one reads their answer
    missed,   \* applications that were to be restarted by such a request
    watchdog, \* ha_watchdog.sh
    reqs      \* requests and edits so far

vars == <<file, tmp, mem, saving, pc, req, lock, stale, cut, missed, watchdog, reqs>>

Procs == Panels \cup Cgis

Defaults == [ha |-> FALSE, token |-> FALSE, mqtt |-> FALSE, web |-> TRUE, auto |-> FALSE]

\* Forms of the portal: whether the token field is filled in, the switches.
Form(s, t, w, a) == [section : s, token : t, web : w, auto : a]
NoForm   == [section |-> "none", token |-> FALSE, web |-> FALSE, auto |-> FALSE]
Forms    ==
    Form({"ha"}, BOOLEAN, {FALSE}, {FALSE}) \cup Form({"system"}, {FALSE}, BOOLEAN, BOOLEAN)
    \cup Form({"disconnect", "mqtt", "invalid"}, {FALSE}, {FALSE}, {FALSE})

PanelPcs == {"off", "boot", "bad", "onboarding", "active"}
CgiPcs   == {"none", "waiting", "saving", "renamed", "kill", "stop", "launch"}
Up       == {"onboarding", "active"}
InCgi    == {"waiting", "saving", "renamed"}   \* the binary itself runs

TypeOK ==
    /\ file \in Configs \cup {Absent, Partial}
    /\ mem \in [Procs -> Configs]
    /\ tmp \in [Procs -> Configs \cup {Absent, Partial}]
    /\ saving \in [Procs -> {"no", "open", "written"}]
    /\ pc \in [Procs -> PanelPcs \cup CgiPcs]
    /\ \A p \in Panels : pc[p] \in PanelPcs /\ (saving[p] # "no" => pc[p] \in Up)
    /\ \A c \in Cgis : pc[c] \in CgiPcs /\ (saving[c] # "no" <=> pc[c] = "saving")
    /\ req \in [Cgis -> Forms \cup {NoForm}]
    /\ lock \in Cgis \cup {Nobody} /\ stale \subseteq Cgis
    /\ cut \subseteq Cgis /\ missed \subseteq Panels
    /\ watchdog \in {"idle", "launch"}
    /\ reqs \in 0 .. MaxReqs

\* The panel starts with a configuration or without.
Init ==
    /\ file \in {Absent, [Defaults EXCEPT !.ha = TRUE, !.token = TRUE]}
    /\ tmp = [q \in Procs |-> Absent]
    /\ mem = [q \in Procs |-> Defaults] /\ saving = [q \in Procs |-> "no"]
    /\ \E p \in Panels : pc = [q \in Procs |-> IF q \in Cgis THEN "none"
                                               ELSE IF q = p THEN "boot" ELSE "off"]
    /\ req = [c \in Cgis |-> NoForm]
    /\ lock = Nobody /\ stale = {} /\ cut = {} /\ missed = {}
    /\ watchdog = "idle" /\ reqs = 0

-----------------------------------------------------------------------------
(* load_configuration and save_configuration.                              *)

\* load_configuration returns whether address and token are there.
Usable(cfg) == cfg.ha /\ cfg.token

\* Variant: the process id is not part of the temporary file's name.
TmpShared(q) == CHOOSE r \in Procs : TRUE

\* ha_config.json.tmp.<pid>
Tmp(q) == q

SaveOpens(q) ==
    /\ saving' = [saving EXCEPT ![q] = "open"] /\ tmp' = [tmp EXCEPT ![Tmp(q)] = Partial]
    /\ UNCHANGED file

\* The stream is closed without an error: everything is in the file.
SaveWrites(q) ==
    /\ saving[q] = "open" /\ saving' = [saving EXCEPT ![q] = "written"]
    /\ tmp' = [tmp EXCEPT ![Tmp(q)] = mem[q]]
    /\ UNCHANGED <<file, mem, pc, req, lock, stale, cut, missed, watchdog, reqs>>

SaveRenames(q) ==
    /\ saving[q] = "written" /\ saving' = [saving EXCEPT ![q] = "no"]
    /\ tmp[Tmp(q)] # Absent /\ file' = tmp[Tmp(q)] /\ tmp' = [tmp EXCEPT ![Tmp(q)] = Absent]

\* An error of the stream or of the rename: the temporary file is removed.
SaveFails(q) ==
    /\ saving[q] # "no" /\ saving' = [saving EXCEPT ![q] = "no"]
    /\ tmp' = [tmp EXCEPT ![Tmp(q)] = Absent]
    /\ UNCHANGED file

-----------------------------------------------------------------------------
(* cgi_config_main and save_config.sh.                                     *)

\* What a form makes of the configuration.
Update(cfg, form) ==
    CASE form.section = "ha"         -> [cfg EXCEPT !.ha = TRUE, !.token = @ \/ form.token]
      [] form.section = "disconnect" -> [cfg EXCEPT !.ha = FALSE, !.token = FALSE]
      [] form.section = "mqtt"       -> [cfg EXCEPT !.mqtt = TRUE]
      [] form.section = "system"     -> [cfg EXCEPT !.web = form.web, !.auto = form.auto]

\* Errors are answered without a save.
Rejected(cfg, form) ==
    \/ form.section = "invalid"
    \/ form.section = "ha" /\ ~form.token /\ ~cfg.token

Loaded == IF file = Absent THEN Defaults ELSE file

CgiReceives(c) ==
    /\ pc[c] = "none" /\ reqs < MaxReqs
    /\ reqs' = reqs + 1
    /\ \E f \in Forms : req' = [req EXCEPT ![c] = f]
    /\ pc' = [pc EXCEPT ![c] = "waiting"]
    /\ UNCHANGED <<file, tmp, mem, saving, lock, stale, cut, missed, watchdog>>

\* Variant: the lock is not waited for.
CgiLoadsUnlocked(c) ==
    /\ pc[c] = "waiting" /\ file # Partial
    /\ ~Rejected(Loaded, req[c])
    /\ lock' = c
    /\ mem' = [mem EXCEPT ![c] = Update(Loaded, req[c])]
    /\ SaveOpens(c)
    /\ stale' = stale \ {c}
    /\ pc' = [pc EXCEPT ![c] = "saving"]
    /\ UNCHANGED <<req, cut, missed, watchdog, reqs>>

\* flock, load_configuration, the section's changes, the save begins.
CgiLoads(c) ==
    /\ pc[c] = "waiting" /\ lock = Nobody
    /\ ~Rejected(Loaded, req[c])
    /\ lock' = c
    /\ mem' = [mem EXCEPT ![c] = Update(Loaded, req[c])]
    /\ SaveOpens(c)
    /\ stale' = stale \ {c}
    /\ pc' = [pc EXCEPT ![c] = "saving"]
    /\ UNCHANGED <<req, cut, missed, watchdog, reqs>>

\* A request ends without success; the script does nothing more.
CgiEnds(c) ==
    /\ pc' = [pc EXCEPT ![c] = "none"]
    /\ mem' = [mem EXCEPT ![c] = Defaults]
    /\ req' = [req EXCEPT ![c] = NoForm]
    /\ cut' = cut \ {c}

CgiRejects(c) ==
    /\ pc[c] = "waiting" /\ lock = Nobody
    /\ Rejected(Loaded, req[c])
    /\ CgiEnds(c)
    /\ UNCHANGED <<file, tmp, saving, lock, stale, missed, watchdog, reqs>>

CgiSaves(c) ==
    /\ pc[c] = "saving" /\ SaveRenames(c)
    /\ pc' = [pc EXCEPT ![c] = "renamed"]
    /\ UNCHANGED <<mem, req, lock, stale, cut, missed, watchdog, reqs>>

CgiFails(c) ==
    /\ pc[c] = "saving" /\ SaveFails(c)
    /\ lock' = Nobody
    /\ CgiEnds(c)
    /\ UNCHANGED <<stale, missed, watchdog, reqs>>

\* Variant: the script does not restart the application.
CgiAnswersOnly(c) ==
    /\ pc[c] = "renamed" /\ lock' = Nobody
    /\ CgiEnds(c)
    /\ UNCHANGED <<file, tmp, saving, stale, missed, watchdog, reqs>>

\* The lock is released and success answered; the script will restart the
\* application in a second.
CgiAnswers(c) ==
    /\ pc[c] = "renamed" /\ lock' = Nobody
    /\ pc' = [pc EXCEPT ![c] = "kill"]
    /\ mem' = [mem EXCEPT ![c] = Defaults]
    /\ req' = [req EXCEPT ![c] = NoForm] /\ cut' = cut \ {c}
    /\ UNCHANGED <<file, tmp, saving, stale, missed, watchdog, reqs>>

\* Or the script dies of SIGPIPE when it answers a killed httpd: no restart.
CgiAnswersNobody(c) ==
    /\ pc[c] = "renamed" /\ c \in cut /\ lock' = Nobody
    /\ CgiEnds(c)
    /\ missed' = {p \in Panels : pc[p] # "off"}
    /\ UNCHANGED <<file, tmp, saving, stale, watchdog, reqs>>

\* action.sh: restart_app, start_tuya.
ActionRequested(c) ==
    /\ pc[c] = "none" /\ reqs < MaxReqs
    /\ reqs' = reqs + 1
    /\ \E s \in {"kill", "stop"} : pc' = [pc EXCEPT ![c] = s]
    /\ UNCHANGED <<file, tmp, mem, saving, req, lock, stale, cut, missed, watchdog>>

\* killall -9 ha_panel: applications and CGI programs die, scripts go on.
\* The temporary files of the dead are never read, whole or not.
ScriptKills(c) ==
    /\ pc[c] \in {"kill", "stop"}
    /\ pc' = [q \in Procs |->
                IF q = c THEN IF pc[c] = "kill" THEN "launch" ELSE "none"
                ELSE IF q \in Panels THEN "off"
                ELSE IF pc[q] \in InCgi THEN "none" ELSE pc[q]]
    /\ mem' = [q \in Procs |-> Defaults]
    /\ req' = [d \in Cgis |-> NoForm]
    /\ saving' = [q \in Procs |-> "no"] /\ lock' = Nobody
    /\ tmp' = [q \in Procs |-> IF tmp[q] = Absent THEN Absent ELSE Partial]
    /\ cut' = {} /\ missed' = {}
    /\ UNCHANGED <<file, stale, watchdog, reqs>>

Launched(p) == pc[p] = "off" /\ mem[p] = Defaults

ScriptLaunches(c) ==
    /\ pc[c] = "launch"
    /\ \E p \in Panels : Launched(p) /\ pc' = [pc EXCEPT ![c] = "none", ![p] = "boot"]
    /\ UNCHANGED <<file, tmp, mem, saving, req, lock, stale, cut, missed, watchdog, reqs>>

-----------------------------------------------------------------------------
(* The application.                                                        *)

\* main: no file means onboarding; a file that cannot be used is bad.
BootLoads(p) ==
    /\ pc[p] = "boot"
    /\ mem' = [mem EXCEPT ![p] = Loaded]
    /\ pc' = [pc EXCEPT ![p] = IF file = Absent THEN "onboarding"
                               ELSE IF Usable(file) THEN "active" ELSE "bad"]
    /\ missed' = missed \ {p}
    /\ UNCHANGED <<file, tmp, saving, req, lock, stale, cut, watchdog, reqs>>

\* The application replaced the file: requests in progress do not know.
OverwrittenUnder == stale' = {c \in Cgis : pc[c] = "saving"}

\* Variant: the application is executed again, but the bad file is kept.
BootRetries(p) ==
    /\ pc[p] = "bad"
    /\ pc' = [pc EXCEPT ![p] = "boot"]
    /\ mem' = [mem EXCEPT ![p] = Defaults]
    /\ UNCHANGED <<file, tmp, saving, req, lock, stale, cut, missed, watchdog, reqs>>

\* main: a bad file is deleted and the application executed again.
BootDeletes(p) ==
    /\ pc[p] = "bad"
    /\ file' = Absent /\ OverwrittenUnder
    /\ pc' = [pc EXCEPT ![p] = "boot"]
    /\ mem' = [mem EXCEPT ![p] = Defaults]
    /\ UNCHANGED <<tmp, saving, req, lock, cut, missed, watchdog, reqs>>

\* killall -9 httpd: requests in progress run on, but their answers are lost.
HttpdKilled == cut' = cut \cup {c \in Cgis : pc[c] \in InCgi}

\* config_poll_timer.
OnboardingPolls(p) ==
    /\ pc[p] = "onboarding" /\ saving[p] = "no" /\ file # Absent
    /\ mem' = [mem EXCEPT ![p] = file]
    /\ \/ Usable(file) /\ pc' = [pc EXCEPT ![p] = "active"] /\ HttpdKilled
       \/ ~Usable(file) /\ UNCHANGED <<pc, cut>>
    /\ UNCHANGED <<file, tmp, saving, req, lock, stale, missed, watchdog, reqs>>

\* web_portal_manual_sw_cb, web_portal_execute_restart_cb.
PanelStopsServer(p) ==
    /\ pc[p] \in Up /\ saving[p] = "no" /\ HttpdKilled
    /\ UNCHANGED <<file, tmp, mem, saving, pc, req, lock, stale, missed, watchdog, reqs>>

\* save_mqtt_btn_cb and web_portal_autostart_sw_cb: the save begins, unlocked.
PanelEdits(p) ==
    /\ pc[p] \in Up /\ saving[p] = "no" /\ reqs < MaxReqs
    /\ reqs' = reqs + 1
    /\ \/ mem' = [mem EXCEPT ![p].mqtt = TRUE]
       \/ mem' = [mem EXCEPT ![p].web = ~@]
    /\ SaveOpens(p)
    /\ UNCHANGED <<pc, req, lock, stale, cut, missed, watchdog>>

PanelSaves(p) ==
    /\ \/ SaveRenames(p) /\ OverwrittenUnder
       \/ SaveFails(p) /\ UNCHANGED stale
    /\ UNCHANGED <<mem, pc, req, lock, cut, missed, watchdog, reqs>>

-----------------------------------------------------------------------------
(* ha_watchdog.sh: a missing application is started when ha_autostart, true *)
(* by default here, says so.                                               *)

NoPanelProcess == \A q \in Procs : pc[q] \notin (PanelPcs \ {"off"}) \cup InCgi

WatchdogChecks ==
    /\ watchdog = "idle" /\ watchdog' = "launch"
    /\ NoPanelProcess
    /\ file \in Configs => file.auto
    /\ UNCHANGED <<file, tmp, mem, saving, pc, req, lock, stale, cut, missed, reqs>>

WatchdogLaunches ==
    /\ watchdog = "launch" /\ watchdog' = "idle"
    /\ \E p \in Panels : Launched(p) /\ pc' = [pc EXCEPT ![p] = "boot"]
    /\ UNCHANGED <<file, tmp, mem, saving, req, lock, stale, cut, missed, reqs>>

-----------------------------------------------------------------------------
Cgi(c) ==
    \/ CgiReceives(c) \/ CgiLoads(c) \/ CgiRejects(c) \/ CgiSaves(c) \/ CgiFails(c)
    \/ CgiAnswers(c) \/ CgiAnswersNobody(c) \/ ActionRequested(c) \/ ScriptKills(c) \/ ScriptLaunches(c)

Panel(p) ==
    \/ BootLoads(p) \/ BootDeletes(p) \/ OnboardingPolls(p)
    \/ PanelStopsServer(p) \/ PanelEdits(p) \/ PanelSaves(p)

Next ==
    \/ \E c \in Cgis : Cgi(c)
    \/ \E p \in Panels : Panel(p)
    \/ \E q \in Procs : SaveWrites(q)
    \/ WatchdogChecks \/ WatchdogLaunches

Spec == Init /\ [][Next]_vars

-----------------------------------------------------------------------------
(* Safety.                                                                 *)

\* Whoever opens the file finds a whole configuration, although the panel
\* saves without the lock, at the same time as a request, and saves die or
\* fail between any two of their steps and leave parts of files behind.
FileIsWhole == file # Partial

\* Requests do not overwrite each other: what a request is about to save is
\* its change of the file as it is now, unless the application, which does not
\* take the lock, replaced the file in between.
RequestsCompose ==
    \A c \in Cgis \ stale : pc[c] = "saving" => mem[c] = Update(Loaded, req[c])

Quiet ==
    /\ saving = [q \in Procs |-> "no"] /\ watchdog = "idle"
    /\ \A q \in Procs : pc[q] \in {"none", "off"} \cup Up

\* Once saves and restarts are over, the application works with what the
\* portal saved, even when requests, restarts, deletions and saves of the
\* panel overlapped or were killed: every change of the file by someone else
\* is followed by a restart, unless the panel stopped the web server under
\* the request.  (With two applications alive it fails.)
SavedIsApplied ==
    Quiet => \A p \in Panels \ missed :
        /\ pc[p] \in Up /\ \A q \in Panels \ {p} : pc[q] = "off"
        /\ file # Absent
        => mem[p].ha = file.ha /\ mem[p].token = file.token /\ mem[p].auto = file.auto

-----------------------------------------------------------------------------
(* Liveness.  Scripts end and the application boots.                       *)

Fairness ==
    /\ \A c \in Cgis : WF_vars(ScriptKills(c)) /\ WF_vars(ScriptLaunches(c))
    /\ \A p \in Panels : WF_vars(BootLoads(p)) /\ WF_vars(BootDeletes(p))

FairSpec == Spec /\ Fairness

\* Saving on the portal never leaves the wall dark: once its restart has
\* killed the application, one gets past its boot, although other restarts
\* may kill it again and the saved file may be one that the boot deletes,
\* unless the user asks for the stock firmware.
RestartComesUp ==
    \A c \in Cgis :
        pc[c] = "launch" ~> \/ \E p \in Panels : pc[p] \in Up
                            \/ \E d \in Cgis : pc[d] = "stop"

=============================================================================
