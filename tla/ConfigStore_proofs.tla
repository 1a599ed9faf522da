------------------------- MODULE ConfigStore_proofs -------------------------
(***************************************************************************)
(* Proofs about ConfigStore for any number of applications, requests of    *)
(* the portal and edits.                                                   *)
(***************************************************************************)
EXTENDS ConfigStore, TLAPS

-----------------------------------------------------------------------------
(* The inductive invariant.                                                *)

\* A program that waits for the lock has its form.
WaitersHaveForms == \A c \in Cgis : pc[c] = "waiting" => req[c] \in Forms

\* A program that loaded the file holds the lock until it has answered.
LockIsHeld == \A c \in Cgis : pc[c] \in {"saving", "renamed"} => lock = c

\* A temporary file that is about to be renamed holds its writer's
\* configuration, because no one else writes under its name.
WrittenIsWhole == \A q \in Procs : saving[q] = "written" => tmp[q] = mem[q]

\* p is the only application.
Alone(p) == pc[p] \in Up /\ \A q \in Panels \ {p} : pc[q] = "off"

\* A request has replaced the file, and its restart of the application is
\* still to come.
RestartIsDue == \E c \in Cgis : pc[c] \in {"renamed", "kill"}

SameSettings(a, b) == a.ha = b.ha /\ a.token = b.token /\ a.auto = b.auto

\* Only a due or a lost restart excuses an application that works with other
\* settings than those in the file.
AloneIsCurrent ==
    \A p \in Panels \ missed : Alone(p) /\ file # Absent /\ ~RestartIsDue => SameSettings(mem[p], file)

IInv ==
    /\ TypeOK /\ FileIsWhole /\ WrittenIsWhole /\ WaitersHaveForms /\ LockIsHeld
    /\ RequestsCompose /\ AloneIsCurrent

-----------------------------------------------------------------------------
(* Facts about the operators.                                              *)

LEMMA DefaultsType == Defaults \in Configs
  BY DEF Defaults, Configs

LEMMA FormFacts ==
    ASSUME NEW f \in Forms
    PROVE  /\ f.section \in {"ha", "disconnect", "mqtt", "system", "invalid"}
           /\ f.token \in BOOLEAN /\ f.web \in BOOLEAN /\ f.auto \in BOOLEAN
  BY DEF Forms, Form

\* A form that is not rejected makes a configuration of a configuration.
LEMMA UpdateType ==
    ASSUME NEW cfg \in Configs, NEW f \in Forms, ~Rejected(cfg, f)
    PROVE  Update(cfg, f) \in Configs
  <1>1. f.section \in {"ha", "disconnect", "mqtt", "system"}
    BY FormFacts DEF Rejected
  <1>2. CASE f.section = "ha"
    BY <1>2, FormFacts DEF Update, Configs
  <1>3. CASE f.section = "disconnect"
    BY <1>3, FormFacts DEF Update, Configs
  <1>4. CASE f.section = "mqtt"
    BY <1>4, FormFacts DEF Update, Configs
  <1>5. CASE f.section = "system"
    BY <1>5, FormFacts DEF Update, Configs
  <1>6. QED
    BY <1>1, <1>2, <1>3, <1>4, <1>5

LEMMA LoadedType ==
    ASSUME TypeOK, FileIsWhole
    PROVE  Loaded \in Configs
  BY DefaultsType DEF TypeOK, FileIsWhole, Loaded

-----------------------------------------------------------------------------
(* Type correctness.                                                       *)

\* A rename puts the configuration of the process that saves in place.
LEMMA RenameInstalls ==
    ASSUME IInv, NEW q \in Procs, SaveRenames(q)
    PROVE  file' = mem[q] /\ mem[q] \in Configs
  BY DEF IInv, TypeOK, WrittenIsWhole, SaveRenames, Tmp

LEMMA FileType ==
    ASSUME IInv, [Next]_vars
    PROVE  file' \in Configs \cup {Absent}
  <1>1. file \in Configs \cup {Absent}
    BY DEF IInv, TypeOK, FileIsWhole
  <1>2. CASE \E c \in Cgis : CgiSaves(c)
    BY <1>2, RenameInstalls DEF CgiSaves, Procs
  <1>3. CASE \E p \in Panels : BootDeletes(p)
    BY <1>3 DEF BootDeletes
  <1>4. CASE \E p \in Panels : SaveRenames(p)
    BY <1>4, RenameInstalls DEF Procs
  <1>5. CASE UNCHANGED file
    BY <1>1, <1>5
  <1>6. QED
    BY <1>2, <1>3, <1>4, <1>5, Zenon DEF Next, Cgi, Panel, vars, CgiReceives, CgiLoads, CgiRejects,
       CgiFails, SaveFails, CgiAnswers, CgiAnswersNobody, ActionRequested, ScriptKills,
       ScriptLaunches, BootLoads, OnboardingPolls, PanelStopsServer, PanelEdits, PanelSaves,
       SaveWrites, WatchdogChecks, WatchdogLaunches, SaveOpens

LEMMA MemType ==
    ASSUME IInv, [Next]_vars
    PROVE  mem' \in [Procs -> Configs]
  <1> USE DefaultsType DEF Procs
  <1>1. file \in Configs \cup {Absent} /\ mem \in [Procs -> Configs] /\ Loaded \in Configs
    BY LoadedType DEF IInv, TypeOK, FileIsWhole
  <1>2. ASSUME NEW c \in Cgis, CgiLoads(c)
        PROVE  mem' \in [Procs -> Configs]
    <2>1. Update(Loaded, req[c]) \in Configs
      BY <1>1, <1>2, UpdateType DEF CgiLoads, IInv, WaitersHaveForms
    <2>2. QED
      BY <1>1, <1>2, <2>1 DEF CgiLoads
  <1>3. CASE \E c \in Cgis : mem' = [mem EXCEPT ![c] = Defaults]
    BY <1>1, <1>3
  <1>4. CASE mem' = [q \in Procs |-> Defaults]
    BY <1>4
  <1>5. CASE \E p \in Panels : BootLoads(p) \/ BootDeletes(p) \/ OnboardingPolls(p)
    BY <1>1, <1>5, SMT DEF BootLoads, BootDeletes, OnboardingPolls
  <1>6. ASSUME NEW p \in Panels, PanelEdits(p)
        PROVE  mem' \in [Procs -> Configs]
    <2>1. [mem[p] EXCEPT !.mqtt = TRUE] \in Configs /\ [mem[p] EXCEPT !.web = ~@] \in Configs
      BY <1>1 DEF Configs
    <2>2. mem' = [mem EXCEPT ![p] = [mem[p] EXCEPT !.mqtt = TRUE]]
          \/ mem' = [mem EXCEPT ![p] = [mem[p] EXCEPT !.web = ~@]]
      BY <1>1, <1>6, Zenon DEF PanelEdits
    <2>3. QED
      BY <1>1, <2>1, <2>2
  <1>7. CASE UNCHANGED mem
    BY <1>1, <1>7
  <1>8. QED
    BY <1>2, <1>3, <1>4, <1>5, <1>6, <1>7, Zenon DEF Next, Cgi, Panel, vars, CgiReceives, CgiSaves,
       CgiRejects, CgiFails, CgiEnds, CgiAnswers, CgiAnswersNobody, ScriptKills, ActionRequested,
       ScriptLaunches, PanelStopsServer, PanelSaves, SaveWrites, WatchdogChecks, WatchdogLaunches

PlacesOK ==
    /\ saving \in [Procs -> {"no", "open", "written"}]
    /\ pc \in [Procs -> PanelPcs \cup CgiPcs]
    /\ \A p \in Panels : pc[p] \in PanelPcs /\ (saving[p] # "no" => pc[p] \in Up)
    /\ \A c \in Cgis : pc[c] \in CgiPcs /\ (saving[c] # "no" <=> pc[c] = "saving")

LEMMA PlacesType ==
    ASSUME IInv, [Next]_vars
    PROVE  PlacesOK'
  <1> USE StoreAssumption DEF Procs, PanelPcs, CgiPcs, Up, InCgi
  <1>1. PlacesOK
    BY DEF IInv, TypeOK, PlacesOK
  <1>2. CASE \E c \in Cgis : CgiReceives(c) \/ CgiLoads(c) \/ CgiRejects(c)
    BY <1>1, <1>2, SMT DEF PlacesOK, CgiReceives, CgiLoads, CgiRejects, CgiEnds, SaveOpens
  <1>3. CASE \E c \in Cgis : CgiSaves(c) \/ CgiFails(c)
    BY <1>1, <1>3, SMT DEF PlacesOK, CgiSaves, CgiFails, CgiEnds, SaveRenames, SaveFails
  <1>4. CASE \E c \in Cgis : CgiAnswers(c) \/ CgiAnswersNobody(c)
    BY <1>1, <1>4, SMT DEF PlacesOK, CgiAnswers, CgiAnswersNobody, CgiEnds
  <1>5. CASE \E c \in Cgis : ActionRequested(c) \/ ScriptKills(c)
    BY <1>1, <1>5, SMT DEF PlacesOK, ActionRequested, ScriptKills
  <1>6. CASE \E c \in Cgis : ScriptLaunches(c)
    BY <1>1, <1>6, SMT DEF PlacesOK, ScriptLaunches, Launched
  <1>7. CASE \E p \in Panels : BootLoads(p) \/ BootDeletes(p) \/ OnboardingPolls(p)
    BY <1>1, <1>7, SMT DEF PlacesOK, BootLoads, BootDeletes, OnboardingPolls
  <1>8. CASE \E p \in Panels : PanelEdits(p) \/ PanelSaves(p)
    BY <1>1, <1>8, SMT DEF PlacesOK, PanelEdits, PanelSaves, SaveOpens, SaveRenames, SaveFails
  <1>9. CASE \E q \in Procs : SaveWrites(q)
    BY <1>1, <1>9, SMT DEF PlacesOK, SaveWrites
  <1>10. CASE WatchdogLaunches
    BY <1>1, <1>10, SMT DEF PlacesOK, WatchdogLaunches, Launched
  <1>11. CASE UNCHANGED <<pc, saving>>
    BY <1>1, <1>11, SMT DEF PlacesOK
  <1>12. QED
    BY <1>2, <1>3, <1>4, <1>5, <1>6, <1>7, <1>8, <1>9, <1>10, <1>11, Zenon
       DEF Next, Cgi, Panel, vars, PanelStopsServer, WatchdogChecks

\* The temporary files: whose writes are over, and whom they belong to.
LEMMA TmpStep ==
    ASSUME IInv, [Next]_vars
    PROVE  /\ tmp' \in [Procs -> Configs \cup {Absent, Partial}]
           /\ WrittenIsWhole'
  <1> USE StoreAssumption DEF Procs, Tmp
  <1>1. /\ PlacesOK /\ WrittenIsWhole
        /\ tmp \in [Procs -> Configs \cup {Absent, Partial}] /\ mem \in [Procs -> Configs]
    BY DEF IInv, TypeOK, PlacesOK
  <1>2. CASE \E c \in Cgis : CgiLoads(c)
    BY <1>1, <1>2, SMT DEF WrittenIsWhole, PlacesOK, CgiLoads, SaveOpens
  <1>3. CASE \E c \in Cgis : CgiSaves(c)
    BY <1>1, <1>3, SMT DEF WrittenIsWhole, PlacesOK, CgiSaves, SaveRenames
  <1>4. CASE \E c \in Cgis : CgiFails(c)
    BY <1>1, <1>4, SMT DEF WrittenIsWhole, PlacesOK, CgiFails, CgiEnds, SaveFails
  <1>5. CASE \E c \in Cgis : CgiRejects(c) \/ CgiAnswers(c) \/ CgiAnswersNobody(c)
    BY <1>1, <1>5, SMT DEF WrittenIsWhole, PlacesOK, CgiRejects, CgiAnswers, CgiAnswersNobody,
       CgiEnds
  <1>6. CASE \E c \in Cgis : ScriptKills(c)
    BY <1>1, <1>6, SMT DEF WrittenIsWhole, ScriptKills
  <1>7. CASE \E p \in Panels : BootLoads(p) \/ BootDeletes(p) \/ OnboardingPolls(p)
    BY <1>1, <1>7, SMT DEF WrittenIsWhole, PlacesOK, Up, BootLoads, BootDeletes, OnboardingPolls
  <1>8. CASE \E p \in Panels : PanelEdits(p)
    <2>1. PICK p \in Panels : PanelEdits(p)
      BY <1>8
    <2>2. /\ saving' = [saving EXCEPT ![p] = "open"] /\ tmp' = [tmp EXCEPT ![p] = Partial]
          /\ \E v : mem' = [mem EXCEPT ![p] = v]
      BY <2>1, Zenon DEF PanelEdits, SaveOpens
    <2>3. QED
      BY <1>1, <2>2, SMT DEF WrittenIsWhole, PlacesOK
  <1>9. CASE \E p \in Panels : PanelSaves(p)
    BY <1>1, <1>9, SMT DEF WrittenIsWhole, PlacesOK, PanelSaves, SaveRenames, SaveFails
  <1>10. CASE \E q \in Procs : SaveWrites(q)
    BY <1>1, <1>10, SMT DEF WrittenIsWhole, PlacesOK, SaveWrites
  <1>11. CASE UNCHANGED <<tmp, mem, saving>>
    BY <1>1, <1>11, SMT DEF WrittenIsWhole
  <1>12. QED
    BY <1>2, <1>3, <1>4, <1>5, <1>6, <1>7, <1>8, <1>9, <1>10, <1>11, Zenon
       DEF Next, Cgi, Panel, vars, CgiReceives, ActionRequested, ScriptLaunches,
       PanelStopsServer, WatchdogChecks, WatchdogLaunches

RequestsOK ==
    /\ req \in [Cgis -> Forms \cup {NoForm}]
    /\ lock \in Cgis \cup {Nobody} /\ stale \subseteq Cgis
    /\ reqs \in 0 .. MaxReqs

LEMMA RequestsType ==
    ASSUME IInv, [Next]_vars
    PROVE  RequestsOK'
  <1> USE StoreAssumption
  <1>1. RequestsOK
    BY DEF IInv, TypeOK, RequestsOK
  <1>2. CASE \E c \in Cgis : CgiReceives(c)
    BY <1>1, <1>2, SMT DEF RequestsOK, CgiReceives
  <1>3. CASE \E c \in Cgis : CgiLoads(c) \/ CgiSaves(c)
    <2>1. lock' \in Cgis \cup {lock} /\ stale' \subseteq stale /\ UNCHANGED <<req, reqs>>
      BY <1>3, Zenon DEF CgiLoads, CgiSaves
    <2>2. QED
      BY <1>1, <2>1, SMT DEF RequestsOK
  <1>4. CASE \E c \in Cgis : CgiRejects(c) \/ CgiFails(c) \/ CgiAnswers(c) \/ CgiAnswersNobody(c)
    <2>1. \E c \in Cgis : req' = [req EXCEPT ![c] = NoForm]
      BY <1>4, Zenon DEF CgiRejects, CgiFails, CgiAnswers, CgiAnswersNobody, CgiEnds
    <2>2. lock' \in {lock, Nobody} /\ UNCHANGED <<stale, reqs>>
      BY <1>4, Zenon DEF CgiRejects, CgiFails, CgiAnswers, CgiAnswersNobody
    <2>3. QED
      BY <1>1, <2>1, <2>2, SMT DEF RequestsOK
  <1>5. CASE \E c \in Cgis : ActionRequested(c) \/ ScriptKills(c) \/ ScriptLaunches(c)
    BY <1>1, <1>5, SMT DEF RequestsOK, ActionRequested, ScriptKills, ScriptLaunches
  <1>6. CASE \E p \in Panels : BootDeletes(p) \/ PanelSaves(p)
    <2>1. stale' \in {stale, {c \in Cgis : pc[c] = "saving"}} /\ UNCHANGED <<req, lock, reqs>>
      BY <1>6, Zenon DEF BootDeletes, PanelSaves, OverwrittenUnder
    <2>2. QED
      BY <1>1, <2>1, SMT DEF RequestsOK
  <1>7. CASE reqs < MaxReqs /\ reqs' = reqs + 1 /\ UNCHANGED <<req, lock, stale>>
    BY <1>1, <1>7, SMT DEF RequestsOK
  <1>8. CASE UNCHANGED <<req, lock, stale, reqs>>
    BY <1>1, <1>8, SMT DEF RequestsOK
  <1>9. QED
    BY <1>2, <1>3, <1>4, <1>5, <1>6, <1>7, <1>8, Zenon DEF Next, Cgi, Panel, vars, BootLoads,
       OnboardingPolls, PanelStopsServer, PanelEdits, SaveWrites, WatchdogChecks, WatchdogLaunches

CutOK == cut \subseteq Cgis /\ missed \subseteq Panels

LEMMA CutType ==
    ASSUME IInv, [Next]_vars
    PROVE  CutOK'
  <1>1. CutOK
    BY DEF IInv, TypeOK, CutOK
  <1>2. /\ cut' \subseteq cut \/ cut' = cut \cup {c \in Cgis : pc[c] \in InCgi}
        /\ missed' \subseteq missed \/ missed' = {p \in Panels : pc[p] # "off"}
    BY Zenon DEF Next, vars, Cgi, CgiReceives, CgiLoads, CgiRejects, CgiSaves, CgiFails, CgiEnds,
       CgiAnswers, CgiAnswersNobody, ActionRequested, ScriptKills, ScriptLaunches, Panel,
       BootLoads, BootDeletes, OnboardingPolls, HttpdKilled, PanelStopsServer, PanelEdits,
       PanelSaves, SaveWrites, WatchdogChecks, WatchdogLaunches
  <1>3. QED
    BY <1>1, <1>2 DEF CutOK

LEMMA TypeStep ==
    ASSUME IInv, [Next]_vars
    PROVE  TypeOK' /\ FileIsWhole'
  <1>1. watchdog' \in {"idle", "launch"}
    BY Zenon DEF IInv, TypeOK, Next, vars, Cgi, CgiReceives, CgiLoads, CgiRejects, CgiSaves,
       CgiFails, CgiAnswers, CgiAnswersNobody, ActionRequested, ScriptKills, ScriptLaunches,
       Panel, BootLoads, BootDeletes, OnboardingPolls, PanelStopsServer, PanelEdits, PanelSaves,
       SaveWrites, WatchdogChecks, WatchdogLaunches
  <1>2. FileIsWhole'
    BY FileType, StoreAssumption DEF FileIsWhole
  <1>3. QED
    BY <1>1, <1>2, FileType, TmpStep, MemType, PlacesType, RequestsType, CutType
       DEF TypeOK, PlacesOK, RequestsOK, CutOK

-----------------------------------------------------------------------------
(* Requests compose.                                                       *)

LEMMA FormsStep ==
    ASSUME IInv, [Next]_vars
    PROVE  WaitersHaveForms'
  <1> USE StoreAssumption DEF Procs, InCgi, PanelPcs
  <1>1. /\ WaitersHaveForms /\ req \in [Cgis -> Forms \cup {NoForm}]
        /\ pc \in [Procs -> PanelPcs \cup CgiPcs] /\ \A p \in Panels : pc[p] \in PanelPcs
    BY DEF IInv, TypeOK
  <1>2. CASE \E c \in Cgis : CgiReceives(c)
    BY <1>1, <1>2, SMT DEF WaitersHaveForms, CgiReceives
  <1>3. CASE \E c \in Cgis : CgiRejects(c) \/ CgiFails(c) \/ CgiAnswers(c) \/ CgiAnswersNobody(c)
    <2>1. \E c \in Cgis, s \in {"none", "kill"} :
             pc' = [pc EXCEPT ![c] = s] /\ req' = [req EXCEPT ![c] = NoForm]
      BY <1>3, Zenon DEF CgiRejects, CgiFails, CgiAnswers, CgiAnswersNobody, CgiEnds
    <2>2. QED
      BY <1>1, <2>1, SMT DEF WaitersHaveForms
  <1>4. CASE \E c \in Cgis : ScriptKills(c)
    BY <1>1, <1>4, SMT DEF WaitersHaveForms, ScriptKills
  <1>5. CASE UNCHANGED req /\ \A c \in Cgis : pc'[c] = "waiting" => pc[c] = "waiting"
    BY <1>1, <1>5, SMT DEF WaitersHaveForms
  <1>6. CASE \E c \in Cgis : CgiLoads(c) \/ CgiSaves(c) \/ ActionRequested(c)
    <2>1. UNCHANGED req /\ \E c \in Cgis, s \in {"saving", "renamed", "kill", "stop"} :
                                 pc' = [pc EXCEPT ![c] = s]
      BY <1>6, Zenon DEF CgiLoads, CgiSaves, ActionRequested
    <2>2. QED
      BY <1>1, <1>5, <2>1, SMT
  <1>7. CASE \E c \in Cgis : ScriptLaunches(c)
    BY <1>1, <1>5, <1>7, SMT DEF ScriptLaunches, Launched
  <1>8. CASE \E p \in Panels : BootLoads(p) \/ BootDeletes(p) \/ OnboardingPolls(p)
    BY <1>1, <1>5, <1>8, SMT DEF BootLoads, BootDeletes, OnboardingPolls
  <1>9. CASE WatchdogLaunches
    BY <1>1, <1>5, <1>9, SMT DEF WatchdogLaunches, Launched
  <1>10. CASE UNCHANGED <<pc, req>>
    BY <1>1, <1>10, SMT DEF WaitersHaveForms
  <1>11. QED
    BY <1>2, <1>3, <1>4, <1>6, <1>7, <1>8, <1>9, <1>10, Zenon
       DEF Next, Cgi, Panel, vars, PanelStopsServer, PanelEdits, PanelSaves, SaveWrites,
       WatchdogChecks

LEMMA LockStep ==
    ASSUME IInv, [Next]_vars
    PROVE  LockIsHeld'
  <1> USE StoreAssumption DEF Procs, InCgi, PanelPcs
  <1>1. /\ LockIsHeld
        /\ pc \in [Procs -> PanelPcs \cup CgiPcs] /\ \A p \in Panels : pc[p] \in PanelPcs
    BY DEF IInv, TypeOK
  <1>2. CASE \E c \in Cgis : CgiLoads(c) \/ CgiSaves(c)
    BY <1>1, <1>2, SMT DEF LockIsHeld, CgiLoads, CgiSaves, Rejected
  <1>3. CASE \E c \in Cgis : CgiFails(c) \/ CgiAnswers(c) \/ CgiAnswersNobody(c)
    BY <1>1, <1>3, SMT DEF LockIsHeld, CgiFails, CgiAnswers, CgiAnswersNobody, CgiEnds
  <1>4. CASE \E c \in Cgis : ScriptKills(c)
    BY <1>1, <1>4, SMT DEF LockIsHeld, ScriptKills
  <1>5. CASE \E c \in Cgis : CgiReceives(c) \/ CgiRejects(c) \/ ActionRequested(c)
    BY <1>1, <1>5, SMT DEF LockIsHeld, CgiReceives, CgiRejects, CgiEnds, ActionRequested
  <1>6. CASE \E c \in Cgis : ScriptLaunches(c)
    BY <1>1, <1>6, SMT DEF LockIsHeld, ScriptLaunches, Launched
  <1>7. CASE \E p \in Panels : BootLoads(p) \/ BootDeletes(p) \/ OnboardingPolls(p)
    BY <1>1, <1>7, SMT DEF LockIsHeld, BootLoads, BootDeletes, OnboardingPolls
  <1>8. CASE WatchdogLaunches
    BY <1>1, <1>8, SMT DEF LockIsHeld, WatchdogLaunches, Launched
  <1>9. CASE UNCHANGED <<pc, lock>>
    BY <1>1, <1>9, SMT DEF LockIsHeld
  <1>10. QED
    BY <1>2, <1>3, <1>4, <1>5, <1>6, <1>7, <1>8, <1>9, Zenon
       DEF Next, Cgi, Panel, vars, PanelStopsServer, PanelEdits, PanelSaves, SaveWrites,
       WatchdogChecks

LEMMA ComposeStep ==
    ASSUME IInv, [Next]_vars
    PROVE  RequestsCompose'
  <1> USE StoreAssumption DEF Procs, InCgi, PanelPcs
  <1>1. /\ RequestsCompose /\ LockIsHeld
        /\ pc \in [Procs -> PanelPcs \cup CgiPcs] /\ \A p \in Panels : pc[p] \in PanelPcs
        /\ mem \in [Procs -> Configs] /\ req \in [Cgis -> Forms \cup {NoForm}]
    BY DEF IInv, TypeOK
  <1>2. CASE \E c \in Cgis : CgiLoads(c)
    BY <1>1, <1>2, SMT DEF RequestsCompose, LockIsHeld, CgiLoads, SaveOpens, Loaded
  <1>3. CASE \E c \in Cgis : CgiSaves(c)
    BY <1>1, <1>3, SMT DEF RequestsCompose, LockIsHeld, CgiSaves
  <1>4. CASE \E c \in Cgis : CgiFails(c)
    BY <1>1, <1>4, SMT DEF RequestsCompose, LockIsHeld, CgiFails, SaveFails, CgiEnds, Loaded
  <1>5. CASE \E c \in Cgis : ScriptKills(c)
    BY <1>1, <1>5, SMT DEF RequestsCompose, ScriptKills
  <1>6. CASE \E p \in Panels : BootDeletes(p)
    BY <1>1, <1>6, SMT DEF RequestsCompose, BootDeletes, OverwrittenUnder
  <1>7. CASE \E p \in Panels : PanelSaves(p) /\ stale' = {c \in Cgis : pc[c] = "saving"}
    BY <1>1, <1>7, SMT DEF RequestsCompose, PanelSaves
  <1>8. CASE /\ UNCHANGED <<file, stale>>
             /\ \A c \in Cgis : pc'[c] = "saving" =>
                   pc[c] = "saving" /\ mem'[c] = mem[c] /\ req'[c] = req[c]
    BY <1>1, <1>8, SMT DEF RequestsCompose, Loaded
  <1>9. CASE \E p \in Panels : PanelSaves(p) /\ UNCHANGED file /\ UNCHANGED stale
    BY <1>1, <1>8, <1>9, SMT DEF PanelSaves
  <1>10. CASE \E c \in Cgis : CgiReceives(c) \/ CgiRejects(c) \/ CgiAnswers(c) \/ CgiAnswersNobody(c)
    BY <1>1, <1>8, <1>10, SMT DEF CgiReceives, CgiRejects, CgiEnds, CgiAnswers, CgiAnswersNobody
  <1>11. CASE \E c \in Cgis : ActionRequested(c) \/ ScriptLaunches(c)
    BY <1>1, <1>8, <1>11, SMT DEF ActionRequested, ScriptLaunches, Launched
  <1>12. CASE \E p \in Panels : BootLoads(p) \/ OnboardingPolls(p)
    BY <1>1, <1>8, <1>12, SMT DEF BootLoads, OnboardingPolls
  <1>13. CASE (\E p \in Panels : PanelStopsServer(p) \/ PanelEdits(p)) \/ \E q \in Procs : SaveWrites(q)
    BY <1>1, <1>8, <1>13, SMT DEF PanelStopsServer, PanelEdits, SaveOpens, SaveWrites
  <1>14. CASE WatchdogChecks \/ WatchdogLaunches \/ UNCHANGED vars
    BY <1>1, <1>8, <1>14, SMT DEF WatchdogChecks, WatchdogLaunches, Launched, vars
  <1>15. CASE \E p \in Panels : PanelSaves(p)
    BY <1>7, <1>9, <1>15, Zenon DEF PanelSaves, SaveFails, OverwrittenUnder
  <1>16. QED
    BY <1>2, <1>3, <1>4, <1>5, <1>6, <1>10, <1>11, <1>12, <1>13, <1>14, <1>15, Zenon
       DEF Next, Cgi, Panel

-----------------------------------------------------------------------------
(* What was saved is applied.                                              *)

LEMMA CurrentStep ==
    ASSUME IInv, [Next]_vars
    PROVE  AloneIsCurrent'
  <1> USE StoreAssumption DEF Procs, InCgi, PanelPcs, CgiPcs, Up
  <1>1. /\ AloneIsCurrent /\ PlacesOK
        /\ mem \in [Procs -> Configs] /\ file \in Configs \cup {Absent}
    BY DEF IInv, TypeOK, FileIsWhole, PlacesOK
  <1>2. SUFFICES ASSUME NEW p \in Panels, p \notin missed', Alone(p)', file' # Absent, ~RestartIsDue'
                 PROVE  SameSettings(mem'[p], file')
    BY DEF AloneIsCurrent
  <1>3. CASE \E c \in Cgis : CgiSaves(c)
    BY <1>1, <1>2, <1>3, SMT DEF PlacesOK, CgiSaves, RestartIsDue
  <1>4. CASE \E c \in Cgis : ScriptKills(c)
    BY <1>1, <1>2, <1>4, SMT DEF PlacesOK, ScriptKills, Alone
  <1>5. CASE \E q \in Panels : BootDeletes(q)
    BY <1>1, <1>2, <1>5, SMT DEF BootDeletes
  <1>6. CASE \E q \in Panels : PanelSaves(q) /\ saving[q] # "no" /\ file' = mem[q]
    BY <1>1, <1>2, <1>6, SMT DEF PlacesOK, PanelSaves, Alone, SameSettings
  <1>7. CASE \E q \in Panels : BootLoads(q) \/ OnboardingPolls(q)
    BY <1>1, <1>2, <1>7, SMT DEF PlacesOK, BootLoads, OnboardingPolls, Alone, SameSettings, Loaded
  <1>8. CASE file' = file /\ p \notin missed /\ Alone(p) /\ ~RestartIsDue /\ SameSettings(mem'[p], mem[p])
    BY <1>1, <1>2, <1>8, SMT DEF AloneIsCurrent, SameSettings
  <1>9. CASE \E q \in Panels : PanelEdits(q)
    BY <1>1, <1>2, <1>8, <1>9, SMT DEF PlacesOK, PanelEdits, SaveOpens, Alone, RestartIsDue,
       SameSettings, Configs
  <1>10. CASE (\E q \in Panels : PanelStopsServer(q)) \/ \E q \in Procs : SaveWrites(q)
    BY <1>1, <1>2, <1>8, <1>10, SMT DEF PanelStopsServer, SaveWrites, Alone, RestartIsDue,
       SameSettings
  <1>11. CASE \E c \in Cgis : CgiAnswersNobody(c)
    BY <1>1, <1>2, <1>11, SMT DEF PlacesOK, CgiAnswersNobody, CgiEnds, Alone
  <1>12. CASE \E q \in Panels : PanelSaves(q) /\ file' = file
    BY <1>1, <1>2, <1>8, <1>12, SMT DEF PanelSaves, Alone, RestartIsDue, SameSettings
  <1>13. CASE \E c \in Cgis : CgiReceives(c) \/ CgiLoads(c) \/ ActionRequested(c)
    BY <1>1, <1>2, <1>8, <1>13, SMT DEF PlacesOK, CgiReceives, CgiLoads, SaveOpens,
       ActionRequested, Alone, RestartIsDue, SameSettings
  <1>14. CASE \E c \in Cgis : CgiRejects(c) \/ CgiFails(c) \/ CgiAnswers(c)
    BY <1>1, <1>2, <1>8, <1>14, SMT DEF PlacesOK, CgiRejects, CgiFails, CgiEnds, SaveFails,
       CgiAnswers, Alone, RestartIsDue, SameSettings
  <1>15. CASE (\E c \in Cgis : ScriptLaunches(c)) \/ WatchdogLaunches
    BY <1>1, <1>2, <1>8, <1>15, SMT DEF PlacesOK, ScriptLaunches, WatchdogLaunches, Launched,
       Alone, RestartIsDue, SameSettings
  <1>16. CASE WatchdogChecks \/ UNCHANGED vars
    BY <1>1, <1>2, <1>8, <1>16, SMT DEF WatchdogChecks, vars, Alone, RestartIsDue, SameSettings
  <1>17. CASE \E q \in Panels : PanelSaves(q)
    <2>1. PICK q \in Panels : PanelSaves(q)
      BY <1>17
    <2>2. CASE SaveFails(q)
      BY <1>12, <2>1, <2>2 DEF SaveFails
    <2>3. CASE SaveRenames(q)
      BY <1>6, <2>1, <2>3, RenameInstalls DEF SaveRenames
    <2>4. QED
      BY <2>1, <2>2, <2>3 DEF PanelSaves
  <1>18. QED
    BY <1>3, <1>4, <1>5, <1>7, <1>9, <1>10, <1>11, <1>13, <1>14, <1>15, <1>16, <1>17, Zenon
       DEF Next, Cgi, Panel

-----------------------------------------------------------------------------
(* The theorems.                                                           *)

LEMMA InitIInv == Init => IInv
  <1> SUFFICES ASSUME Init PROVE IInv
    OBVIOUS
  <1> USE StoreAssumption DEF Procs, PanelPcs, CgiPcs, Up
  <1>1. file \in Configs \cup {Absent}
    BY DefaultsType DEF Init, Configs
  <1>2. pc \in [Procs -> {"none", "boot", "off"}] /\ PlacesOK
    BY SMT DEF Init, PlacesOK
  <1>3. TypeOK
    BY <1>1, <1>2, DefaultsType, SMT DEF Init, TypeOK, PlacesOK
  <1>4. FileIsWhole /\ WrittenIsWhole /\ WaitersHaveForms /\ LockIsHeld /\ RequestsCompose /\ AloneIsCurrent
    BY <1>1, <1>2, SMT DEF Init, PlacesOK, FileIsWhole, WrittenIsWhole, WaitersHaveForms, LockIsHeld,
       RequestsCompose, AloneIsCurrent, Alone
  <1>5. QED
    BY <1>3, <1>4 DEF IInv

\* The inductive invariant holds in every state of every behaviour.
THEOREM Invariance == Spec => []IInv
  <1>1. IInv /\ [Next]_vars => IInv'
    BY TypeStep, TmpStep, FormsStep, LockStep, ComposeStep, CurrentStep DEF IInv
  <1>2. QED
    BY InitIInv, <1>1, PTL DEF Spec

\* Every variable keeps its type; only programs that save have a temporary file.
THEOREM TypeCorrect == Spec => []TypeOK
  BY Invariance, PTL DEF IInv

\* save_configuration: whoever opens ha_config.json finds a whole
\* configuration, although the panel and the requests save at the same time
\* and saves die or fail between any two steps.
THEOREM WholeForever == Spec => []FileIsWhole
  BY Invariance, PTL DEF IInv

\* cgi_config_main: under the lock, requests do not overwrite each other, for
\* any number of requests at once.
THEOREM RequestsComposed == Spec => []RequestsCompose
  BY Invariance, PTL DEF IInv

\* save_config.sh: once saves and restarts are over, the only application works
\* with what the portal saved.
THEOREM SavedApplied == Spec => []SavedIsApplied
  <1>1. IInv => SavedIsApplied
    BY SMT DEF IInv, AloneIsCurrent, SavedIsApplied, Quiet, Alone, RestartIsDue, SameSettings,
       Procs, Up
  <1>2. QED
    BY Invariance, <1>1, PTL

=============================================================================
