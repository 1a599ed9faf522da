----------------------------- MODULE OtaUpdate -----------------------------
(***************************************************************************)
(* The update of the panel from GitHub releases: perform_github_ota runs    *)
(* on the UI thread of the panel, the download in a curl process of its     *)
(* own that outlives the wait, and even the panel.  The panel may be       *)
(* killed and the power may fail at every step.                            *)
(*                                                                         *)
(* Files are inodes with names, because curl goes on writing the file that  *)
(* was renamed under it.  An inode holds the old or the new binary, a part  *)
(* of the new one, or what two downloads wrote into one file ("mixed").    *)
(***************************************************************************)
EXTENDS Naturals

CONSTANTS
    Inodes,     \* files that may exist at once (bound)
    Curls,      \* downloads of the binary that may run at once (bound)
    NoFile,     \* a name that does not exist
    Released,   \* which of worker and model the release has
    MaxTimers,  \* presses of the update button not yet served (bound)
    MaxFaults   \* faults are counted up to here (bound; one and several differ)

ASSUME OtaAssumption ==
    /\ NoFile \notin Inodes /\ {"off", "start"} \cap Inodes = {}
    /\ Released \subseteq {"mww_worker", "model"}
    /\ MaxTimers \in Nat /\ MaxFaults \in Nat \ {0, 1}

VARIABLES
    name,    \* ha_panel, ha_panel.tmp and ha_panel.old
    data,    \* contents of the inodes
    curl,    \* the downloads: not running, not yet at the file, or its inode
    panel,   \* version of the running panel
    pc,      \* where perform_github_ota is
    offer,   \* the button of the updates screen offers the release
    timers,  \* pending ota_update_timer_cb
    before,  \* inode of ha_panel when the update began
    failed,  \* renames of this update that failed
    faults,  \* failed renames, interrupted replacements, unfinished files
             \* about to be installed, files two downloads write
    assets,  \* mww_worker and the wake-word model as they are installed
    fetched, \* their .tmp files
    strays,  \* those whose curl outlives the panel that waited for it
    clashed  \* those that two downloads wrote at once

other  == <<assets, fetched, strays, clashed>>
update == <<before, failed, faults>>
vars   == <<name, data, curl, panel, pc, offer, timers, update, other>>

Names  == {"ha_panel", "tmp", "old"}
Assets == {"mww_worker", "model"}

\* Where perform_github_ota waits for the download of each.
At == [a \in Assets |-> IF a = "mww_worker" THEN "worker" ELSE "model"]

TypeOK ==
    /\ name \in [Names -> Inodes \cup {NoFile}]
    /\ data \in [Inodes -> {"old", "new", "part", "mixed"}]
    /\ curl \in [Curls -> Inodes \cup {"off", "start"}]
    /\ panel \in {"off", "old", "new"}
    /\ pc \in {"idle", "waiting", "worker", "worker_ok", "model", "model_ok",
              "install", "between", "rollback", "exec"}
    /\ offer \in BOOLEAN /\ timers \in 0 .. MaxTimers
    /\ before \in Inodes \cup {NoFile} /\ faults \in 0 .. MaxFaults
    /\ failed \subseteq {"backup", "replace", "rollback"}
    /\ assets \in [Assets -> {"old", "new", "part"}]
    /\ fetched \in [Assets -> {"none", "new", "part"}]
    /\ strays \subseteq Assets /\ clashed \subseteq Assets
    /\ panel = "off" => pc = "idle" /\ ~offer /\ timers = 0

Whole(i) == i # NoFile /\ data[i] \in {"old", "new"}

\* A file open for writing cannot be executed (ETXTBSY), a part of one does
\* not run.
Runnable(i) == Whole(i) /\ \A c \in Curls : curl[c] # i

Rename(from, to) == [name EXCEPT ![to] = name[from], ![from] = NoFile]

Faults(k) == faults' = IF faults + k < MaxFaults THEN faults + k ELSE MaxFaults

Init ==
    /\ \E i \in Inodes : name = [n \in Names |-> IF n = "ha_panel" THEN i ELSE NoFile]
    /\ data = [i \in Inodes |-> "old"] /\ curl = [c \in Curls |-> "off"]
    /\ panel = "old" /\ pc = "idle" /\ offer = FALSE /\ timers = 0
    /\ before = NoFile /\ failed = {} /\ faults = 0
    /\ assets = [a \in Assets |-> "old"] /\ fetched = [a \in Assets |-> "none"]
    /\ strays = {} /\ clashed = {}

-----------------------------------------------------------------------------
(* The updates screen.                                                     *)

\* check_ota_async_timer_cb: the release is offered if it is another version.
CheckOta ==
    /\ panel = "old" /\ pc = "idle" /\ ~offer /\ offer' = TRUE
    /\ UNCHANGED <<name, data, curl, panel, pc, timers, update, other>>

CloseUpdatesScreen ==
    /\ offer /\ pc = "idle" /\ offer' = FALSE
    /\ UNCHANGED <<name, data, curl, panel, pc, timers, update, other>>

\* start_ota_btn_cb: the button stays enabled for the 150 ms of the timer.
StartOta ==
    /\ offer /\ pc = "idle" /\ timers < MaxTimers
    /\ timers' = timers + 1
    /\ UNCHANGED <<name, data, curl, panel, pc, offer, update, other>>

-----------------------------------------------------------------------------
(* The download of the binary.                                             *)

\* Variant: the backup is removed as well, to make room for the download.
OtaBeginsFreeingSpace ==
    /\ pc = "idle" /\ timers > 0 /\ timers' = timers - 1
    /\ name' = [name EXCEPT !["tmp"] = NoFile, !["old"] = NoFile]
    /\ before' = name["ha_panel"] /\ failed' = {}
    /\ \E c \in Curls : curl[c] = "off" /\ curl' = [curl EXCEPT ![c] = "start"]
    /\ pc' = "waiting"
    /\ UNCHANGED <<data, panel, offer, faults, other>>

\* perform_github_ota: the old download is removed and curl started.
OtaBegins ==
    /\ pc = "idle" /\ timers > 0 /\ timers' = timers - 1
    /\ name' = [name EXCEPT !["tmp"] = NoFile]
    /\ before' = name["ha_panel"] /\ failed' = {}
    /\ \E c \in Curls : curl[c] = "off" /\ curl' = [curl EXCEPT ![c] = "start"]
    /\ pc' = "waiting"
    /\ UNCHANGED <<data, panel, offer, faults, other>>

Free(i) == (\A n \in Names : name[n] # i) /\ (\A c \in Curls : curl[c] # i)

\* curl creates ha_panel.tmp, or truncates the one that is there, perhaps
\* under another download.
CurlOpens(c) ==
    /\ curl[c] = "start"
    /\ \E i \in Inodes :
        /\ IF name["tmp"] = NoFile THEN Free(i) ELSE i = name["tmp"]
        /\ name' = [name EXCEPT !["tmp"] = i]
        /\ data' = [data EXCEPT ![i] = IF \E d \in Curls : curl[d] = i THEN "mixed" ELSE "part"]
        /\ curl' = [curl EXCEPT ![c] = i]
    /\ IF name["tmp"] = NoFile THEN UNCHANGED faults ELSE Faults(1)
    /\ UNCHANGED <<panel, pc, offer, timers, before, failed, other>>

CurlFinishes(c) ==
    /\ curl[c] \in Inodes
    /\ \E d \in {"new", "part", "mixed"} :
        /\ data[curl[c]] = "part" => d = "new"
        /\ data[curl[c]] = "mixed" /\ (\E e \in Curls \ {c} : curl[e] = curl[c]) => d = "mixed"
        /\ data' = [data EXCEPT ![curl[c]] = d]
    /\ curl' = [curl EXCEPT ![c] = "off"]
    /\ UNCHANGED <<name, panel, pc, offer, timers, update, other>>

\* An HTTP error, a broken connection, --max-time.
CurlFails(c) ==
    /\ curl[c] # "off" /\ curl' = [curl EXCEPT ![c] = "off"]
    /\ UNCHANGED <<name, data, panel, pc, offer, timers, update, other>>

\* The wait ends, after 60 s at the latest, and there is no file.
OtaNoFile ==
    /\ pc = "waiting" /\ name["tmp"] = NoFile
    /\ pc' = "idle"
    /\ UNCHANGED <<name, data, curl, panel, offer, timers, update, other>>

\* The wait ends, and there is a file: complete or not.
OtaDownloaded ==
    /\ pc = "waiting" /\ name["tmp"] # NoFile
    /\ pc' = "worker"
    /\ UNCHANGED <<name, data, curl, panel, offer, timers, update, other>>

-----------------------------------------------------------------------------
(* The worker and the model, downloaded while the panel waits.             *)

\* Their curl is waited for, but a killed panel leaves it running, and the
\* next update starts another one on the same .tmp.
Downloading(a) == pc \in IF a = "mww_worker" THEN {"worker", "worker_ok"} ELSE {"model", "model_ok"}

Clash(a) == clashed' = IF a \in strays THEN clashed \cup {a} ELSE clashed

\* curl creates the .tmp, or truncates the one an earlier update left.
AssetOpens(a, at) ==
    /\ pc = at /\ a \in Released /\ fetched[a] # "part"
    /\ fetched' = [fetched EXCEPT ![a] = "part"] /\ Clash(a)
    /\ UNCHANGED <<name, data, curl, panel, pc, offer, timers, update, assets, strays>>

\* Variant: the exit status of curl is not looked at, a file is enough.
AssetCompleteAnyhow(a, at, ok) ==
    /\ pc = at /\ a \in Released /\ pc' = ok
    /\ \E d \in {"new", fetched[a]} : d # "none" /\ fetched' = [fetched EXCEPT ![a] = d]
    /\ Clash(a)
    /\ UNCHANGED <<name, data, curl, panel, offer, timers, update, assets, strays>>

\* curl ends with status 0: it wrote all of the file, but perhaps not alone.
AssetComplete(a, at, ok) ==
    /\ pc = at /\ a \in Released /\ pc' = ok
    /\ \E d \in {"new", "part"} :
        /\ a \notin strays => d = "new"
        /\ fetched' = [fetched EXCEPT ![a] = d]
    /\ Clash(a)
    /\ UNCHANGED <<name, data, curl, panel, offer, timers, update, assets, strays>>

\* The release has none, or curl fails; what it wrote stays.
AssetFails(a, at, next) ==
    /\ pc = at /\ pc' = next
    /\ UNCHANGED <<name, data, curl, panel, offer, timers, update, other>>

\* The rename of a .tmp that is there; its result is not looked at.
AssetInstalls(a, ok, next) ==
    /\ pc = ok /\ pc' = next
    /\ \/ /\ fetched[a] # "none" /\ assets' = [assets EXCEPT ![a] = fetched[a]]
          /\ fetched' = [fetched EXCEPT ![a] = "none"]
       \/ UNCHANGED <<assets, fetched>>
    /\ UNCHANGED <<name, data, curl, panel, offer, timers, update, strays, clashed>>

Asset(a, at, ok, next) ==
    \/ AssetOpens(a, at) \/ AssetComplete(a, at, ok)
    \/ AssetFails(a, at, next) \/ AssetInstalls(a, ok, next)

StrayWrites(a) ==
    /\ a \in strays
    /\ \E d \in {"new", "part"} : fetched' = [fetched EXCEPT ![a] = d]
    /\ clashed' = IF Downloading(a) THEN clashed \cup {a} ELSE clashed
    /\ UNCHANGED <<name, data, curl, panel, pc, offer, timers, update, assets, strays>>

StrayEnds(a) ==
    /\ a \in strays /\ strays' = strays \ {a}
    /\ UNCHANGED <<name, data, curl, panel, pc, offer, timers, update, assets, fetched, clashed>>

-----------------------------------------------------------------------------
(* The replacement.  Only the result of the second rename is looked at.    *)

Unfinished == IF Whole(name["tmp"]) THEN 0 ELSE 1

OtaBackup ==
    /\ pc = "install" /\ pc' = "between"
    /\ name["ha_panel"] # NoFile /\ name' = Rename("ha_panel", "old")
    /\ Faults(Unfinished)
    /\ UNCHANGED <<data, curl, panel, offer, timers, before, failed, other>>

\* The first rename fails, because of the disk or for want of a file.
OtaBackupFails ==
    /\ pc = "install" /\ pc' = "between"
    /\ failed' = failed \cup {"backup"} /\ Faults(1 + Unfinished)
    /\ UNCHANGED <<name, data, curl, panel, offer, timers, before, other>>

OtaReplace ==
    /\ pc = "between" /\ name["tmp"] # NoFile
    /\ name' = Rename("tmp", "ha_panel") /\ pc' = "exec"
    /\ UNCHANGED <<data, curl, panel, offer, timers, update, other>>

OtaReplaceFails ==
    /\ pc = "between" /\ pc' = "rollback"
    /\ failed' = failed \cup {"replace"} /\ Faults(1)
    /\ UNCHANGED <<name, data, curl, panel, offer, timers, before, other>>

\* Variant: the failure is only reported.
OtaReportsOnly ==
    /\ pc = "rollback" /\ pc' = "idle"
    /\ UNCHANGED <<name, data, curl, panel, offer, timers, update, other>>

OtaRollsBack ==
    /\ pc = "rollback" /\ pc' = "idle"
    /\ name["old"] # NoFile /\ name' = Rename("old", "ha_panel")
    /\ UNCHANGED <<data, curl, panel, offer, timers, update, other>>

OtaRollbackFails ==
    /\ pc = "rollback" /\ pc' = "idle"
    /\ failed' = failed \cup {"rollback"} /\ Faults(1)
    /\ UNCHANGED <<name, data, curl, panel, offer, timers, before, other>>

-----------------------------------------------------------------------------
(* Starting and stopping the panel.                                        *)

NoUpdate == before' = NoFile /\ failed' = {}

\* main: a panel that starts removes the backup.
Boots ==
    /\ Runnable(name["ha_panel"])
    /\ panel' = data[name["ha_panel"]]
    /\ name' = [name EXCEPT !["old"] = NoFile]
    /\ pc' = "idle" /\ offer' = FALSE /\ timers' = 0 /\ NoUpdate
    /\ UNCHANGED <<data, curl, faults, other>>

Gone == panel' = "off" /\ pc' = "idle" /\ offer' = FALSE /\ timers' = 0 /\ NoUpdate

OtaExecs == pc = "exec" /\ Boots

\* execv returns: the old panel goes on.
OtaExecFails ==
    /\ pc = "exec" /\ ~Runnable(name["ha_panel"])
    /\ pc' = "idle"
    /\ UNCHANGED <<name, data, curl, panel, offer, timers, update, other>>

\* Or the part of a binary is executed, and dies.
OtaExecDies ==
    /\ pc = "exec" /\ ~Whole(name["ha_panel"]) /\ \A c \in Curls : curl[c] # name["ha_panel"]
    /\ Gone
    /\ UNCHANGED <<name, data, curl, faults, other>>

\* The watchdog, or a script of the web portal, starts the panel.
PanelStarts == panel = "off" /\ Boots

\* killall -9 ha_panel leaves curl alone; a power failure does not.
PanelKilled ==
    /\ panel # "off" /\ Gone
    /\ Faults(IF pc \in {"between", "rollback"} THEN 1 ELSE 0)
    /\ \/ curl' = curl /\ strays' = strays \cup {a \in Released : pc = At[a]}
       \/ curl' = [c \in Curls |-> "off"] /\ strays' = {}
    /\ UNCHANGED <<name, data, assets, fetched, clashed>>

-----------------------------------------------------------------------------
Ota ==
    \/ OtaNoFile \/ OtaDownloaded
    \/ Asset("mww_worker", "worker", "worker_ok", "model")
    \/ Asset("model", "model", "model_ok", "install")
    \/ OtaBackup \/ OtaBackupFails \/ OtaReplace \/ OtaReplaceFails
    \/ OtaRollsBack \/ OtaRollbackFails
    \/ OtaExecs \/ OtaExecFails \/ OtaExecDies

Next ==
    \/ CheckOta \/ CloseUpdatesScreen \/ StartOta \/ OtaBegins \/ Ota
    \/ \E c \in Curls : CurlOpens(c) \/ CurlFinishes(c) \/ CurlFails(c)
    \/ \E a \in Assets : StrayWrites(a) \/ StrayEnds(a)
    \/ PanelStarts \/ PanelKilled

Spec == Init /\ [][Next]_vars

-----------------------------------------------------------------------------
(* Safety.                                                                 *)

\* As long as nothing failed, was cut off or interrupted, the panel can be
\* started at every moment but the one between the two renames, however long
\* downloads linger and wherever the panel is killed.
StartableUnlessFault ==
    faults = 0 /\ pc # "between" => Whole(name["ha_panel"])

\* No single failed rename, unfinished download, collision of downloads or
\* crash between the renames destroys the last working binary: one is left
\* under some name, even if the user tries again and again.
SingleFaultKeepsACopy == faults <= 1 => \E n \in Names : Whole(name[n])

\* What perform_github_ota survives: without a fault the panel is startable,
\* and one fault leaves a copy of a working binary.
SurvivesFaults == StartableUnlessFault /\ SingleFaultKeepsACopy

\* The installed worker and model are whole files, whatever earlier updates
\* left in their .tmp files and wherever they were killed, unless a download
\* that outlived its panel wrote the .tmp together with the one waited for.
AssetsAreWhole == \A a \in Assets \ clashed : assets[a] # "part"

\* An update that reports failure leaves the binary that it found under its
\* name if only the replacement itself failed, and under its name or as
\* ha_panel.old if the roll-back, whose result is not looked at, failed too.
\* (A failed backup and a failed replacement can lose it to an older .old.)
FailureRestores ==
    [][pc # "idle" /\ pc # "exec" /\ pc' = "idle" /\ panel' = panel =>
         /\ failed' \subseteq {"replace"} => name'["ha_panel"] = before
         /\ "backup" \notin failed' => before \in {name'["ha_panel"], name'["old"]}]_vars

\* "[OTA] Error: Failed to download ha_panel." (perform_github_ota): a
\* download that did not finish is an error and is not installed.
UnfinishedIsNotInstalled == name["ha_panel"] # NoFile => Whole(name["ha_panel"])

=============================================================================
