-------------------------- MODULE OtaUpdate_proofs --------------------------
(***************************************************************************)
(* Proofs about OtaUpdate for any number of files, downloads and presses   *)
(* of the update button.                                                   *)
(***************************************************************************)
EXTENDS OtaUpdate, TLAPS

-----------------------------------------------------------------------------
(* The inductive invariant.                                                *)

\* A file has one name at most.
OneName ==
    \A m, n \in Names : m # n /\ name[m] # NoFile => name[m] # name[n]

\* A file that is being written is not whole, and a second writer leaves no
\* part of one binary but a mixture.
Writing ==
    /\ \A c \in Curls : curl[c] \in Inodes => data[curl[c]] \in {"part", "mixed"}
    /\ \A c, d \in Curls : c # d /\ curl[c] \in Inodes /\ curl[c] = curl[d] =>
                               data[curl[c]] = "mixed"

\* Which copies are left, by the number of faults and the place of the update.
Copies ==
    /\ faults = 0 =>
         IF pc = "between" THEN Whole(name["tmp"]) /\ Whole(name["old"])
         ELSE pc # "rollback" /\ Whole(name["ha_panel"])
    /\ faults <= 1 =>
         /\ pc = "between" => Whole(name["tmp"]) \/ Whole(name["old"])
         /\ pc = "rollback" => Whole(name["old"])
         /\ pc \notin {"between", "rollback"} => Whole(name["ha_panel"]) \/ Whole(name["old"])

\* Where the binary is that the update found, by the renames that failed.
FoundBinary ==
    /\ pc \in {"waiting", "worker", "worker_ok", "model", "model_ok", "install"} =>
         name["ha_panel"] = before /\ failed = {}
    /\ pc = "between" => failed \subseteq {"backup"}
    /\ pc = "rollback" => failed \subseteq {"backup", "replace"}
    /\ pc \in {"between", "rollback"} =>
         IF "backup" \in failed THEN name["ha_panel"] = before
         ELSE name["old"] = before /\ before # NoFile

\* A .tmp whose download ended well is whole, unless another one wrote it.
FetchedAlone ==
    /\ pc = "worker_ok" /\ "mww_worker" \notin clashed => fetched["mww_worker"] = "new"
    /\ pc = "model_ok" /\ "model" \notin clashed => fetched["model"] = "new"

IInv ==
    /\ TypeOK /\ OneName /\ Writing /\ Copies /\ FoundBinary
    /\ FetchedAlone /\ AssetsAreWhole

-----------------------------------------------------------------------------
(* Facts about the operators.                                              *)

LEMMA RenameFacts ==
    ASSUME name \in [Names -> Inodes \cup {NoFile}],
           NEW from \in Names, NEW to \in Names, from # to
    PROVE  /\ Rename(from, to) \in [Names -> Inodes \cup {NoFile}]
           /\ Rename(from, to)[to] = name[from] /\ Rename(from, to)[from] = NoFile
           /\ \A n \in Names \ {from, to} : Rename(from, to)[n] = name[n]
  BY DEF Rename

\* Counting stops at MaxFaults, which is past what the properties tell apart.
LEMMA FaultFacts ==
    ASSUME faults \in 0 .. MaxFaults, NEW k \in 0 .. 2, Faults(k)
    PROVE  /\ faults' \in 0 .. MaxFaults /\ faults' >= faults
           /\ k = 0 => faults' = faults
           /\ k > 0 /\ faults = 0 => faults' > 0
           /\ k > 1 \/ (k > 0 /\ faults > 0) => faults' > 1
           /\ k = 1 /\ faults = 0 => faults' = 1
  BY OtaAssumption DEF Faults

-----------------------------------------------------------------------------
(* Type correctness.                                                       *)

FilesOK ==
    /\ name \in [Names -> Inodes \cup {NoFile}]
    /\ data \in [Inodes -> {"old", "new", "part", "mixed"}]
    /\ curl \in [Curls -> Inodes \cup {"off", "start"}]
    /\ before \in Inodes \cup {NoFile} /\ faults \in 0 .. MaxFaults
    /\ failed \subseteq {"backup", "replace", "rollback"}

AssetsOK ==
    /\ assets \in [Assets -> {"old", "new", "part"}]
    /\ fetched \in [Assets -> {"none", "new", "part"}]
    /\ strays \subseteq Assets /\ clashed \subseteq Assets

PanelOK ==
    /\ panel \in {"off", "old", "new"}
    /\ pc \in {"idle", "waiting", "worker", "worker_ok", "model", "model_ok",
              "install", "between", "rollback", "exec"}
    /\ timers \in 0 .. MaxTimers
    /\ panel = "off" => pc = "idle" /\ ~offer /\ timers = 0

LEMMA TypeParts == TypeOK <=> FilesOK /\ AssetsOK /\ PanelOK /\ offer \in BOOLEAN
  BY DEF TypeOK, FilesOK, AssetsOK, PanelOK

\* Steps of an asset's download leave the binary, its update and the panel alone.
LEMMA AssetFrame ==
    ASSUME NEW a, NEW at, NEW ok, NEW next, Asset(a, at, ok, next)
    PROVE  UNCHANGED <<name, data, curl, panel, offer, timers, before, failed, faults, strays>>
  BY DEF Asset, AssetOpens, AssetComplete, AssetFails, AssetInstalls, update, other

LEMMA StrayFrame ==
    ASSUME NEW a, StrayWrites(a) \/ StrayEnds(a)
    PROVE  UNCHANGED <<name, data, curl, panel, pc, offer, timers, before, failed, faults, assets>>
  BY DEF StrayWrites, StrayEnds, update

LEMMA AssetPcs ==
    ASSUME NEW a, NEW at, NEW ok, NEW next, Asset(a, at, ok, next)
    PROVE  (pc = at \/ pc = ok) /\ (pc' = at \/ pc' = ok \/ pc' = next)
  BY DEF Asset, AssetOpens, AssetComplete, AssetFails, AssetInstalls

LEMMA FilesType ==
    ASSUME TypeOK, [Next]_vars
    PROVE  FilesOK'
  <1>. USE DEF FilesOK, update
  <1>. FilesOK
    BY TypeParts
  <1>0. Unfinished \in 0 .. 1 /\ 1 + Unfinished \in 0 .. 2
    BY DEF Unfinished
  <1>1. CASE CheckOta \/ CloseUpdatesScreen \/ StartOta \/ OtaNoFile \/ OtaDownloaded
             \/ OtaExecFails
    BY <1>1 DEF CheckOta, CloseUpdatesScreen, StartOta, OtaNoFile, OtaDownloaded, OtaExecFails
  <1>2. CASE OtaBegins
    BY <1>2 DEF OtaBegins, Names
  <1>3. CASE \E c \in Curls : CurlOpens(c)
    BY <1>3, FaultFacts DEF CurlOpens, Names
  <1>4. CASE \E c \in Curls : CurlFinishes(c) \/ CurlFails(c)
    BY <1>4 DEF CurlFinishes, CurlFails
  <1>5. CASE \/ Asset("mww_worker", "worker", "worker_ok", "model")
             \/ Asset("model", "model", "model_ok", "install")
    BY <1>5, AssetFrame
  <1>6. CASE \E a \in Assets : StrayWrites(a) \/ StrayEnds(a)
    BY <1>6, StrayFrame
  <1>7. CASE OtaBackup
    BY <1>0, <1>7, FaultFacts, RenameFacts DEF OtaBackup, Names
  <1>8. CASE OtaReplace \/ OtaRollsBack
    BY <1>8, RenameFacts DEF OtaReplace, OtaRollsBack, Names
  <1>9. CASE OtaBackupFails \/ OtaReplaceFails \/ OtaRollbackFails
    <2>1. /\ name' = name /\ data' = data /\ curl' = curl /\ before' = before
          /\ failed' \subseteq failed \cup {"backup", "replace", "rollback"}
          /\ \E k \in 0 .. 2 : Faults(k)
      BY <1>0, <1>9 DEF OtaBackupFails, OtaReplaceFails, OtaRollbackFails
    <2>. QED
      BY <2>1, FaultFacts
  <1>10. CASE OtaExecs \/ PanelStarts
    BY <1>10 DEF OtaExecs, PanelStarts, Boots, NoUpdate, Names
  <1>11. CASE OtaExecDies
    BY <1>11 DEF OtaExecDies, Gone, NoUpdate
  <1>12. CASE PanelKilled
    BY <1>12, FaultFacts DEF PanelKilled, Gone, NoUpdate
  <1>13. CASE UNCHANGED vars
    BY <1>13 DEF vars
  <1>. HIDE DEF FilesOK, update
  <1>. QED
    BY <1>1, <1>2, <1>3, <1>4, <1>5, <1>6, <1>7, <1>8, <1>9, <1>10, <1>11, <1>12, <1>13
       DEF Next, Ota

\* Everything but the downloads of worker and model leaves the two alone.
LEMMA OtherSteps ==
    ASSUME [Next]_vars
    PROVE  \/ Asset("mww_worker", "worker", "worker_ok", "model")
           \/ Asset("model", "model", "model_ok", "install")
           \/ \E a \in Assets : StrayWrites(a) \/ StrayEnds(a)
           \/ PanelKilled
           \/ /\ UNCHANGED <<assets, fetched, strays, clashed>>
              /\ pc' \notin {"worker_ok", "model_ok"} \/ pc' = pc
  BY DEF Next, vars, other, Ota, CheckOta, CloseUpdatesScreen, StartOta, OtaBegins, CurlOpens,
     CurlFinishes, CurlFails, OtaNoFile, OtaDownloaded, OtaBackup, OtaBackupFails, OtaReplace,
     OtaReplaceFails, OtaRollsBack, OtaRollbackFails, OtaExecs, OtaExecFails, OtaExecDies,
     PanelStarts, Boots, Gone

LEMMA AssetsType ==
    ASSUME TypeOK, [Next]_vars
    PROVE  AssetsOK'
  <1>. USE DEF AssetsOK
  <1>. AssetsOK
    BY TypeParts
  <1>1. ASSUME NEW a \in Assets, NEW at, NEW ok, NEW next, Asset(a, at, ok, next)
        PROVE  AssetsOK'
    BY <1>1 DEF Asset, AssetOpens, AssetComplete, AssetFails, AssetInstalls, Clash, other
  <1>2. CASE \E a \in Assets : StrayWrites(a) \/ StrayEnds(a)
    BY <1>2 DEF StrayWrites, StrayEnds
  <1>3. CASE PanelKilled
    BY <1>3, OtaAssumption DEF PanelKilled, Assets
  <1>4. CASE UNCHANGED <<assets, fetched, strays, clashed>>
    BY <1>4
  <1>. HIDE DEF AssetsOK
  <1>. QED
    BY <1>1, <1>2, <1>3, <1>4, OtherSteps DEF Assets

LEMMA PanelType ==
    ASSUME TypeOK, [Next]_vars
    PROVE  PanelOK'
  <1>. USE DEF PanelOK
  <1>. FilesOK /\ PanelOK
    BY TypeParts
  <1>1. CASE CheckOta \/ CloseUpdatesScreen
    BY <1>1 DEF CheckOta, CloseUpdatesScreen
  <1>2. CASE StartOta \/ OtaBegins
    BY <1>2, OtaAssumption DEF StartOta, OtaBegins
  <1>3. CASE \E c \in Curls : CurlOpens(c) \/ CurlFinishes(c) \/ CurlFails(c)
    BY <1>3 DEF CurlOpens, CurlFinishes, CurlFails
  <1>4. CASE \/ Asset("mww_worker", "worker", "worker_ok", "model")
             \/ Asset("model", "model", "model_ok", "install")
    BY <1>4, AssetFrame, AssetPcs
  <1>5. CASE \E a \in Assets : StrayWrites(a) \/ StrayEnds(a)
    BY <1>5, StrayFrame
  <1>6. CASE OtaNoFile \/ OtaDownloaded \/ OtaBackup \/ OtaBackupFails \/ OtaReplace
             \/ OtaReplaceFails \/ OtaRollsBack \/ OtaRollbackFails \/ OtaExecFails
    BY <1>6 DEF OtaNoFile, OtaDownloaded, OtaBackup, OtaBackupFails, OtaReplace,
       OtaReplaceFails, OtaRollsBack, OtaRollbackFails, OtaExecFails
  <1>7. CASE OtaExecs \/ PanelStarts
    BY <1>7, OtaAssumption DEF OtaExecs, PanelStarts, Boots, Runnable, Whole
  <1>8. CASE OtaExecDies \/ PanelKilled
    BY <1>8, OtaAssumption DEF OtaExecDies, PanelKilled, Gone
  <1>9. CASE UNCHANGED vars
    BY <1>9 DEF vars
  <1>. HIDE DEF PanelOK
  <1>. QED
    BY <1>1, <1>2, <1>3, <1>4, <1>5, <1>6, <1>7, <1>8, <1>9 DEF Next, Ota

LEMMA TypeStep ==
    ASSUME TypeOK, [Next]_vars
    PROVE  TypeOK'
  <1>1. offer' \in BOOLEAN
    <2>1. offer' \in {TRUE, FALSE, offer}
      <3>1. CASE \/ Asset("mww_worker", "worker", "worker_ok", "model")
                 \/ Asset("model", "model", "model_ok", "install")
        BY <3>1, AssetFrame, Zenon
      <3>2. CASE \E a \in Assets : StrayWrites(a) \/ StrayEnds(a)
        BY <3>2, StrayFrame, Zenon
      <3>. QED
        BY <3>1, <3>2, Zenon DEF Next, vars, Ota, CheckOta, CloseUpdatesScreen, StartOta,
           OtaBegins, CurlOpens, CurlFinishes, CurlFails, OtaNoFile, OtaDownloaded, OtaBackup,
           OtaBackupFails, OtaReplace, OtaReplaceFails, OtaRollsBack, OtaRollbackFails,
           OtaExecs, OtaExecFails, OtaExecDies, PanelStarts, PanelKilled, Boots, Gone
    <2>. QED
      BY <2>1, TypeParts, Zenon
  <1>. QED
    BY <1>1, FilesType, AssetsType, PanelType DEF TypeOK, FilesOK, AssetsOK, PanelOK

-----------------------------------------------------------------------------
(* Names and writers.                                                      *)

LEMMA OneNameStep ==
    ASSUME TypeOK, OneName, [Next]_vars
    PROVE  OneName'
  <1>. USE DEF OneName
  <1>. FilesOK
    BY TypeParts
  <1>1. CASE OtaBegins
    BY <1>1 DEF OtaBegins, FilesOK, Names
  <1>2. CASE \E c \in Curls : CurlOpens(c)
    <2>1. PICK i \in Inodes :
             /\ IF name["tmp"] = NoFile THEN Free(i) ELSE i = name["tmp"]
             /\ name' = [name EXCEPT !["tmp"] = i]
      BY <1>2 DEF CurlOpens
    <2>. QED
      BY <2>1 DEF FilesOK, Free, Names
  <1>3. CASE OtaBackup \/ OtaReplace \/ OtaRollsBack
    BY <1>3 DEF OtaBackup, OtaReplace, OtaRollsBack, Rename, FilesOK, Names
  <1>4. CASE OtaExecs \/ PanelStarts
    BY <1>4 DEF OtaExecs, PanelStarts, Boots, FilesOK, Names
  <1>5. CASE UNCHANGED name
    BY <1>5
  <1>. HIDE DEF OneName
  <1>. QED
    BY <1>1, <1>2, <1>3, <1>4, <1>5, AssetFrame, StrayFrame DEF Next, vars, Ota, CheckOta,
       CloseUpdatesScreen, StartOta, CurlFinishes, CurlFails, OtaNoFile, OtaDownloaded,
       OtaBackupFails, OtaReplaceFails, OtaRollbackFails, OtaExecFails, OtaExecDies, PanelKilled

LEMMA WritingStep ==
    ASSUME TypeOK, Writing, [Next]_vars
    PROVE  Writing'
  <1>. USE DEF Writing
  <1>. FilesOK
    BY TypeParts
  <1>1. CASE OtaBegins
    BY <1>1, OtaAssumption DEF OtaBegins, FilesOK
  <1>2. ASSUME NEW c \in Curls, CurlOpens(c) PROVE Writing'
    BY <1>2, OtaAssumption DEF CurlOpens, FilesOK
  <1>3. ASSUME NEW c \in Curls, CurlFinishes(c) PROVE Writing'
    BY <1>3, OtaAssumption DEF CurlFinishes, FilesOK
  <1>4. ASSUME NEW c \in Curls, CurlFails(c) PROVE Writing'
    BY <1>4, OtaAssumption DEF CurlFails, FilesOK
  <1>5. CASE PanelKilled
    BY <1>5, OtaAssumption DEF PanelKilled, FilesOK
  <1>6. CASE UNCHANGED <<data, curl>>
    BY <1>6
  <1>. HIDE DEF Writing
  <1>. QED
    BY <1>1, <1>2, <1>3, <1>4, <1>5, <1>6, AssetFrame, StrayFrame DEF Next, vars, Ota,
       CheckOta, CloseUpdatesScreen, StartOta, OtaNoFile, OtaDownloaded, OtaBackup,
       OtaBackupFails, OtaReplace, OtaReplaceFails, OtaRollsBack, OtaRollbackFails, OtaExecs,
       OtaExecFails, OtaExecDies, PanelStarts, Boots

-----------------------------------------------------------------------------
(* The copies of a working binary.                                         *)

\* A download damages no binary but the one it finds under the name it writes,
\* and that is a fault.
LEMMA CurlKeepsWhole ==
    ASSUME TypeOK, OneName, Writing, NEW c \in Curls,
           CurlOpens(c) \/ CurlFinishes(c) \/ CurlFails(c)
    PROVE  /\ \A n \in {"ha_panel", "old"} : Whole(name[n]) => Whole(name[n])'
           /\ \/ faults' = faults /\ (Whole(name["tmp"]) => Whole(name["tmp"])')
              \/ Faults(1)
  <1>. FilesOK
    BY TypeParts
  <1>1. CASE CurlOpens(c)
    <2>1. PICK i \in Inodes :
             /\ IF name["tmp"] = NoFile THEN Free(i) ELSE i = name["tmp"]
             /\ name' = [name EXCEPT !["tmp"] = i]
             /\ \E d \in {"mixed", "part"} : data' = [data EXCEPT ![i] = d]
      BY <1>1 DEF CurlOpens
    <2>2. name["ha_panel"] # i /\ name["old"] # i
      BY <2>1, OtaAssumption DEF Free, OneName, Names
    <2>3. IF name["tmp"] = NoFile THEN faults' = faults ELSE Faults(1)
      BY <1>1 DEF CurlOpens
    <2>. QED
      BY <2>1, <2>2, <2>3, OtaAssumption DEF Whole, FilesOK, Names
  <1>2. CASE CurlFinishes(c)
    BY <1>2, OtaAssumption DEF CurlFinishes, FilesOK, Whole, Writing, Names, update
  <1>3. CASE CurlFails(c)
    BY <1>3 DEF CurlFails, Whole, update
  <1>. QED
    BY <1>1, <1>2, <1>3

LEMMA CopiesStep ==
    ASSUME TypeOK, OneName, Writing, Copies, [Next]_vars
    PROVE  Copies'
  <1>. USE DEF Copies
  <1>. FilesOK
    BY TypeParts
  <1>0. faults \in Nat /\ faults \in 0 .. MaxFaults /\ ~Whole(NoFile)
    BY OtaAssumption DEF FilesOK, Whole
  <1>1. CASE \/ CheckOta \/ CloseUpdatesScreen \/ StartOta
             \/ OtaNoFile \/ OtaDownloaded \/ OtaExecFails \/ OtaExecDies
    BY <1>1 DEF CheckOta, CloseUpdatesScreen, StartOta, OtaNoFile, OtaDownloaded,
       OtaExecFails, OtaExecDies, Gone, Whole, update
  <1>2. CASE OtaBegins
    BY <1>2 DEF OtaBegins, Whole, FilesOK, Names
  <1>3. CASE \E c \in Curls : CurlOpens(c) \/ CurlFinishes(c) \/ CurlFails(c)
    <2>1. pc' = pc
      BY <1>3 DEF CurlOpens, CurlFinishes, CurlFails
    <2>2. /\ Whole(name["ha_panel"]) => Whole(name["ha_panel"])'
          /\ Whole(name["old"]) => Whole(name["old"])'
          /\ \/ faults' = faults /\ (Whole(name["tmp"]) => Whole(name["tmp"])')
             \/ Faults(1)
      BY <1>3, CurlKeepsWhole
    <2>3. CASE Faults(1)
      BY <1>0, <2>1, <2>2, <2>3, FaultFacts
    <2>4. CASE faults' = faults /\ (Whole(name["tmp"]) => Whole(name["tmp"])')
      BY <2>1, <2>2, <2>4
    <2>. QED
      BY <2>2, <2>3, <2>4
  <1>4. CASE \/ Asset("mww_worker", "worker", "worker_ok", "model")
             \/ Asset("model", "model", "model_ok", "install")
    <2>1. UNCHANGED <<name, data, faults>>
      BY <1>4, AssetFrame
    <2>2. pc \notin {"between", "rollback"} /\ pc' \notin {"between", "rollback"}
      BY <1>4, AssetPcs
    <2>. QED
      BY <2>1, <2>2 DEF Whole
  <1>5. CASE \E a \in Assets : StrayWrites(a) \/ StrayEnds(a)
    <2>1. UNCHANGED <<name, data, faults, pc>>
      BY <1>5, StrayFrame
    <2>. QED
      BY <2>1 DEF Whole
  <1>6. CASE OtaBackup
    <2>1. /\ pc = "install" /\ pc' = "between" /\ data' = data
          /\ Faults(Unfinished)
      BY <1>6 DEF OtaBackup
    <2>2. name'["tmp"] = name["tmp"] /\ name'["old"] = name["ha_panel"]
      BY <1>6, RenameFacts DEF OtaBackup, Names, FilesOK
    <2>3. \/ Whole(name["tmp"]) /\ faults' = faults
          \/ faults' > 0 /\ (faults > 0 => faults' > 1)
      <3>1. CASE Whole(name["tmp"])
        BY <1>0, <2>1, <3>1, FaultFacts DEF Unfinished
      <3>2. CASE ~Whole(name["tmp"])
        BY <1>0, <2>1, <3>2, FaultFacts DEF Unfinished
      <3>. QED
        BY <3>1, <3>2
    <2>4. faults' \in 0 .. MaxFaults
      BY <2>3, FilesType DEF FilesOK
    <2>. QED
      BY <1>0, <2>1, <2>2, <2>3, <2>4 DEF Whole
  <1>7. CASE OtaBackupFails
    <2>1. /\ pc = "install" /\ pc' = "between" /\ data' = data /\ name' = name
          /\ Faults(1 + Unfinished)
      BY <1>7 DEF OtaBackupFails
    <2>2. \/ Whole(name["tmp"]) /\ faults' > 0
          \/ faults' > 1
      <3>1. CASE Whole(name["tmp"])
        BY <1>0, <2>1, <3>1, FaultFacts DEF Unfinished
      <3>2. CASE ~Whole(name["tmp"])
        BY <1>0, <2>1, <3>2, FaultFacts DEF Unfinished
      <3>. QED
        BY <3>1, <3>2
    <2>3. faults' \in 0 .. MaxFaults
      BY FilesType DEF FilesOK
    <2>. QED
      BY <1>0, <2>1, <2>2, <2>3 DEF Whole
  <1>8. CASE OtaReplace
    <2>1. /\ pc = "between" /\ pc' = "exec" /\ data' = data /\ faults' = faults
          /\ name'["ha_panel"] = name["tmp"] /\ name'["old"] = name["old"]
      BY <1>8, RenameFacts DEF OtaReplace, Names, FilesOK, update
    <2>. QED
      BY <2>1 DEF Whole
  <1>9. CASE OtaReplaceFails
    <2>1. /\ pc = "between" /\ pc' = "rollback" /\ data' = data /\ name' = name /\ Faults(1)
      BY <1>9 DEF OtaReplaceFails
    <2>. QED
      BY <1>0, <2>1, FaultFacts DEF Whole
  <1>10. CASE OtaRollsBack
    <2>1. /\ pc = "rollback" /\ pc' = "idle" /\ data' = data /\ faults' = faults
          /\ name'["ha_panel"] = name["old"]
      BY <1>10, RenameFacts DEF OtaRollsBack, Names, FilesOK, update
    <2>. QED
      BY <1>0, <2>1 DEF Whole
  <1>11. CASE OtaRollbackFails
    <2>1. /\ pc = "rollback" /\ pc' = "idle" /\ data' = data /\ name' = name /\ Faults(1)
      BY <1>11 DEF OtaRollbackFails
    <2>. QED
      BY <1>0, <2>1, FaultFacts DEF Whole
  <1>12. CASE OtaExecs \/ PanelStarts
    BY <1>12 DEF OtaExecs, PanelStarts, Boots, Runnable, Whole, FilesOK, Names
  <1>13. CASE PanelKilled
    <2>1. /\ pc' = "idle" /\ data' = data /\ name' = name
          /\ Faults(IF pc \in {"between", "rollback"} THEN 1 ELSE 0)
      BY <1>13 DEF PanelKilled, Gone
    <2>2. CASE pc \in {"between", "rollback"}
      BY <1>0, <2>1, <2>2, FaultFacts DEF Whole
    <2>3. CASE pc \notin {"between", "rollback"}
      BY <1>0, <2>1, <2>3, FaultFacts DEF Whole
    <2>. QED
      BY <2>2, <2>3
  <1>14. CASE UNCHANGED vars
    BY <1>14 DEF vars, update, Whole
  <1>. HIDE DEF Copies
  <1>. QED
    BY <1>1, <1>2, <1>3, <1>4, <1>5, <1>6, <1>7, <1>8, <1>9, <1>10, <1>11, <1>12, <1>13,
       <1>14 DEF Next, Ota

-----------------------------------------------------------------------------
(* The binary that the update found.                                       *)

LEMMA FoundStep ==
    ASSUME TypeOK, FoundBinary, [Next]_vars
    PROVE  FoundBinary'
  <1>. USE DEF FoundBinary, update
  <1>. FilesOK /\ PanelOK
    BY TypeParts
  <1>1. CASE CheckOta \/ CloseUpdatesScreen \/ StartOta \/ OtaDownloaded \/ OtaNoFile
    BY <1>1 DEF CheckOta, CloseUpdatesScreen, StartOta, OtaDownloaded, OtaNoFile
  <1>2. CASE OtaBegins
    BY <1>2 DEF OtaBegins, FilesOK, PanelOK, Names
  <1>3. CASE \E c \in Curls : CurlOpens(c)
    BY <1>3 DEF CurlOpens, FilesOK, Names
  <1>4. CASE \E c \in Curls : CurlFinishes(c) \/ CurlFails(c)
    BY <1>4 DEF CurlFinishes, CurlFails
  <1>5. CASE \/ Asset("mww_worker", "worker", "worker_ok", "model")
             \/ Asset("model", "model", "model_ok", "install")
    BY <1>5, AssetFrame, AssetPcs
  <1>6. CASE \E a \in Assets : StrayWrites(a) \/ StrayEnds(a)
    BY <1>6, StrayFrame
  <1>7. CASE OtaBackup
    BY <1>7, RenameFacts DEF OtaBackup, FilesOK, PanelOK, Names
  <1>8. CASE OtaBackupFails
    BY <1>8 DEF OtaBackupFails
  <1>9. CASE OtaReplace \/ OtaRollsBack \/ OtaRollbackFails \/ OtaExecFails
    BY <1>9 DEF OtaReplace, OtaRollsBack, OtaRollbackFails, OtaExecFails
  <1>10. CASE OtaReplaceFails
    BY <1>10 DEF OtaReplaceFails
  <1>11. CASE OtaExecs \/ PanelStarts
    BY <1>11 DEF OtaExecs, PanelStarts, Boots
  <1>12. CASE OtaExecDies \/ PanelKilled
    BY <1>12 DEF OtaExecDies, PanelKilled, Gone
  <1>13. CASE UNCHANGED vars
    BY <1>13 DEF vars
  <1>. HIDE DEF FoundBinary, update
  <1>. QED
    BY <1>1, <1>2, <1>3, <1>4, <1>5, <1>6, <1>7, <1>8, <1>9, <1>10, <1>11, <1>12, <1>13
       DEF Next, Ota

-----------------------------------------------------------------------------
(* The worker and the model.                                               *)

LEMMA AssetsStep ==
    ASSUME TypeOK, FetchedAlone, AssetsAreWhole, [Next]_vars
    PROVE  FetchedAlone' /\ AssetsAreWhole'
  <1>. USE DEF FetchedAlone, AssetsAreWhole
  <1>. AssetsOK
    BY TypeParts
  <1>1. CASE Asset("mww_worker", "worker", "worker_ok", "model")
    BY <1>1 DEF Asset, AssetOpens, AssetComplete, AssetFails, AssetInstalls, Clash, other,
       AssetsOK, Assets
  <1>2. CASE Asset("model", "model", "model_ok", "install")
    BY <1>2 DEF Asset, AssetOpens, AssetComplete, AssetFails, AssetInstalls, Clash, other,
       AssetsOK, Assets
  <1>3. CASE \E a \in Assets : StrayWrites(a)
    BY <1>3 DEF StrayWrites, Downloading, AssetsOK, Assets
  <1>4. CASE \E a \in Assets : StrayEnds(a)
    BY <1>4 DEF StrayEnds
  <1>5. CASE PanelKilled
    BY <1>5 DEF PanelKilled, Gone
  <1>6. CASE /\ UNCHANGED <<assets, fetched, strays, clashed>>
             /\ pc' \notin {"worker_ok", "model_ok"} \/ pc' = pc
    BY <1>6
  <1>. HIDE DEF FetchedAlone, AssetsAreWhole
  <1>. QED
    BY <1>1, <1>2, <1>3, <1>4, <1>5, <1>6, OtherSteps

-----------------------------------------------------------------------------
(* The theorems.                                                           *)

LEMMA InitInvariant == Init => IInv
  <1>. SUFFICES ASSUME Init PROVE IInv
    OBVIOUS
  <1>1. PICK i \in Inodes : name = [n \in Names |-> IF n = "ha_panel" THEN i ELSE NoFile]
    BY DEF Init
  <1>2. TypeOK
    <2>1. offer \in BOOLEAN /\ ~offer
      BY Zenon DEF Init
    <2>. QED
      BY <1>1, <2>1, OtaAssumption DEF Init, TypeOK
  <1>3. OneName /\ Writing /\ FetchedAlone /\ AssetsAreWhole
    BY <1>1, OtaAssumption DEF Init, OneName, Writing, FetchedAlone, AssetsAreWhole
  <1>4. Copies /\ FoundBinary
    BY <1>1, OtaAssumption DEF Init, Copies, FoundBinary, Whole, Names
  <1>. QED
    BY <1>2, <1>3, <1>4 DEF IInv

LEMMA StepInvariant == IInv /\ [Next]_vars => IInv'
  BY TypeStep, OneNameStep, WritingStep, CopiesStep, FoundStep, AssetsStep DEF IInv

\* Every reachable state satisfies the inductive invariant.
THEOREM Invariance == Spec => []IInv
  BY InitInvariant, StepInvariant, PTL DEF Spec

\* Type correctness of the files, the downloads and the panel.
THEOREM TypeCorrect == Spec => []TypeOK
  <1>1. IInv => TypeOK
    BY DEF IInv
  <1>. QED
    BY <1>1, Invariance, PTL

\* Without a fault the panel is startable at every moment but the one between
\* the renames, and a single fault leaves a copy of a working binary, however
\* many downloads run and however often the update is tried.
THEOREM FaultsSurvived == Spec => []SurvivesFaults
  <1>1. IInv => SurvivesFaults
    BY DEF IInv, Copies, SurvivesFaults, StartableUnlessFault, SingleFaultKeepsACopy, Names
  <1>. QED
    BY <1>1, Invariance, PTL

\* No part of a worker or model is installed, whatever is left in the .tmp
\* files, unless two downloads wrote one of them at once.
THEOREM AssetsWhole == Spec => []AssetsAreWhole
  <1>1. IInv => AssetsAreWhole
    BY DEF IInv
  <1>. QED
    BY <1>1, Invariance, PTL

LEMMA RestoreStep ==
    ASSUME TypeOK, FoundBinary, Next, pc # "idle", pc # "exec", pc' = "idle", panel' = panel
    PROVE  /\ failed' \subseteq {"replace"} => name'["ha_panel"] = before
           /\ "backup" \notin failed' => before \in {name'["ha_panel"], name'["old"]}
  <1>. USE DEF update, FoundBinary
  <1>. FilesOK /\ PanelOK
    BY TypeParts
  <1>1. CASE OtaNoFile
    BY <1>1 DEF OtaNoFile
  <1>2. CASE OtaRollsBack
    BY <1>2, RenameFacts DEF OtaRollsBack, FilesOK, Names
  <1>3. CASE OtaRollbackFails
    BY <1>3 DEF OtaRollbackFails
  <1>4. CASE PanelStarts \/ PanelKilled
    BY <1>4 DEF PanelStarts, PanelKilled, Gone, PanelOK
  <1>5. CASE \/ Asset("mww_worker", "worker", "worker_ok", "model")
             \/ Asset("model", "model", "model_ok", "install")
    BY <1>5, AssetPcs
  <1>6. CASE \E a \in Assets : StrayWrites(a) \/ StrayEnds(a)
    BY <1>6, StrayFrame
  <1>. HIDE DEF update, FoundBinary
  <1>. QED
    BY <1>1, <1>2, <1>3, <1>4, <1>5, <1>6 DEF Next, Ota, CheckOta, CloseUpdatesScreen,
       StartOta, OtaBegins, CurlOpens, CurlFinishes, CurlFails, OtaDownloaded, OtaBackup,
       OtaBackupFails, OtaReplace, OtaReplaceFails, OtaExecs, OtaExecFails, OtaExecDies

\* An update that reports failure leaves the binary it found under its name,
\* or as ha_panel.old if the roll-back failed too, unless the backup failed.
THEOREM FailureRestored == Spec => FailureRestores
  <1>1. IInv /\ [Next]_vars =>
            [pc # "idle" /\ pc # "exec" /\ pc' = "idle" /\ panel' = panel =>
               /\ failed' \subseteq {"replace"} => name'["ha_panel"] = before
               /\ "backup" \notin failed' => before \in {name'["ha_panel"], name'["old"]}]_vars
    BY RestoreStep DEF IInv
  <1>. QED
    BY <1>1, Invariance, PTL DEF Spec, FailureRestores
=============================================================================
