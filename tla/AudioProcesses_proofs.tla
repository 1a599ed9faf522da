----------------------- MODULE AudioProcesses_proofs -----------------------
(***************************************************************************)
(* Proofs about AudioProcesses for any set of process ids and any number   *)
(* of waitpid attempts.                                                    *)
(***************************************************************************)
EXTENDS AudioProcesses, TLAPS

KernelOK ==
    /\ state \in [Pids -> {"free", "run", "deaf", "zombie"}]
    /\ kind \in [Pids -> OwnKinds \cup {"none", "foreign"}]
    /\ hurt \in [Pids -> {"none", "term", "kill"}]
    /\ \A p \in Pids : state[p] = "free" <=> kind[p] = "none"

CaptureOK ==
    /\ capRunning \in BOOLEAN /\ childPid \in AnyPid
    /\ capThread \in {"none", "loop", "wait", "clear", "ended"}
    /\ capChild \in AnyPid /\ attempt \in 0 .. Attempts /\ reapers \subseteq Pids

ListenerOK ==
    /\ lisRunning \in BOOLEAN /\ lisPids \in PidPair
    /\ monThread \in {"none", "loop", "reapMic", "reapWorker", "ended"}
    /\ monPids \in PidPair

UiOK ==
    /\ ui \in {"idle", "capKill", "capJoin", "capFork", "cleaned", "lisKill", "lisJoin",
               "forkMic", "forkWorker", "waitMic"}
    /\ goal \in {"stop", "start"} /\ uiPids \in PidPair

-----------------------------------------------------------------------------
(* The inductive invariant.                                                *)

\* A thread that has a child knows its id, a recorded id is the thread's, and
\* start() forks only when the thread of its component has been joined.
IdsAgree ==
    /\ capThread # "none" => capChild \in Pids
    /\ childPid # NoPid => childPid = capChild /\ capThread \in {"loop", "wait", "clear"}
    /\ ui = "capFork" => capThread = "none"
    /\ monThread # "none" => monPids.mic \in Pids /\ monPids.worker \in Pids
    /\ lisPids.mic # NoPid => lisPids.mic = monPids.mic /\ monThread # "none"
    /\ lisPids.worker # NoPid => lisPids.worker = monPids.worker /\ monThread # "none"
    /\ ui \in {"forkMic", "forkWorker", "waitMic"} => monThread = "none"
    /\ ui \in {"forkWorker", "waitMic"} => uiPids.mic \in Pids

\* The five waiters of Waiters, one predicate each.
ByCapture(p) == capThread \in {"loop", "wait"} /\ capChild = p
ByReaper(p)  == p \in reapers
ByMonitorMic(p) == monThread \in {"loop", "reapMic"} /\ monPids.mic = p
ByMonitorWorker(p) == monThread \in {"loop", "reapMic", "reapWorker"} /\ monPids.worker = p
ByStart(p) == ui \in {"forkWorker", "waitMic"} /\ uiPids.mic = p

\* A process is a child of the kind its waiter expects exactly while it has
\* that waiter, and it never has two.
Recorders ==
    \A p \in Pids : /\ kind[p] = "record" <=> ByCapture(p) \/ ByReaper(p)
                    /\ ~(ByCapture(p) /\ ByReaper(p))

Mics ==
    \A p \in Pids : /\ kind[p] = "mic" <=> ByMonitorMic(p) \/ ByStart(p)
                    /\ ~(ByMonitorMic(p) /\ ByStart(p))

Workers == \A p \in Pids : kind[p] = "worker" <=> ByMonitorWorker(p)

\* A detached thread waits for a process that has ended or is being killed.
Doomed == \A p \in reapers : Ended(p) \/ hurt[p] = "kill"

IInv == TypeOK /\ IdsAgree /\ Recorders /\ Mics /\ Workers /\ Doomed

-----------------------------------------------------------------------------
(* Type correctness, one part of the state at a time.                      *)

LEMMA TypeParts == TypeOK <=> KernelOK /\ CaptureOK /\ ListenerOK /\ UiOK
  BY DEF TypeOK, KernelOK, CaptureOK, ListenerOK, UiOK

\* fork, waitpid and kill keep the process table typed.
LEMMA KernelFacts ==
    ASSUME KernelOK
    PROVE  /\ \A p \in Pids, k \in OwnKinds \cup {"foreign"} :
                  Spawn(p, k) /\ UNCHANGED hurt => KernelOK'
           /\ \A p \in Pids : Reap(p) => KernelOK'
           /\ \A T : \A sig \in {"term", "kill"} :
                  Signal(T, sig) /\ UNCHANGED <<state, kind>> => KernelOK'
  BY DEF KernelOK, Spawn, Reap, Signal, Alive, OwnKinds

\* Every id that is waited for is the id of a process.
LEMMA KernelType ==
    ASSUME TypeOK, IdsAgree, [Next]_vars
    PROVE  KernelOK'
  <1>. KernelOK
    BY TypeParts
  <1>1. CASE \/ CaptureStart \/ ListenerForksMic \/ ListenerForksWorker
             \/ \E p \in Pids : ForeignStarts(p)
    BY <1>1, KernelFacts DEF CaptureStart, ListenerForksMic, ListenerForksWorker,
       ForeignStarts, KernelOK, OwnKinds
  <1>2. CASE \/ CaptureReaps \/ ListenerReapsMic \/ MonitorReapsMic \/ MonitorReapsWorker
             \/ \E p \in Pids : ReaperReaps(p) \/ ForeignEnds(p)
    BY <1>2, KernelFacts DEF CaptureReaps, ListenerReapsMic, MonitorReapsMic,
       MonitorReapsWorker, ReaperReaps, ForeignEnds, IdsAgree
  <1>3. CASE \/ CaptureStopKills \/ CaptureWaits \/ CaptureGivesUp
             \/ ListenerStopKills \/ ListenerForkFails \/ MonitorLoopEnds
    BY <1>3, KernelFacts DEF CaptureStopKills, CaptureWaits, CaptureGivesUp,
       ListenerStopKills, ListenerForkFails, MonitorLoopEnds, KernelOK
  <1>4. CASE \/ CleanProcesses
             \/ \E p \in Pids : ProcessEnds(p) \/ ProcessStalls(p) \/ ProcessWakes(p)
    BY <1>4 DEF CleanProcesses, ProcessEnds, ProcessStalls, ProcessWakes, KernelOK, OwnKinds
  <1>5. CASE UNCHANGED kernelVars
    BY <1>5 DEF kernelVars, KernelOK
  <1>. QED
    BY <1>1, <1>2, <1>3, <1>4, <1>5 DEF Next, vars, kernelVars, UiStep, CaptureStep,
       MonitorStep, CaptureStop, CaptureStopJoins, CaptureLoopEnds, CaptureEnds,
       ListenerStop, ListenerStopJoins

\* The attempt counter never passes its limit.
LEMMA CaptureType ==
    ASSUME TypeOK, IdsAgree, [Next]_vars
    PROVE  CaptureOK'
  <1>. CaptureOK
    BY TypeParts
  <1>1. capRunning' \in BOOLEAN
    <2>1. capRunning' \in {TRUE, FALSE, capRunning}
      BY Zenon DEF Next, vars, captureVars, UiStep, CaptureStep, MonitorStep, CaptureStop,
         CaptureStopKills, CaptureStopJoins, CaptureStart, CaptureLoopEnds, CaptureReaps,
         CaptureWaits, CaptureGivesUp, CaptureEnds, CleanProcesses, ListenerStop,
         ListenerStopKills, ListenerStopJoins, ListenerForksMic, ListenerForksWorker,
         ListenerForkFails, ListenerReapsMic, MonitorLoopEnds, MonitorReapsMic,
         MonitorReapsWorker, ReaperReaps, ProcessEnds, ProcessStalls, ProcessWakes,
         ForeignStarts, ForeignEnds
    <2>. QED
      BY <2>1, Zenon DEF CaptureOK
  <1>. DEFINE Rest == /\ childPid \in AnyPid /\ capChild \in AnyPid
                      /\ capThread \in {"none", "loop", "wait", "clear", "ended"}
                      /\ attempt \in 0 .. Attempts /\ reapers \subseteq Pids
  <1>2. Rest
    BY DEF CaptureOK
  <1>3. Rest'
    <2>1. CASE CaptureStop \/ CaptureStopJoins \/ CaptureStart \/ CaptureLoopEnds
      BY <1>2, <2>1, AttemptsAssumption DEF CaptureStop, CaptureStopJoins, CaptureStart,
         CaptureLoopEnds, AnyPid
    <2>2. CASE CaptureReaps \/ CaptureGivesUp \/ CaptureEnds \/ \E p \in Pids : ReaperReaps(p)
      BY <1>2, <2>2 DEF CaptureReaps, CaptureGivesUp, CaptureEnds, ReaperReaps, IdsAgree,
         AnyPid
    <2>3. CASE CaptureWaits
      BY <1>2, <2>3, AttemptsAssumption DEF CaptureWaits
    <2>4. CASE UNCHANGED captureVars
      BY <1>2, <2>4 DEF captureVars
    <2>. HIDE DEF Rest
    <2>. QED
      BY <2>1, <2>2, <2>3, <2>4 DEF Next, vars, captureVars, UiStep, CaptureStep,
         MonitorStep, CaptureStopKills, CleanProcesses, ListenerStop, ListenerStopKills,
         ListenerStopJoins, ListenerForksMic, ListenerForksWorker, ListenerForkFails,
         ListenerReapsMic, MonitorLoopEnds, MonitorReapsMic, MonitorReapsWorker,
         ProcessEnds, ProcessStalls, ProcessWakes, ForeignStarts, ForeignEnds
  <1>. QED
    BY <1>1, <1>3 DEF CaptureOK

LEMMA ListenerType ==
    ASSUME TypeOK, [Next]_vars
    PROVE  ListenerOK'
  <1>. ListenerOK /\ UiOK
    BY TypeParts
  <1>1. lisRunning' \in BOOLEAN
    <2>1. lisRunning' \in {TRUE, FALSE, lisRunning}
      BY Zenon DEF Next, vars, listenerVars, UiStep, CaptureStep, MonitorStep, CaptureStop,
         CaptureStopKills, CaptureStopJoins, CaptureStart, CaptureLoopEnds, CaptureReaps,
         CaptureWaits, CaptureGivesUp, CaptureEnds, CleanProcesses, ListenerStop,
         ListenerStopKills, ListenerStopJoins, ListenerForksMic, ListenerForksWorker,
         ListenerForkFails, ListenerReapsMic, MonitorLoopEnds, MonitorReapsMic,
         MonitorReapsWorker, ReaperReaps, ProcessEnds, ProcessStalls, ProcessWakes,
         ForeignStarts, ForeignEnds
    <2>. QED
      BY <2>1, Zenon DEF ListenerOK
  <1>. DEFINE Rest == /\ lisPids \in PidPair /\ monPids \in PidPair
                      /\ monThread \in {"none", "loop", "reapMic", "reapWorker", "ended"}
  <1>2. Rest /\ uiPids \in PidPair
    BY DEF ListenerOK, UiOK
  <1>3. Rest'
    <2>1. CASE ListenerStop \/ ListenerStopJoins \/ ListenerForksWorker
      BY <1>2, <2>1 DEF ListenerStop, ListenerStopJoins, ListenerForksWorker, PidPair,
         NoPids, AnyPid
    <2>2. CASE MonitorLoopEnds \/ MonitorReapsMic \/ MonitorReapsWorker
      BY <1>2, <2>2 DEF MonitorLoopEnds, MonitorReapsMic, MonitorReapsWorker
    <2>3. CASE UNCHANGED listenerVars
      BY <1>2, <2>3 DEF listenerVars
    <2>. HIDE DEF Rest
    <2>. QED
      BY <2>1, <2>2, <2>3 DEF Next, vars, listenerVars, UiStep, CaptureStep, MonitorStep,
         CaptureStop, CaptureStopKills, CaptureStopJoins, CaptureStart, CaptureLoopEnds,
         CaptureReaps, CaptureWaits, CaptureGivesUp, CaptureEnds, CleanProcesses,
         ListenerStopKills, ListenerForksMic, ListenerForkFails, ListenerReapsMic,
         ReaperReaps, ProcessEnds, ProcessStalls, ProcessWakes, ForeignStarts, ForeignEnds
  <1>. QED
    BY <1>1, <1>3 DEF ListenerOK

LEMMA UiType ==
    ASSUME TypeOK, [Next]_vars
    PROVE  UiOK'
  <1>. CaptureOK /\ ListenerOK /\ UiOK
    BY TypeParts
  <1>1. CASE CaptureStop \/ CaptureStopKills \/ CaptureStopJoins \/ CaptureStart
    BY <1>1 DEF CaptureStop, CaptureStopKills, CaptureStopJoins, CaptureStart, CaptureOK,
       UiOK, PidPair, NoPids, AnyPid
  <1>2. CASE CleanProcesses \/ ListenerStop \/ ListenerStopKills \/ ListenerStopJoins
    BY <1>2 DEF CleanProcesses, ListenerStop, ListenerStopKills, ListenerStopJoins,
       ListenerOK, UiOK, PidPair, NoPids, AnyPid
  <1>3. CASE \/ ListenerForksMic \/ ListenerForksWorker \/ ListenerForkFails
             \/ ListenerReapsMic
    BY <1>3 DEF ListenerForksMic, ListenerForksWorker, ListenerForkFails, ListenerReapsMic,
       UiOK, PidPair, NoPids, AnyPid
  <1>4. CASE UNCHANGED uiVars
    BY <1>4 DEF uiVars, UiOK
  <1>. QED
    BY <1>1, <1>2, <1>3, <1>4 DEF Next, vars, uiVars, UiStep, CaptureStep, MonitorStep,
       CaptureLoopEnds, CaptureReaps, CaptureWaits, CaptureGivesUp, CaptureEnds,
       MonitorLoopEnds, MonitorReapsMic, MonitorReapsWorker, ReaperReaps, ProcessEnds,
       ProcessStalls, ProcessWakes, ForeignStarts, ForeignEnds

LEMMA TypeStep ==
    ASSUME TypeOK, IdsAgree, [Next]_vars
    PROVE  TypeOK'
  <1>1. KernelOK' /\ CaptureOK' /\ ListenerOK' /\ UiOK'
    BY KernelType, CaptureType, ListenerType, UiType
  <1>. QED
    BY <1>1 DEF TypeOK, KernelOK, CaptureOK, ListenerOK, UiOK

-----------------------------------------------------------------------------
(* The ids the threads, the fields and the UI thread hold.                 *)

LEMMA IdsStep ==
    ASSUME TypeOK, IdsAgree, [Next]_vars
    PROVE  IdsAgree'
  <1>. USE DEF IdsAgree
  <1>1. CASE CaptureStop \/ CaptureStopKills \/ CleanProcesses
    BY <1>1 DEF CaptureStop, CaptureStopKills, CleanProcesses, captureVars, listenerVars
  <1>2. CASE CaptureStopJoins
    BY <1>2 DEF CaptureStopJoins, listenerVars
  <1>3. CASE CaptureStart
    BY <1>3, PidsAssumption DEF CaptureStart, listenerVars
  <1>4. CASE CaptureLoopEnds \/ CaptureReaps \/ CaptureGivesUp
    BY <1>4 DEF CaptureLoopEnds, CaptureReaps, CaptureGivesUp, listenerVars, uiVars
  <1>5. CASE CaptureEnds
    BY <1>5 DEF CaptureEnds, listenerVars, uiVars
  <1>6. CASE ListenerStop \/ ListenerStopKills
    BY <1>6 DEF ListenerStop, ListenerStopKills, captureVars, listenerVars
  <1>7. CASE ListenerStopJoins
    BY <1>7 DEF ListenerStopJoins, captureVars, NoPids
  <1>8. CASE ListenerForksMic
    BY <1>8 DEF ListenerForksMic, captureVars, listenerVars, TypeOK, PidPair
  <1>9. CASE ListenerForksWorker
    BY <1>9 DEF ListenerForksWorker, captureVars, TypeOK, PidPair
  <1>10. CASE ListenerForkFails \/ ListenerReapsMic
    BY <1>10 DEF ListenerForkFails, ListenerReapsMic, captureVars, listenerVars
  <1>11. CASE MonitorLoopEnds \/ MonitorReapsMic \/ MonitorReapsWorker
    BY <1>11 DEF MonitorLoopEnds, MonitorReapsMic, MonitorReapsWorker, captureVars, uiVars
  <1>12. CASE UNCHANGED <<childPid, capThread, capChild, listenerVars, uiVars>>
    BY <1>12 DEF listenerVars, uiVars
  <1>. HIDE DEF IdsAgree
  <1>. QED
    BY <1>1, <1>2, <1>3, <1>4, <1>5, <1>6, <1>7, <1>8, <1>9, <1>10, <1>11, <1>12
       DEF Next, vars, UiStep, CaptureStep, MonitorStep, captureVars, listenerVars, uiVars,
           CaptureWaits, ReaperReaps, ProcessEnds, ProcessStalls, ProcessWakes,
           ForeignStarts, ForeignEnds

-----------------------------------------------------------------------------
(* Every child and its waiter.                                             *)

\* A recorder passes from the capture thread to a detached thread or to
\* nobody, and is reaped by whoever it then belongs to.
LEMMA RecordersStep ==
    ASSUME IInv, [Next]_vars
    PROVE  Recorders'
  <1>. USE DEF Recorders, ByCapture, ByReaper
  <1>. TypeOK /\ IdsAgree /\ Recorders /\ Mics /\ Workers
    BY DEF IInv
  <1>1. CASE CaptureStopJoins \/ CaptureLoopEnds \/ CaptureEnds
    BY <1>1 DEF CaptureStopJoins, CaptureLoopEnds, CaptureEnds, kernelVars
  <1>2. CASE CaptureStart
    BY <1>2 DEF CaptureStart, Spawn, TypeOK, IdsAgree
  <1>3. CASE CaptureReaps
    BY <1>3 DEF CaptureReaps, Reap, TypeOK, IdsAgree
  <1>4. CASE CaptureGivesUp
    BY <1>4 DEF CaptureGivesUp
  <1>5. CASE \E p \in Pids : ReaperReaps(p)
    BY <1>5 DEF ReaperReaps, Reap, TypeOK
  <1>6. CASE ListenerForksMic \/ ListenerForksWorker
    BY <1>6 DEF ListenerForksMic, ListenerForksWorker, captureVars, Spawn, TypeOK
  <1>7. CASE ListenerReapsMic
    BY <1>7 DEF ListenerReapsMic, captureVars, Reap, TypeOK, IdsAgree, Mics, ByStart
  <1>8. CASE MonitorReapsMic \/ MonitorReapsWorker
    BY <1>8 DEF MonitorReapsMic, MonitorReapsWorker, captureVars, Reap, TypeOK, IdsAgree,
       Mics, Workers, ByMonitorMic, ByMonitorWorker
  <1>9. CASE \E p \in Pids : ForeignStarts(p) \/ ForeignEnds(p)
    BY <1>9 DEF ForeignStarts, ForeignEnds, captureVars, Spawn, Reap, TypeOK
  <1>10. CASE UNCHANGED <<kind, capThread, capChild, reapers>>
    BY <1>10
  <1>. HIDE DEF Recorders
  <1>. QED
    BY <1>1, <1>2, <1>3, <1>4, <1>5, <1>6, <1>7, <1>8, <1>9, <1>10
       DEF Next, vars, UiStep, CaptureStep, MonitorStep, kernelVars, captureVars,
           CaptureStop, CaptureStopKills, CaptureWaits, CleanProcesses, ListenerStop,
           ListenerStopKills, ListenerStopJoins, ListenerForkFails, MonitorLoopEnds,
           ProcessEnds, ProcessStalls, ProcessWakes

\* The listener's recorder passes from start() to the monitor thread.
LEMMA MicsStep ==
    ASSUME IInv, [Next]_vars
    PROVE  Mics'
  <1>. USE DEF Mics, ByMonitorMic, ByStart
  <1>. TypeOK /\ IdsAgree /\ Recorders /\ Mics /\ Workers
    BY DEF IInv
  <1>1. CASE CaptureStop \/ CaptureStopKills \/ CaptureStopJoins \/ CleanProcesses
    BY <1>1 DEF CaptureStop, CaptureStopKills, CaptureStopJoins, CleanProcesses, kernelVars,
       listenerVars
  <1>2. CASE CaptureStart
    BY <1>2 DEF CaptureStart, listenerVars, Spawn, TypeOK
  <1>3. CASE CaptureReaps \/ \E p \in Pids : ReaperReaps(p)
    BY <1>3 DEF CaptureReaps, ReaperReaps, listenerVars, uiVars, Reap, TypeOK, IdsAgree,
       Recorders, ByCapture, ByReaper
  <1>4. CASE ListenerStop \/ ListenerStopKills \/ ListenerStopJoins
    BY <1>4 DEF ListenerStop, ListenerStopKills, ListenerStopJoins, kernelVars, listenerVars
  <1>5. CASE ListenerForksMic
    BY <1>5 DEF ListenerForksMic, listenerVars, Spawn, TypeOK, IdsAgree, PidPair
  <1>6. CASE ListenerForksWorker
    BY <1>6 DEF ListenerForksWorker, Spawn, TypeOK, IdsAgree, PidPair
  <1>7. CASE ListenerForkFails
    BY <1>7 DEF ListenerForkFails, listenerVars
  <1>8. CASE ListenerReapsMic
    BY <1>8 DEF ListenerReapsMic, listenerVars, Reap, TypeOK, IdsAgree
  <1>9. CASE MonitorLoopEnds
    BY <1>9 DEF MonitorLoopEnds, uiVars
  <1>10. CASE MonitorReapsMic
    BY <1>10 DEF MonitorReapsMic, uiVars, Reap, TypeOK, IdsAgree
  <1>11. CASE MonitorReapsWorker
    BY <1>11 DEF MonitorReapsWorker, uiVars, Reap, TypeOK, IdsAgree, Workers, ByMonitorWorker
  <1>12. CASE \E p \in Pids : ForeignStarts(p) \/ ForeignEnds(p)
    BY <1>12 DEF ForeignStarts, ForeignEnds, listenerVars, uiVars, Spawn, Reap, TypeOK
  <1>13. CASE UNCHANGED <<kind, monThread, monPids, ui, uiPids>>
    BY <1>13
  <1>. HIDE DEF Mics
  <1>. QED
    BY <1>1, <1>2, <1>3, <1>4, <1>5, <1>6, <1>7, <1>8, <1>9, <1>10, <1>11, <1>12, <1>13
       DEF Next, vars, UiStep, CaptureStep, MonitorStep, kernelVars, listenerVars, uiVars,
           CaptureLoopEnds, CaptureWaits, CaptureGivesUp, CaptureEnds,
           ProcessEnds, ProcessStalls, ProcessWakes

LEMMA WorkersStep ==
    ASSUME IInv, [Next]_vars
    PROVE  Workers'
  <1>. USE DEF Workers, ByMonitorWorker
  <1>. TypeOK /\ IdsAgree /\ Recorders /\ Mics /\ Workers
    BY DEF IInv
  <1>1. CASE CaptureStart \/ ListenerForksMic
    BY <1>1 DEF CaptureStart, ListenerForksMic, listenerVars, Spawn, TypeOK
  <1>2. CASE CaptureReaps \/ \E p \in Pids : ReaperReaps(p)
    BY <1>2 DEF CaptureReaps, ReaperReaps, listenerVars, Reap, TypeOK, IdsAgree,
       Recorders, ByCapture, ByReaper
  <1>3. CASE ListenerStopJoins
    BY <1>3 DEF ListenerStopJoins, kernelVars
  <1>4. CASE ListenerForksWorker
    BY <1>4 DEF ListenerForksWorker, Spawn, TypeOK, IdsAgree, PidPair
  <1>5. CASE ListenerReapsMic \/ MonitorReapsMic
    BY <1>5 DEF ListenerReapsMic, MonitorReapsMic, listenerVars, Reap, TypeOK, IdsAgree,
       Mics, ByStart, ByMonitorMic
  <1>6. CASE MonitorLoopEnds
    BY <1>6 DEF MonitorLoopEnds
  <1>7. CASE MonitorReapsWorker
    BY <1>7 DEF MonitorReapsWorker, Reap, TypeOK, IdsAgree
  <1>8. CASE \E p \in Pids : ForeignStarts(p) \/ ForeignEnds(p)
    BY <1>8 DEF ForeignStarts, ForeignEnds, listenerVars, Spawn, Reap, TypeOK
  <1>9. CASE UNCHANGED <<kind, monThread, monPids>>
    BY <1>9
  <1>. HIDE DEF Workers
  <1>. QED
    BY <1>1, <1>2, <1>3, <1>4, <1>5, <1>6, <1>7, <1>8, <1>9
       DEF Next, vars, UiStep, CaptureStep, MonitorStep, kernelVars, listenerVars,
           CaptureStop, CaptureStopKills, CaptureStopJoins, CaptureLoopEnds, CaptureWaits,
           CaptureGivesUp, CaptureEnds, CleanProcesses, ListenerStop, ListenerStopKills,
           ListenerForkFails, ProcessEnds, ProcessStalls, ProcessWakes

\* A pending SIGKILL stays pending until its process ends.
LEMMA KillIsKept ==
    ASSUME KernelOK, NEW T, NEW sig \in {"term", "kill"}, Signal(T, sig)
    PROVE  \A p \in Pids : hurt[p] = "kill" => hurt'[p] = "kill"
  BY DEF KernelOK, Signal

\* No step but its own reaper's takes a process from a detached thread.
LEMMA DoomedStep ==
    ASSUME IInv, [Next]_vars
    PROVE  Doomed'
  <1>. USE DEF Doomed, Ended
  <1>. TypeOK /\ IdsAgree /\ Recorders /\ Mics /\ Workers /\ Doomed /\ KernelOK
    BY TypeParts DEF IInv
  <1>1. CASE CaptureStart \/ ListenerForksMic \/ ListenerForksWorker
    BY <1>1 DEF CaptureStart, ListenerForksMic, ListenerForksWorker, captureVars, Spawn,
       TypeOK
  <1>2. CASE \/ CaptureStopKills \/ CaptureWaits
             \/ ListenerStopKills \/ ListenerForkFails \/ MonitorLoopEnds
    BY <1>2, KillIsKept DEF CaptureStopKills, CaptureWaits, ListenerStopKills,
       ListenerForkFails, MonitorLoopEnds, captureVars, TypeOK
  <1>3. CASE CaptureGivesUp
    <2>1. capChild \in Pids /\ kind[capChild] = "record"
      BY <1>3 DEF CaptureGivesUp, IdsAgree, Recorders, ByCapture
    <2>2. Ended(capChild) \/ Alive(capChild)
      BY <2>1 DEF TypeOK, Alive
    <2>. QED
      BY <1>3, <2>1, <2>2, KillIsKept DEF CaptureGivesUp, Signal, TypeOK
  <1>4. CASE CaptureReaps
    BY <1>4 DEF CaptureReaps, Reap, TypeOK, IdsAgree, Recorders, ByCapture, ByReaper
  <1>5. CASE \E p \in Pids : ReaperReaps(p)
    BY <1>5 DEF ReaperReaps, Reap, TypeOK
  <1>6. CASE ListenerReapsMic \/ MonitorReapsMic \/ MonitorReapsWorker
    <2>1. PICK p \in Pids : kind[p] \in {"mic", "worker"} /\ Reap(p)
      BY <1>6 DEF ListenerReapsMic, MonitorReapsMic, MonitorReapsWorker, IdsAgree, Mics,
         Workers, ByStart, ByMonitorMic, ByMonitorWorker
    <2>2. p \notin reapers
      BY <2>1 DEF Recorders, ByReaper
    <2>. QED
      BY <1>6, <2>1, <2>2 DEF ListenerReapsMic, MonitorReapsMic, MonitorReapsWorker,
         captureVars, Reap, TypeOK
  <1>7. CASE CleanProcesses
    BY <1>7 DEF CleanProcesses, captureVars, TypeOK
  <1>8. CASE \E p \in Pids : ProcessEnds(p) \/ ProcessStalls(p) \/ ProcessWakes(p)
    BY <1>8 DEF ProcessEnds, ProcessStalls, ProcessWakes, captureVars, TypeOK
  <1>9. CASE \E p \in Pids : ForeignStarts(p) \/ ForeignEnds(p)
    BY <1>9 DEF ForeignStarts, ForeignEnds, captureVars, Spawn, Reap, TypeOK, Recorders,
       ByReaper
  <1>10. CASE UNCHANGED <<state, hurt, reapers>>
    BY <1>10
  <1>. HIDE DEF Doomed
  <1>. QED
    BY <1>1, <1>2, <1>3, <1>4, <1>5, <1>6, <1>7, <1>8, <1>9, <1>10
       DEF Next, vars, UiStep, CaptureStep, MonitorStep, kernelVars, captureVars,
           CaptureStop, CaptureStopJoins, CaptureLoopEnds, CaptureEnds, ListenerStop,
           ListenerStopJoins

-----------------------------------------------------------------------------
(* The theorems.                                                           *)

LEMMA InitInvariant == Init => IInv
  <1>. SUFFICES ASSUME Init PROVE IInv
    OBVIOUS
  <1>1. capRunning \in BOOLEAN /\ lisRunning \in BOOLEAN
    BY Zenon DEF Init
  <1>2. TypeOK
    BY <1>1, AttemptsAssumption DEF Init, TypeOK, AnyPid, NoPids, PidPair, OwnKinds
  <1>3. IdsAgree
    BY DEF Init, IdsAgree, NoPids
  <1>4. Recorders /\ Mics /\ Workers /\ Doomed
    BY DEF Init, Recorders, Mics, Workers, Doomed, ByCapture, ByReaper, ByMonitorMic,
       ByMonitorWorker, ByStart
  <1>. QED
    BY <1>2, <1>3, <1>4 DEF IInv

LEMMA StepInvariant == IInv /\ [Next]_vars => IInv'
  <1>. SUFFICES ASSUME IInv, [Next]_vars PROVE IInv'
    OBVIOUS
  <1>1. TypeOK' /\ IdsAgree'
    BY TypeStep, IdsStep DEF IInv
  <1>2. Recorders' /\ Mics' /\ Workers' /\ Doomed'
    BY RecordersStep, MicsStep, WorkersStep, DoomedStep
  <1>. QED
    BY <1>1, <1>2 DEF IInv

\* Every reachable state satisfies the inductive invariant.
THEOREM Invariance == Spec => []IInv
  BY InitInvariant, StepInvariant, PTL DEF Spec

\* Type correctness of the process table, the two components' fields and the
\* places of their threads.
THEOREM TypeCorrect == Spec => []TypeOK
  <1>1. IInv => TypeOK
    BY DEF IInv
  <1>. QED
    BY <1>1, Invariance, PTL

\* Waiters in terms of the five predicates.
LEMMA WaitersFacts ==
    ASSUME NEW p
    PROVE  \A w : w \in Waiters(p) <=> \/ w = "capture" /\ ByCapture(p)
                                       \/ w = "detached" /\ ByReaper(p)
                                       \/ w = "monitor mic" /\ ByMonitorMic(p)
                                       \/ w = "monitor worker" /\ ByMonitorWorker(p)
                                       \/ w = "listener start" /\ ByStart(p)
  BY DEF Waiters, ByCapture, ByReaper, ByMonitorMic, ByMonitorWorker, ByStart

LEMMA AccountsFollow == IInv => ChildrenAreAccountedFor
  <1>. SUFFICES ASSUME IInv PROVE ChildrenAreAccountedFor
    OBVIOUS
  <1>. TypeOK /\ Recorders /\ Mics /\ Workers /\ Doomed
    BY DEF IInv
  <1>1. /\ WaiterOf["record"] = {"capture", "detached"}
        /\ WaiterOf["mic"] = {"monitor mic", "listener start"}
        /\ WaiterOf["worker"] = {"monitor worker"}
    BY DEF WaiterOf
  <1>2. ASSUME NEW p \in Pids
        PROVE  IF kind[p] \in OwnKinds
               THEN \E w \in WaiterOf[kind[p]] : Waiters(p) = {w}
               ELSE Waiters(p) = {}
    <2>1. CASE kind[p] = "record"
      <3>1. Waiters(p) = {"capture"} \/ Waiters(p) = {"detached"}
        BY <2>1, WaitersFacts DEF Recorders, Mics, Workers
      <3>. QED
        BY <2>1, <3>1, <1>1 DEF OwnKinds
    <2>2. CASE kind[p] = "mic"
      <3>1. Waiters(p) = {"monitor mic"} \/ Waiters(p) = {"listener start"}
        BY <2>2, WaitersFacts DEF Recorders, Mics, Workers
      <3>. QED
        BY <2>2, <3>1, <1>1 DEF OwnKinds
    <2>3. CASE kind[p] = "worker"
      <3>1. Waiters(p) = {"monitor worker"}
        BY <2>3, WaitersFacts DEF Recorders, Mics, Workers
      <3>. QED
        BY <2>3, <3>1, <1>1 DEF OwnKinds
    <2>4. CASE kind[p] \notin OwnKinds
      <3>1. Waiters(p) = {}
        BY <2>4, WaitersFacts DEF Recorders, Mics, Workers, OwnKinds
      <3>. QED
        BY <2>4, <3>1
    <2>. QED
      BY <2>1, <2>2, <2>3, <2>4 DEF OwnKinds
  <1>. QED
    BY <1>2 DEF ChildrenAreAccountedFor, Doomed

\* Every child of the capture and of the listener has exactly one waiter, of
\* its own component, whatever the order of stops, deaths and failed starts;
\* nobody waits for a process that is not a child; and a detached thread's
\* recorder has ended or has SIGKILL pending.
THEOREM AccountedForever == Spec => []ChildrenAreAccountedFor
  BY AccountsFollow, Invariance, PTL

LEMMA RecordedFollows == IInv => RecordedIdIsOwn
  BY DEF IInv, RecordedIdIsOwn, TypeOK, IdsAgree, Recorders, Mics, Workers, ByCapture,
     ByMonitorMic, ByMonitorWorker, PidPair, AnyPid

\* What a step's signals may hit.
StrayOnlyFromStop ==
    \A p \in Pids :
        kind[p] = "foreign" /\ hurt'[p] \notin {hurt[p], "none"} =>
            ui \in {"capKill", "lisKill"} /\ ui' # ui

LEMMA StrayStep == IInv /\ Next => StrayOnlyFromStop
  <1>. SUFFICES ASSUME IInv, Next, NEW p \in Pids, kind[p] = "foreign",
                       hurt'[p] \notin {hurt[p], "none"}
                PROVE  ui \in {"capKill", "lisKill"} /\ ui' # ui
    BY DEF StrayOnlyFromStop
  <1>. TypeOK /\ IdsAgree /\ Recorders /\ Mics /\ Workers
    BY DEF IInv
  <1>1. CASE CaptureStopKills \/ ListenerStopKills
    BY <1>1 DEF CaptureStopKills, ListenerStopKills
  <1>2. CASE CaptureWaits \/ CaptureGivesUp
    BY <1>2 DEF CaptureWaits, CaptureGivesUp, Signal, IdsAgree, Recorders, ByCapture
  <1>3. CASE ListenerForkFails
    BY <1>3 DEF ListenerForkFails, Signal, IdsAgree, Mics, ByStart
  <1>4. CASE MonitorLoopEnds
    BY <1>4 DEF MonitorLoopEnds, Signal, IdsAgree, Mics, Workers, ByMonitorMic,
       ByMonitorWorker
  <1>5. CASE CleanProcesses
    BY <1>5 DEF CleanProcesses, OwnKinds
  <1>6. CASE \/ CaptureReaps \/ ListenerReapsMic \/ MonitorReapsMic \/ MonitorReapsWorker
             \/ \E q \in Pids : ReaperReaps(q) \/ ForeignEnds(q) \/ ProcessEnds(q)
    BY <1>6 DEF CaptureReaps, ListenerReapsMic, MonitorReapsMic, MonitorReapsWorker,
       ReaperReaps, ForeignEnds, ProcessEnds, Reap, TypeOK
  <1>. QED
    BY <1>1, <1>2, <1>3, <1>4, <1>5, <1>6 DEF Next, UiStep, CaptureStep, MonitorStep,
       kernelVars, CaptureStop, CaptureStopJoins, CaptureStart, CaptureLoopEnds,
       CaptureEnds, ListenerStop, ListenerStopJoins, ListenerForksMic,
       ListenerForksWorker, ProcessStalls, ProcessWakes, ForeignStarts

\* A recorded id is stale only in the windows RecordedIdIsOwn names, and a
\* process that is not the panel's is signalled by a stop() only.
THEOREM StraySignals == Spec => StraySignalsOnlyFromStop
  <1>1. IInv /\ [Next]_vars =>
            [\A p \in Pids :
                kind[p] = "foreign" /\ hurt'[p] \notin {hurt[p], "none"} =>
                    ui \in {"capKill", "lisKill"} /\ ui' # ui]_vars
    BY StrayStep DEF StrayOnlyFromStop
  <1>. QED
    BY <1>1, RecordedFollows, Invariance, PTL DEF Spec, StraySignalsOnlyFromStop
=============================================================================
