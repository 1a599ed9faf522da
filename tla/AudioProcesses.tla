--------------------------- MODULE AudioProcesses ---------------------------
(***************************************************************************)
(* The processes behind the microphone: AssistAudioCapture (one arecord    *)
(* and the thread that reads it) and WakeWordListener (an arecord piped    *)
(* into mww_worker and the thread that monitors it), both driven by the UI *)
(* thread, over a kernel that hands out process ids again once they have   *)
(* been waited for.                                                        *)
(*                                                                         *)
(* Abstractions.  The audio itself and the pipes are left out: a process   *)
(* may end by itself at any moment, and a reading thread may leave its     *)
(* loop at any moment (end of file or error).  A process may be "deaf",    *)
(* stuck in the sound driver: no signal acts until it wakes.               *)
(***************************************************************************)
EXTENDS Naturals, FiniteSets

CONSTANTS
    Pids,         \* process ids (bound)
    NoPid,        \* -1
    Attempts      \* waitpid attempts of the capture thread (20 in the code)

ASSUME PidsAssumption == NoPid \notin Pids
ASSUME AttemptsAssumption == Attempts \in Nat \ {0}

VARIABLES
    state,        \* of each process
    kind,         \* what each process is
    hurt,         \* the signal pending for each process
    capRunning,   \* AssistAudioCapture::running_
    childPid,     \* AssistAudioCapture::child_pid_
    capThread,    \* where capture_loop is
    capChild,     \* its own child_pid
    attempt,      \* its loop counter
    reapers,      \* processes a detached thread waits for
    lisRunning,   \* WakeWordListener::running_
    lisPids,      \* capture_pid_ and worker_pid_
    monThread,    \* where monitor_loop is
    monPids,      \* its own capture_pid and worker_pid
    ui,           \* where the UI thread is
    goal,         \* "start" if the stop in progress is the first half of a start
    uiPids        \* the process ids the UI thread holds in locals

vars == <<state, kind, hurt, capRunning, childPid, capThread, capChild, attempt, reapers,
          lisRunning, lisPids, monThread, monPids, ui, goal, uiPids>>

kernelVars   == <<state, kind, hurt>>
captureVars  == <<capRunning, childPid, capThread, capChild, attempt, reapers>>
listenerVars == <<lisRunning, lisPids, monThread, monPids>>
uiVars       == <<ui, goal, uiPids>>

AnyPid  == Pids \cup {NoPid}
NoPids  == [mic |-> NoPid, worker |-> NoPid]
PidPair == [mic : AnyPid, worker : AnyPid]
OwnKinds == {"record", "mic", "worker"}

TypeOK ==
    /\ state \in [Pids -> {"free", "run", "deaf", "zombie"}]
    /\ kind \in [Pids -> OwnKinds \cup {"none", "foreign"}]
    /\ hurt \in [Pids -> {"none", "term", "kill"}]
    /\ \A p \in Pids : state[p] = "free" <=> kind[p] = "none"
    /\ capRunning \in BOOLEAN /\ childPid \in AnyPid
    /\ capThread \in {"none", "loop", "wait", "clear", "ended"}
    /\ capChild \in AnyPid /\ attempt \in 0 .. Attempts /\ reapers \subseteq Pids
    /\ lisRunning \in BOOLEAN /\ lisPids \in PidPair
    /\ monThread \in {"none", "loop", "reapMic", "reapWorker", "ended"}
    /\ monPids \in PidPair
    /\ ui \in {"idle", "capKill", "capJoin", "capFork", "cleaned", "lisKill", "lisJoin",
               "forkMic", "forkWorker", "waitMic"}
    /\ goal \in {"stop", "start"} /\ uiPids \in PidPair

Init ==
    /\ state = [p \in Pids |-> "free"] /\ kind = [p \in Pids |-> "none"]
    /\ hurt = [p \in Pids |-> "none"]
    /\ capRunning = FALSE /\ childPid = NoPid /\ capThread = "none"
    /\ capChild = NoPid /\ attempt = 0 /\ reapers = {}
    /\ lisRunning = FALSE /\ lisPids = NoPids /\ monThread = "none" /\ monPids = NoPids
    /\ ui = "idle" /\ goal = "stop" /\ uiPids = NoPids

-----------------------------------------------------------------------------
(* The kernel.                                                             *)

Alive(p)  == state[p] \in {"run", "deaf"}
Ended(p)  == state[p] = "zombie"

Spawn(p, k) ==
    /\ state[p] = "free"
    /\ state' = [state EXCEPT ![p] = "run"]
    /\ kind' = [kind EXCEPT ![p] = k]

\* waitpid returned p: the id is free for any other process.
Reap(p) ==
    /\ state' = [state EXCEPT ![p] = "free"]
    /\ kind' = [kind EXCEPT ![p] = "none"]
    /\ hurt' = [hurt EXCEPT ![p] = "none"]

\* kill(p, sig) for every p of a set of ids; one that is not in use is ignored.
Signal(targets, sig) ==
    hurt' = [p \in Pids |-> IF p \in targets /\ Alive(p) /\ hurt[p] # "kill"
                            THEN sig ELSE hurt[p]]

\* A process ends, by itself or by its signal, and waits to be reaped.
ProcessEnds(p) ==
    /\ state[p] = "run" /\ kind[p] \in OwnKinds
    /\ state' = [state EXCEPT ![p] = "zombie"]
    /\ hurt' = [hurt EXCEPT ![p] = "none"]
    /\ UNCHANGED <<kind, captureVars, listenerVars, uiVars>>

\* A signalled process does not get back into the driver.
ProcessStalls(p) ==
    /\ state[p] = "run" /\ kind[p] \in OwnKinds /\ hurt[p] = "none"
    /\ state' = [state EXCEPT ![p] = "deaf"]
    /\ UNCHANGED <<kind, hurt, captureVars, listenerVars, uiVars>>

ProcessWakes(p) ==
    /\ state[p] = "deaf" /\ state' = [state EXCEPT ![p] = "run"]
    /\ UNCHANGED <<kind, hurt, captureVars, listenerVars, uiVars>>

\* Any other program of the panel.
ForeignStarts(p) ==
    /\ Spawn(p, "foreign")
    /\ UNCHANGED <<hurt, captureVars, listenerVars, uiVars>>

ForeignEnds(p) ==
    /\ kind[p] = "foreign" /\ Reap(p)
    /\ UNCHANGED <<captureVars, listenerVars, uiVars>>

-----------------------------------------------------------------------------
(* AssistAudioCapture.                                                     *)

\* stop(), alone or as the first act of start(): the flag, then the id.
CaptureStop ==
    /\ ui = "idle" /\ ui' = "capKill" /\ goal' \in {"stop", "start"}
    /\ capRunning' = FALSE
    /\ uiPids' = [NoPids EXCEPT !.mic = childPid]
    /\ UNCHANGED <<kernelVars, childPid, capThread, capChild, attempt, reapers, listenerVars>>

CaptureStopKills ==
    /\ ui = "capKill" /\ ui' = "capJoin"
    /\ Signal({uiPids.mic} \ {NoPid}, "term")
    /\ UNCHANGED <<state, kind, captureVars, listenerVars, goal, uiPids>>

\* join(), then the fields are cleared.
CaptureStopJoins ==
    /\ ui = "capJoin" /\ capThread \in {"none", "ended"}
    /\ ui' = IF goal = "start" THEN "capFork" ELSE "idle"
    /\ capThread' = "none" /\ childPid' = NoPid /\ capChild' = NoPid /\ attempt' = 0
    /\ goal' = "stop" /\ uiPids' = NoPids
    /\ UNCHANGED <<kernelVars, capRunning, reapers, listenerVars>>

\* start(): pipe, fork and thread; a failure only leaves an error text.
CaptureStart ==
    /\ ui = "capFork" /\ ui' = "idle"
    /\ \/ \E p \in Pids :
            /\ Spawn(p, "record")
            /\ childPid' = p /\ capChild' = p
            /\ capRunning' = TRUE /\ capThread' = "loop"
       \/ UNCHANGED <<state, kind, childPid, capChild, capRunning, capThread>>
    /\ UNCHANGED <<hurt, attempt, reapers, listenerVars, goal, uiPids>>

\* capture_loop leaves its loop: stopped, end of file, or an error.
CaptureLoopEnds ==
    /\ capThread = "loop" /\ capThread' = "wait"
    /\ UNCHANGED <<kernelVars, capRunning, childPid, capChild, attempt, reapers,
                   listenerVars, uiVars>>

\* waitpid(WNOHANG) finds the child ended; or, the first time, it is told to.
CaptureReaps ==
    /\ capThread = "wait" /\ attempt < Attempts /\ Ended(capChild)
    /\ Reap(capChild) /\ capThread' = "clear"
    /\ UNCHANGED <<capRunning, childPid, capChild, attempt, reapers,
                   listenerVars, uiVars>>

CaptureWaits ==
    /\ capThread = "wait" /\ attempt < Attempts /\ ~Ended(capChild)
    /\ attempt' = attempt + 1
    /\ IF attempt = 0 THEN Signal({capChild}, "term")
       ELSE UNCHANGED hurt
    /\ UNCHANGED <<state, kind, capRunning, childPid, capThread, capChild, reapers,
                   listenerVars, uiVars>>

\* Variant: after SIGKILL nobody waits for the child.
CaptureKillsOnly ==
    /\ capThread = "wait" /\ attempt = Attempts
    /\ Signal({capChild}, "kill")
    /\ capThread' = "clear"
    /\ UNCHANGED <<state, kind, capRunning, childPid, capChild, attempt, reapers,
                   listenerVars, uiVars>>

\* Variant: after SIGKILL the thread itself waits, however long it takes.
CaptureWaitsForEnd ==
    /\ capThread = "wait" /\ attempt = Attempts
    /\ IF Ended(capChild) THEN Reap(capChild) /\ capThread' = "clear"
       ELSE Signal({capChild}, "kill") /\ UNCHANGED <<state, kind, capThread>>
    /\ UNCHANGED <<capRunning, childPid, capChild, attempt, reapers,
                   listenerVars, uiVars>>

\* SIGKILL, and a detached thread waits for the child.
CaptureGivesUp ==
    /\ capThread = "wait" /\ attempt = Attempts
    /\ Signal({capChild}, "kill")
    /\ reapers' = reapers \cup {capChild} /\ capThread' = "clear"
    /\ UNCHANGED <<state, kind, capRunning, childPid, capChild, attempt,
                   listenerVars, uiVars>>

\* Variant: SIGKILL once more, to be sure.
CaptureEndsSignals ==
    /\ capThread = "clear" /\ capThread' = "ended"
    /\ Signal({capChild}, "kill")
    /\ childPid' = IF childPid = capChild THEN NoPid ELSE childPid
    /\ capRunning' = FALSE
    /\ UNCHANGED <<state, kind, capChild, attempt, reapers, listenerVars, uiVars>>

CaptureEnds ==
    /\ capThread = "clear" /\ capThread' = "ended"
    /\ childPid' = IF childPid = capChild THEN NoPid ELSE childPid
    /\ capRunning' = FALSE
    /\ UNCHANGED <<kernelVars, capChild, attempt, reapers, listenerVars, uiVars>>

ReaperReaps(p) ==
    /\ p \in reapers /\ Ended(p) /\ Reap(p)
    /\ reapers' = reapers \ {p}
    /\ UNCHANGED <<capRunning, childPid, capThread, capChild, attempt,
                   listenerVars, uiVars>>

-----------------------------------------------------------------------------
(* WakeWordListener and start_wake_word_listener.                          *)

\* killall -9 mww_worker arecord, before the listener is started; the start
\* is then refused without configuration, worker or model.
CleanProcesses ==
    /\ ui = "idle" /\ ui' \in {"cleaned", "idle"}
    /\ hurt' = [p \in Pids |-> IF Alive(p) /\ kind[p] \in OwnKinds THEN "kill" ELSE hurt[p]]
    /\ UNCHANGED <<state, kind, captureVars, listenerVars, goal, uiPids>>

\* stop(), alone or as the first act of start().
ListenerStop ==
    /\ \/ ui = "idle" /\ goal' = "stop"
       \/ ui = "cleaned" /\ goal' = "start"
    /\ ui' = "lisKill"
    /\ lisRunning' = FALSE /\ uiPids' = lisPids
    /\ UNCHANGED <<kernelVars, captureVars, lisPids, monThread, monPids>>

ListenerStopKills ==
    /\ ui = "lisKill" /\ ui' = "lisJoin"
    /\ Signal({uiPids.mic, uiPids.worker} \ {NoPid}, "term")
    /\ UNCHANGED <<state, kind, captureVars, listenerVars, goal, uiPids>>

ListenerStopJoins ==
    /\ ui = "lisJoin" /\ monThread \in {"none", "ended"}
    /\ ui' = IF goal = "start" THEN "forkMic" ELSE "idle"
    /\ monThread' = "none" /\ lisPids' = NoPids /\ monPids' = NoPids
    /\ goal' = "stop" /\ uiPids' = NoPids
    /\ UNCHANGED <<kernelVars, captureVars, lisRunning>>

\* start(): the recorder, or an error without pipes or process.
ListenerForksMic ==
    /\ ui = "forkMic"
    /\ \/ \E p \in Pids :
            Spawn(p, "mic") /\ uiPids' = [uiPids EXCEPT !.mic = p] /\ ui' = "forkWorker"
       \/ ui' = "idle" /\ UNCHANGED <<state, kind, uiPids>>
    /\ UNCHANGED <<hurt, captureVars, listenerVars, goal>>

\* The worker, and the thread that monitors both.
ListenerForksWorker ==
    /\ ui = "forkWorker" /\ ui' = "idle"
    /\ \E p \in Pids :
        /\ Spawn(p, "worker")
        /\ lisPids' = [uiPids EXCEPT !.worker = p] /\ monPids' = [uiPids EXCEPT !.worker = p]
    /\ lisRunning' = TRUE /\ monThread' = "loop" /\ uiPids' = NoPids
    /\ UNCHANGED <<hurt, captureVars, goal>>

\* No worker: the recorder is told to end, and the UI thread waits for it.
ListenerForkFails ==
    /\ ui = "forkWorker" /\ ui' = "waitMic"
    /\ Signal({uiPids.mic}, "term")
    /\ UNCHANGED <<state, kind, captureVars, listenerVars, goal, uiPids>>

ListenerReapsMic ==
    /\ ui = "waitMic" /\ Ended(uiPids.mic) /\ ui' = "idle"
    /\ Reap(uiPids.mic) /\ uiPids' = NoPids
    /\ UNCHANGED <<captureVars, listenerVars, goal>>

\* monitor_loop leaves its loop: stopped, end of file, or an error.
MonitorLoopEnds ==
    /\ monThread = "loop" /\ monThread' = "reapMic"
    /\ lisRunning' = FALSE
    /\ Signal({monPids.mic, monPids.worker}, "term")
    /\ UNCHANGED <<state, kind, captureVars, lisPids, monPids, uiVars>>

\* Two blocking waits.
MonitorReapsMic ==
    /\ monThread = "reapMic" /\ Ended(monPids.mic) /\ monThread' = "reapWorker"
    /\ Reap(monPids.mic)
    /\ UNCHANGED <<captureVars, lisRunning, lisPids, monPids, uiVars>>

MonitorReapsWorker ==
    /\ monThread = "reapWorker" /\ Ended(monPids.worker) /\ monThread' = "ended"
    /\ Reap(monPids.worker)
    /\ UNCHANGED <<captureVars, lisRunning, lisPids, monPids, uiVars>>

-----------------------------------------------------------------------------
UiStep ==
    \/ CaptureStopKills \/ CaptureStopJoins \/ CaptureStart
    \/ ui = "cleaned" /\ ListenerStop
    \/ ListenerStopKills \/ ListenerStopJoins \/ ListenerForksMic
    \/ ListenerForksWorker \/ ListenerForkFails \/ ListenerReapsMic

CaptureStep == CaptureReaps \/ CaptureWaits \/ CaptureGivesUp \/ CaptureEnds

MonitorStep == MonitorReapsMic \/ MonitorReapsWorker

Next ==
    \/ CaptureStop \/ ListenerStop \/ CleanProcesses \/ UiStep
    \/ CaptureLoopEnds \/ CaptureStep \/ MonitorLoopEnds \/ MonitorStep
    \/ \E p \in Pids : \/ ReaperReaps(p) \/ ProcessEnds(p) \/ ProcessStalls(p)
                       \/ ProcessWakes(p) \/ ForeignStarts(p) \/ ForeignEnds(p)

Spec == Init /\ [][Next]_vars

-----------------------------------------------------------------------------
(* Safety.                                                                 *)

\* The threads and calls that are going to wait for process p.
Waiters(p) ==
    {w \in {"capture", "detached", "monitor mic", "monitor worker", "listener start"} :
        \/ w = "capture" /\ capThread \in {"loop", "wait"} /\ capChild = p
        \/ w = "detached" /\ p \in reapers
        \/ w = "monitor mic" /\ monThread \in {"loop", "reapMic"} /\ monPids.mic = p
        \/ w = "monitor worker" /\ monThread \in {"loop", "reapMic", "reapWorker"}
                                /\ monPids.worker = p
        \/ w = "listener start" /\ ui \in {"forkWorker", "waitMic"} /\ uiPids.mic = p}

\* Who may wait for each kind of child.
WaiterOf == [record |-> {"capture", "detached"}, mic |-> {"monitor mic", "listener start"},
             worker |-> {"monitor worker"}]

\* Every child has exactly one waiter, of its own component, and nobody waits
\* for a process that is not a child: no interleaving of stops, deaths and
\* failed starts leaves a zombie, lets a thread reap another's process, or
\* lets a stop() return while a process of its component has the microphone,
\* except for a recorder that a detached thread waits for after SIGKILL.
ChildrenAreAccountedFor ==
    /\ \A p \in Pids : IF kind[p] \in OwnKinds
                       THEN \E w \in WaiterOf[kind[p]] : Waiters(p) = {w}
                       ELSE Waiters(p) = {}
    /\ \A p \in reapers : Ended(p) \/ hurt[p] = "kill"

\* The id a stop() will copy is stale only in these windows: for the capture
\* between its thread's waitpid and the clearing of the field, for the
\* listener from its monitor's waitpid until the next stop.
RecordedIdIsOwn ==
    /\ childPid # NoPid => kind[childPid] = "record" \/ capThread = "clear"
    /\ lisPids.mic # NoPid => kind[lisPids.mic] = "mic" \/ monThread \in {"reapWorker", "ended"}
    /\ lisPids.worker # NoPid => kind[lisPids.worker] = "worker" \/ monThread = "ended"

\* A process that is not the panel's is signalled by a stop() only, with an id
\* that went stale in one of those windows: the threads and the failed start
\* signal children they have not yet waited for.
StraySignalsOnlyFromStop ==
    /\ []RecordedIdIsOwn
    /\ [][\A p \in Pids :
            kind[p] = "foreign" /\ hurt'[p] \notin {hurt[p], "none"} =>
                ui \in {"capKill", "lisKill"} /\ ui' # ui]_vars

-----------------------------------------------------------------------------
(* Liveness.  The threads run, and a process that is not stuck in the      *)
(* driver ends once it is signalled.  Nothing makes a stuck process wake.  *)

Fairness ==
    /\ WF_vars(UiStep) /\ WF_vars(CaptureStep) /\ WF_vars(MonitorStep)
    /\ WF_vars(CaptureLoopEnds /\ ~capRunning)
    /\ WF_vars(MonitorLoopEnds /\ ~lisRunning)
    /\ \A p \in Pids : WF_vars(ReaperReaps(p)) /\ WF_vars(hurt[p] # "none" /\ ProcessEnds(p))

FairSpec == Spec /\ Fairness

\* The UI thread never hangs in AssistAudioCapture::stop, even when arecord
\* is stuck for ever: the join waits for Attempts waitpids at most.  It leaves
\* WakeWordListener's start and stop provided that the listener's processes
\* are not stuck in the driver for ever: there it waits without limit.
UiThreadReturns ==
    /\ []<>(ui \notin {"capKill", "capJoin"})
    /\ (\A p \in Pids : []<>(~(kind[p] \in {"mic", "worker"} /\ state[p] = "deaf")))
        => []<>(ui \notin {"lisKill", "lisJoin", "waitMic"})

=============================================================================
