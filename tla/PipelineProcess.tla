-------------------------- MODULE PipelineProcess --------------------------
(***************************************************************************)
(* One voice command at work: the detached thread of the panel             *)
(* (run_assist_pipeline_process), the child process it forks               *)
(* (assist_pipeline_child_main) and the download and player processes that *)
(* child starts in process groups of their own (run_process).              *)
(*                                                                         *)
(* Abstractions.  The child's output is a FIFO of lines, one word each;    *)
(* the websocket is a choice of what Home Assistant sends next, in the     *)
(* order of its pipeline (external).  Time counts in units of 5 s from the *)
(* moment the child has its audio, its alarm being ahead by what the audio *)
(* took; what takes well under a unit (a fork, a signal, a line on the     *)
(* pipe) takes no time.  A child may freeze (stopped or stuck in the       *)
(* kernel): it then makes no step but dying of SIGKILL; a player dies of   *)
(* SIGKILL at once.                                                        *)
(* Bound: a new command starts when the last child has been reaped.        *)
(***************************************************************************)
EXTENDS Naturals, Sequences

VARIABLES
    parent,       \* where the thread is
    cancelled,    \* is_cancelled(): the generation was superseded
    stopped,      \* the local flag "cancelled": the thread acted on it
    said,         \* progress reported by on_progress for this command
    final,        \* final_output, "none" while empty
    result,       \* the returned result
    reaper,       \* a detached thread waits for the child
    child,        \* where the child is
    frozen,       \* the child makes no progress
    signal,       \* the signal pending for the child
    heard,        \* the last pipeline event the child received
    success,      \* result.success of the child, and its kind
    job,          \* which run_process call the child is in
    player,       \* that call's process runs
    group,        \* g_active_process_group holds its group
    orphan,       \* why a player outlived its child
    pipe,         \* lines the child wrote and the thread did not read
    wrote,        \* the final line the child wrote (history)
    now,          \* time since the audio was handed over
    lead,         \* time the alarm was already running by then
    expired,      \* the child's present stage has used up its limit
    slow,         \* the child waited a unit or more where nothing limits it
    alarmed       \* the child died of its own alarm

vars == <<parent, cancelled, stopped, said, final, result, reaper, child,
          frozen, signal, heard, success, job, player, group, orphan, pipe,
          wrote, now, lead, expired, slow, alarmed>>

report     == <<stopped, said, final, result>>
parentVars == <<parent, report>>
process    == <<child, frozen, signal, reaper>>
jobVars    == <<job, player, group>>

Finals    == {"answer", "followup", "error"}
Lines     == Finals \cup {"transcript", "playback"}
Jobs      == {"stream", "download", "fallback"}
Working   == {"forked", "reading", "connect", "runstart", "upload", "events",
              "spawn", "unreg", "wait", "final"}

\* The limits of the code in units of 5 s.
ChildTimeout   == 48                  \* kChildTimeoutSeconds
ParentDeadline == ChildTimeout + 1
AudioDeadline  == 1                   \* write_fd_with_deadline
BudgetRunStart == 1
BudgetEvents   == 12
\* Variant: the download fallback may play two minutes.
JobBudgetLong  == [stream |-> 12, download |-> 4, fallback |-> 24]
JobBudget      == [stream |-> 12, download |-> 4, fallback |-> 18]

TypeOK ==
    /\ parent \in {"idle", "write", "loop", "read", "wait", "grace", "drain",
                   "returned", "push"}
    /\ cancelled \in BOOLEAN /\ stopped \in BOOLEAN /\ reaper \in BOOLEAN
    /\ said \in Seq({"transcript", "playback"})
    /\ final \in Finals \cup {"none"} /\ result \in Finals \cup {"none"}
    /\ child \in Working \cup {"none", "zombie"}
    /\ frozen \in BOOLEAN /\ signal \in {"none", "term", "kill"}
    /\ heard \in {"none", "stt", "intent"} /\ success \in {"no", "answer", "followup"}
    /\ job \in Jobs /\ player \in BOOLEAN /\ group \in BOOLEAN
    /\ orphan \in {"none", "window", "killed"}
    /\ pipe \in Seq(Lines) /\ wrote \in Finals \cup {"none"}
    /\ now \in 0 .. ParentDeadline /\ lead \in 0 .. AudioDeadline /\ expired \in BOOLEAN
    /\ slow \in BOOLEAN /\ alarmed \in BOOLEAN
    /\ parent \in {"returned", "push"} <=> result # "none"

Init ==
    /\ parent = "idle" /\ cancelled = FALSE /\ stopped = FALSE
    /\ said = <<>> /\ final = "none" /\ result = "none" /\ reaper = FALSE
    /\ child = "none" /\ frozen = FALSE /\ signal = "none"
    /\ heard = "none" /\ success = "no" /\ job = "stream"
    /\ player = FALSE /\ group = FALSE /\ orphan = "none"
    /\ pipe = <<>> /\ wrote = "none" /\ now = 0 /\ lead = 0
    /\ expired = FALSE /\ slow = FALSE /\ alarmed = FALSE

-----------------------------------------------------------------------------
(* The child.  A pending signal acts before its next step.                 *)

CanRun(stage) == child = stage /\ ~frozen /\ signal = "none"

Goto(stage) == child' = stage /\ expired' = FALSE

childFrame == <<parentVars, cancelled, reaper, frozen, signal, orphan, now, lead, alarmed>>

\* exec fails, or load_configuration does: the child ends without a line.
ChildFailsToStart ==
    /\ CanRun("forked") /\ Goto("zombie")
    /\ UNCHANGED <<childFrame, heard, success, jobVars, slow, pipe, wrote>>

\* The handlers are installed and the alarm is set before stdin is read.
ChildStarts ==
    /\ CanRun("forked") /\ Goto("reading")
    /\ UNCHANGED <<childFrame, heard, success, jobVars, slow, pipe, wrote>>

\* End of stdin, once the thread has closed its end; an address that is not
\* HTTPS is an error.
ChildReadsAudio ==
    /\ CanRun("reading") /\ parent # "write"
    /\ Goto("connect") \/ Goto("final")
    /\ UNCHANGED <<childFrame, heard, success, jobVars, slow, pipe, wrote>>

\* TCP, TLS, upgrade, authentication and the run command, any of which fails.
ChildConnects ==
    /\ CanRun("connect")
    /\ Goto("runstart") \/ Goto("final")
    /\ UNCHANGED <<childFrame, heard, success, jobVars, slow, pipe, wrote>>

\* run-start with an audio handler; or time is up, the handler is invalid or
\* a read fails.
ChildRunStart ==
    /\ CanRun("runstart")
    /\ Goto("upload") \/ Goto("final")
    /\ UNCHANGED <<childFrame, heard, success, jobVars, slow, pipe, wrote>>

\* The audio is sent frame by frame; a frame may fail, all of them together
\* have no time limit.
ChildUploads ==
    /\ CanRun("upload")
    /\ Goto("events") \/ Goto("final")
    /\ UNCHANGED <<childFrame, heard, success, jobVars, slow, pipe, wrote>>

\* Variant: the transcript is reported again with the answer.
SttEndRepeated ==
    /\ CanRun("events") /\ Len(pipe) < 2
    /\ heard' = "stt"
    /\ pipe' = Append(pipe, "transcript")
    /\ UNCHANGED <<childFrame, child, expired, success, jobVars, slow, wrote>>

\* stt-end: the transcript is reported at once.
SttEnd ==
    /\ CanRun("events") /\ heard = "none"
    /\ heard' = "stt"
    /\ pipe' = Append(pipe, "transcript")
    /\ UNCHANGED <<childFrame, child, expired, success, jobVars, slow, wrote>>

\* intent-end: there is an answer, which may ask for a further command.
IntentEnd ==
    /\ CanRun("events") /\ heard = "stt"
    /\ heard' = "intent"
    /\ success' \in {"answer", "followup"}
    /\ UNCHANGED <<childFrame, child, expired, jobVars, slow, pipe, wrote>>

\* tts-end with a usable address: the answer is spoken.
TtsEnd ==
    /\ CanRun("events") /\ heard = "intent"
    /\ Goto("spawn") /\ job' = "stream"
    /\ UNCHANGED <<childFrame, heard, success, player, group, slow, pipe,
                   wrote>>

\* An error event, a close, a lost connection, the time limit, or a tts-end
\* without a usable address: the answer, if any, stays unspoken.
EventsEnd ==
    /\ CanRun("events") /\ Goto("final")
    /\ UNCHANGED <<childFrame, heard, success, jobVars, slow, pipe, wrote>>

\* What follows a run_process call that succeeded, or failed.
AfterJob(played) ==
    \/ /\ job = "stream" /\ ~played
       /\ Goto("spawn") /\ job' = "download"
    \/ /\ job = "download" /\ played
       /\ Goto("spawn") /\ job' = "fallback"
    \/ /\ ~(job = "stream" /\ ~played) /\ ~(job = "download" /\ played)
       /\ Goto("final") /\ UNCHANGED job

\* on_playback, before a job that speaks.
Announce ==
    pipe' = IF job = "download" THEN pipe ELSE Append(pipe, "playback")

RunProcess ==
    /\ CanRun("spawn")
    /\ Announce
    /\ \/ Goto("unreg") /\ player' = TRUE /\ UNCHANGED job
       \/ AfterJob(FALSE) /\ UNCHANGED player            \* fork fails
    /\ UNCHANGED <<childFrame, heard, success, group, slow, wrote>>

\* g_active_process_group = pid: only from here on does the handler know it.
RegisterGroup ==
    /\ CanRun("unreg") /\ Goto("wait") /\ group' = TRUE
    /\ UNCHANGED <<childFrame, heard, success, job, player, slow, pipe,
                   wrote>>

\* waitpid finds the process ended, well or badly.
JobEnds ==
    /\ CanRun("wait") /\ ~player
    /\ group' = FALSE
    /\ AfterJob(TRUE) \/ AfterJob(FALSE)
    /\ UNCHANGED <<childFrame, heard, success, player, slow, pipe, wrote>>

\* The time limit: kill(-pid, SIGKILL) and a blocking waitpid.
JobTimeout ==
    /\ CanRun("wait") /\ player /\ expired
    /\ player' = FALSE /\ group' = FALSE
    /\ AfterJob(FALSE)
    /\ UNCHANGED <<childFrame, heard, success, slow, pipe, wrote>>

\* The final line, and the end of the child.
ChildFinishes ==
    /\ CanRun("final") /\ Goto("zombie")
    /\ wrote' = IF success = "no" THEN "error" ELSE success
    /\ pipe' = Append(pipe, wrote')
    /\ UNCHANGED <<childFrame, heard, success, jobVars, slow>>

ChildStep ==
    \/ ChildFailsToStart \/ ChildStarts \/ ChildReadsAudio \/ ChildConnects
    \/ ChildRunStart \/ ChildUploads \/ SttEnd \/ IntentEnd \/ TtsEnd \/ EventsEnd
    \/ RunProcess \/ RegisterGroup \/ JobEnds \/ JobTimeout \/ ChildFinishes

-----------------------------------------------------------------------------
(* Signals, time and faults.                                               *)

\* The child is gone; a player it leaves behind goes on by itself.
Dies(why) ==
    /\ Goto("zombie")
    /\ orphan' = IF player /\ ~(why = "window" /\ group) THEN why ELSE orphan
    /\ player' = FALSE /\ group' = FALSE
    /\ signal' = "none"

AlarmDue == now + lead >= ChildTimeout /\ child # "forked"

signalFrame == <<parentVars, cancelled, reaper, heard, success, job, pipe, wrote,
                 now, lead, slow>>

\* Variant: the handler leaves without killing the group.
TimeoutHandlerExits ==
    /\ child \in Working /\ ~frozen
    /\ signal = "term" \/ (signal = "none" /\ AlarmDue)
    /\ alarmed' = (signal = "none")
    /\ Goto("zombie") /\ signal' = "none"
    /\ orphan' = IF player THEN "killed" ELSE orphan
    /\ player' = FALSE /\ group' = FALSE
    /\ UNCHANGED <<signalFrame, frozen>>

\* child_timeout_handler, on SIGTERM or SIGALRM: the registered group is
\* killed and the child exits; before it is installed SIGTERM just kills.
ChildTimeoutHandler ==
    /\ child \in Working /\ ~frozen
    /\ signal = "term" \/ (signal = "none" /\ AlarmDue)
    /\ alarmed' = (signal = "none")
    /\ Dies("window")
    /\ UNCHANGED <<signalFrame, frozen>>

\* SIGKILL: no handler runs.
ChildKilled ==
    /\ child \in Working /\ signal = "kill"
    /\ Dies("killed") /\ frozen' = FALSE
    /\ UNCHANGED <<signalFrame, alarmed>>

ChildFreezes ==
    /\ child \in Working /\ ~frozen /\ signal = "none"
    /\ frozen' = TRUE
    /\ UNCHANGED <<parentVars, cancelled, reaper, child, signal, heard,
                   success, jobVars, orphan, pipe, wrote, now, lead, expired, slow,
                   alarmed>>

PlayerEnds ==
    /\ player /\ player' = FALSE
    /\ UNCHANGED <<childFrame, child, expired, heard, success, job, group,
                   slow, pipe, wrote>>

OrphanEnds ==
    /\ orphan # "none" /\ orphan' = "none"
    /\ UNCHANGED <<parentVars, cancelled, process, heard, success, jobVars,
                   pipe, wrote, now, lead, expired, slow, alarmed>>

\* The limit of the child's present stage.
StageLimit ==
    CASE child = "runstart" -> BudgetRunStart
      [] child = "events" -> BudgetEvents
      [] child = "wait" -> JobBudget[job]

\* The child waits for Home Assistant and nothing but the alarm limits it:
\* connecting, the audio on its way, or a frame begun before the stage's time
\* was up, whose reading ends when the frame does.
Unlimited ==
    child \in {"connect", "upload"} \/ (child \in {"runstart", "events"} /\ expired)

\* The child has its alarm set and waits for audio the thread has not written.
AudioTakesTime ==
    /\ parent = "write" /\ child = "reading" /\ ~frozen /\ signal = "none"
    /\ lead < AudioDeadline
    /\ lead' = lead + 1 /\ slow' = TRUE /\ UNCHANGED <<now, expired>>

\* In the thread's loop: a unit of unlimited waiting, all that a limited stage
\* may take, or the rest of a frozen child's time.
StageTakesTime ==
    /\ parent \in {"loop", "read", "wait"} /\ ~cancelled /\ signal = "none"
    /\ \/ /\ Unlimited /\ ~frozen /\ now + lead < ChildTimeout
          /\ now' = now + 1 /\ slow' = TRUE /\ UNCHANGED expired
       \/ /\ child \in {"runstart", "events"} \/ (child = "wait" /\ player)
          /\ ~frozen /\ ~expired /\ now + lead < ChildTimeout
          /\ IF now + lead + StageLimit > ChildTimeout
             THEN now' = ChildTimeout - lead /\ UNCHANGED expired
             ELSE now' = now + StageLimit /\ expired' = TRUE
          /\ UNCHANGED slow
       \/ /\ child \in Working /\ frozen /\ now < ParentDeadline
          /\ now' = ParentDeadline /\ UNCHANGED <<slow, expired>>
    /\ UNCHANGED lead

Tick ==
    /\ AudioTakesTime \/ StageTakesTime
    /\ UNCHANGED <<parentVars, cancelled, process, heard, success, jobVars,
                   orphan, pipe, wrote, alarmed>>

\* The user cancels, or another command supersedes this one.
Cancel ==
    /\ parent # "idle" /\ ~cancelled /\ cancelled' = TRUE
    /\ UNCHANGED <<parentVars, process, heard, success, jobVars, orphan, pipe,
                   wrote, now, lead, expired, slow, alarmed>>

-----------------------------------------------------------------------------
(* The thread: run_assist_pipeline_process and the lambda around it.       *)

runVars     == <<heard, success, jobVars, orphan, now, lead, expired, slow,
                 alarmed>>
threadFrame == <<runVars, wrote>>

\* kill(pid, sig): a zombie takes no signal.
Kill(sig) == signal' = IF child \in Working THEN sig ELSE signal

\* The pipes cannot be made or the fork fails: an error at once.
StartFails ==
    /\ parent = "idle" /\ parent' = "returned" /\ result' = "error"
    /\ UNCHANGED <<threadFrame, cancelled, stopped, said, final, process,
                   pipe>>

Start ==
    /\ parent = "idle" /\ child = "none" /\ parent' = "write"
    /\ child' = "forked" /\ pipe' = <<>> /\ wrote' = "none"
    /\ heard' = "none" /\ success' = "no" /\ job' = "stream"
    /\ now' = 0 /\ lead' = 0
    /\ expired' = FALSE /\ slow' = FALSE /\ alarmed' = FALSE
    /\ UNCHANGED <<cancelled, report, reaper, frozen, signal, player, group,
                   orphan>>

\* The child took the audio, or all of it fitted into the pipe.
AudioWritten ==
    /\ parent = "write" /\ parent' = "loop"
    /\ UNCHANGED <<threadFrame, cancelled, report, process, pipe>>

\* The pipe stays blocking, the child closed it or did not read for 5 s.
AudioFails ==
    /\ parent = "write" /\ parent' = "returned" /\ result' = "error"
    /\ Kill("kill") /\ reaper' = TRUE
    /\ UNCHANGED <<threadFrame, cancelled, stopped, said, final, child,
                   frozen, pipe>>

\* One pass of the loop: cancellation, then output, then waitpid.
LoopPolls ==
    /\ parent = "loop" /\ now < ParentDeadline /\ ~cancelled /\ parent' = "read"
    /\ UNCHANGED <<threadFrame, cancelled, report, process, pipe>>

LoopCancelled ==
    /\ parent = "loop" /\ now < ParentDeadline /\ cancelled /\ parent' = "grace" /\ stopped' = TRUE
    /\ Kill("term")
    /\ UNCHANGED <<threadFrame, cancelled, said, final, result, reaper, child,
                   frozen, pipe>>

LoopDeadline ==
    /\ parent = "loop" /\ now >= ParentDeadline /\ parent' = "drain"
    /\ Kill("kill") /\ reaper' = TRUE
    /\ UNCHANGED <<threadFrame, cancelled, report, child, frozen, pipe>>

\* consume_output, a line at a time: a final line is kept, progress reported.
Consume ==
    /\ parent \in {"read", "drain"} /\ pipe # <<>>
    /\ pipe' = Tail(pipe)
    /\ IF Head(pipe) \in Finals
       THEN final' = Head(pipe) /\ UNCHANGED said
       ELSE said' = Append(said, Head(pipe)) /\ UNCHANGED final
    /\ UNCHANGED <<threadFrame, cancelled, parent, stopped, result, process>>

LoopReadDone ==
    /\ parent = "read" /\ pipe = <<>> /\ parent' = "wait"
    /\ UNCHANGED <<threadFrame, cancelled, report, process, pipe>>

\* waitpid(WNOHANG): the child has ended, or the loop goes on.
LoopWaits ==
    /\ parent = "wait"
    /\ \/ child = "zombie" /\ child' = "none" /\ parent' = "drain"
       \/ child # "zombie" /\ parent' = "loop" /\ UNCHANGED child
    /\ UNCHANGED <<threadFrame, cancelled, report, reaper, frozen, signal,
                   pipe>>

\* Variant: the thread waits for the stopped child as long as it takes.
GraceWithoutLimit ==
    /\ parent = "grace"
    /\ \/ child = "zombie" /\ child' = "none" /\ parent' = "drain"
       \/ child # "zombie" /\ UNCHANGED <<child, parent>>
    /\ UNCHANGED <<threadFrame, cancelled, report, reaper, frozen, signal,
                   pipe>>

\* The second after SIGTERM: the child has ended, or is killed.
GraceEnds ==
    /\ parent = "grace" /\ parent' = "drain"
    /\ \/ child = "zombie" /\ child' = "none" /\ UNCHANGED <<signal, reaper>>
       \/ child # "zombie" /\ frozen /\ Kill("kill") /\ reaper' = TRUE /\ UNCHANGED child
    /\ UNCHANGED <<threadFrame, cancelled, report, frozen, pipe>>

Outcome == IF stopped \/ final = "none" THEN "error" ELSE final

\* Variant: the thread returns without a last look at the pipe.
ReturnUndrained ==
    /\ parent = "drain" /\ parent' = "returned"
    /\ result' = Outcome
    /\ UNCHANGED <<threadFrame, cancelled, stopped, said, final, process,
                   pipe>>

Return ==
    /\ parent = "drain" /\ pipe = <<>> /\ parent' = "returned"
    /\ result' = Outcome
    /\ UNCHANGED <<threadFrame, cancelled, stopped, said, final, process,
                   pipe>>

\* assist_pipeline_running = false; then the final result is queued.
ClearRunning ==
    /\ parent = "returned" /\ parent' = "push"
    /\ UNCHANGED <<threadFrame, cancelled, report, process, pipe>>

PushFinal ==
    /\ parent = "push" /\ parent' = "idle"
    /\ cancelled' = FALSE /\ stopped' = FALSE
    /\ said' = <<>> /\ final' = "none" /\ result' = "none" /\ wrote' = "none"
    /\ UNCHANGED <<runVars, process, pipe>>

\* The detached reaper's waitpid returns.
ReaperReaps ==
    /\ reaper /\ child = "zombie"
    /\ child' = "none" /\ reaper' = FALSE
    /\ UNCHANGED <<threadFrame, parentVars, cancelled, frozen, signal, pipe>>

ThreadStep ==
    \/ AudioWritten \/ LoopPolls \/ LoopCancelled \/ LoopDeadline \/ Consume
    \/ LoopReadDone \/ LoopWaits \/ GraceEnds \/ Return \/ ClearRunning \/ PushFinal

Signals == ChildTimeoutHandler \/ ChildKilled \/ ReaperReaps

Next ==
    \/ Start \/ StartFails \/ AudioFails \/ ThreadStep
    \/ ChildStep \/ Signals
    \/ Tick \/ PlayerEnds \/ OrphanEnds \/ ChildFreezes \/ Cancel

Spec == Init /\ [][Next]_vars

-----------------------------------------------------------------------------
(* Safety.                                                                 *)

\* The thread reports as the panel expects it: transcript, playback, one
\* repeated playback, then one final result after the running flag is down,
\* whatever mix of cancellation, time-out, crash and fallback ends the child.
ReportedPhase ==
    IF parent = "idle" THEN "idle"
    ELSE IF parent = "push" THEN "ending" ELSE
    CASE said = <<>> -> "live"
      [] said = <<"transcript">> -> "heard"
      [] said = <<"transcript", "playback">> -> "speaking"
      [] said = <<"transcript", "playback", "playback">> -> "fallback"
      [] OTHER -> "unexpected"

Contract == INSTANCE PipelineContract WITH phase <- ReportedPhase

ImplementsContract == Contract!FairSpec

\* What the child concluded is what the panel shows: a final line that was
\* written is the result unless the thread stopped a cancelled command,
\* although the child may write it between a read and the waitpid.
FinalLineIsDelivered ==
    parent \in {"returned", "push"} /\ ~stopped /\ wrote # "none" => result = wrote

\* The time limits of the stages fit into the child's alarm: it fires only
\* when a unit or more went where no limit applies (taking over the audio,
\* connecting and authenticating, sending the audio, a frame that outlasts its
\* stage).  However long Home Assistant, the download and the players use
\* their limits, they alone never cost an answer while it is spoken.
AlarmMeansUnlimitedWait == alarmed => slow

\* The child knows the process it has to kill: a job's process runs only
\* inside its run_process call, and past the few instructions after the fork
\* its group is registered for the handler.
PlayerIsSupervised ==
    player => child = "unreg" \/ (child = "wait" /\ group)

\* No player is forgotten, and one outlives its child in two cases only: the
\* signal came before its group was registered, or the child was frozen and
\* had to be killed.
PlayersAreAccountedFor ==
    /\ []PlayerIsSupervised
    /\ [][orphan' \notin {orphan, "none"} => child = "unreg" \/ frozen]_vars

\* A child the thread left is waited for by a detached thread, and has ended
\* or has SIGKILL pending.
ChildIsHeld ==
    /\ parent \in {"idle", "returned", "push"} /\ child # "none" => reaper
    /\ reaper => child = "zombie" \/ signal = "kill"

-----------------------------------------------------------------------------
(* Liveness.  The thread, the child's own code and the kernel's signal     *)
(* delivery run; time passes; nothing is assumed of Home Assistant, which  *)
(* may leave a stage waiting past its limit, of the players or of a frozen *)
(* child.                                                                  *)

LocalStep ==
    \/ ChildStarts \/ ChildFailsToStart \/ ChildReadsAudio \/ RunProcess
    \/ RegisterGroup \/ JobEnds \/ JobTimeout \/ ChildFinishes

Fairness ==
    WF_vars(ThreadStep) /\ WF_vars(Signals) /\ WF_vars(Tick) /\ WF_vars(LocalStep)

FairSpec == Spec /\ Fairness

\* The thread never leaves its child behind: whatever ended the command, the
\* child is reaped in the end, even if it froze and nothing else ever answers.
NoChildLeft == []ChildIsHeld /\ []<>(child = "none")

=============================================================================
