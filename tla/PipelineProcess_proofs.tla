---------------------- MODULE PipelineProcess_proofs ----------------------
(***************************************************************************)
(* Proofs about PipelineProcess: its runs are unbounded (any number of     *)
(* commands, in any interleaving of thread, child, players and signals).   *)
(***************************************************************************)
EXTENDS PipelineProcess, TLAPS

FlagsOK ==
    /\ cancelled \in BOOLEAN /\ stopped \in BOOLEAN /\ reaper \in BOOLEAN
    /\ frozen \in BOOLEAN /\ player \in BOOLEAN /\ group \in BOOLEAN
    /\ expired \in BOOLEAN /\ slow \in BOOLEAN /\ alarmed \in BOOLEAN

ThreadOK ==
    /\ parent \in {"idle", "write", "loop", "read", "wait", "grace", "drain",
                   "returned", "push"}
    /\ final \in Finals \cup {"none"} /\ result \in Finals \cup {"none"}
    /\ parent \in {"returned", "push"} <=> result # "none"

ChildOK ==
    /\ child \in Working \cup {"none", "zombie"}
    /\ signal \in {"none", "term", "kill"}
    /\ heard \in {"none", "stt", "intent"} /\ success \in {"no", "answer", "followup"}
    /\ job \in Jobs
    /\ orphan \in {"none", "window", "killed"}
    /\ wrote \in Finals \cup {"none"}
    /\ now \in 0 .. ParentDeadline /\ lead \in 0 .. AudioDeadline

LinesOK == said \in Seq({"transcript", "playback"}) /\ pipe \in Seq(Lines)

-----------------------------------------------------------------------------
(* The inductive invariant: who holds the child.                           *)

\* A signal is pending only for a child that works, and only such a child is
\* frozen.
SignalsAct == child \notin Working => signal = "none" /\ ~frozen

\* While the thread is in its loop it has a child and no reaper has it.
ThreadHasChild ==
    parent \in {"write", "loop", "read", "wait", "grace"} => child # "none" /\ ~reaper

\* Once the thread has turned away from its child, the child has ended or
\* makes no step but dying: it writes nothing more.
ChildIsQuiet ==
    parent \in {"idle", "grace", "drain", "returned", "push"} =>
        child \in {"none", "zombie"} \/ signal # "none"

\* From the last read on, a child that is not reaped has a reaper, and it has
\* ended or has SIGKILL pending.
ReaperHasChild ==
    /\ parent \in {"idle", "drain", "returned", "push"} /\ child # "none" => reaper
    /\ reaper => child = "zombie" \/ (child \in Working /\ signal = "kill")

\* SIGKILL goes to a frozen child, or to one that has not got its audio.
KillIsLastResort ==
    /\ signal = "kill" => frozen \/ child \in {"forked", "reading"}
    /\ now >= ParentDeadline /\ child \in Working => frozen
    /\ parent = "write" => child \in {"forked", "reading", "zombie"}

-----------------------------------------------------------------------------
(* The inductive invariant: what the child writes and the thread reads.    *)

\* The progress lines of a command, in order.
Script(i) == IF i = 1 THEN "transcript" ELSE "playback"

FinalQueued == wrote # "none" /\ final = "none"

\* Lines of progress, read or still in the pipe.
Progressed == Len(said) + Len(pipe) - (IF FinalQueued THEN 1 ELSE 0)

ScriptIsFollowed ==
    /\ Progressed <= 3
    /\ \A i \in 1 .. Len(said) : said[i] = Script(i)
    /\ \A i \in 1 .. Len(pipe) :
         pipe[i] = IF FinalQueued /\ i = Len(pipe) THEN wrote ELSE Script(Len(said) + i)

\* The final line is the last one, and is neither lost nor changed.
FinalIsLast ==
    /\ FinalQueued => Len(pipe) > 0
    /\ final # "none" => final = wrote /\ Len(pipe) = 0
    /\ wrote # "none" => child \in {"none", "zombie"}
    /\ parent \in {"idle", "write"} => wrote = "none" /\ Len(said) = 0
    /\ parent \in {"idle", "write", "returned", "push"} => Len(pipe) = 0

\* How much a child that runs has written at each of its stages.
StageWrote ==
    child \in Working /\ signal = "none" =>
        LET n == Len(said) + Len(pipe) IN
        /\ child \in {"forked", "reading", "connect", "runstart", "upload"} =>
             n = 0 /\ heard = "none"
        /\ child = "events" => n = IF heard = "none" THEN 0 ELSE 1
        /\ child = "spawn" => n = IF job = "stream" THEN 1 ELSE 2
        /\ child \in {"unreg", "wait"} => n = IF job = "fallback" THEN 3 ELSE 2

-----------------------------------------------------------------------------
(* The inductive invariant: time.                                          *)

\* The latest time at which a child that never waited unlimited starts a job.
JobStart(j) ==
    BudgetRunStart + BudgetEvents
      + (IF j = "stream" THEN 0 ELSE JobBudget["stream"])
      + (IF j = "fallback" THEN JobBudget["download"] ELSE 0)

\* The time a child that never waited unlimited has used in each of its stages.
InBudget ==
    child \in Working /\ ~frozen /\ ~slow =>
        /\ now < ChildTimeout /\ lead = 0
        /\ child \in {"forked", "reading", "connect"} => now = 0
        /\ child = "runstart" => now <= IF expired THEN BudgetRunStart ELSE 0
        /\ child = "upload" => now <= BudgetRunStart
        /\ child = "events" => now <= BudgetRunStart + IF expired THEN BudgetEvents ELSE 0
        /\ child \in {"spawn", "unreg"} => now <= JobStart(job)
        /\ child = "wait" => now <= JobStart(job) + IF expired THEN JobBudget[job] ELSE 0

HoldInv ==
    SignalsAct /\ ThreadHasChild /\ ChildIsQuiet /\ ReaperHasChild /\ KillIsLastResort

ReportInv == ScriptIsFollowed /\ FinalIsLast /\ StageWrote

IInv ==
    /\ TypeOK /\ HoldInv /\ ReportInv /\ InBudget
    /\ PlayerIsSupervised /\ FinalLineIsDelivered /\ AlarmMeansUnlimitedWait

-----------------------------------------------------------------------------
(* Facts about the operators.                                              *)

\* The time limits, in units of 5 s.
LEMMA Limits ==
    /\ ChildTimeout = 48 /\ ParentDeadline = 49 /\ AudioDeadline = 1
    /\ BudgetRunStart = 1 /\ BudgetEvents = 12
    /\ JobBudget["stream"] = 12 /\ JobBudget["download"] = 4 /\ JobBudget["fallback"] = 18
    /\ JobStart("stream") = 13 /\ JobStart("download") = 25 /\ JobStart("fallback") = 29
  <1>1. JobBudget["stream"] = 12 /\ JobBudget["download"] = 4 /\ JobBudget["fallback"] = 18
    BY DEF JobBudget
  <1>. QED
    BY <1>1 DEF ChildTimeout, ParentDeadline, AudioDeadline, BudgetRunStart, BudgetEvents, JobStart

LEMMA TypeParts == TypeOK <=> FlagsOK /\ ThreadOK /\ ChildOK /\ LinesOK
  BY DEF TypeOK, FlagsOK, ThreadOK, ChildOK, LinesOK

\* Reading the first line of the pipe.
LEMMA HeadFacts ==
    ASSUME LinesOK, pipe # <<>>
    PROVE  /\ Len(pipe) \in Nat \ {0} /\ Head(pipe) = pipe[1] /\ Head(pipe) \in Lines
           /\ Tail(pipe) \in Seq(Lines) /\ Len(Tail(pipe)) = Len(pipe) - 1
           /\ \A i \in 1 .. Len(pipe) - 1 : Tail(pipe)[i] = pipe[i + 1]
  BY DEF LinesOK

\* A line more, in the pipe or in the report.
LEMMA AppendFacts ==
    ASSUME NEW S, NEW q \in Seq(S), NEW x \in S
    PROVE  /\ Append(q, x) \in Seq(S) /\ Len(q) \in Nat /\ Len(Append(q, x)) = Len(q) + 1
           /\ \A i \in 1 .. Len(q) : Append(q, x)[i] = q[i]
           /\ Append(q, x)[Len(q) + 1] = x
  OBVIOUS

-----------------------------------------------------------------------------
(* Type correctness.                                                       *)

LEMMA FlagsType ==
    ASSUME FlagsOK, [Next]_vars
    PROVE  FlagsOK'
  <1>. USE DEF FlagsOK
  <1>1. CASE Start \/ StartFails \/ AudioFails
    BY <1>1, Zenon DEF Start, StartFails, AudioFails, threadFrame, runVars, jobVars, process,
       report
  <1>2. CASE ThreadStep
    <2>1. CASE AudioWritten \/ LoopPolls \/ LoopReadDone \/ ClearRunning \/ Return \/ Consume
      BY <2>1, Zenon DEF AudioWritten, LoopPolls, LoopReadDone, ClearRunning, Return, Consume,
         threadFrame, runVars, jobVars, process, report
    <2>2. CASE LoopCancelled \/ LoopDeadline \/ LoopWaits
      BY <2>2, Zenon DEF LoopCancelled, LoopDeadline, LoopWaits, threadFrame, runVars, jobVars,
         report
    <2>3. CASE GraceEnds \/ PushFinal
      BY <2>3, Zenon DEF GraceEnds, PushFinal, threadFrame, runVars, jobVars, process, report
    <2>. QED
      BY <1>2, <2>1, <2>2, <2>3 DEF ThreadStep
  <1>3. CASE ChildStep
    <2>. USE DEF Goto, childFrame, parentVars, report, jobVars
    <2>1. CASE \/ ChildFailsToStart \/ ChildStarts \/ ChildReadsAudio \/ ChildConnects
               \/ ChildRunStart \/ ChildUploads \/ EventsEnd \/ ChildFinishes
      BY <2>1, Zenon DEF ChildFailsToStart, ChildStarts, ChildReadsAudio, ChildConnects,
         ChildRunStart, ChildUploads, EventsEnd, ChildFinishes
    <2>2. CASE SttEnd \/ IntentEnd \/ TtsEnd \/ RegisterGroup
      BY <2>2, Zenon DEF SttEnd, IntentEnd, TtsEnd, RegisterGroup
    <2>3. CASE RunProcess
      BY <2>3, Zenon DEF RunProcess, AfterJob
    <2>4. CASE JobEnds \/ JobTimeout
      BY <2>4, Zenon DEF JobEnds, JobTimeout, AfterJob
    <2>. HIDE DEF FlagsOK
    <2>. QED
      BY <1>3, <2>1, <2>2, <2>3, <2>4 DEF ChildStep
  <1>4. CASE Signals
    BY <1>4, Zenon DEF Signals, ChildTimeoutHandler, ChildKilled, ReaperReaps, Dies, Goto,
       signalFrame, threadFrame, runVars, parentVars, report, jobVars
  <1>5. CASE Tick \/ PlayerEnds \/ OrphanEnds \/ ChildFreezes \/ Cancel
    BY <1>5, Zenon DEF Tick, AudioTakesTime, StageTakesTime, PlayerEnds, OrphanEnds,
       ChildFreezes, Cancel, childFrame,
       parentVars, report, process, jobVars
  <1>6. CASE UNCHANGED vars
    BY <1>6, Zenon DEF vars
  <1>. HIDE DEF FlagsOK
  <1>. QED
    BY <1>1, <1>2, <1>3, <1>4, <1>5, <1>6 DEF Next

LEMMA ThreadType ==
    ASSUME TypeOK, [Next]_vars
    PROVE  ThreadOK'
  <1>. USE DEF ThreadOK
  <1>. ThreadOK
    BY TypeParts
  <1>1. CASE Start \/ StartFails \/ AudioFails
    BY <1>1 DEF Start, StartFails, AudioFails, report, Finals
  <1>2. CASE ThreadStep
    BY <1>2 DEF ThreadStep, AudioWritten, LoopPolls, LoopCancelled, LoopDeadline, Consume,
       LoopReadDone, LoopWaits, GraceEnds, Return, ClearRunning, PushFinal, report, Outcome,
       Finals
  <1>3. CASE ChildStep
    BY <1>3 DEF ChildStep, ChildFailsToStart, ChildStarts, ChildReadsAudio, ChildConnects,
       ChildRunStart, ChildUploads, SttEnd, IntentEnd, TtsEnd, EventsEnd, RunProcess, RegisterGroup,
       JobEnds, JobTimeout, ChildFinishes, childFrame, parentVars, report
  <1>4. CASE Signals \/ Tick \/ PlayerEnds \/ OrphanEnds \/ ChildFreezes \/ Cancel
    BY <1>4 DEF Signals, ChildTimeoutHandler, ChildKilled, ReaperReaps, signalFrame, Tick,
       PlayerEnds, OrphanEnds, ChildFreezes, Cancel, childFrame, parentVars, report
  <1>5. CASE UNCHANGED vars
    BY <1>5 DEF vars
  <1>. HIDE DEF ThreadOK
  <1>. QED
    BY <1>1, <1>2, <1>3, <1>4, <1>5 DEF Next

LEMMA ChildType ==
    ASSUME TypeOK, [Next]_vars
    PROVE  ChildOK'
  <1>. USE DEF ChildOK
  <1>. ChildOK
    BY TypeParts
  <1>1. CASE Start
    BY <1>1, Limits DEF Start, Working, Jobs
  <1>2. CASE StartFails \/ AudioFails \/ ThreadStep
    BY <1>2 DEF StartFails, AudioFails, ThreadStep, AudioWritten, LoopPolls, LoopCancelled,
       LoopDeadline, Consume, LoopReadDone, LoopWaits, GraceEnds, Return, ClearRunning,
       PushFinal, Kill, process, threadFrame, runVars, jobVars
  <1>3. CASE ChildStep
    BY <1>3 DEF ChildStep, ChildFailsToStart, ChildStarts, ChildReadsAudio, ChildConnects,
       ChildRunStart, ChildUploads, SttEnd, IntentEnd, TtsEnd, EventsEnd, RunProcess, RegisterGroup,
       JobEnds, JobTimeout, ChildFinishes, Goto, AfterJob, childFrame, jobVars, Working,
       Jobs, Finals
  <1>4. CASE Signals
    BY <1>4 DEF Signals, ChildTimeoutHandler, ChildKilled, ReaperReaps, Dies, Goto,
       signalFrame, threadFrame, runVars, jobVars
  <1>5. CASE Tick
    <2>1. now' \in 0 .. ParentDeadline /\ lead' \in 0 .. AudioDeadline
      <3>1. job \in Jobs /\ now \in 0 .. 49 /\ lead \in 0 .. 1
        BY Limits
      <3>2. StageLimit \in Nat \/ ~(child \in {"runstart", "events", "wait"})
        BY <3>1, Limits DEF StageLimit, Jobs
      <3>. QED
        BY <1>5, <3>1, <3>2, Limits DEF Tick, AudioTakesTime, StageTakesTime
    <2>. QED
      BY <1>5, <2>1 DEF Tick, process, jobVars
  <1>6. CASE PlayerEnds \/ OrphanEnds \/ ChildFreezes \/ Cancel
    BY <1>6 DEF PlayerEnds, OrphanEnds, ChildFreezes, Cancel, childFrame, process, jobVars
  <1>7. CASE UNCHANGED vars
    BY <1>7 DEF vars
  <1>. HIDE DEF ChildOK
  <1>. QED
    BY <1>1, <1>2, <1>3, <1>4, <1>5, <1>6, <1>7 DEF Next

LEMMA LinesType ==
    ASSUME TypeOK, [Next]_vars
    PROVE  LinesOK'
  <1>. USE DEF LinesOK
  <1>. LinesOK /\ ChildOK
    BY TypeParts
  <1>1. CASE Consume
    <2>1. ASSUME Head(pipe) \notin Finals
          PROVE  Append(said, Head(pipe)) \in Seq({"transcript", "playback"})
      <3>1. Head(pipe) \in {"transcript", "playback"}
        BY <1>1, <2>1, HeadFacts DEF Consume, Lines
      <3>. QED
        BY <3>1, AppendFacts
    <2>. QED
      BY <1>1, <2>1, HeadFacts DEF Consume
  <1>2. CASE SttEnd \/ RunProcess
    <2>1. \A x \in {"transcript", "playback"} : Append(pipe, x) \in Seq(Lines)
      BY AppendFacts DEF Lines
    <2>. QED
      BY <1>2, <2>1 DEF SttEnd, RunProcess, Announce, childFrame, parentVars, report
  <1>3. CASE ChildFinishes
    <2>1. wrote' \in Lines
      BY <1>3 DEF ChildFinishes, ChildOK, Lines, Finals
    <2>. QED
      BY <1>3, <2>1, AppendFacts DEF ChildFinishes, childFrame, parentVars, report
  <1>4. CASE Start \/ PushFinal
    <2>1. <<>> \in Seq({"transcript", "playback"}) /\ <<>> \in Seq(Lines)
      OBVIOUS
    <2>. QED
      BY <1>4, <2>1, Zenon DEF Start, PushFinal, report
  <1>5. CASE UNCHANGED <<said, pipe>>
    BY <1>5
  <1>. HIDE DEF LinesOK
  <1>. QED
    BY <1>1, <1>2, <1>3, <1>4, <1>5 DEF Next, vars, ThreadStep, ChildStep, Signals,
       StartFails, AudioFails, AudioWritten, LoopPolls, LoopCancelled, LoopDeadline,
       LoopReadDone, LoopWaits, GraceEnds, Return, ClearRunning, ChildFailsToStart,
       ChildStarts, ChildReadsAudio, ChildConnects, ChildRunStart, ChildUploads, IntentEnd, TtsEnd,
       EventsEnd, RegisterGroup, JobEnds, JobTimeout, ChildTimeoutHandler, ChildKilled,
       ReaperReaps, Tick, PlayerEnds, OrphanEnds, ChildFreezes, Cancel, childFrame,
       signalFrame, parentVars, report

LEMMA TypeStep ==
    ASSUME TypeOK, [Next]_vars
    PROVE  TypeOK'
  <1>1. FlagsOK' /\ ThreadOK' /\ ChildOK' /\ LinesOK'
    BY TypeParts, FlagsType, ThreadType, ChildType, LinesType
  <1>. QED
    BY <1>1 DEF TypeOK, FlagsOK, ThreadOK, ChildOK, LinesOK

-----------------------------------------------------------------------------
(* Who holds the child.                                                    *)

LEMMA HoldStep ==
    ASSUME TypeOK, HoldInv, [Next]_vars
    PROVE  HoldInv'
  <1>. USE DEF HoldInv, SignalsAct, ThreadHasChild, ChildIsQuiet, ReaperHasChild,
               KillIsLastResort, Working
  <1>. ChildOK /\ ThreadOK
    BY TypeParts
  <1>1. CASE Start
    BY <1>1, Limits DEF Start
  <1>2. CASE StartFails
    BY <1>2 DEF StartFails, threadFrame, runVars, process
  <1>3. CASE AudioFails
    BY <1>3 DEF AudioFails, Kill, threadFrame, runVars, ChildOK
  <1>4. CASE AudioWritten \/ LoopPolls \/ LoopReadDone \/ Consume
    BY <1>4 DEF AudioWritten, LoopPolls, LoopReadDone, Consume, threadFrame, runVars, process
  <1>5. CASE LoopCancelled \/ LoopDeadline
    BY <1>5 DEF LoopCancelled, LoopDeadline, Kill, threadFrame, runVars, ChildOK
  <1>6. CASE LoopWaits
    BY <1>6 DEF LoopWaits, threadFrame, runVars
  <1>7. CASE GraceEnds
    BY <1>7 DEF GraceEnds, Kill, threadFrame, runVars, ChildOK
  <1>8. CASE Return \/ ClearRunning \/ PushFinal
    BY <1>8 DEF Return, ClearRunning, PushFinal, threadFrame, runVars, process
  <1>9. CASE \/ ChildFailsToStart \/ ChildStarts \/ ChildReadsAudio \/ ChildConnects
             \/ ChildRunStart \/ ChildUploads
    BY <1>9 DEF ChildFailsToStart, ChildStarts, ChildReadsAudio, ChildConnects,
       ChildRunStart, ChildUploads, CanRun, Goto, childFrame, parentVars
  <1>10. CASE SttEnd \/ IntentEnd \/ TtsEnd \/ EventsEnd
    BY <1>10 DEF SttEnd, IntentEnd, TtsEnd, EventsEnd, CanRun, Goto, childFrame, parentVars
  <1>11. CASE RunProcess \/ RegisterGroup \/ JobEnds \/ JobTimeout \/ ChildFinishes
    BY <1>11 DEF RunProcess, RegisterGroup, JobEnds, JobTimeout, ChildFinishes, CanRun, Goto,
       AfterJob, childFrame, parentVars
  <1>12. CASE ChildTimeoutHandler \/ ChildKilled \/ ReaperReaps
    BY <1>12 DEF ChildTimeoutHandler, ChildKilled, ReaperReaps, Dies, Goto, signalFrame,
       threadFrame, runVars, parentVars
  <1>13. CASE Tick
    <2>1. now' >= ParentDeadline /\ child \in Working => frozen
      <3>1. now \in 0 .. 49 /\ lead \in 0 .. 1 /\ job \in Jobs
        BY Limits DEF ChildOK
      <3>2. StageLimit \in Nat \/ ~(child \in {"runstart", "events", "wait"})
        BY <3>1, Limits DEF StageLimit, Jobs
      <3>. QED
        BY <1>13, <3>1, <3>2, Limits DEF Tick, AudioTakesTime, StageTakesTime
    <2>. QED
      BY <1>13, <2>1 DEF Tick, process, parentVars
  <1>14. CASE PlayerEnds \/ OrphanEnds \/ ChildFreezes \/ Cancel
    BY <1>14 DEF PlayerEnds, OrphanEnds, ChildFreezes, Cancel, childFrame, parentVars,
       process
  <1>15. CASE UNCHANGED vars
    BY <1>15 DEF vars
  <1>. HIDE DEF HoldInv
  <1>. QED
    BY <1>1, <1>2, <1>3, <1>4, <1>5, <1>6, <1>7, <1>8, <1>9, <1>10, <1>11, <1>12, <1>13,
       <1>14, <1>15 DEF Next, ThreadStep, ChildStep, Signals

\* The process of a job is registered as soon as the job is waited for.
LEMMA PlayerStep ==
    ASSUME TypeOK, PlayerIsSupervised, [Next]_vars
    PROVE  PlayerIsSupervised'
  <1>. USE DEF PlayerIsSupervised
  <1>1. CASE Start \/ LoopWaits \/ GraceEnds \/ ReaperReaps
    BY <1>1 DEF Start, LoopWaits, GraceEnds, ReaperReaps, threadFrame, runVars, jobVars
  <1>2. CASE \/ ChildFailsToStart \/ ChildStarts \/ ChildReadsAudio \/ ChildConnects
             \/ ChildRunStart \/ ChildUploads \/ TtsEnd \/ EventsEnd \/ ChildFinishes
    BY <1>2 DEF ChildFailsToStart, ChildStarts, ChildReadsAudio, ChildConnects,
       ChildRunStart, ChildUploads, TtsEnd, EventsEnd, ChildFinishes, CanRun, Goto, jobVars
  <1>3. CASE RunProcess \/ RegisterGroup
    BY <1>3 DEF RunProcess, RegisterGroup, AfterJob, CanRun, Goto
  <1>4. CASE JobEnds \/ JobTimeout \/ PlayerEnds
    BY <1>4 DEF JobEnds, JobTimeout, PlayerEnds
  <1>5. CASE ChildTimeoutHandler \/ ChildKilled
    BY <1>5 DEF ChildTimeoutHandler, ChildKilled, Dies
  <1>6. CASE UNCHANGED <<child, player, group>>
    BY <1>6
  <1>. HIDE DEF PlayerIsSupervised
  <1>. QED
    BY <1>1, <1>2, <1>3, <1>4, <1>5, <1>6 DEF Next, vars, ThreadStep, ChildStep, Signals,
       StartFails, AudioFails, AudioWritten, LoopPolls, LoopCancelled, LoopDeadline, Consume,
       LoopReadDone, Return, ClearRunning, PushFinal, SttEnd, IntentEnd, Tick, OrphanEnds,
       ChildFreezes, Cancel, threadFrame, runVars, jobVars, process

\* Only an unregistered process, or one of a frozen child, outlives the child.
LEMMA OrphanStep ==
    ASSUME TypeOK, HoldInv, PlayerIsSupervised, Next, orphan' \notin {orphan, "none"}
    PROVE  child = "unreg" \/ frozen
  <1>1. CASE ChildTimeoutHandler
    BY <1>1 DEF ChildTimeoutHandler, Dies, PlayerIsSupervised
  <1>2. CASE ChildKilled
    BY <1>2 DEF ChildKilled, Dies, PlayerIsSupervised, HoldInv, KillIsLastResort
  <1>3. CASE OrphanEnds
    BY <1>3 DEF OrphanEnds
  <1>. QED
    BY <1>1, <1>2, <1>3 DEF Next, ThreadStep, ChildStep, Signals, Start,
       StartFails, AudioFails, AudioWritten, LoopPolls, LoopCancelled, LoopDeadline, Consume,
       LoopReadDone, LoopWaits, GraceEnds, Return, ClearRunning, PushFinal, ChildFailsToStart,
       ChildStarts, ChildReadsAudio, ChildConnects, ChildRunStart, ChildUploads, SttEnd,
       IntentEnd, TtsEnd,
       EventsEnd, RunProcess, RegisterGroup, JobEnds, JobTimeout, ChildFinishes, ReaperReaps,
       Tick, PlayerEnds, ChildFreezes, Cancel, threadFrame, runVars, childFrame

-----------------------------------------------------------------------------
(* Time.                                                                   *)

\* What the stages of a child that never waited unlimited add up to.
LEMMA BudgetStep ==
    ASSUME TypeOK, InBudget, [Next]_vars
    PROVE  InBudget'
  <1>. USE Limits DEF InBudget, Working
  <1>. ChildOK /\ FlagsOK
    BY TypeParts
  <1>1. now \in Nat /\ job \in {"stream", "download", "fallback"}
    BY DEF ChildOK, Jobs
  <1>2. CASE Start
    BY <1>2 DEF Start
  <1>3. CASE ChildFailsToStart \/ ChildStarts \/ ChildReadsAudio \/ ChildConnects
    BY <1>3 DEF ChildFailsToStart, ChildStarts, ChildReadsAudio, ChildConnects, CanRun,
       Goto, childFrame
  <1>4. CASE ChildRunStart \/ ChildUploads \/ EventsEnd
    BY <1>1, <1>4 DEF ChildRunStart, ChildUploads, EventsEnd, CanRun, Goto, childFrame
  <1>5. CASE SttEnd \/ IntentEnd
    BY <1>5 DEF SttEnd, IntentEnd, CanRun, childFrame
  <1>6. CASE TtsEnd
    BY <1>1, <1>6 DEF TtsEnd, CanRun, Goto, childFrame
  <1>7. CASE RunProcess
    BY <1>1, <1>7 DEF RunProcess, AfterJob, CanRun, Goto, childFrame
  <1>8. CASE RegisterGroup \/ ChildFinishes
    BY <1>1, <1>8 DEF RegisterGroup, ChildFinishes, CanRun, Goto, childFrame, jobVars
  <1>9. CASE JobEnds \/ JobTimeout
    BY <1>1, <1>9 DEF JobEnds, JobTimeout, AfterJob, CanRun, Goto, childFrame
  <1>10. CASE ChildTimeoutHandler \/ ChildKilled \/ LoopWaits \/ GraceEnds \/ ReaperReaps
    BY <1>10 DEF ChildTimeoutHandler, ChildKilled, LoopWaits, GraceEnds, ReaperReaps, Dies,
       Goto, signalFrame, threadFrame, runVars, jobVars
  <1>11. CASE Tick
    <2>1. CASE slow'
      BY <2>1
    <2>2. CASE frozen
      BY <1>11, <2>2 DEF Tick, process
    <2>3. ASSUME ~slow', ~frozen
          PROVE  /\ ~slow /\ ~expired /\ lead' = lead /\ UNCHANGED <<child, frozen, job>>
                 /\ child \in {"runstart", "events", "wait"}
                 /\ IF now + lead + StageLimit > ChildTimeout
                    THEN now' = ChildTimeout - lead /\ UNCHANGED expired
                    ELSE now' = now + StageLimit /\ expired' = TRUE
      <3>1. ~AudioTakesTime
        BY <2>3 DEF AudioTakesTime
      <3>2. StageTakesTime /\ UNCHANGED <<child, frozen, job>>
        BY <1>11, <3>1 DEF Tick, process, jobVars
      <3>. QED
        BY <2>3, <3>2 DEF StageTakesTime
    <2>4. CASE ~slow' /\ ~frozen /\ child = "runstart"
      <3>1. lead = 0 /\ StageLimit = 1 /\ now = 0
        BY <1>1, <2>3, <2>4 DEF StageLimit
      <3>. QED
        BY <1>1, <2>3, <2>4, <3>1
    <2>5. CASE ~slow' /\ ~frozen /\ child = "events"
      <3>1. lead = 0 /\ StageLimit = 12 /\ now <= 1
        BY <1>1, <2>3, <2>5 DEF StageLimit
      <3>. QED
        <4>1. ~(now + lead + StageLimit > ChildTimeout)
          BY <1>1, <3>1
        <4>2. now' = now + 12 /\ expired' /\ lead' = 0 /\ child' = "events"
          BY <2>3, <2>5, <3>1, <4>1
        <4>. QED
          BY <1>1, <3>1, <4>2
    <2>6. CASE ~slow' /\ ~frozen /\ child = "wait"
      <3>1. lead = 0 /\ StageLimit = JobBudget[job] /\ now <= JobStart(job)
        BY <1>1, <2>3, <2>6 DEF StageLimit
      <3>. QED
        <4>1. ~(now + lead + StageLimit > ChildTimeout)
          BY <1>1, <3>1
        <4>2. /\ now' = now + JobBudget[job] /\ expired' /\ lead' = 0
              /\ child' = "wait" /\ job' = job
          BY <2>3, <2>6, <3>1, <4>1
        <4>. QED
          BY <1>1, <3>1, <4>2
    <2>. QED
      BY <2>1, <2>2, <2>3, <2>4, <2>5, <2>6
  <1>12. CASE ChildFreezes
    BY <1>12 DEF ChildFreezes
  <1>13. CASE UNCHANGED <<child, frozen, slow, now, lead, expired, job>>
    BY <1>13
  <1>. HIDE DEF InBudget
  <1>. QED
    BY <1>2, <1>3, <1>4, <1>5, <1>6, <1>7, <1>8, <1>9, <1>10, <1>11, <1>12, <1>13
       DEF Next, vars, ThreadStep, ChildStep, Signals, StartFails, AudioFails, AudioWritten,
       LoopPolls, LoopCancelled, LoopDeadline, Consume, LoopReadDone, Return, ClearRunning,
       PushFinal, PlayerEnds, OrphanEnds, Cancel, threadFrame, runVars, childFrame, jobVars,
       process

\* The alarm of a child that never waited unlimited is never due.
LEMMA AlarmStep ==
    ASSUME TypeOK, InBudget, AlarmMeansUnlimitedWait, [Next]_vars
    PROVE  AlarmMeansUnlimitedWait'
  <1>. USE DEF AlarmMeansUnlimitedWait
  <1>1. CASE Start
    BY <1>1 DEF Start
  <1>2. CASE ChildTimeoutHandler
    <2>1. slow' = slow
      BY <1>2 DEF ChildTimeoutHandler, signalFrame
    <2>2. now \in Nat
      BY TypeParts DEF ChildOK
    <2>3. alarmed' => signal = "none"
      BY <1>2, Zenon DEF ChildTimeoutHandler
    <2>4. signal = "none" => slow
      BY <1>2, <2>2, Limits DEF ChildTimeoutHandler, AlarmDue, InBudget
    <2>. QED
      BY <2>1, <2>3, <2>4
  <1>3. CASE Tick
    <2>1. slow => slow'
      BY <1>3, Zenon DEF Tick, AudioTakesTime, StageTakesTime
    <2>. QED
      BY <1>3, <2>1 DEF Tick
  <1>4. CASE UNCHANGED <<slow, alarmed>>
    BY <1>4
  <1>. HIDE DEF AlarmMeansUnlimitedWait
  <1>. QED
    BY <1>1, <1>2, <1>3, <1>4 DEF Next, vars, ThreadStep, ChildStep, Signals,
       StartFails, AudioFails, AudioWritten, LoopPolls, LoopCancelled, LoopDeadline, Consume,
       LoopReadDone, LoopWaits, GraceEnds, Return, ClearRunning, PushFinal, ChildFailsToStart,
       ChildStarts, ChildReadsAudio, ChildConnects, ChildRunStart, ChildUploads, SttEnd,
       IntentEnd, TtsEnd,
       EventsEnd, RunProcess, RegisterGroup, JobEnds, JobTimeout, ChildFinishes, ChildKilled,
       ReaperReaps, PlayerEnds, OrphanEnds, ChildFreezes, Cancel, threadFrame, runVars,
       childFrame, signalFrame

-----------------------------------------------------------------------------
(* What the child writes and the thread reads.                             *)

\* A line the child writes is the next one of the script.
LEMMA WriteStep ==
    ASSUME LinesOK, ReportInv, NEW x \in {"transcript", "playback"},
           wrote = "none", x = Script(Len(said) + Len(pipe) + 1), Len(said) + Len(pipe) < 3,
           pipe' = Append(pipe, x), UNCHANGED <<said, wrote, final>>
    PROVE  ScriptIsFollowed' /\ Len(pipe') = Len(pipe) + 1
  <1>1. /\ Len(said) \in Nat /\ Len(pipe) \in Nat /\ Len(pipe') = Len(pipe) + 1
        /\ \A i \in 1 .. Len(pipe) : pipe'[i] = pipe[i]
        /\ pipe'[Len(pipe) + 1] = x
    <2>1. x \in Lines
      BY DEF Lines
    <2>. QED
      BY <2>1, AppendFacts DEF LinesOK
  <1>2. ~FinalQueued /\ ~FinalQueued'
    BY DEF FinalQueued
  <1>. QED
    BY <1>1, <1>2 DEF ReportInv, ScriptIsFollowed, Progressed

\* Reading a line moves it from the pipe to the report, and no line changes
\* its place in the script.
LEMMA ConsumeStep ==
    ASSUME LinesOK, ChildOK, ReportInv, Consume
    PROVE  ReportInv'
  <1>1. /\ Len(said) \in Nat /\ Len(pipe) \in Nat \ {0} /\ Head(pipe) = pipe[1]
        /\ Len(pipe') = Len(pipe) - 1
        /\ \A i \in 1 .. Len(pipe) - 1 : pipe'[i] = pipe[i + 1]
    BY HeadFacts DEF Consume, LinesOK
  <1>2. UNCHANGED <<wrote, child, signal, heard, job, parent>> /\ parent \in {"read", "drain"}
    BY DEF Consume, threadFrame, runVars, jobVars, process
  <1>3. final = "none"
    BY <1>1 DEF ReportInv, FinalIsLast
  <1>4. \A i \in Nat : Script(i) \notin Finals
    BY DEF Script, Finals
  <1>5. CASE Head(pipe) \in Finals
    <2>1. FinalQueued /\ Len(pipe) = 1 /\ pipe[1] = wrote
      BY <1>1, <1>4, <1>5 DEF ReportInv, ScriptIsFollowed
    <2>2. final' = wrote /\ said' = said /\ Len(pipe') = 0 /\ ~FinalQueued'
      BY <1>1, <1>2, <1>5, <2>1 DEF Consume, FinalQueued
    <2>3. ScriptIsFollowed'
      BY <1>1, <1>2, <2>1, <2>2 DEF ReportInv, ScriptIsFollowed, Progressed
    <2>4. FinalIsLast' /\ StageWrote'
      BY <1>1, <1>2, <2>1, <2>2 DEF ReportInv, FinalIsLast, StageWrote, FinalQueued, Working
    <2>. QED
      BY <2>3, <2>4 DEF ReportInv
  <1>6. CASE Head(pipe) \notin Finals
    <2>1. final' = final /\ said' = Append(said, pipe[1]) /\ (FinalQueued' <=> FinalQueued)
      BY <1>1, <1>2, <1>6 DEF Consume, FinalQueued
    <2>2. pipe[1] \in {"transcript", "playback"}
      BY <1>1, <1>6, HeadFacts DEF Consume, Lines
    <2>3. /\ Len(said') = Len(said) + 1 /\ said'[Len(said) + 1] = pipe[1]
          /\ \A i \in 1 .. Len(said) : said'[i] = said[i]
      BY <2>1, <2>2, AppendFacts DEF LinesOK
    <2>4. FinalQueued => Len(pipe) > 1 /\ pipe[1] = Script(Len(said) + 1)
      <3>1. ASSUME FinalQueued, Len(pipe) = 1 PROVE FALSE
        <4>1. pipe[1] = wrote
          BY <1>1, <3>1 DEF ReportInv, ScriptIsFollowed
        <4>. QED
          BY <1>1, <1>6, <3>1, <4>1 DEF FinalQueued, ChildOK
      <3>. QED
        BY <1>1, <3>1 DEF ReportInv, ScriptIsFollowed
    <2>5. ~FinalQueued => pipe[1] = Script(Len(said) + 1)
      BY <1>1 DEF ReportInv, ScriptIsFollowed
    <2>6. ScriptIsFollowed'
      BY <1>1, <1>2, <2>1, <2>3, <2>4, <2>5 DEF ReportInv, ScriptIsFollowed, Progressed
    <2>7. FinalIsLast' /\ StageWrote'
      BY <1>1, <1>2, <1>3, <2>1, <2>3, <2>4 DEF ReportInv, FinalIsLast, StageWrote, Working
    <2>. QED
      BY <2>6, <2>7 DEF ReportInv
  <1>. QED
    BY <1>5, <1>6

LEMMA ReportStep ==
    ASSUME TypeOK, HoldInv, ReportInv, [Next]_vars
    PROVE  ReportInv'
  <1>. USE DEF ReportInv
  <1>. ChildOK /\ ThreadOK /\ LinesOK
    BY TypeParts
  <1>0. Len(said) \in Nat /\ Len(pipe) \in Nat
    BY DEF LinesOK
  <1>1. CASE Start
    BY <1>0, <1>1 DEF Start, ScriptIsFollowed, FinalIsLast, StageWrote, FinalQueued,
       Progressed, report, Working
  <1>2. CASE StartFails \/ AudioFails
    <2>1. UNCHANGED <<said, pipe, wrote, final, heard, job, child>> /\ parent' = "returned"
      BY <1>2 DEF StartFails, AudioFails, threadFrame, runVars, jobVars, process
    <2>2. StageWrote'
      BY <1>2, <2>1 DEF StartFails, AudioFails, StageWrote, process, Kill
    <2>3. Len(pipe) = 0
      BY <1>2 DEF StartFails, AudioFails, FinalIsLast
    <2>. QED
      BY <2>1, <2>2, <2>3 DEF ScriptIsFollowed, FinalIsLast, FinalQueued, Progressed
  <1>3. CASE Consume
    BY <1>3, ConsumeStep
  <1>4. CASE AudioWritten \/ LoopPolls \/ LoopReadDone \/ ClearRunning
    BY <1>4 DEF AudioWritten, LoopPolls, LoopReadDone, ClearRunning, threadFrame, runVars,
       jobVars, process, report, ScriptIsFollowed, FinalIsLast, StageWrote, FinalQueued,
       Progressed
  <1>5. CASE LoopCancelled \/ LoopDeadline
    BY <1>5 DEF LoopCancelled, LoopDeadline, Kill, threadFrame, runVars, jobVars, report,
       ScriptIsFollowed, FinalIsLast, StageWrote, FinalQueued, Progressed
  <1>6. CASE LoopWaits \/ GraceEnds
    BY <1>6 DEF LoopWaits, GraceEnds, Kill, threadFrame, runVars, jobVars, report,
       ScriptIsFollowed, FinalIsLast, StageWrote, FinalQueued, Progressed, Working
  <1>7. CASE Return
    BY <1>7 DEF Return, threadFrame, runVars, jobVars, process, ScriptIsFollowed,
       FinalIsLast, StageWrote, FinalQueued, Progressed
  <1>8. CASE PushFinal
    <2>1. child \in {"none", "zombie"} \/ signal # "none"
      BY <1>8 DEF PushFinal, HoldInv, ChildIsQuiet
    <2>2. Len(said') = 0 /\ Len(pipe') = 0 /\ wrote' = "none" /\ final' = "none"
      BY <1>8 DEF PushFinal, FinalIsLast
    <2>. QED
      BY <1>8, <2>1, <2>2 DEF PushFinal, process, ScriptIsFollowed, FinalIsLast, StageWrote,
         FinalQueued, Progressed, Working
  <1>9. CASE \/ ChildFailsToStart \/ ChildStarts \/ ChildReadsAudio \/ ChildConnects
             \/ ChildRunStart \/ ChildUploads
    BY <1>0, <1>9 DEF ChildFailsToStart, ChildStarts, ChildReadsAudio, ChildConnects,
       ChildRunStart, ChildUploads, CanRun, Goto, childFrame, parentVars, report, jobVars,
       ScriptIsFollowed, FinalIsLast, StageWrote, FinalQueued, Progressed, Working
  <1>10. CASE SttEnd
    <2>1. wrote = "none" /\ parent \notin {"idle", "write", "returned", "push"}
      BY <1>10 DEF SttEnd, CanRun, FinalIsLast, HoldInv, ChildIsQuiet, KillIsLastResort
    <2>2. Len(said) + Len(pipe) = 0
      BY <1>10 DEF SttEnd, CanRun, StageWrote, Working
    <2>3. ScriptIsFollowed' /\ Len(pipe') = Len(pipe) + 1
      BY <1>10, <1>0, <2>1, <2>2, WriteStep DEF SttEnd, childFrame, parentVars, report, Script
    <2>. QED
      BY <1>0, <1>10, <2>1, <2>2, <2>3 DEF SttEnd, CanRun, childFrame, parentVars, report,
         FinalIsLast, StageWrote, FinalQueued, Working
  <1>11. CASE IntentEnd \/ TtsEnd \/ EventsEnd
    BY <1>0, <1>11 DEF IntentEnd, TtsEnd, EventsEnd, CanRun, Goto, childFrame, parentVars,
       report, jobVars, ScriptIsFollowed, FinalIsLast, StageWrote, FinalQueued, Progressed,
       Working
  <1>12. CASE RunProcess
    <2>1. wrote = "none" /\ parent \notin {"idle", "write", "returned", "push"}
      BY <1>12 DEF RunProcess, CanRun, FinalIsLast, HoldInv, ChildIsQuiet, KillIsLastResort
    <2>2. UNCHANGED <<parent, said, final, wrote, signal, heard>> /\ job \in Jobs
      BY <1>12 DEF RunProcess, childFrame, parentVars, report, ChildOK
    <2>3. CASE job = "download"
      BY <1>0, <1>12, <2>1, <2>2, <2>3 DEF RunProcess, Announce, AfterJob, CanRun, Goto,
         ScriptIsFollowed, FinalIsLast, StageWrote, FinalQueued, Progressed, Working
    <2>4. CASE job \in {"stream", "fallback"}
      <3>1. Len(said) + Len(pipe) = IF job = "stream" THEN 1 ELSE 2
        BY <1>12 DEF RunProcess, CanRun, StageWrote, Working
      <3>2. ScriptIsFollowed' /\ Len(pipe') = Len(pipe) + 1
        BY <1>0, <1>12, <2>1, <2>2, <2>4, <3>1, WriteStep DEF RunProcess, Announce, Script
      <3>. QED
        BY <1>0, <1>12, <2>1, <2>2, <2>4, <3>1, <3>2 DEF RunProcess, AfterJob, CanRun, Goto,
           FinalIsLast, StageWrote, FinalQueued, Working
    <2>. QED
      BY <2>2, <2>3, <2>4 DEF Jobs
  <1>13. CASE RegisterGroup
    BY <1>0, <1>13 DEF RegisterGroup, CanRun, Goto, childFrame, parentVars, report,
       ScriptIsFollowed, FinalIsLast, StageWrote, FinalQueued, Progressed, Working
  <1>14. CASE JobEnds \/ JobTimeout
    BY <1>0, <1>14 DEF JobEnds, JobTimeout, AfterJob, CanRun, Goto, childFrame, parentVars,
       report, ScriptIsFollowed, FinalIsLast, StageWrote, FinalQueued, Progressed, Working,
       ChildOK, Jobs
  <1>15. CASE ChildFinishes
    <2>1. wrote = "none" /\ parent \notin {"idle", "write", "returned", "push"}
      BY <1>15 DEF ChildFinishes, CanRun, FinalIsLast, HoldInv, ChildIsQuiet,
         KillIsLastResort
    <2>2. wrote' \in Finals /\ UNCHANGED <<parent, said, final>> /\ child' = "zombie"
      BY <1>15 DEF ChildFinishes, Goto, childFrame, parentVars, report, ChildOK, Finals
    <2>3. /\ Len(pipe') = Len(pipe) + 1 /\ pipe'[Len(pipe) + 1] = wrote'
          /\ \A i \in 1 .. Len(pipe) : pipe'[i] = pipe[i]
      <3>1. wrote' \in Lines
        BY <2>2 DEF Lines
      <3>. QED
        BY <1>15, <3>1, AppendFacts DEF ChildFinishes, LinesOK
    <2>4. final = "none" /\ ~FinalQueued /\ FinalQueued'
      BY <2>1, <2>2 DEF FinalIsLast, FinalQueued, Finals
    <2>. QED
      BY <1>0, <2>1, <2>2, <2>3, <2>4 DEF ScriptIsFollowed, FinalIsLast, StageWrote,
         Progressed, Working
  <1>16. CASE ChildTimeoutHandler \/ ChildKilled \/ ReaperReaps
    BY <1>16 DEF ChildTimeoutHandler, ChildKilled, ReaperReaps, Dies, Goto, signalFrame,
       threadFrame, runVars, parentVars, report, ScriptIsFollowed, FinalIsLast, StageWrote,
       FinalQueued, Progressed, Working
  <1>17. CASE UNCHANGED <<parent, said, pipe, wrote, final, child, signal, heard, job>>
    BY <1>17 DEF ScriptIsFollowed, FinalIsLast, StageWrote, FinalQueued, Progressed
  <1>. HIDE DEF ReportInv
  <1>. QED
    BY <1>1, <1>2, <1>3, <1>4, <1>5, <1>6, <1>7, <1>8, <1>9, <1>10, <1>11, <1>12, <1>13,
       <1>14, <1>15, <1>16, <1>17 DEF Next, vars, ThreadStep, ChildStep, Signals, Tick,
       PlayerEnds, OrphanEnds, ChildFreezes, Cancel, childFrame, parentVars, report, process,
       jobVars

\* When the thread returns, the pipe is empty: a final line that was written
\* has been read.
LEMMA DeliveryStep ==
    ASSUME TypeOK, HoldInv, ReportInv, FinalLineIsDelivered, [Next]_vars
    PROVE  FinalLineIsDelivered'
  <1>. USE DEF FinalLineIsDelivered
  <1>1. CASE StartFails \/ AudioFails
    BY <1>1 DEF StartFails, AudioFails, threadFrame, ReportInv, FinalIsLast
  <1>2. CASE Return
    <2>1. wrote # "none" => final = wrote
      BY <1>2 DEF Return, ReportInv, FinalIsLast, FinalQueued
    <2>. QED
      BY <1>2, <2>1 DEF Return, Outcome, threadFrame
  <1>3. CASE \/ Start \/ AudioWritten \/ LoopPolls \/ LoopCancelled \/ LoopDeadline
             \/ Consume \/ LoopReadDone \/ LoopWaits \/ GraceEnds \/ PushFinal
    BY <1>3 DEF Start, AudioWritten, LoopPolls, LoopCancelled, LoopDeadline, Consume,
       LoopReadDone, LoopWaits, GraceEnds, PushFinal
  <1>4. CASE ClearRunning
    BY <1>4 DEF ClearRunning, threadFrame, report
  <1>5. CASE ChildFinishes
    BY <1>5 DEF ChildFinishes, CanRun, childFrame, parentVars, HoldInv, ChildIsQuiet
  <1>6. CASE UNCHANGED <<parent, stopped, wrote, result>>
    BY <1>6
  <1>. HIDE DEF FinalLineIsDelivered
  <1>. QED
    BY <1>1, <1>2, <1>3, <1>4, <1>5, <1>6 DEF Next, vars, ThreadStep, ChildStep, Signals,
       ChildFailsToStart, ChildStarts, ChildReadsAudio, ChildConnects, ChildRunStart,
       ChildUploads, SttEnd,
       IntentEnd, TtsEnd, EventsEnd, RunProcess, RegisterGroup, JobEnds, JobTimeout,
       ChildTimeoutHandler, ChildKilled, ReaperReaps, Tick, PlayerEnds, OrphanEnds,
       ChildFreezes, Cancel, threadFrame, childFrame, signalFrame, parentVars, report

-----------------------------------------------------------------------------
(* The theorems.                                                           *)

LEMMA InitInvariant == Init => IInv
  <1>. SUFFICES ASSUME Init PROVE IInv
    OBVIOUS
  <1>1. FlagsOK
    BY Zenon DEF Init, FlagsOK
  <1>2. ThreadOK /\ ChildOK /\ LinesOK
    BY Limits DEF Init, ThreadOK, ChildOK, LinesOK, Jobs
  <1>3. HoldInv /\ InBudget
    BY DEF Init, HoldInv, SignalsAct, ThreadHasChild, ChildIsQuiet, ReaperHasChild,
       KillIsLastResort, InBudget, Working
  <1>4. ReportInv
    <2>1. Len(said) = 0 /\ Len(pipe) = 0
      BY DEF Init
    <2>. QED
      BY <2>1 DEF Init, ReportInv, ScriptIsFollowed, FinalIsLast, StageWrote, FinalQueued,
         Progressed, Working
  <1>5. PlayerIsSupervised /\ FinalLineIsDelivered /\ AlarmMeansUnlimitedWait
    BY DEF Init, PlayerIsSupervised, FinalLineIsDelivered, AlarmMeansUnlimitedWait
  <1>. QED
    BY <1>1, <1>2, <1>3, <1>4, <1>5, TypeParts DEF IInv

LEMMA StepInvariant == IInv /\ [Next]_vars => IInv'
  <1>. SUFFICES ASSUME IInv, [Next]_vars PROVE IInv'
    OBVIOUS
  <1>1. TypeOK' /\ HoldInv' /\ ReportInv' /\ InBudget'
    BY TypeStep, HoldStep, ReportStep, BudgetStep DEF IInv
  <1>2. PlayerIsSupervised' /\ FinalLineIsDelivered' /\ AlarmMeansUnlimitedWait'
    BY PlayerStep, DeliveryStep, AlarmStep DEF IInv
  <1>. QED
    BY <1>1, <1>2 DEF IInv

\* Every reachable state satisfies the inductive invariant.
THEOREM Invariance == Spec => []IInv
  BY InitInvariant, StepInvariant, PTL DEF Spec

\* Type correctness; a result exists exactly while the thread returns it.
THEOREM TypeCorrect == Spec => []TypeOK
  <1>1. IInv => TypeOK
    BY DEF IInv
  <1>. QED
    BY <1>1, Invariance, PTL

\* A final line that the child wrote is the result the panel shows, unless the
\* thread stopped the command.
THEOREM FinalDelivered == Spec => []FinalLineIsDelivered
  <1>1. IInv => FinalLineIsDelivered
    BY DEF IInv
  <1>. QED
    BY <1>1, Invariance, PTL

\* The child's alarm fires only if a unit of time or more went where the code
\* sets no limit: audio, connection, upload, a frame that outlasts its stage.
THEOREM AlarmJustified == Spec => []AlarmMeansUnlimitedWait
  <1>1. IInv => AlarmMeansUnlimitedWait
    BY DEF IInv
  <1>. QED
    BY <1>1, Invariance, PTL

\* A child that the thread left is a reaper's, and has ended or has SIGKILL
\* pending: the safety part of NoChildLeft.
THEOREM ChildHeld == Spec => []ChildIsHeld
  <1>1. IInv => ChildIsHeld
    BY DEF IInv, HoldInv, ReaperHasChild, ChildIsHeld
  <1>. QED
    BY <1>1, Invariance, PTL

\* A job's process is known to the child's signal handler, and it outlives the
\* child only if it was not yet registered or the child was frozen.
THEOREM PlayersAccounted == Spec => PlayersAreAccountedFor
  <1>1. IInv => PlayerIsSupervised
    BY DEF IInv
  <1>2. IInv /\ [Next]_vars =>
            [orphan' \notin {orphan, "none"} => child = "unreg" \/ frozen]_vars
    BY OrphanStep DEF IInv
  <1>. QED
    BY <1>1, <1>2, Invariance, PTL DEF Spec, PlayersAreAccountedFor

-----------------------------------------------------------------------------
(* The contract.                                                           *)

\* The report is one of the four prefixes of the script.
LEMMA SaidIsPrefix ==
    ASSUME IInv
    PROVE  \/ said = <<>>
           \/ said = <<"transcript">>
           \/ said = <<"transcript", "playback">>
           \/ said = <<"transcript", "playback", "playback">>
  <1>1. said \in Seq({"transcript", "playback"}) /\ Len(pipe) \in Nat /\ Len(said) \in Nat
    BY TypeParts DEF IInv, LinesOK
  <1>2. Len(said) <= 3
    BY <1>1 DEF IInv, ReportInv, ScriptIsFollowed, FinalIsLast, Progressed
  <1>3. \A i \in 1 .. Len(said) : said[i] = Script(i)
    BY DEF IInv, ReportInv, ScriptIsFollowed
  <1>4. CASE Len(said) = 0
    BY <1>1, <1>4
  <1>5. CASE Len(said) = 1
    BY <1>1, <1>3, <1>5 DEF Script
  <1>6. CASE Len(said) = 2
    BY <1>1, <1>3, <1>6 DEF Script
  <1>7. CASE Len(said) = 3
    BY <1>1, <1>3, <1>7 DEF Script
  <1>8. \A n \in Nat : n <= 3 => n = 0 \/ n = 1 \/ n = 2 \/ n = 3
    OBVIOUS
  <1>. QED
    BY <1>1, <1>2, <1>4, <1>5, <1>6, <1>7, <1>8

\* The phase follows from the thread's place and the number of lines read.
PhaseIs ==
    /\ parent = "idle" => ReportedPhase = "idle"
    /\ parent = "push" => ReportedPhase = "ending"
    /\ parent \notin {"idle", "push"} =>
         \/ Len(said) = 0 /\ ReportedPhase = "live"
         \/ Len(said) = 1 /\ ReportedPhase = "heard"
         \/ Len(said) = 2 /\ ReportedPhase = "speaking"
         \/ Len(said) = 3 /\ ReportedPhase = "fallback"
    /\ parent = "idle" => Len(said) = 0

LEMMA PhaseFacts == IInv => PhaseIs
  <1>. SUFFICES ASSUME IInv PROVE PhaseIs
    OBVIOUS
  <1>1. parent = "idle" => Len(said) = 0
    BY DEF IInv, ReportInv, FinalIsLast
  <1>2. CASE said = <<>>
    BY <1>1, <1>2 DEF PhaseIs, ReportedPhase
  <1>3. CASE said = <<"transcript">>
    <2>1. said # <<>> /\ Len(said) = 1
      BY <1>3
    <2>. QED
      BY <1>1, <1>3, <2>1 DEF PhaseIs, ReportedPhase
  <1>4. CASE said = <<"transcript", "playback">>
    <2>1. said # <<>> /\ said # <<"transcript">> /\ Len(said) = 2
      BY <1>4
    <2>. QED
      BY <1>1, <1>4, <2>1 DEF PhaseIs, ReportedPhase
  <1>5. CASE said = <<"transcript", "playback", "playback">>
    <2>1. /\ said # <<>> /\ said # <<"transcript">> /\ said # <<"transcript", "playback">>
          /\ Len(said) = 3
      BY <1>5
    <2>. QED
      BY <1>1, <1>5, <2>1 DEF PhaseIs, ReportedPhase
  <1>. QED
    BY <1>2, <1>3, <1>4, <1>5, SaidIsPrefix

LEMMA NextPhaseFacts == IInv' => PhaseIs'
  BY PhaseFacts, PTL

LEMMA ContractStep == IInv /\ IInv' /\ [Next]_vars => [Contract!Next]_ReportedPhase
  <1>. SUFFICES ASSUME IInv, IInv', [Next]_vars PROVE [Contract!Next]_ReportedPhase
    OBVIOUS
  <1>. USE DEF Contract!Next, Contract!Start, Contract!Progress, Contract!Return,
               Contract!PushFinal, Contract!LivePhases, PhaseIs
  <1>. PhaseIs /\ PhaseIs'
    BY PhaseFacts, NextPhaseFacts
  <1>. LinesOK
    BY TypeParts DEF IInv
  <1>1. CASE Start \/ StartFails
    BY <1>1 DEF Start, StartFails, report
  <1>2. CASE AudioFails
    BY <1>2 DEF AudioFails
  <1>3. CASE \/ AudioWritten \/ LoopPolls \/ LoopCancelled \/ LoopDeadline
             \/ LoopReadDone \/ LoopWaits \/ GraceEnds \/ Return
    <2>1. parent \notin {"idle", "push"} /\ parent' \notin {"idle", "push"} /\ said' = said
      BY <1>3 DEF AudioWritten, LoopPolls, LoopCancelled, LoopDeadline, LoopReadDone,
         LoopWaits, GraceEnds, Return, report
    <2>. QED
      BY <2>1 DEF ReportedPhase
  <1>4. CASE Consume
    <2>1. said' = said \/ Len(said') = Len(said) + 1
      <3>1. CASE Head(pipe) \notin Finals
        BY <1>4, <3>1, HeadFacts, AppendFacts DEF Consume, LinesOK, Lines
      <3>. QED
        BY <1>4, <3>1 DEF Consume
    <2>2. parent \notin {"idle", "push"} /\ parent' = parent
      BY <1>4 DEF Consume
    <2>3. CASE said' = said
      BY <2>2, <2>3 DEF ReportedPhase
    <2>4. CASE Len(said') = Len(said) + 1
      <3>1. \/ Len(said) = 0 /\ ReportedPhase = "live"
            \/ Len(said) = 1 /\ ReportedPhase = "heard"
            \/ Len(said) = 2 /\ ReportedPhase = "speaking"
            \/ Len(said) = 3 /\ ReportedPhase = "fallback"
        BY <2>2
      <3>2. \/ Len(said') = 0 /\ ReportedPhase' = "live"
            \/ Len(said') = 1 /\ ReportedPhase' = "heard"
            \/ Len(said') = 2 /\ ReportedPhase' = "speaking"
            \/ Len(said') = 3 /\ ReportedPhase' = "fallback"
        BY <2>2
      <3>3. CASE Len(said) = 0
        BY <2>4, <3>1, <3>2, <3>3
      <3>4. CASE Len(said) = 1
        BY <2>4, <3>1, <3>2, <3>4
      <3>5. CASE Len(said) = 2
        BY <2>4, <3>1, <3>2, <3>5
      <3>6. Len(said) # 3
        BY <2>4, <3>2
      <3>. QED
        BY <3>1, <3>3, <3>4, <3>5, <3>6
    <2>. QED
      BY <2>1, <2>3, <2>4
  <1>5. CASE ClearRunning
    BY <1>5 DEF ClearRunning
  <1>6. CASE PushFinal
    BY <1>6 DEF PushFinal
  <1>7. CASE UNCHANGED <<parent, said>>
    BY <1>7 DEF ReportedPhase
  <1>. HIDE DEF Contract!Next, PhaseIs
  <1>. QED
    BY <1>1, <1>2, <1>3, <1>4, <1>5, <1>6, <1>7 DEF Next, vars, ThreadStep, ChildStep,
       Signals, ChildFailsToStart, ChildStarts, ChildReadsAudio, ChildConnects,
       ChildRunStart, ChildUploads, SttEnd, IntentEnd, TtsEnd, EventsEnd, RunProcess, RegisterGroup,
       JobEnds, JobTimeout, ChildFinishes, ChildTimeoutHandler, ChildKilled, ReaperReaps,
       Tick, PlayerEnds, OrphanEnds, ChildFreezes, Cancel, childFrame, signalFrame,
       parentVars, report

\* The thread reports as the panel expects it: the safety part of
\* ImplementsContract.
THEOREM ContractImplemented == Spec => Contract!Spec
  <1>1. Init => Contract!Init
    BY InitInvariant, PhaseFacts DEF Init, Contract!Init, PhaseIs
  <1>. QED
    BY <1>1, ContractStep, Invariance, PTL DEF Spec, Contract!Spec
=============================================================================
