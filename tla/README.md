# Verification of the HA-LVGL panel

HA-LVGL turns a MOES TPP01-Z wall panel into a Home Assistant terminal: an LVGL
user interface, a voice assistant with wake word, an MQTT device, a web portal
for its configuration and an over-the-air updater. This directory holds TLA+
models of the parts whose correctness depends on the interleaving of threads,
processes and messages, TLC configurations that check them on small instances,
and TLAPS proofs of their safety properties for all instances.

## 1. The system

### 1.1 Threads and processes

| who | what it runs | where |
|---|---|---|
| UI thread | LVGL timers, touch events, every screen; the only thread that may touch widgets | `src/src/main.cpp`, `main` 5099-5247 |
| pipeline threads | one detached thread per voice command; forks the pipeline process and waits for it | `start_assist_pipeline` 3290, `assist_pipeline_bridge.cpp` |
| capture thread | reads `arecord` for push-to-talk, wake capture and the microphone test | `assist_audio.cpp` |
| listener thread | reads the wake-word worker's output | `wake_word_listener.cpp` |
| MQTT thread | connection, announcement, commands | `mqtt_client.cpp` |
| websocket and poll threads | Home Assistant state | `main.cpp` 749-1193 |
| OTA and release-check threads | download, rename, `execv` | `main.cpp` 1195-1369 |
| CGI processes | the same binary run by the web server: configuration, status | `main.cpp` 528-747, `www/cgi-bin` |
| watchdog | restarts the panel, switches back to the stock firmware | `tools/ha_watchdog.sh`, `tuya_monitor.sh` |

### 1.2 Inventory

For each component: its state, its operations, its neighbours, what is hard
about it, and what makes it correct.

**Assist session** (`main.cpp` 1589-2086, 3095-3692). State: the generation
counter, the running flag, the queue of results, the capture and listener, the
overlay, the settings screens, the push-to-talk button, the history.
Operations: the runtime, level and overlay timers, the touch handlers, the
steps of the pipeline, capture and listener threads. It talks to the pipeline
threads through a mutex-protected FIFO and an atomic flag that are *not*
updated together. Hard: results of superseded sessions arrive late; the flag is
cleared before the final result is queued; captures, listener and answer
compete for one ALSA device; every screen can be closed at any moment. Correct
when: commands do not overlap; the button tells the truth and comes back; the
overlay is taken down; the history is in order; listening resumes.

**Capture, listener, pipeline bridge** (`assist_audio.cpp`,
`wake_word_listener.cpp`, `assist_pipeline_bridge.cpp`). State: child pids, pipe
descriptors, threads, deadlines. Operations: fork, read loop, kill, reap, join.
Hard: a child that ignores SIGTERM, a kill after the child was reaped, time-outs
nested in time-outs, partial lines. Correct when: `stop` returns, no child
outlives its owner, no process of another owner is signalled.

**MQTT client** (`mqtt_client.cpp`, and its users in `main.cpp` 1469-1527,
5089-5097, 5199-5233). State: `sock_fd_`, `connected_`, `running_`, the loop
thread. Operations: connect, announce, serve, ping, close, pause; publish, stop,
configure, start from the UI thread. Hard: the two threads share a socket with
check-then-act on both sides; end of file is not told apart from a time-out;
the retained status is also written by the will of an older connection. Correct
when: CONNECT comes first, nothing is leaked by `stop`, the status is true, no
command runs partially or twice, a dead connection is left.

**Screen power, backlight and touch** (`hal.cpp` 163-363, `main.cpp` 75-96,
2675-2832, 5201-5219). State: `g_screen_blanked`, the backlight and its target,
the time of the last activity. Operations: wake, blank, set backlight, read
touch, screensaver timer, MQTT commands. Hard: fades of the UI thread and the
MQTT thread test and write shared flags without a lock; a brightness command
lights a blanked screen; two brightness scales. Correct when: flag and light
agree once both threads are idle.

**Configuration store** (`main.cpp` 210-648, 4375-4453, 5074-5087, 5181-5182,
`save_config.sh`). State: the configuration file, its lock file, the panel's
copy. Operations: load, save by rename, CGI update of one section under `flock`,
disconnect, poll for changes, delete and restart on a bad file. Hard: the panel
saves without the lock; a process is killed between write and rename; a form
that leaves a secret empty keeps the old one. Correct when: no update is lost,
a reader sees a whole file, secrets survive.

**OTA update** (`main.cpp` 1195-1400, 2409-2495, `check_update.sh`,
`action.sh`). State: the binary, its `.old` copy, the download. Operations:
check, download with a time-out, verify, two renames with rollback, `execv`.
Hard: the wait gives up before the download's own time-out; a crash between the
renames. Correct when: some runnable binary has the panel's name at every crash.

**Home Assistant state sync** (`main.cpp` 749-1193, 4747-5024). State: entity
states, the poll-in-progress flag, the websocket session. Operations: REST
poll, service call with optimistic update, websocket events, reconnection.
Hard: a poll answered late overwrites a newer event. Correct when: what is
shown converges to Home Assistant's state and polling never stops.

**Control center and Home Assistant screens, display and sound settings, Wi-Fi
screens, web portal page, terminal panel, prototypes**: presentation and calls
to external programs; no state that outlives a handler except what belongs to a
component above.

**Watchdog and firmware monitor** (`tools/ha_watchdog.sh`, `tuya_monitor.sh`,
`save_config.sh`). State: running processes, the autostart flags. Hard: watchdog
and CGI both restart the panel, and everything is found by process name. Correct
when: the panel comes back, panels do not pile up, one application has the screen,
and it is never dark without a reason.

**mbedtls, LVGL, fonts, logo**: vendored or generated; not modelled.

## 2. Plan

In order of importance. All modules of the table are model-checked. A module
`M_proofs` beside `M` holds its proofs; section 5 says what they show.

| module | models | composes or refines | proved |
|---|---|---|---|
| `AssistSession` | the voice session | its threads keep `PipelineContract` | every safety property |
| `MqttClient` | the MQTT client with broker and network | | every safety property |
| `PipelineContract` | what the session relies on from a pipeline thread | abstract | kept by the session, implemented by the process (safety) |
| `PipelineProcess` | thread, child and players of one command | implements `PipelineContract` | every safety property |
| `AudioProcesses` | the processes on the microphone | | every safety property |
| `Watchdog` | scripts, both firmwares and the panel | with `ConfigStore` | every safety property |
| `ConfigStore` | panel, CGI programs and scripts against one file | | every safety property |
| `OtaUpdate` | download, renames, crash, restart | | every safety property that holds |
| `HaSync` | polls, events, clicks | | nothing yet: `PollsInOrder` is checked only |
| `ScreenPower` | backlight and flags under two threads | | every safety property |

Further abstract specifications worth stating: a sequential register of sections
for `ConfigStore`, an atomic replacement for `OtaUpdate`, a monotone view for
`HaSync`.

## 3. The modules

### 3.1 AssistSession

One variable per static variable or flag of the session; the comments at the
declarations name them. `queue` is the FIFO of results, `phase` and `wgen` are
the local state of the detached threads. The UI thread's handlers are atomic
except `assist_runtime_timer_cb`, in which the detached threads can be observed
twice: it first applies a queued result (`RuntimeTimerApply`) and then reads the
running flag (`RuntimeTimerWake`, `RuntimeTimerFinishCapture`,
`RuntimeTimerListen`, `RuntimeTimerIdle`); `ui` says that it is in between.
A pipeline thread ends in two steps, `PipelineReturns` (clears the flag) and
`PipelinePushesFinal` (queues the result), as in the code.

Abstractions: samples are "enough for a command" or not; deadlines are armed
flags that time may let fire at any moment, which covers every real timing;
texts, levels and the conversation identifier are left out. `Slots` bounds the
threads that exist at once and `MaxGen` the sessions of a run; the proofs hold
for every value of both. The number of history entries is a constant (6 in the
code).

### 3.2 MqttClient

The loop thread's place is `thread`; its actions follow `loop`,
`connect_socket`, `send_mqtt_connect`, `read_raw` and `process_incoming_packet`.
`UiPublishes` and `UiWrites` are the two halves of `publish` on the UI thread
(the test of `connected_`, and the write under the lock), `UiStops`,
`UiClosesSocket` and `UiJoins` the three of `stop`. Broker and network are
external: a connection may be closed by the broker, fall silent, be reset; the
error of a reset is reported to one system call only. A command is a frame of
two parts which the network may hold apart for longer than the client waits.

A connection's identity is reused when neither side holds it, so runs contain
any number of reconnections. Assumption on time: the loop pauses 3 s between
connections, and the UI thread's moment between its test and its write is
shorter (`LoopBackoff`). Without the pause CONNECT is not always first: the
mutant `LoopClosesAndRedials` shows it.

### 3.3 ConfigStore

The processes that touch `ha_config.json`: application processes (`Panels`), the
requests of the web portal (`Cgis`; the same binary, then the script around it)
and the watchdog. `mem` holds each process's configuration variables, `pc` where
it is, `tmp` the temporary files by the process id in their names and `saving`
how far a save is: `SaveOpens` truncates, `SaveWrites` fills, `SaveRenames`
installs whatever the temporary file then holds, `SaveFails` gives up and leaves
it behind. `CgiLoads` to `CgiAnswers` are
`cgi_config_main`, `ScriptKills` and `ScriptLaunches` the restart that
`save_config.sh` and `action.sh` cause, `BootLoads`, `BootDeletes` and
`OnboardingPolls` the start of the application, `PanelEdits` and `PanelSaves`
its settings screens. A kill takes every process of that name, between any two
steps of a save too; a write may fail. `killall httpd`, by the onboarding
application and by the portal's switch on the panel, takes away the reader of a
request in progress (`cut`): it still saves, but nobody restarts the application
afterwards (`CgiAnswersNobody`), which `missed` remembers. Whether a server runs
is not tracked: requests may arrive at any time.

A configuration is reduced to which sections the user has set and the two
switches. `Panels` bounds processes that exist at once; a launch with no free
slot does not happen, which only a third application at the same time could
tell.

### 3.4 OtaUpdate

`perform_github_ota` on the UI thread: waiting for the download, the two assets
with their own `.tmp` files (`fetched`), the two renames and the roll-back,
`execv`. Files are inodes under the names
`ha_panel`, `ha_panel.tmp` and `ha_panel.old`, because a curl that outlives the
wait keeps writing the inode that was renamed under it. Every step may be
followed by a kill of the panel or a power failure, each of the three renames may
fail (`failed`; the results of the first and the last are ignored, as in the
code), a curl may stop anywhere, and a curl of an asset may outlive its panel and
go on writing the `.tmp` the next update uses (`strays`, `clashed`). `faults`
counts what the code cannot be blamed for (a failed
rename, an interruption between the renames) and what it lets happen (an
unfinished file about to be installed, two downloads into one file), so that
`SurvivesFaults` says how many of them the update survives.

### 3.5 HaSync

The buttons (`shown`) and the entities behind them (`ha`, with a version `ver`
that counts changes). A poll thread reads the controls one after the other
(`PollReads`, `PollReadFails`; `PollReadCutOff` is a reply that breaks off after
its status line, which `ha_request` takes for an answer with an empty state
because it does not look at curl's exit status), publishes the panel's own state
and queues its answers for the UI thread (`PollApplies`); the websocket thread connects, gets a
snapshot, reads events and reconnects; a click shows the opposite at once and
sends a toggle that may be lost. Calls queued by `lv_async_call` run in any
order, because LVGL promises none; `MaxCalls` bounds them. An event is taken for
a control's own if the control's name occurs in it: `Near` says for which pairs
of controls that happens wrongly.

### 3.6 ScreenPower

Both threads have a place in `hal_wake_screen`, `hal_blank_screen` or
`hal_set_backlight`; every test of `g_screen_blanked` and every write of the
backlight is a step. Levels are real (0 to 255, with the code's divisions); a
fade has 3 and 4 steps instead of 15 and 20. Assumption on time: what a thread
does between two sleeps takes less time than a sleep of the other (`NapEnds`);
sleeps themselves may take any time. Without it a thread could be suspended
between test and write for a whole fade of the other one, and the screen would
stay wrong. A wake has two steps or more (`PowerAssumption`): the other thread's
blank may write one obsolete step after the first one of the wake, and the second
repairs it; with a wake of one step TLC finds the light left at the
obsolete level. `woke` and `disturbed` are history variables: this
touch woke the screen; a level was set in the middle of a fade, on a blanked
screen or to 0, or by the portal, and no fade has begun since.

### 3.7 PipelineContract and PipelineProcess

`PipelineContract` is what the session relies on from one detached thread: at most
one transcript, then at most two starts of playback (the stream and its
fallback), then the running flag is cleared once, then one final result, and
every thread gets there. `AssistSession` has the property `ThreadsKeepContract`:
each of its threads is such a thread (`INSTANCE ... WITH phase <- phase[s]`).
`PipelineProcess` is the detailed side and has `ImplementsContract`, where the
contract's phase is read off the thread's place and what it has reported
(`ReportedPhase`).

`PipelineProcess` models `run_assist_pipeline_process` in the panel
(`parent`: writing the audio, the poll loop with its read, `waitpid` and
cancellation steps, the second of grace, the last drain), the child
`assist_pipeline_child_main` (`child`: reading, connecting, waiting for run-start,
the upload of the audio, events, the final line) and `run_process` inside it
(fork, registration of the
process group, wait, time-out), with stream, download and fallback as its three
jobs. `child_timeout_handler` serves SIGTERM and the alarm. Lines on the pipe are
words; Home Assistant sends its events in the order of its pipeline.

Time counts in units of 5 s, the largest of which all limits of the code are
multiples (alarm 240 s, the thread's deadline 245 s, run-start 5 s, events 60 s,
stream 60 s, download 20 s, fallback 90 s, writing the audio to the child 5 s).
`Tick` lets a limited stage take no time or all of its time: the properties are
about sums of stages, which are largest and smallest there. Four waits have no
limit but the alarm (`AudioTakesTime`, `Unlimited`): the audio on stdin, during
which the alarm already runs (`lead`); connecting and authenticating; the upload,
which limits each frame but not their number; and a frame whose reading began
before its stage's deadline. They may take any number of units and set `slow`. A frozen child (stopped, or stuck in the kernel) takes the whole
time the thread grants it; only such a child outlives the second after SIGTERM. A
pending signal acts before the child's next step. One command is at work at a
time: the session's overlapping threads share nothing down here.

### 3.8 AudioProcesses

A small kernel (`state`, `kind`, `hurt`: process ids that are free again once
waited for, and pending signals), the capture with its thread, the listener with
its monitor thread, and the UI thread that starts and stops both. `stop` is three
steps in each: the flag and the copied ids, the signal, the join; `start` begins
with a `stop`. The capture thread waits `Attempts` times, then leaves the child to
SIGKILL and a detached thread; the monitor waits without limit. A process may end
by itself, or be deaf to signals in the sound driver; foreign processes take free
ids at any moment.

### 3.9 Watchdog

What has the screen: panels, the stock GUI and its supervisor (external, known
from the comment "pause Tuya monitor so it does not restart voice_control"), the
watchdog's loop (`wd`, one command a step) and the scripts of the portal (`job`):
`start_ha`, `start_tuya`, `save_config.sh` and `status.sh`. Processes are found by
name, and CGI programs and the Assist helper are called `ha_panel` too
(`NamedHaPanel`): they are counted by `pidof` and hit by `killall`. `cause` is a
history variable: why there may be no panel. A restart of the device is an
initial state with any settings and with or without a binary. The settings the
panel itself saves are in `ConfigStore`; here only its portal switch matters.

## 4. What the runs check

| run | question | result |
|---|---|---|
| `assist_session` | do late, stale and follow-up results ever overlap commands, misreport the button or disorder the history, and do its threads keep the contract? | holds |
| `assist_live` | is the overlay taken down, does the button come back, does listening resume? | holds |
| `assist_capture_conflict` | do two captures ever open the device at once? | violated |
| `mqtt_client` | CONNECT first, nothing leaked, status true, commands whole and in order; is a dead connection left, does `stop` return, does a stopped panel go offline? | holds |
| `config_store` | is the file always whole, do requests compose, does the panel end up with what was saved, and does it come up after every save? | holds |
| `ota_update` | startable without faults, a copy left after one, assets whole, what does a failed update leave? | holds |
| `ota_unfinished` | is an unfinished download refused? | violated |
| `ha_sync` | are polls shown in order, do the buttons come to show the truth? | holds |
| `screen_power` | do light and flag agree once both threads are idle, is the waking touch swallowed? | holds |
| `pipeline_process` | does a command's thread implement the contract and end, is every final line delivered, do the time limits fit together, are children and players accounted for? | holds |
| `audio_processes` | has every child one waiter, do stops return and free the microphone, who can signal a stranger? | holds |
| `watchdog` | does the panel come back, do panels pile up, is the screen shared or dark for good? | holds |

The violated properties state what a comment, a message or a document says; the
`findings` of `PROJECT.json` quote them. In short: a follow-up question records
next to a restarted listener; a download that stalled is installed.

Further disagreements met while modelling, which the models contain and no run
states:

- a boot deletes a well-formed file without Home Assistant credentials, with the
  MQTT settings in it, although the comment says "Bad config file formatting,
  force onboarding" (`main.cpp` 5181; `BootDeletes`);
- a crash between the two renames of an update leaves no panel, although
  `CHANGELOG_v1.9.11.md` 17 says it "performs atomic file replacement"
  (`main.cpp` 1356-1358; `StartableUnlessFault` has to leave out the state
  `pc = "between"`, in which a crash is exactly this, and `SurvivesFaults` says
  what is left);
- a failed backup (1356), whose result is ignored, followed by a failed
  replacement (1358) puts an older `ha_panel.old` in the place of the binary
  that ran, and a failed roll-back (1359) leaves no `ha_panel`, both reported as a
  plain failure (`FailureRestores` says what each combination leaves);
- a curl of the worker or the model that outlives a killed panel writes the same
  `.tmp` as the next update's, whose success then says nothing of the file
  (`main.cpp` 1328, 1341; `clashed` in `AssetsAreWhole`);
- a reply cut off after its status line counts as success and clears the button
  (`main.cpp` 784-793, 1181; `Converges` promises the truth for good only once
  no reply is cut off);
- the child's alarm of 240 s also runs during the waits without a limit, while the
  limited stages alone may use 235 s: a slow upload can cost an answer that is
  being spoken (`assist_pipeline_bridge.cpp` 461, 616; `AlarmMeansUnlimitedWait`);
- switching the portal off on the panel kills the server under a request, which
  saves but is not followed by a restart (`main.cpp` 4418, 5079; `missed` in
  `SavedIsApplied`);
- an entity is found by a substring of its message (`main.cpp` 1093): with
  `Near <- FirstInSecond` in `MCHaSync.cfg` the first button may show the second
  entity for good, which `Converges` leaves out by its premise `Near[e] = {}`;
- the watchdog takes a CGI program, an orphaned Assist helper or a panel killed
  since for a running panel (`ha_watchdog.sh` 80-84; `main.cpp` 691 does leave its
  own process out) and stops the stock firmware for it; with `ha_autostart` off
  nothing starts anything afterwards (`DarkIsExplained` lists the reasons for a
  dark screen: this one, a panel that died, CGI programs that run again and
  again, a missing binary, and the factory mode);
- `start_tuya` with `ha_autostart` on lasts until the watchdog's next look, and a
  portal switched off on the panel comes back while `web_autostart` is on;
- a save in stock mode starts a panel beside the GUI, and launchers that overlap
  leave one panel each (`OnePanelPerLauncher`);
- a player survives its child if the child is told to stop between the fork and
  the registration of the group, or was frozen (`assist_pipeline_bridge.cpp` 307;
  `PlayersAreAccountedFor`);
- `stop` may signal a process id that was reaped and given to another process: for
  the capture in the moment before the field is cleared, for the listener at any
  time after its processes died (`wake_word_listener.cpp` 115; `RecordedIdIsOwn`);
- the UI thread waits for the listener's processes without limit: if one is stuck
  in the sound driver the panel hangs (`wake_word_listener.cpp` 117, 177;
  `UiThreadReturns` needs the premise);
- blanking the screen does not stop a running listener, although the setting is
  labelled "Wycisz przy wygaszeniu" (mute when blanked; `main.cpp` 3234, 3455);
- if `arecord` dies under a held button, the restarted listener records during
  playback (`main.cpp` 3583, against `oem-audio-reuse.md` 16-17);
- end of file is read as a time-out until a ping fails, although the test is
  commented "Error or closed" (`mqtt_client.cpp` 441);
- the panel saves its own copy of every section without the lock of the portal's
  requests and may undo one in the second before the restart (`main.cpp` 4427);
- a late poll may replace a newer event until the next poll (`main.cpp` 1181);
- a brightness command or the portal lights a blanked screen, which is still
  reported as off (`hal.cpp` 163, `action.sh` 34), and a command of at most 100
  is a percentage although `"bri_scl":255` is announced (`main.cpp` 5214).

Bounds. Two pipeline threads are enough for one live and one superseded thread,
the only distinction the code makes; three sessions let a stale result meet a
current and a newer one, and a history of two overflow. Two connections are an
old one that the broker still holds and a new one; two commands suffice for
order and for a frame that swallows its successor. `assist_live` uses two
sessions: its paths do not depend on more. Two requests and two applications
are enough for every pair that can collide; three requests or edits let one
follow a collision. Four inodes are
enough for two downloads: a download opens a new file only when `ha_panel.tmp` is
free, so beside it there are at most two names and one file without a name that
the other download still writes; two downloads are the one that lingers and the
one of the next attempt; one press is pending at a time because a second one only
repeats it; the release of the run has the worker and not the model, so that one
asset is fetched and the other is missing; faults are counted to two because the
properties ask for none or one. Two controls as in the code, one change and one click give
polls and events an old and a new state to mix. Fades of 3 and 4 steps can be interrupted at their
first, a middle and their last step. Symmetry is used for safety only. One
command at a time suffices for the processes behind it. Three process ids are one
per kind of child at once, or a stranger on an id that was just given back; two
attempts are a first one that signals and a further one (20 in the code). Two
scripts are every pair that can collide, with the watchdog as a third launcher.

Deadlock is checked except where the system may rest: `ConfigStore` when its
requests are used up, and `OtaUpdate` when nothing that could be started has the
panel's name.

Fairness. The main loop runs every timer again and again, and a timer that
stays due gets its turn although the UI thread is busy in between (strong
fairness). A pipeline returns because its process is killed after 245 s at the
latest; a capture ends after 10 s; a finger is lifted. In `MqttClient` the loop
thread keeps running, its 20 s ping comes due again and again, the kernel gives
up a silent connection, and the UI thread ends what it began. In `ConfigStore` a
script that was started ends and an application that was started boots; in
`HaSync` timers and threads run, every request ends, and some requests for each
control are answered in full again and again. In
`PipelineProcess` the thread, the child's own code, signals and time go on, and
nothing is assumed of Home Assistant (which may hold a stage past its limit until
the alarm), the players or a frozen child; this is where
`assist_live` takes "a pipeline returns" from. In `AudioProcesses` the threads run
and a signalled process ends unless it is deaf; in `Watchdog` the watchdog, the
scripts and the supervisor run and a CGI program ends. Nothing is assumed of the user, the broker's
commands or the network beyond that.

Every property has a variant of a definition in the module (named "Variant" in
its comment) that changes the code's behaviour in a plausible way and violates
it. `TypeOK` of each module states the domains of its variables; the proof modules
prove it, and the runs are spent on the other properties.

## 5. What is proved

Every theorem has the form `Spec => []P`, or `Spec => P` for an action property,
and holds for every value of the constants that satisfies the module's ASSUMEs.
Almost no property is inductive as it stands. Each module has a stronger
invariant (`SessionInv` and `HistoryInv`, `MqttInv` with `OnlineInv`, `StreamInv`
and `ReaderInv`, and `IInv` in the other modules), which was first
checked by TLC on the instance of the module's run, and for which the proofs show that it holds at the start, that every action
keeps it (one step per action) and that it implies the properties.

**`AssistSession_proofs`**: any set of threads, any number of sessions, any history
length. `SessionInv` gives `AtMostOnePipeline`, `NoCommandDuringPipeline`,
`EnabledButtonMeansIdle` and `DisabledButtonHasReleaser`. It adds that
the running flag is exactly the existence of a live thread (`RunningIsLive`);
that no thread or result carries a generation not yet issued
(`GenerationsIssued`); that a live pipeline is newer than every other thread and
every queued final (`LiveIsNewest`), so that a final result of the current
generation, the only one that may open a capture, means that nothing runs; and
that a recording belongs to a generation without a pipeline
(`RecordingIsFresh`), so that the pipeline it starts will be the newest.
`HistoryInv` gives `HistoryInCommandOrder`: a generation belongs to one thread
or to one final result in the queue (`OneFinalPerCommand`), a remembered one to
neither any more (`AnsweredIsOver`), and nothing remembered is newer than the session
(`HistoryIsPast`); so the answer of the current generation, the only one that is
remembered, is newer than all before it. `ContractKept` shows that every step of
the session is, for each of its threads, a step of `PipelineContract` or none.

**`MqttClient_proofs`**: any set of connections, any number of commands. `MqttInv`
gives `ConnectFirst`, `StoppedIsClean` and `NoLostDescriptor`. It adds that the
open descriptor is the one `sock_fd_` names (`Descriptors`); that a connection on
which nothing was written exists only while the loop is about to write CONNECT
(`FreshMeansHello`); that between connections there is neither socket nor flag
(`ClosedBetween`, `ConnectedMeansUp`); that a publish in progress keeps the loop
from dialing (`PublishInTime`, which rests on the pause); and that outside
`stop` the flag `running_` tells whether there is a thread
(`RunningMeansThread`). `OnlineInv` gives `ServedMeansOnline`: until `stop` is
called the loop thread goes on with `connected_` up, so its announcement is not
refused, and behind the announcement a held connection is announced (`Announced`).
`StreamInv` and `ReaderInv` give `CommandsWholeAndInOrder`: in what is still to be
read a header is followed by its own payload or by nothing while that is owed
(`StreamIsFramed`), headers ascend (`StreamIsOrdered`), behind a header the loop
finds that command's payload (`ReaderIsInStep`), and executed, being read and still
to be read ascend (`ReaderIsInOrder`). All of it survives the loss of any number of
parts, which is what a stall inside a frame amounts to.

**`PipelineProcess_proofs`**: no constants; any number of commands. `HoldInv` says
who holds the child at each place of the thread and when it can still write;
`ReportInv` that what was read and what is in the pipe is together the script of the
command, with the final line last; `InBudget` how much of the time each stage of
a child that never waited without a limit can have used. Together they give
`FinalLineIsDelivered`, `AlarmMeansUnlimitedWait`, `PlayersAreAccountedFor`,
`ChildIsHeld` (the safety part of `NoChildLeft`) and `Spec => Contract!Spec`, the
safety part of `ImplementsContract`, step by step under the mapping `ReportedPhase`.
With `ContractKept` both sides of the contract are proved.

**`AudioProcesses_proofs`**: any set of process ids, any number of attempts. `IdsAgree`
ties the recorded ids to the threads' own copies; `Recorders`, `Mics` and `Workers` say
that a process is a child of a kind exactly while it has the waiter for that kind, and
never two; `Doomed` that a detached thread's recorder has ended or has SIGKILL pending.
They give `ChildrenAreAccountedFor` and `StraySignalsOnlyFromStop`.

**`ConfigStore_proofs`**: any number of applications, requests and edits. The lock is
held from loading to answering (`LockIsHeld`), which makes `RequestsCompose`
inductive; `AloneIsCurrent` says that an application that is alone has the file's
settings unless a request that replaced the file still owes the restart, and gives
`SavedIsApplied`. `FileIsWhole` needs `WrittenIsWhole`: a save that is about to
rename finds its own complete text in the temporary file, whatever other saves and
kills did since, because the name carries the process id (with one name for all,
the variant `TmpShared`, a rename installs a part).

**`OtaUpdate_proofs`**: any number of files, downloads and presses. A file has one name
at most (`OneName`), what is being written is not whole (`Writing`), `Copies` says which
copies are left for no and for one fault at each place of the update, `FoundBinary`
where the binary is that the update found, for every set of renames that failed, and
`FetchedAlone` that a download that succeeded alone left a whole `.tmp`. They give
`SurvivesFaults`, `AssetsAreWhole` and `FailureRestores`.

**`ScreenPower_proofs`**: fades of any length, so those of the code (15 and 20 steps)
as well as the run's (3 and 4); any positions of sliders and commands. The light is where
it belongs or a thread leads it there (`LightIsLed`); a write that the other thread made
obsolete happens in the first step of that thread's fade, which has more to write
(`ObsoleteIsOverwritten`; this rests on the assumption on time of `NapEnds`, and on
a wake of more than one step). They give `SettledLight`; `WakingTouchIsConsumed` gives
`WakingTouchIsSwallowed`.

**`Watchdog_proofs`**: any finite set of scripts. `PanelsToCome` counts the panels
together with the launches that are past their kill, and gives `OnePanelPerLauncher`.

The assumptions are those of the ASSUMEs: bounds are natural numbers, the history has
at least one entry, the names of nothing (`NoConn`, `NoPid`, `NoFile`, `Nobody`, `Absent`,
`Partial`) are not among the things they are not, applications and requests are
different processes, scripts are finitely many, faults are counted at least to two,
a wake has at least two steps, sliders and commands stay in the ranges of the code.

Only model-checked: the liveness properties, and the liveness parts of
`ImplementsContract` and `NoChildLeft` (fairness is out of the prover's reach);
`DarkIsExplained`, which says of every moment that a light comes again, is one of
them. Also `PollsInOrder` of `HaSync`, the one safety property without a proof.

## 6. What is not modelled

The components marked so in `PROJECT.json`, with their reasons: those of the
plan above, presentation, and third-party code. Inside the modelled components:
the wire format of MQTT lengths and topics, QoS acknowledgements and torn writes
to a peer that stopped reading; what a header made of stray bytes would make
`process_incoming_packet` do after the place in the stream was lost (the model
drops such frames; a topic that matches by chance is data); LVGL's behaviour on widgets that were deleted;
audio samples and levels; wrap of
the 32-bit millisecond tick; texts of the configuration and the parsing of
JSON; data lost by a power failure because nothing is synced before a rename;
the release query; websocket frames and TLS; calls of LVGL from threads it is
not made for; the watchdog's upkeep of adbd, Wi-Fi and DHCP; the lux curve, volume
and Wi-Fi. `play_pcm_with_levels` is not called by anything. mbedtls and LVGL, which
make up most of the lines under `src/`, are third-party libraries and are used
through their results only. Known to bite: a packet torn by the 3 s send time-out
(`mqtt_client.cpp` 130), a rename without `fsync` before a power failure
(`main.cpp` 443), `lv_async_call` from threads LVGL does not know (`main.cpp` 1177).
