------------------------------ MODULE HaSync ------------------------------
(***************************************************************************)
(* What the two Home Assistant buttons of the panel show: a poll of both    *)
(* entities by REST every 5 s in a thread of its own, the events of the     *)
(* websocket thread, and the user's clicks, which toggle the button at      *)
(* once and the entity later.  Threads hand their results to the UI thread  *)
(* by lv_async_call.                                                       *)
(*                                                                         *)
(* Home Assistant is external: entities change at any time, requests fail,  *)
(* are lost or answered in part, the connection closes (3 s of silence      *)
(* suffice).  TLS,       *)
(* frames and JSON are left out, except that the websocket thread finds an  *)
(* entity by searching its name in the text: Near says whose messages are   *)
(* taken for an entity's own.                                              *)
(***************************************************************************)
EXTENDS Naturals, Sequences, FiniteSets, Functions

CONSTANTS
    N,           \* controls (2 in the code)
    Pollers,     \* poll threads (bound)
    Near,        \* for each control, others whose name contains its own
    MaxChanges,  \* changes of entities (bound)
    MaxClicks,   \* clicks of a run (bound)
    MaxCalls     \* calls of one control that wait at once (bound)

Controls == 1 .. N

ASSUME SyncAssumption ==
    /\ N \in Nat \ {0} /\ MaxChanges \in Nat /\ MaxClicks \in Nat /\ MaxCalls \in Nat
    /\ Near \in [Controls -> SUBSET Controls]

States == {"on", "off", "unavailable"}

\* What a request returns: false, true with a reply that was cut off before
\* the state, which then is "", or true with the state.
Replies == {"failed", "cut"} \cup States

VARIABLES
    ha,       \* state of each entity
    ver,      \* how often it changed
    shown,    \* LV_STATE_CHECKED of each button
    toggles,  \* toggle requests on their way
    clicks,   \* clicks so far
    polling,  \* g_ha_poll_in_progress
    poll,     \* the poll threads: next control, answers and their versions
    seen,     \* versions that the last applied poll had read
    ws,       \* the websocket thread
    chan,     \* messages on the connection: entities with their states
    calls     \* pending update_control_state_async; LVGL promises no order

vars == <<ha, ver, shown, toggles, clicks, polling, poll, seen, ws, chan, calls>>

NoPoll == [at |-> 0, got |-> [e \in Controls |-> "failed"], ver |-> [e \in Controls |-> 0]]
Queued == N + 2

TypeOK ==
    /\ ha \in [Controls -> States]
    /\ ver \in [Controls -> 0 .. MaxChanges + MaxClicks]
    /\ shown \in [Controls -> BOOLEAN]
    /\ toggles \in [Controls -> 0 .. MaxClicks] /\ clicks \in 0 .. MaxClicks
    /\ polling \in BOOLEAN
    /\ poll \in [Pollers -> [at : 0 .. Queued, got : [Controls -> Replies],
                             ver : [Controls -> 0 .. MaxChanges + MaxClicks]]]
    /\ seen \in [Controls -> 0 .. MaxChanges + MaxClicks]
    /\ ws \in {"down", "hello", "live"}
    /\ ws # "live" => chan = <<>>
    /\ calls \subseteq [control : Controls, on : BOOLEAN]

\* create_home_assistant_ui: both states are requested once, and the poll timer
\* and the websocket thread are started.
Init ==
    /\ ha = [e \in Controls |-> "off"] /\ ver = [e \in Controls |-> 0]
    /\ shown = [e \in Controls |-> FALSE]
    /\ toggles = [e \in Controls |-> 0] /\ clicks = 0
    /\ polling = FALSE /\ poll = [t \in Pollers |-> NoPoll] /\ seen = ver
    /\ ws = "down" /\ chan = <<>> /\ calls = {}

-----------------------------------------------------------------------------
(* Home Assistant.                                                         *)

\* An entity changes; subscribers are told.
Becomes(e, s) ==
    /\ s # ha[e] /\ ha' = [ha EXCEPT ![e] = s]
    /\ ver' = [ver EXCEPT ![e] = @ + 1]
    /\ chan' = IF ws = "live" THEN Append(chan, [f \in {e} |-> s]) ELSE chan

HaChanges(e) ==
    /\ FoldFunction(+, 0, ver) < MaxChanges
    /\ \E s \in States : Becomes(e, s)
    /\ UNCHANGED <<shown, toggles, clicks, polling, poll, seen, ws, calls>>

ToggleArrives(e) ==
    /\ toggles[e] > 0 /\ toggles' = [toggles EXCEPT ![e] = @ - 1]
    /\ Becomes(e, IF ha[e] = "on" THEN "off" ELSE "on")
    /\ UNCHANGED <<shown, clicks, polling, poll, seen, ws, calls>>

\* ha_request fails; the thread only logs it.
ToggleLost(e) ==
    /\ toggles[e] > 0 /\ toggles' = [toggles EXCEPT ![e] = @ - 1]
    /\ UNCHANGED <<ha, ver, shown, clicks, polling, poll, seen, ws, chan, calls>>

-----------------------------------------------------------------------------
(* The UI thread and the poll.                                             *)

\* btn_event_cb.
Click(e) ==
    /\ clicks < MaxClicks /\ clicks' = clicks + 1
    /\ shown' = [shown EXCEPT ![e] = ~@]
    /\ toggles' = [toggles EXCEPT ![e] = @ + 1]
    /\ UNCHANGED <<ha, ver, polling, poll, seen, ws, chan, calls>>

\* Variant: the timer does not look at the flag.
PollStartsAnyhow(t) ==
    /\ polling' = TRUE
    /\ poll[t].at = 0 /\ poll' = [poll EXCEPT ![t].at = 1]
    /\ UNCHANGED <<ha, ver, shown, toggles, clicks, seen, ws, chan, calls>>

\* state_poll_timer_cb.
PollStarts(t) ==
    /\ ~polling /\ polling' = TRUE
    /\ poll[t].at = 0 /\ poll' = [poll EXCEPT ![t].at = 1]
    /\ UNCHANGED <<ha, ver, shown, toggles, clicks, seen, ws, chan, calls>>

\* The poll's thread asks for one control after the other.
PollReads(t) ==
    /\ poll[t].at \in Controls
    /\ poll' = [poll EXCEPT ![t].at = @ + 1, ![t].got[poll[t].at] = ha[poll[t].at],
                            ![t].ver[poll[t].at] = ver[poll[t].at]]
    /\ UNCHANGED <<ha, ver, shown, toggles, clicks, polling, seen, ws, chan, calls>>

\* No status line within 5 s, or one that is not 2xx.
PollReadFails(t) ==
    /\ poll[t].at \in Controls /\ poll' = [poll EXCEPT ![t].at = @ + 1]
    /\ UNCHANGED <<ha, ver, shown, toggles, clicks, polling, seen, ws, chan, calls>>

\* curl gives up after the status line and before the state: its exit status is
\* ignored, the request counts as answered and the state is the empty string.
PollReadCutOff(t) ==
    /\ poll[t].at \in Controls
    /\ poll' = [poll EXCEPT ![t].at = @ + 1, ![t].got[poll[t].at] = "cut"]
    /\ UNCHANGED <<ha, ver, shown, toggles, clicks, polling, seen, ws, chan, calls>>

\* publish_panel_state_to_ha, and the result is handed to the UI thread.
PollPublishes(t) ==
    /\ poll[t].at = N + 1 /\ poll' = [poll EXCEPT ![t].at = Queued]
    /\ UNCHANGED <<ha, ver, shown, toggles, clicks, polling, seen, ws, chan, calls>>

\* What the button and the history make of a poll's replies.
Shows(t) ==
    /\ shown' = [e \in Controls |-> IF poll[t].got[e] = "failed" THEN shown[e]
                                    ELSE poll[t].got[e] = "on"]
    /\ seen' = [e \in Controls |-> IF poll[t].got[e] \in States THEN poll[t].ver[e]
                                   ELSE seen[e]]

\* Variant: a poll without any answer returns before it clears the flag.
PollAppliesEarlyReturn(t) ==
    /\ poll[t].at = Queued /\ poll' = [poll EXCEPT ![t] = NoPoll]
    /\ polling' = \A e \in Controls : poll[t].got[e] = "failed"
    /\ Shows(t)
    /\ UNCHANGED <<ha, ver, toggles, clicks, ws, chan, calls>>

\* The call that state_poll_timer_cb's thread queued.
PollApplies(t) ==
    /\ poll[t].at = Queued /\ poll' = [poll EXCEPT ![t] = NoPoll]
    /\ polling' = FALSE
    /\ Shows(t)
    /\ UNCHANGED <<ha, ver, toggles, clicks, ws, chan, calls>>

-----------------------------------------------------------------------------
(* ws_thread_loop.                                                         *)

\* connect_socket_mbed, the TLS handshake and the upgrade succeed.
WsConnects ==
    /\ ws = "down" /\ ws' = "hello"
    /\ UNCHANGED <<ha, ver, shown, toggles, clicks, polling, poll, seen, chan, calls>>

\* auth_ok: events are subscribed to and all states requested.
WsSubscribes ==
    /\ ws = "hello" /\ ws' = "live" /\ chan' = <<ha>>
    /\ UNCHANGED <<ha, ver, shown, toggles, clicks, polling, poll, seen, calls>>

\* A message, and the controls whose names are found in it: of several
\* mentions the first one counts.
WsReads ==
    /\ chan # <<>> /\ chan' = Tail(chan)
    /\ LET msg == Head(chan)
           Mentioned(e) == DOMAIN msg \cap (Near[e] \cup {e})
           Found == {e \in Controls : Mentioned(e) # {}}
       IN  \E first \in [Found -> Controls] :
               /\ \A e \in Found : first[e] \in Mentioned(e)
               /\ calls' = calls \cup {[control |-> e, on |-> msg[first[e]] = "on"] :
                                       e \in {f \in Found : msg[first[f]] # "unavailable"}}
    /\ \A e \in Controls : Cardinality({c \in calls' : c.control = e}) <= MaxCalls
    /\ UNCHANGED <<ha, ver, shown, toggles, clicks, polling, poll, seen, ws>>

\* Silence for 3 s, an error, the end of the connection, in any state.
WsCloses ==
    /\ ws # "down" /\ ws' = "down" /\ chan' = <<>>
    /\ UNCHANGED <<ha, ver, shown, toggles, clicks, polling, poll, seen, calls>>

\* update_control_state_async.
CallRuns(c) ==
    /\ c \in calls /\ calls' = calls \ {c}
    /\ shown' = [shown EXCEPT ![c.control] = c.on]
    /\ UNCHANGED <<ha, ver, toggles, clicks, polling, poll, seen, ws, chan>>

-----------------------------------------------------------------------------
Poll(t) ==
    \/ PollStarts(t) \/ PollReads(t) \/ PollReadFails(t) \/ PollReadCutOff(t)
    \/ PollPublishes(t) \/ PollApplies(t)

Next ==
    \/ \E e \in Controls : HaChanges(e) \/ ToggleArrives(e) \/ ToggleLost(e) \/ Click(e)
    \/ \E t \in Pollers : Poll(t)
    \/ WsConnects \/ WsSubscribes \/ WsReads \/ WsCloses
    \/ \E c \in calls : CallRuns(c)

Spec == Init /\ [][Next]_vars

-----------------------------------------------------------------------------
(* Safety.                                                                 *)

\* Polls are shown in the order of what they read, however long requests take
\* (publishing the panel's own state comes between reading and showing): no
\* poll puts an older state of an entity in the place of a newer one that an
\* earlier poll showed.
PollsInOrder == [][\A e \in Controls : seen'[e] >= seen[e]]_vars

-----------------------------------------------------------------------------
(* Liveness.  Timers and threads run, requests and polls end, and some      *)
(* requests for each control are answered in full, again and again.        *)

Fairness ==
    /\ \A t \in Pollers :
        /\ WF_vars(PollStarts(t)) /\ WF_vars(PollReads(t) \/ PollReadFails(t) \/ PollReadCutOff(t))
        /\ WF_vars(PollPublishes(t)) /\ WF_vars(PollApplies(t))
    /\ \A e \in Controls :
        /\ SF_vars(\E t \in Pollers : poll[t].at = e /\ PollReads(t))
        /\ WF_vars(ToggleArrives(e) \/ ToggleLost(e))
    /\ \A c \in [control : Controls, on : BOOLEAN] : WF_vars(CallRuns(c))
    /\ WF_vars(WsReads \/ WsCloses)

FairSpec == Spec /\ Fairness

TruthShown(e) == shown[e] <=> ha[e] = "on"

\* Once the entities and the user rest, a button whose entity's name is part of
\* no other comes to show the truth again and again, whatever polls, events,
\* clicks and lost requests did before; and it stays so from the time on when
\* no reply is cut off any more.  (A request that fails shows nothing, but a
\* reply that breaks off after its status line clears the button, until the
\* next poll or event.)
Converges ==
    \A e \in Controls : Near[e] = {} =>
        /\ []<>TruthShown(e)
        /\ <>[](\A t \in Pollers : poll[t].got[e] # "cut") => <>[]TruthShown(e)

=============================================================================
