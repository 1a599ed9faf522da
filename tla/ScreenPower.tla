---------------------------- MODULE ScreenPower ----------------------------
(***************************************************************************)
(* The backlight of the panel: hal_wake_screen and hal_blank_screen fade it  *)
(* in steps, on the UI thread (touch, screensaver, assistant) and on the    *)
(* MQTT thread (commands), at the same time and without a lock, stopping    *)
(* when the other one has changed g_screen_blanked.  Sliders, automatic     *)
(* brightness, MQTT and the web portal set the level.                       *)
(*                                                                         *)
(* Every test of the flag and every write is a step.  Time: what a thread    *)
(* does between two sleeps is short against a sleep; sleeps may take any    *)
(* time.  Levels are the real numbers 0 .. 255; a fade has fewer steps than  *)
(* in the code (15 and 20).                                                *)
(***************************************************************************)
EXTENDS Naturals

CONSTANTS
    WakeSteps, BlankSteps,  \* steps of the fades (bound); a wake has more than one
    Percents,               \* positions of the sliders (a subset of 5 .. 100)
    Payloads                \* numbers in brightness commands (a subset of 0 .. 255)

ASSUME PowerAssumption ==
    /\ WakeSteps \in Nat \ {0, 1} /\ BlankSteps \in Nat \ {0}
    /\ Percents \subseteq 5 .. 100 /\ Payloads \subseteq 0 .. 255

Threads == {"ui", "mqtt"}
Max     == 255   \* backlight_max

VARIABLES
    blanked,    \* g_screen_blanked
    active,     \* g_active_backlight_raw
    light,      \* /sys/class/backlight/backlight/brightness
    th,         \* both threads: place, step of the fade, level
    touch,      \* touch_pressed
    consumed,   \* wake_touch_consumed
    pressed,    \* what touch_read_cb last reported
    woke,       \* this touch has woken the screen
    inactive,   \* lv_disp_get_inactive_time has reached the timeout
    recent,     \* g_last_wake_time is less than 5 s ago
    disturbed   \* a level was set during a fade, on a blanked screen, or to 0,
                \* and no fade has begun since

vars == <<blanked, active, light, th, touch, consumed, pressed, woke, inactive,
          recent, disturbed>>

Idle   == [at |-> "idle", i |-> 0, val |-> 0]
Places == {"idle", "wakeCall", "blankCall", "wake", "wakeMark", "wakeTest", "wakeWrite", "wakeNap", "wakeEnd",
           "blank", "blankMark", "blankTest", "blankWrite", "blankNap", "blankLast",
           "blankZero", "store", "set", "setWrite"}

TypeOK ==
    /\ blanked \in BOOLEAN /\ active \in 1 .. Max /\ light \in 0 .. Max
    /\ th \in [Threads -> [at : Places, i : 0 .. WakeSteps + BlankSteps, val : 0 .. Max]]
    /\ touch \in BOOLEAN /\ consumed \in BOOLEAN /\ pressed \in BOOLEAN /\ woke \in BOOLEAN
    /\ inactive \in BOOLEAN /\ recent \in BOOLEAN /\ disturbed \in BOOLEAN
    /\ \A t \in Threads :
        /\ th[t].at \in {"wakeTest", "wakeWrite", "wakeNap"} => th[t].i \in 1 .. WakeSteps
        /\ th[t].at \in {"blankTest", "blankWrite", "blankNap"} => th[t].i \in 1 .. BlankSteps
        /\ th[t].at = "store" => th[t].val > 0

Raw(percent) == (percent * Max) \div 100

\* create_control_center sets the level and the main loop starts.
Init ==
    /\ blanked = FALSE /\ \E p \in Percents : active = Raw(p)
    /\ light = active
    /\ th = [t \in Threads |-> Idle]
    /\ touch = FALSE /\ consumed = FALSE /\ pressed = FALSE /\ woke = FALSE
    /\ inactive = FALSE /\ recent = FALSE /\ disturbed = FALSE

touchVars == <<touch, consumed, pressed, woke>>
timeVars  == <<inactive, recent>>

IsIdle(t) == th[t].at = "idle"
Goes(t, place) == th' = [th EXCEPT ![t].at = place]
Asleep(t) == th[t].at \in {"wakeNap", "blankNap"}
Others(t) == Threads \ {t}
Fading(t) == ~IsIdle(t) /\ th[t].at \notin {"store", "set", "setWrite"}

-----------------------------------------------------------------------------
(* The fades.                                                              *)

\* The end of a sleep: others have finished what they do between sleeps.
NapEnds(t) ==
    \A u \in Others(t) : IsIdle(u) \/ Asleep(u)

\* A fade will lead the light to where it belongs, unless someone is about to
\* set it.
FadeBegins(t) == disturbed' = (disturbed /\ \E u \in Others(t) : ~IsIdle(u))

\* hal_wake_screen: nothing to do on a lit screen; the flag, the time of the
\* wake, the level to reach.
WakeCalled(t) ==
    /\ th[t].at = "wakeCall"
    /\ th' = [th EXCEPT ![t] = IF blanked THEN [@ EXCEPT !.at = "wake"] ELSE Idle]
    /\ UNCHANGED <<blanked, active, light, touchVars, timeVars, disturbed>>

WakeSets(t) ==
    /\ th[t].at = "wake" /\ Goes(t, "wakeMark")
    /\ blanked' = FALSE /\ FadeBegins(t)
    /\ UNCHANGED <<active, light, touchVars, timeVars>>

WakeMarks(t) ==
    /\ th[t].at = "wakeMark"
    /\ recent' = TRUE
    /\ th' = [th EXCEPT ![t] = [at |-> "wakeTest", i |-> 1, val |-> active]]
    /\ UNCHANGED <<blanked, active, light, touchVars, inactive, disturbed>>

WakeTests(t) ==
    /\ th[t].at = "wakeTest" /\ Goes(t, IF blanked THEN "wakeEnd" ELSE "wakeWrite")
    /\ UNCHANGED <<blanked, active, light, touchVars, timeVars, disturbed>>

WakeWrites(t) ==
    /\ th[t].at = "wakeWrite" /\ Goes(t, "wakeNap")
    /\ light' = (th[t].val * th[t].i) \div WakeSteps
    /\ UNCHANGED <<blanked, active, touchVars, timeVars, disturbed>>

WakeSleeps(t) ==
    /\ th[t].at = "wakeNap" /\ NapEnds(t)
    /\ th' = IF th[t].i < WakeSteps
             THEN [th EXCEPT ![t].at = "wakeTest", ![t].i = @ + 1]
             ELSE [th EXCEPT ![t].at = "wakeEnd"]
    /\ UNCHANGED <<blanked, active, light, touchVars, timeVars, disturbed>>

\* lv_disp_trig_activity, and touch_read_cb goes on if it had called.
WakeEnds(t) ==
    /\ th[t].at = "wakeEnd" /\ th' = [th EXCEPT ![t] = Idle]
    /\ inactive' = FALSE
    /\ UNCHANGED <<blanked, active, light, touchVars, recent, disturbed>>

\* hal_blank_screen.
BlankCalled(t) ==
    /\ th[t].at = "blankCall"
    /\ th' = [th EXCEPT ![t] = IF blanked THEN Idle ELSE [@ EXCEPT !.at = "blank"]]
    /\ UNCHANGED <<blanked, active, light, touchVars, timeVars, disturbed>>

BlankSets(t) ==
    /\ th[t].at = "blank" /\ Goes(t, "blankMark")
    /\ blanked' = TRUE /\ FadeBegins(t)
    /\ UNCHANGED <<active, light, touchVars, timeVars>>

BlankMarks(t) ==
    /\ th[t].at = "blankMark"
    /\ th' = [th EXCEPT ![t] = [at |-> "blankTest", i |-> 1, val |-> active]]
    /\ UNCHANGED <<blanked, active, light, touchVars, timeVars, disturbed>>

\* Variant: a fade that has begun is not interrupted by a wake.
BlankTestsNothing(t) ==
    /\ th[t].at = "blankTest" /\ Goes(t, "blankWrite")
    /\ UNCHANGED <<blanked, active, light, touchVars, timeVars, disturbed>>

BlankTests(t) ==
    /\ th[t].at = "blankTest" /\ Goes(t, IF blanked THEN "blankWrite" ELSE "blankLast")
    /\ UNCHANGED <<blanked, active, light, touchVars, timeVars, disturbed>>

BlankWrites(t) ==
    /\ th[t].at = "blankWrite" /\ Goes(t, "blankNap")
    /\ light' = th[t].val - (th[t].val * th[t].i) \div BlankSteps
    /\ UNCHANGED <<blanked, active, touchVars, timeVars, disturbed>>

BlankSleeps(t) ==
    /\ th[t].at = "blankNap" /\ NapEnds(t)
    /\ th' = IF th[t].i < BlankSteps
             THEN [th EXCEPT ![t].at = "blankTest", ![t].i = @ + 1]
             ELSE [th EXCEPT ![t].at = "blankLast"]
    /\ UNCHANGED <<blanked, active, light, touchVars, timeVars, disturbed>>

BlankLast(t) ==
    /\ th[t].at = "blankLast"
    /\ th' = [th EXCEPT ![t] = IF blanked THEN [@ EXCEPT !.at = "blankZero"] ELSE Idle]
    /\ UNCHANGED <<blanked, active, light, touchVars, timeVars, disturbed>>

BlankZero(t) ==
    /\ th[t].at = "blankZero" /\ th' = [th EXCEPT ![t] = Idle]
    /\ light' = 0
    /\ UNCHANGED <<blanked, active, touchVars, timeVars, disturbed>>

Fade(t) ==
    \/ WakeCalled(t) \/ WakeSets(t) \/ WakeMarks(t) \/ WakeTests(t) \/ WakeWrites(t)
    \/ WakeSleeps(t) \/ WakeEnds(t)
    \/ BlankCalled(t) \/ BlankSets(t) \/ BlankMarks(t) \/ BlankTests(t) \/ BlankWrites(t) \/ BlankSleeps(t)
    \/ BlankLast(t) \/ BlankZero(t)

-----------------------------------------------------------------------------
(* Setting the level.                                                      *)

\* Automatic brightness, or its end: on a blanked screen the level is kept for
\* later, else hal_set_backlight is called.
UiSets(p) ==
    /\ IsIdle("ui")
    /\ th' = [th EXCEPT !["ui"] = [at |-> IF blanked THEN "store" ELSE "set", i |-> 0, val |-> Raw(p)]]
    /\ UNCHANGED <<blanked, active, light, touchVars, timeVars, disturbed>>

UiStores ==
    /\ th["ui"].at = "store" /\ th' = [th EXCEPT !["ui"] = Idle]
    /\ active' = th["ui"].val
    /\ disturbed' = (disturbed \/ ~blanked \/ Fading("mqtt"))
    /\ UNCHANGED <<blanked, light, touchVars, timeVars>>

\* The sliders do not ask; the screen is lit under the finger, unless it has
\* just been blanked by a command.
UiSlides(p) ==
    /\ IsIdle("ui") /\ (pressed \/ ~blanked)
    /\ th' = [th EXCEPT !["ui"] = [at |-> "set", i |-> 0, val |-> Raw(p)]]
    /\ UNCHANGED <<blanked, active, light, touchVars, timeVars, disturbed>>

\* The callback of main for "brightness": up to 100 it is a percentage.
Level(b) == IF b <= 100 THEN Raw(b) ELSE b

MqttSets(b) ==
    /\ IsIdle("mqtt")
    /\ th' = [th EXCEPT !["mqtt"] = [at |-> "set", i |-> 0, val |-> Level(b)]]
    /\ UNCHANGED <<blanked, active, light, touchVars, timeVars, disturbed>>

\* hal_set_backlight.
HalSets(t) ==
    /\ th[t].at = "set" /\ Goes(t, "setWrite")
    /\ active' = IF ~blanked /\ th[t].val > 0 THEN th[t].val ELSE active
    /\ disturbed' = (disturbed \/ blanked \/ th[t].val = 0 \/ \E u \in Others(t) : ~IsIdle(u))
    /\ UNCHANGED <<blanked, light, touchVars, timeVars>>

HalWrites(t) ==
    /\ th[t].at = "setWrite" /\ th' = [th EXCEPT ![t] = Idle]
    /\ light' = th[t].val
    /\ disturbed' = (disturbed \/ \E u \in Others(t) : ~IsIdle(u) /\ ~Fading(u))
    /\ UNCHANGED <<blanked, active, touchVars, timeVars>>

\* action.sh writes the file without asking anyone.
PortalSets(p) ==
    /\ light' = Raw(p) /\ disturbed' = TRUE
    /\ UNCHANGED <<blanked, active, th, touchVars, timeVars>>

-----------------------------------------------------------------------------
(* Commands, touch and screensaver.                                        *)

\* The callback of main for "screen".
MqttSwitches(payload) ==
    /\ IsIdle("mqtt")
    /\ Goes("mqtt", IF payload = "ON" \/ (payload = "TOGGLE" /\ blanked)
                    THEN "wakeCall" ELSE "blankCall")
    /\ UNCHANGED <<blanked, active, light, touchVars, timeVars, disturbed>>

\* show_assist_overlay.
AssistWakes ==
    /\ IsIdle("ui") /\ inactive' = FALSE
    /\ IF blanked THEN Goes("ui", "wakeCall") ELSE UNCHANGED th
    /\ UNCHANGED <<blanked, active, light, touchVars, recent, disturbed>>

\* The finger moves down or up; a tap may be over before it is read.
Finger ==
    /\ touch' = ~touch /\ woke' = (woke /\ ~touch)
    /\ UNCHANGED <<blanked, active, light, th, consumed, pressed, timeVars, disturbed>>

\* Variant: the touch is swallowed by one read only.
TouchReadOnce(tap) ==
    /\ IsIdle("ui")
    /\ IF blanked /\ (touch \/ tap)
       THEN Goes("ui", "wakeCall") /\ consumed' = FALSE /\ pressed' = FALSE /\ woke' = touch
       ELSE /\ pressed' = (touch /\ ~consumed)
            /\ consumed' = (consumed /\ touch)
            /\ UNCHANGED <<th, woke>>
    /\ inactive' = (inactive /\ ~pressed')
    /\ UNCHANGED <<blanked, active, light, touch, recent, disturbed>>

\* touch_read_cb: a touch that wakes the screen is reported as released until
\* the finger is lifted.
TouchRead(tap) ==
    /\ IsIdle("ui")
    /\ IF blanked /\ (touch \/ tap)
       THEN Goes("ui", "wakeCall") /\ consumed' = touch /\ pressed' = FALSE /\ woke' = touch
       ELSE /\ pressed' = (touch /\ ~consumed)
            /\ consumed' = (consumed /\ touch)
            /\ UNCHANGED <<th, woke>>
    /\ inactive' = (inactive /\ ~pressed')
    /\ UNCHANGED <<blanked, active, light, touch, recent, disturbed>>

\* screensaver_timer_cb: while the assistant is displayed, and for 5 s after a
\* wake, the screen is not blanked.
Screensaver(assist_display_active) ==
    /\ IsIdle("ui") /\ (assist_display_active \/ ~blanked)
    /\ IF assist_display_active \/ recent THEN inactive' = FALSE /\ UNCHANGED th
       ELSE inactive /\ UNCHANGED inactive /\ Goes("ui", "blankCall")
    /\ UNCHANGED <<blanked, active, light, touchVars, recent, disturbed>>

\* Time passes: the timeout is reached; the 5 s, longer than a fade, are over.
TimePasses ==
    /\ inactive' \in {inactive, TRUE}
    /\ recent' \in {recent, recent /\ \E t \in Threads : Fading(t)}
    /\ UNCHANGED <<blanked, active, light, th, touchVars, disturbed>>

-----------------------------------------------------------------------------
Next ==
    \/ \E t \in Threads : Fade(t) \/ HalSets(t) \/ HalWrites(t)
    \/ \E p \in Percents : UiSets(p) \/ UiSlides(p) \/ PortalSets(p)
    \/ UiStores
    \/ \E b \in Payloads : MqttSets(b)
    \/ \E payload \in {"ON", "OFF", "TOGGLE"} : MqttSwitches(payload)
    \/ AssistWakes
    \/ Finger \/ \E tap \in BOOLEAN : TouchRead(tap)
    \/ \E shown \in BOOLEAN : Screensaver(shown)
    \/ TimePasses

Spec == Init /\ [][Next]_vars

-----------------------------------------------------------------------------
(* Safety.                                                                 *)

AtRest == \A t \in Threads : IsIdle(t)

\* However the fades of the two threads interrupt each other, once both are
\* over the screen is dark if it counts as blanked and at its level if not;
\* excepted are levels set in the middle of a fade, on a blanked screen, or 0.
SettledLight ==
    AtRest /\ ~disturbed => light = (IF blanked THEN 0 ELSE active)

\* A touch that wakes the screen presses no button, also when an MQTT command
\* blanks the screen again under the finger.
WakingTouchIsSwallowed == woke /\ touch => ~pressed

=============================================================================
