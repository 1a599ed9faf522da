------------------------- MODULE ScreenPower_proofs -------------------------
(***************************************************************************)
(* Proofs about ScreenPower for fades of any length and any positions of   *)
(* the sliders.                                                            *)
(***************************************************************************)
EXTENDS ScreenPower, TLAPS

-----------------------------------------------------------------------------
(* The inductive invariant.                                                *)

\* Where the light belongs.
Target == IF blanked THEN 0 ELSE active

\* t will still lead the light to where it belongs.
Leads(t) ==
    \/ ~blanked /\ th[t].at \in {"wakeMark", "wakeTest", "wakeWrite"}
    \/ ~blanked /\ th[t].at = "wakeNap" /\ th[t].i < WakeSteps
    \/ ~blanked /\ th[t].at = "setWrite"
    \/ blanked /\ th[t].at \in {"blankMark", "blankTest", "blankWrite", "blankNap",
                                "blankLast", "blankZero"}

\* t is about to write a level that the other thread has made obsolete.
Obsolete(t) ==
    \/ blanked /\ th[t].at \in {"wakeWrite", "setWrite"}
    \/ ~blanked /\ th[t].at \in {"blankWrite", "blankZero"}

\* The fade of t has not ended its first sleep.
FirstStep(t) ==
    \/ th[t].at \in {"wakeMark", "blankMark"}
    \/ /\ th[t].at \in {"wakeTest", "wakeWrite", "wakeNap", "blankTest", "blankWrite", "blankNap"}
       /\ th[t].i = 1

\* The light is where it belongs, or someone leads it there.
LightIsLed == ~disturbed => light = Target \/ \E t \in Threads : Leads(t)

\* An obsolete level is written in the first step of the fade that made it
\* obsolete, and that fade has more to write.
ObsoleteIsOverwritten ==
    ~disturbed => \A t, u \in Threads :
        t # u /\ Obsolete(u) => Leads(t) /\ FirstStep(t) /\ th[t].at # "setWrite"

\* Levels that are about to be written are the active one.
LevelIsActive ==
    ~disturbed => \A t \in Threads :
        th[t].at \in {"wakeTest", "wakeWrite", "wakeNap", "setWrite"} => th[t].val = active

\* What the other thread does while t is inside hal_set_backlight.
SetIsBesideOneFade ==
    ~disturbed => \A t, u \in Threads : t # u /\ th[t].at = "setWrite" =>
        IF blanked THEN th[u].at \in {"blankMark", "blankTest", "blankWrite", "blankNap"}
        ELSE th[u].at \in {"idle", "wakeCall", "blankCall", "blank", "set"}

\* A touch that has woken the screen is consumed until the finger is lifted.
WakingTouchIsConsumed == woke => touch /\ consumed /\ ~pressed

LightInv == LightIsLed /\ ObsoleteIsOverwritten /\ LevelIsActive /\ SetIsBesideOneFade

IInv == TypeOK /\ LightInv /\ WakingTouchIsConsumed

-----------------------------------------------------------------------------
(* Facts about the operators.                                              *)

\* Step i of n towards or away from a level is a level, and the last one
\* reaches it.
LEMMA StepFacts ==
    ASSUME NEW v \in 0 .. Max, NEW n \in Nat \ {0}, NEW i \in 1 .. n
    PROVE  /\ (v * i) \div n \in 0 .. Max
           /\ v - (v * i) \div n \in 0 .. Max
           /\ i = n => (v * i) \div n = v
  <1>1. v * i <= v * n /\ v * i \in Nat /\ v * n \in Nat
    BY SMT DEF Max
  <1>2. (v * n) \div n = v /\ (v * i) \div n \in 0 .. v
    BY <1>1, SMT DEF Max
  <1>3. QED
    BY <1>2, SMT DEF Max

LEMMA LevelFacts ==
    /\ \A p \in Percents : Raw(p) \in 1 .. Max
    /\ \A b \in Payloads : Level(b) \in 0 .. Max
  BY PowerAssumption, SMT DEF Raw, Level, Max

-----------------------------------------------------------------------------
(* Type correctness.                                                       *)

ThreadType == [at : Places, i : 0 .. WakeSteps + BlankSteps, val : 0 .. Max]

ThreadsOK ==
    /\ th \in [Threads -> ThreadType]
    /\ \A t \in Threads :
        /\ th[t].at \in {"wakeTest", "wakeWrite", "wakeNap"} => th[t].i \in 1 .. WakeSteps
        /\ th[t].at \in {"blankTest", "blankWrite", "blankNap"} => th[t].i \in 1 .. BlankSteps
        /\ th[t].at = "store" => th[t].val > 0

LevelsOK == active \in 1 .. Max /\ light \in 0 .. Max

FlagsOK ==
    /\ blanked \in BOOLEAN /\ touch \in BOOLEAN /\ consumed \in BOOLEAN /\ pressed \in BOOLEAN
    /\ woke \in BOOLEAN /\ inactive \in BOOLEAN /\ recent \in BOOLEAN /\ disturbed \in BOOLEAN

LEMMA TypeParts == TypeOK <=> ThreadsOK /\ LevelsOK /\ FlagsOK
  BY Zenon DEF TypeOK, ThreadsOK, ThreadType, LevelsOK, FlagsOK

LEMMA ThreadsType ==
    ASSUME TypeOK, [Next]_vars
    PROVE  ThreadsOK'
  <1> USE PowerAssumption DEF ThreadType, Places, Idle, Max
  <1>1. ThreadsOK /\ active \in 1 .. Max
    BY TypeParts DEF LevelsOK
  <1>2. CASE \E t \in Threads : \/ WakeCalled(t) \/ WakeSets(t) \/ WakeMarks(t)
                              \/ WakeTests(t) \/ WakeWrites(t)
    BY <1>1, <1>2, SMT DEF ThreadsOK, WakeCalled, WakeSets, WakeMarks, WakeTests, WakeWrites, Goes
  <1>3. CASE \E t \in Threads : WakeSleeps(t) \/ WakeEnds(t)
    BY <1>1, <1>3, SMT DEF ThreadsOK, WakeSleeps, WakeEnds
  <1>4. CASE \E t \in Threads : \/ BlankCalled(t) \/ BlankSets(t) \/ BlankMarks(t)
                              \/ BlankTests(t) \/ BlankWrites(t)
    BY <1>1, <1>4, SMT DEF ThreadsOK, BlankCalled, BlankSets, BlankMarks, BlankTests, BlankWrites,
       Goes
  <1>5. CASE \E t \in Threads : BlankSleeps(t) \/ BlankLast(t) \/ BlankZero(t)
    BY <1>1, <1>5, SMT DEF ThreadsOK, BlankSleeps, BlankLast, BlankZero
  <1>6. CASE \E t \in Threads : HalSets(t) \/ HalWrites(t)
    BY <1>1, <1>6, SMT DEF ThreadsOK, HalSets, HalWrites, Goes
  <1>7. CASE \E p \in Percents : UiSets(p) \/ UiSlides(p)
    BY <1>1, <1>7, LevelFacts, SMT DEF ThreadsOK, UiSets, UiSlides, Threads
  <1>8. CASE \E b \in Payloads : MqttSets(b)
    BY <1>1, <1>8, LevelFacts, SMT DEF ThreadsOK, MqttSets, Threads
  <1>9. CASE UiStores
    BY <1>1, <1>9, SMT DEF ThreadsOK, UiStores, Threads
  <1>10. CASE \E t \in Threads, place \in {"wakeCall", "blankCall"} : Goes(t, place)
    BY <1>1, <1>10, SMT DEF ThreadsOK, Goes
  <1>11. CASE UNCHANGED th
    BY <1>1, <1>11, SMT DEF ThreadsOK
  <1>12. CASE \E payload \in {"ON", "OFF", "TOGGLE"} : MqttSwitches(payload)
    BY <1>10, <1>12, SMT DEF MqttSwitches, Threads
  <1>13. CASE \/ AssistWakes \/ \E tap \in BOOLEAN : TouchRead(tap)
              \/ \E shown \in BOOLEAN : Screensaver(shown)
    BY <1>10, <1>11, <1>13, SMT DEF AssistWakes, TouchRead, Screensaver, Threads
  <1>14. QED
    BY <1>2, <1>3, <1>4, <1>5, <1>6, <1>7, <1>8, <1>9, <1>11, <1>12, <1>13, Zenon
       DEF Next, Fade, vars, PortalSets, Finger, TimePasses

LEMMA LevelsType ==
    ASSUME TypeOK, [Next]_vars
    PROVE  LevelsOK'
  <1> USE PowerAssumption DEF ThreadType, Max
  <1>1. ThreadsOK /\ LevelsOK
    BY TypeParts
  <1>2. ASSUME NEW t \in Threads
        PROVE  th[t].val \in 0 .. Max
    BY <1>1, <1>2, SMT DEF ThreadsOK
  <1>3. ASSUME NEW t \in Threads, WakeWrites(t)
        PROVE  LevelsOK'
    <2>1. th[t].i \in 1 .. WakeSteps /\ WakeSteps \in Nat \ {0}
      BY <1>1, <1>3, SMT DEF ThreadsOK, WakeWrites
    <2>2. (th[t].val * th[t].i) \div WakeSteps \in 0 .. Max
      BY <1>2, <2>1, StepFacts, Zenon
    <2>3. QED
      BY <1>1, <1>3, <2>2, SMT DEF LevelsOK, WakeWrites
  <1>4. ASSUME NEW t \in Threads, BlankWrites(t)
        PROVE  LevelsOK'
    <2>1. th[t].i \in 1 .. BlankSteps /\ BlankSteps \in Nat \ {0}
      BY <1>1, <1>4, SMT DEF ThreadsOK, BlankWrites
    <2>2. th[t].val - (th[t].val * th[t].i) \div BlankSteps \in 0 .. Max
      BY <1>2, <2>1, StepFacts, Zenon
    <2>3. QED
      BY <1>1, <1>4, <2>2, SMT DEF LevelsOK, BlankWrites
  <1>5. CASE \E t \in Threads : HalSets(t) \/ HalWrites(t) \/ BlankZero(t)
    BY <1>1, <1>2, <1>5, SMT DEF LevelsOK, HalSets, HalWrites, BlankZero
  <1>6. CASE UiStores
    BY <1>1, <1>2, <1>6, SMT DEF LevelsOK, ThreadsOK, UiStores, Threads
  <1>7. CASE \E p \in Percents : PortalSets(p)
    BY <1>1, <1>7, LevelFacts, SMT DEF LevelsOK, PortalSets
  <1>8. CASE UNCHANGED <<active, light>>
    BY <1>1, <1>8, SMT DEF LevelsOK
  <1>9. QED
    BY <1>3, <1>4, <1>5, <1>6, <1>7, <1>8, Zenon DEF Next, Fade, vars, WakeCalled, WakeSets,
       WakeMarks, WakeTests, WakeSleeps, WakeEnds, BlankCalled, BlankSets, BlankMarks, BlankTests,
       BlankSleeps, BlankLast, UiSets, UiSlides, MqttSets, MqttSwitches, AssistWakes, Finger,
       TouchRead, Screensaver, TimePasses

LEMMA FlagsType ==
    ASSUME TypeOK, [Next]_vars
    PROVE  FlagsOK'
  <1> USE DEF touchVars, timeVars
  <1>1. FlagsOK
    BY TypeParts
  <1>2. CASE \E t \in Threads : Fade(t)
    BY <1>1, <1>2, Zenon DEF FlagsOK, Fade, WakeCalled, WakeSets, WakeMarks, WakeTests, WakeWrites,
       WakeSleeps, WakeEnds, BlankCalled, BlankSets, BlankMarks, BlankTests, BlankWrites,
       BlankSleeps, BlankLast, BlankZero, FadeBegins
  <1>3. CASE \E t \in Threads : HalSets(t) \/ HalWrites(t)
    BY <1>1, <1>3, Zenon DEF FlagsOK, HalSets, HalWrites
  <1>4. CASE \E p \in Percents : UiSets(p) \/ UiSlides(p) \/ PortalSets(p)
    BY <1>1, <1>4, Zenon DEF FlagsOK, UiSets, UiSlides, PortalSets
  <1>5. CASE UiStores \/ (\E b \in Payloads : MqttSets(b)) \/ UNCHANGED vars
    BY <1>1, <1>5, Zenon DEF FlagsOK, UiStores, MqttSets, vars
  <1>6. CASE \E payload \in {"ON", "OFF", "TOGGLE"} : MqttSwitches(payload)
    BY <1>1, <1>6, Zenon DEF FlagsOK, MqttSwitches
  <1>7. CASE AssistWakes \/ Finger \/ TimePasses
    BY <1>1, <1>7, Zenon DEF FlagsOK, AssistWakes, Finger, TimePasses
  <1>8. CASE \E tap \in BOOLEAN : TouchRead(tap)
    BY <1>1, <1>8, Zenon DEF FlagsOK, TouchRead
  <1>9. CASE \E shown \in BOOLEAN : Screensaver(shown)
    BY <1>1, <1>9, Zenon DEF FlagsOK, Screensaver
  <1>10. QED
    BY <1>2, <1>3, <1>4, <1>5, <1>6, <1>7, <1>8, <1>9, Zenon DEF Next

LEMMA TypeStep ==
    ASSUME TypeOK, [Next]_vars
    PROVE  TypeOK'
  <1>1. ThreadsOK' /\ LevelsOK' /\ FlagsOK'
    BY ThreadsType, LevelsType, FlagsType
  <1>2. QED
    BY <1>1, Zenon DEF TypeOK, ThreadsOK, ThreadType, LevelsOK, FlagsOK

-----------------------------------------------------------------------------
(* The light.                                                              *)

LEMMA LightStep ==
    ASSUME IInv, [Next]_vars
    PROVE  LightInv'
  <1> USE PowerAssumption DEF ThreadType, Idle, Threads, LightInv, LightIsLed,
          ObsoleteIsOverwritten, LevelIsActive, SetIsBesideOneFade, Target, Leads, Obsolete, FirstStep
  <1>1. ThreadsOK /\ LightInv /\ blanked \in BOOLEAN /\ disturbed \in BOOLEAN
    BY TypeParts DEF IInv, FlagsOK
  <1>2. ASSUME NEW t \in Threads, WakeCalled(t)
        PROVE  LightInv'
    BY <1>1, <1>2, SMT DEF ThreadsOK, WakeCalled
  <1>3. ASSUME NEW t \in Threads, WakeSets(t)
        PROVE  LightInv'
    BY <1>1, <1>3, SMT DEF ThreadsOK, WakeSets, Goes, FadeBegins, Others, IsIdle
  <1>4. ASSUME NEW t \in Threads, WakeMarks(t)
        PROVE  LightInv'
    BY <1>1, <1>4, SMT DEF ThreadsOK, WakeMarks
  <1>5. ASSUME NEW t \in Threads, WakeTests(t)
        PROVE  LightInv'
    BY <1>1, <1>5, SMT DEF ThreadsOK, WakeTests, Goes
  <1>6. ASSUME NEW t \in Threads, WakeSleeps(t)
        PROVE  LightInv'
    BY <1>1, <1>6, SMT DEF ThreadsOK, WakeSleeps, NapEnds, Others, Asleep, IsIdle
  <1>7. ASSUME NEW t \in Threads, WakeEnds(t)
        PROVE  LightInv'
    BY <1>1, <1>7, SMT DEF ThreadsOK, WakeEnds
  <1>8. ASSUME NEW t \in Threads, BlankCalled(t)
        PROVE  LightInv'
    BY <1>1, <1>8, SMT DEF ThreadsOK, BlankCalled
  <1>9. ASSUME NEW t \in Threads, BlankSets(t)
        PROVE  LightInv'
    BY <1>1, <1>9, SMT DEF ThreadsOK, BlankSets, Goes, FadeBegins, Others, IsIdle
  <1>10. ASSUME NEW t \in Threads, BlankMarks(t)
        PROVE  LightInv'
    BY <1>1, <1>10, SMT DEF ThreadsOK, BlankMarks
  <1>11. ASSUME NEW t \in Threads, BlankTests(t)
        PROVE  LightInv'
    BY <1>1, <1>11, SMT DEF ThreadsOK, BlankTests, Goes
  <1>12. ASSUME NEW t \in Threads, BlankSleeps(t)
        PROVE  LightInv'
    BY <1>1, <1>12, SMT DEF ThreadsOK, BlankSleeps, NapEnds, Others, Asleep, IsIdle
  <1>13. ASSUME NEW t \in Threads, BlankLast(t)
        PROVE  LightInv'
    BY <1>1, <1>13, SMT DEF ThreadsOK, BlankLast
  <1>14. ASSUME NEW t \in Threads, BlankZero(t)
        PROVE  LightInv'
    BY <1>1, <1>14, SMT DEF ThreadsOK, BlankZero
  <1>15. ASSUME NEW t \in Threads, WakeWrites(t)
        PROVE  LightInv'
    <2>1. th[t].i \in 1 .. WakeSteps /\ WakeSteps \in Nat \ {0} /\ th[t].val \in 0 .. Max
      BY <1>1, <1>15, SMT DEF ThreadsOK, WakeWrites
    <2>2. th[t].i = WakeSteps => (th[t].val * th[t].i) \div WakeSteps = th[t].val
      BY <2>1, StepFacts, Zenon
    <2>3. th[t].i = WakeSteps => light' = th[t].val
      BY <1>15, <2>2, Zenon DEF WakeWrites
    <2>4. th' = [th EXCEPT ![t].at = "wakeNap"] /\ th[t].at = "wakeWrite"
          /\ UNCHANGED <<blanked, active, disturbed>>
      BY <1>15, Zenon DEF WakeWrites, Goes
    <2>5. QED
      BY <1>1, <2>1, <2>3, <2>4, SMT DEF ThreadsOK
  <1>16. ASSUME NEW t \in Threads, BlankWrites(t)
        PROVE  LightInv'
    <2>1. th' = [th EXCEPT ![t].at = "blankNap"] /\ th[t].at = "blankWrite"
          /\ UNCHANGED <<blanked, active, disturbed>>
      BY <1>16, Zenon DEF BlankWrites, Goes
    <2>2. QED
      BY <1>1, <2>1, SMT DEF ThreadsOK
  <1>17. ASSUME NEW t \in Threads, HalSets(t)
        PROVE  LightInv'
    <2>1. CASE disturbed'
      BY <2>1
    <2>2. CASE ~disturbed'
      <3>1. ~disturbed /\ ~blanked /\ th[t].val # 0 /\ \A u \in Others(t) : IsIdle(u)
        BY <1>17, <2>2, Zenon DEF HalSets
      <3>2. th[t].val > 0
        BY <1>1, <3>1, SMT DEF ThreadsOK, Max
      <3>3. active' = th[t].val /\ UNCHANGED <<blanked, light>>
            /\ th' = [th EXCEPT ![t].at = "setWrite"]
        BY <1>17, <3>1, <3>2, Zenon DEF HalSets, Goes
      <3>4. QED
        BY <1>1, <2>2, <3>1, <3>3, SMT DEF ThreadsOK, Others, IsIdle
    <2>3. QED
      BY <2>1, <2>2
  <1>18. ASSUME NEW t \in Threads, HalWrites(t)
        PROVE  LightInv'
    BY <1>1, <1>18, SMT DEF ThreadsOK, HalWrites, Others, IsIdle, Fading
  <1>19. CASE UiStores
    <2>1. CASE disturbed'
      BY <2>1
    <2>2. CASE ~disturbed'
      <3>1. ~disturbed /\ blanked /\ ~Fading("mqtt")
        BY <1>1, <1>19, <2>2, Zenon DEF UiStores
      <3>2. QED
        BY <1>1, <1>19, <3>1, SMT DEF ThreadsOK, UiStores, IsIdle, Fading
    <2>3. QED
      BY <2>1, <2>2
  <1>20. CASE \E p \in Percents : UiSets(p) \/ UiSlides(p)
    BY <1>1, <1>20, SMT DEF ThreadsOK, UiSets, UiSlides, IsIdle
  <1>21. CASE \E b \in Payloads : MqttSets(b)
    BY <1>1, <1>21, SMT DEF ThreadsOK, MqttSets, IsIdle
  <1>22. CASE \E p \in Percents : PortalSets(p)
    BY <1>1, <1>22, SMT DEF PortalSets
  <1>23. ASSUME NEW t \in Threads, NEW place \in {"wakeCall", "blankCall"},
                IsIdle(t), Goes(t, place), UNCHANGED <<blanked, active, light, disturbed>>
         PROVE  LightInv'
    BY <1>1, <1>23, SMT DEF ThreadsOK, IsIdle, Goes
  <1>24. CASE UNCHANGED <<blanked, active, light, th, disturbed>>
    BY <1>1, <1>24, SMT DEF ThreadsOK
  <1>25. CASE \E payload \in {"ON", "OFF", "TOGGLE"} : MqttSwitches(payload)
    BY <1>23, <1>25, SMT DEF MqttSwitches
  <1>26. CASE AssistWakes
    BY <1>23, <1>24, <1>26, Zenon DEF AssistWakes
  <1>27. CASE \E tap \in BOOLEAN : TouchRead(tap)
    BY <1>23, <1>24, <1>27, Zenon DEF TouchRead
  <1>28. CASE \E shown \in BOOLEAN : Screensaver(shown)
    BY <1>23, <1>24, <1>28, Zenon DEF Screensaver
  <1> HIDE DEF Threads, LightInv
  <1>29. QED
    BY <1>2, <1>3, <1>4, <1>5, <1>6, <1>7, <1>8, <1>9, <1>10, <1>11, <1>12, <1>13,
       <1>14, <1>15, <1>16, <1>17, <1>18, <1>19, <1>20, <1>21, <1>22, <1>24, <1>25,
       <1>26, <1>27, <1>28, Zenon
       DEF Next, Fade, vars, Finger, TimePasses

-----------------------------------------------------------------------------
(* The touch.                                                              *)

LEMMA TouchStep ==
    ASSUME IInv, [Next]_vars
    PROVE  WakingTouchIsConsumed'
  <1>1. WakingTouchIsConsumed /\ FlagsOK
    BY TypeParts DEF IInv
  <1>2. CASE Finger
    BY <1>1, <1>2, Zenon DEF WakingTouchIsConsumed, FlagsOK, Finger
  <1>3. CASE \E tap \in BOOLEAN : TouchRead(tap)
    <2>1. CASE woke' = touch /\ consumed' = touch /\ pressed' = FALSE /\ touch' = touch
      BY <1>1, <2>1, Zenon DEF WakingTouchIsConsumed, FlagsOK
    <2>2. CASE /\ woke' = woke /\ touch' = touch
               /\ consumed' = (consumed /\ touch) /\ pressed' = (touch /\ ~consumed)
      BY <1>1, <2>2, Zenon DEF WakingTouchIsConsumed, FlagsOK
    <2>3. QED
      BY <1>3, <2>1, <2>2, Zenon DEF TouchRead
  <1>4. CASE UNCHANGED touchVars
    BY <1>1, <1>4, Zenon DEF WakingTouchIsConsumed, touchVars
  <1>5. QED
    BY <1>2, <1>3, <1>4, Zenon DEF Next, Fade, vars, touchVars, WakeCalled, WakeSets,
       WakeMarks, WakeTests, WakeWrites, WakeSleeps, WakeEnds, BlankCalled, BlankSets, BlankMarks,
       BlankTests, BlankWrites, BlankSleeps, BlankLast, BlankZero, HalSets, HalWrites, UiSets,
       UiSlides, UiStores, PortalSets, MqttSets, MqttSwitches, AssistWakes, Screensaver, TimePasses

-----------------------------------------------------------------------------
(* The theorems.                                                           *)

LEMMA InitIInv == Init => IInv
  <1> SUFFICES ASSUME Init PROVE IInv
    OBVIOUS
  <1>1. ThreadsOK
    BY PowerAssumption, SMT DEF Init, ThreadsOK, ThreadType, Places, Idle, Max
  <1>2. LevelsOK
    BY LevelFacts, SMT DEF Init, LevelsOK, Max
  <1>3. FlagsOK
    BY Zenon DEF Init, FlagsOK
  <1>4. LightInv
    BY <1>1, SMT DEF Init, Idle, LightInv, LightIsLed, Target, ObsoleteIsOverwritten, Obsolete,
       LevelIsActive, SetIsBesideOneFade
  <1>5. WakingTouchIsConsumed
    BY Zenon DEF Init, WakingTouchIsConsumed
  <1>6. QED
    BY <1>1, <1>2, <1>3, <1>4, <1>5, TypeParts DEF IInv

\* The inductive invariant holds in every state of every behaviour.
THEOREM Invariance == Spec => []IInv
  <1>1. IInv /\ [Next]_vars => IInv'
    BY TypeStep, LightStep, TouchStep DEF IInv
  <1>2. QED
    BY InitIInv, <1>1, PTL DEF Spec

\* Every variable keeps its type: every level that is written is between 0 and
\* backlight_max.
THEOREM TypeCorrect == Spec => []TypeOK
  BY Invariance, PTL DEF IInv

\* hal_wake_screen and hal_blank_screen: however the fades of the two threads
\* interrupt each other, once both are over the light is where it belongs.
THEOREM LightSettles == Spec => []SettledLight
  <1>1. IInv => SettledLight
    BY SMT DEF IInv, LightInv, LightIsLed, Leads, Target, SettledLight, AtRest, IsIdle
  <1>2. QED
    BY Invariance, <1>1, PTL

\* touch_read_cb: a touch that wakes the screen presses no button.
THEOREM WakingTouchSwallowed == Spec => []WakingTouchIsSwallowed
  <1>1. IInv => WakingTouchIsSwallowed
    BY Zenon DEF IInv, WakingTouchIsConsumed, WakingTouchIsSwallowed
  <1>2. QED
    BY Invariance, <1>1, PTL

=============================================================================
