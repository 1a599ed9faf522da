CONSTANTS
    WakeSteps = 3
    BlankSteps = 4
    Percents = {40, 80}
    Payloads = {0, 102}
SPECIFICATION Spec
INVARIANTS
    SettledLight
    WakingTouchIsSwallowed
