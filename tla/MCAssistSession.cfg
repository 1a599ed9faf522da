CONSTANTS
    s1 = s1
    s2 = s2
    Slots <- TwoSlots
    MaxGen = 3
    HistoryMax = 2
    MuteOnBlank = TRUE
SYMMETRY SlotSymmetry
SPECIFICATION Spec
INVARIANTS
    AtMostOnePipeline
    NoCommandDuringPipeline
    EnabledButtonMeansIdle
    DisabledButtonHasReleaser
    HistoryInCommandOrder
PROPERTY
    ThreadsKeepContract
CHECK_DEADLOCK TRUE
