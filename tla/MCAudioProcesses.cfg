CONSTANTS
    p1 = p1
    p2 = p2
    p3 = p3
    Pids <- ThreePids
    NoPid = NoPid
    Attempts = 2
SPECIFICATION FairSpec
INVARIANTS
    ChildrenAreAccountedFor
PROPERTIES
    StraySignalsOnlyFromStop
    UiThreadReturns
