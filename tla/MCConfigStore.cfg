CONSTANTS
    p1 = p1
    p2 = p2
    c1 = c1
    c2 = c2
    Nobody = Nobody
    Absent = Absent
    Partial = Partial
    Panels <- TwoPanels
    Cgis <- TwoCgis
    MaxReqs = 3
SPECIFICATION FairSpec
INVARIANTS
    FileIsWhole
    RequestsCompose
    SavedIsApplied
CHECK_DEADLOCK FALSE
PROPERTY RestartComesUp
