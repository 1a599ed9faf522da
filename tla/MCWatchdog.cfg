CONSTANTS
    j1 = j1
    j2 = j2
    Jobs <- TwoJobs
SPECIFICATION FairSpec
INVARIANTS
    OnePanelPerLauncher
PROPERTIES
    PanelComesBack
    ScreenSettles
    DarkIsExplained
