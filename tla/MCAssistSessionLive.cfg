CONSTANTS
    s1 = s1
    s2 = s2
    Slots <- TwoSlots
    MaxGen = 2
    HistoryMax = 1
    MuteOnBlank = TRUE
SPECIFICATION FairSpec
PROPERTIES
    OverlayResolves
    ButtonComesBack
    ListeningResumes

