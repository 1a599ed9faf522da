CONSTANTS
    i1 = i1
    i2 = i2
    i3 = i3
    i4 = i4
    c1 = c1
    c2 = c2
    NoFile = NoFile
    Inodes <- FourInodes
    Curls <- TwoCurls
    Released = {"mww_worker"}
    MaxTimers = 1
    MaxFaults = 2
SYMMETRY OtaSymmetry
SPECIFICATION Spec
INVARIANT UnfinishedIsNotInstalled
CHECK_DEADLOCK FALSE
