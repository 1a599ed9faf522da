CONSTANTS
    c1 = c1
    c2 = c2
    NoConn = NoConn
    Conns <- TwoConns
    MaxCmds = 2
SPECIFICATION FairSpec
INVARIANTS
    ConnectFirst
    StoppedIsClean
    NoLostDescriptor
    ServedMeansOnline
    CommandsWholeAndInOrder
PROPERTIES
    DeadConnectionIsLeft
    StopReturns
    StoppedGoesOffline
