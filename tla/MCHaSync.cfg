CONSTANTS
    t1 = t1
    t2 = t2
    N = 2
    Pollers <- TwoPollers
    Near <- Distinct
    MaxChanges = 1
    MaxClicks = 1
    MaxCalls = 2
SPECIFICATION FairSpec
PROPERTIES
    PollsInOrder
    Converges
