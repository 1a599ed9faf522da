SPECIFICATION FairSpec
INVARIANTS
    FinalLineIsDelivered
    AlarmMeansUnlimitedWait
PROPERTIES
    ImplementsContract
    NoChildLeft
    PlayersAreAccountedFor
