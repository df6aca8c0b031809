SPECIFICATION FairSpec
CONSTANTS
    ClearDuration = 1
    Timeout = 2
    ReplanDelay = 1
    RecoverDelay = 1
    Confirmation = 1
    EscapeGrace = 2
    StartupGrace = 3
INVARIANTS TypeOK LatchedNeverRuns SilenceStops FlagFollowsScene NoForeignBody
PROPERTIES ImplementsContract RecoversOrStops PersistentContactLatches
