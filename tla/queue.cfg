SPECIFICATION ExtractionSpec
CONSTANTS
    MaxTurns = 4
    MaxFailures = 1
    MaxOpenFailures = 1
    MaxCrashes = 1
    TextOf <- MCTextOf
    SessOf <- MCSessOf
    NsOf <- MCNsOf
    Window = 1
    MaxAttempts = 2
INVARIANTS CloseWorksOffBacklog OwnWordsOnly
PROPERTIES EveryJobTried CallsReturn
CHECK_DEADLOCK FALSE
