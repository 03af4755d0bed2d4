SPECIFICATION FairSpec
CONSTANTS
    NumRows = 2
    MaxLoad = 2
    Providers = {"twilio", "tata_tele"}
    MaxConcurrent = 1
    MaxTicks = 1
    MaxEvents = 2
    MaxBlips = 1
INVARIANTS
    
    
    PauseHolds
PROPERTIES
    LoopsEnd
    AnsweredCallSettles
CHECK_DEADLOCK FALSE
