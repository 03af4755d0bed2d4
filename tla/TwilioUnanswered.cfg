SPECIFICATION FairCallbackSpec
CONSTANTS
    NumRows = 2
    MaxLoad = 2
    Providers = {"twilio"}
    MaxConcurrent = 1
    MaxTicks = 1
    MaxEvents = 2
    MaxBlips = 1
PROPERTY
    UnansweredCallSettles
CHECK_DEADLOCK FALSE
