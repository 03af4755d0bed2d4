SPECIFICATION FairSpec
CONSTANTS
    Attempts = {a1}
    Requests = {q1, q2}
    Nobody = Nobody
    MaxEvents = 2
    KeepRows = 0
    MaxMishaps = 1
CHECK_DEADLOCK FALSE
INVARIANTS
    NothingForgotten
    AppliedOnce
PROPERTIES
    ImplementsEventChannel
    EventsArrive
