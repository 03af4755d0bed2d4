SPECIFICATION Spec
CONSTANTS
    Devices = {d1}
    Leads = {l1}
    Runs = {r1}
    Attempts = {a1, a2}
    PhoneOf <- OwnPhone
    Nobody = Nobody
    MaxInFlight = 1
    MaxCrashes = 0
    MaxVerdicts = 0
SYMMETRY Symmetry
CHECK_DEADLOCK FALSE
INVARIANTS
    OneOpenAttemptPerDevice
PROPERTIES
    ImplementsLeadQueue
