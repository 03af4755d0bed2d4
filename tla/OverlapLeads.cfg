SPECIFICATION Spec
CONSTANTS
    Devices = {d1}
    Leads = {l1, l2}
    Runs = {r1, r2}
    Attempts = {a1}
    PhoneOf <- OwnPhone
    Nobody = Nobody
    MaxInFlight = 2
    MaxCrashes = 0
    MaxVerdicts = 0
SYMMETRY Symmetry
CHECK_DEADLOCK FALSE
INVARIANTS
    OneOpenRunPerDevice
PROPERTIES
    ImplementsLeadQueue
