SPECIFICATION Spec
CONSTANTS
    Devices = {d1, d2}
    Leads = {l1, l2}
    Runs = {r1, r2}
    Attempts = {a1, a2}
    PhoneOf <- OwnPhone
    Nobody = Nobody
    MaxInFlight = 0
    MaxCrashes = 0
    MaxVerdicts = 0
SYMMETRY Symmetry
CHECK_DEADLOCK FALSE
INVARIANTS
    OneLeasePerDevice
    BusyDeviceHoldsOnlyItsLead
    LeaseHasOpenRun
