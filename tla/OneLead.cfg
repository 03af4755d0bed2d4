SPECIFICATION Spec
CONSTANTS
    Devices = {d1, d2}
    Leads = {l1}
    Runs = {r1, r2}
    Attempts = {a1, a2}
    PhoneOf <- OwnPhone
    Nobody = Nobody
    MaxInFlight = 0
    MaxCrashes = 1
    MaxVerdicts = 1
SYMMETRY Symmetry
CHECK_DEADLOCK FALSE
INVARIANTS
    CallingHasMergedAttempt
    CleanedUpIsClosed

    
    
