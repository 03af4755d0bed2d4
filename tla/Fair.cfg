SPECIFICATION FairSpec
CONSTANTS
    Devices = {d1}
    Leads = {l1}
    Runs = {r1}
    Attempts = {a1, a2}
    PhoneOf <- OwnPhone
    Nobody = Nobody
    MaxInFlight = 0
    MaxCrashes = 0
    MaxVerdicts = 1
CHECK_DEADLOCK FALSE
PROPERTIES
    DeviceFreed
    DrainedCampaignCompletes
