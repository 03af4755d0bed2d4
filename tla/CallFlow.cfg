SPECIFICATION FairSpec
CONSTANTS
    MaxLeads = 2
    MaxQueued = 1
CHECK_DEADLOCK FALSE
INVARIANTS
    NoLegLeftBehind
    OutcomeReported
    RepSilentBesideAi
PROPERTIES
    LeadKeptAfterTakeOver
    TakeOverCompletes
    SkipEndsCall
