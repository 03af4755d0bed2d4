SPECIFICATION Spec
CONSTANTS
    Root = Root
    Children = {c1, c2}
    Steps = {s1, s2}
    Nobody = Nobody
    MaxDeaths = 1
    MaxCancels = 1
SYMMETRY Symmetry
CHECK_DEADLOCK FALSE
INVARIANTS
    OneDriver  WaitingKnowsItsChild
    CompletedOnCompletedChildren BilledOnceAtTheEnd
PROPERTIES
    FinishedStays
