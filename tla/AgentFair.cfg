SPECIFICATION FairSpec
CONSTANTS
    Root = Root
    Children = {c1, c2}
    Steps = {s1}
    Nobody = Nobody
    MaxDeaths = 1
    MaxCancels = 0
CHECK_DEADLOCK FALSE
PROPERTIES
     WokenParentGoesOn
