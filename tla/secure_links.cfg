SPECIFICATION FairSpec
CONSTANTS
    Client = {c1, c2}
    Foreign = {c1}
    Nobody = Nobody
    MaxSends = 1
    MaxKicks = 1
INVARIANT PortWaitsOnlyForBad
PROPERTY WaitsEnd
CHECK_DEADLOCK FALSE
