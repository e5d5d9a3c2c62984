SPECIFICATION FairSpec

CONSTANTS
    Msgs = {1, 2}
    Arrivals <- ChatOnly
    MaxTries = 1
    Limit = 2
    MaxFaults = 1

PROPERTY TriggeredRowsLeavePending
