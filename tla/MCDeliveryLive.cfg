SPECIFICATION FairSpec
CONSTANTS
    Sessions = {"s1", "s2"}
    Rows = {1, 2}
    Owner <- OneEach
    CodaRows = {}
    MaxAttempts = 3
    MaxFaults = 1

PROPERTY RowsSettleUnlessBlocked
PROPERTY ImplementsOutbox
