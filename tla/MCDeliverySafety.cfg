SPECIFICATION Spec
CONSTANTS
    Sessions = {"s1", "s2"}
    Rows = {1, 2, 3}
    Owner <- TwoSessions
    CodaRows = {2}
    MaxAttempts = 3
    MaxFaults = 2

INVARIANT TypeOK
INVARIANT OneDrainPerSession
INVARIANT DuplicatesOnlyByFault
INVARIANT CodaRowsStayWithPlugin
