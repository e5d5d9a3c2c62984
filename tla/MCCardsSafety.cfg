SPECIFICATION Spec
CONSTANTS
    Questions = {"q1"}
    Requests = {r1, r2}
    MaxAttempts = 2
    MaxFaults = 1
SYMMETRY Alike
CHECK_DEADLOCK FALSE

INVARIANT DecidedOnce
INVARIANT NoRequestIsForgotten
INVARIANT InstalledStays
