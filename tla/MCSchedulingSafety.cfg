SPECIFICATION Spec
CONSTANTS
    Rows = {1, 2, 3}
    Series = {"s1"}
    NoSeries = NoSeries
    Commands = {1, 2, 3}
    MaxAttempts = 2
    MaxFaults = 2

INVARIANT SeriesForksOnlyByFault
INVARIANT NoSeriesIsLost
INVARIANT StoppedStaysStopped
