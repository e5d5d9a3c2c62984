SPECIFICATION FairSpec
CONSTANTS
    Rows = {1, 2, 3}
    Series = {"s1", "s2"}
    NoSeries = NoSeries
    Commands = {1, 2}
    MaxAttempts = 2
    MaxFaults = 1

PROPERTY CommandsSettle
PROPERTY OccurrencesAreFollowed
