SPECIFICATION FairSpec
CONSTANTS
  Msgs = {1, 2}
  Arrivals <- Working
  MaxTries = 1
  Limit = 2
  MaxFaults = 1
INVARIANT TypeOK
INVARIANT OneContainer
INVARIANT NoOrphanClaims
INVARIANT CompletedWasHandedOver
PROPERTY RescheduledOnlyWhenDead
PROPERTY ImplementsContract
PROPERTY TriggeredRowsSettle
PROPERTY HungContainerIsReplaced
