SPECIFICATION Spec
CONSTANTS
  Names = {"helper"}
  Chats = {chat}
  MaxGroups = 3
  MaxRows = 3
  MaxAttempts = 3
  MaxFaults = 2
CHECK_DEADLOCK FALSE
INVARIANT TypeOK
INVARIANT NamedChildrenAreWhole
INVARIANT CreatedIsTwoWay
INVARIANT NothingIsRefused
