SPECIFICATION FairSpec
CONSTANTS
  Channels = {"telegram", "discord", "whatsapp", "signal", "slack", "teams", "imessage"}
  NoChannel = "skip"
  MaxApps = 2
  MaxFaults = 2
CHECK_DEADLOCK FALSE
INVARIANT TypeOK
INVARIANT SuccessIsTrue
INVARIANT SkippedStepsAreDone
PROPERTY SetupSucceeds
