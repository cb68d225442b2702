CONSTANTS
  None = None
  NoMessage = NoMessage
  Malformed = Malformed
  Callers = {r1, r2}
  Publishers = {"metrics", "raw-events", "raw"}
  MaxRetry = 2
  MaxOutages = 1
  Sizes = {0, 2}
  Configurations <- MCConfigurations
SPECIFICATION FairSpec
INVARIANTS
  AcceptedIsPublished
  PublishedIsPrefix
  InRealTimeOrder
  RefusedForAReason
PROPERTIES
  StaysConnected
  AllAnswered
CHECK_DEADLOCK FALSE
