CONSTANTS
  Items = {1, 2, 3, 4}
  Limit = 2
  Kinds = {"notifications", "definitions", "alarms", "metrics", "history", "measurements"}
  MaxChanges = 1
SPECIFICATION FairSpec
INVARIANTS
  ListedById
  MetricsListed
  PointsListed
  AlarmsThatFit
PROPERTIES
  WalkEnds
CHECK_DEADLOCK FALSE
