CONSTANTS
  cpu = cpu
  CPU = CPU
  disk = disk
  gt90 = gt90
  gt95 = gt95
  lt10 = lt10
  Keys <- MCKeys
  Tests <- MCTests
  Lower <- MCLower
  Expressions <- MCExpressions
  MaxUpdates = 3
SPECIFICATION Spec
INVARIANTS
  UpdatedExpressionStored
  OutdatedRowsReported
  DiffMeetsReference
PROPERTY
  RepeatedUpdateChangesNothing
CHECK_DEADLOCK FALSE
