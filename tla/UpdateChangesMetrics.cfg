CONSTANTS
  Texts <- MCEdits
  Edits <- MCEdits
  Lower <- MCLower
  Small = 10
  Digits = 10
  MaxUpdates = 1
SPECIFICATION Spec
PROPERTIES
  MetricsAndNumberKept
CHECK_DEADLOCK FALSE
