CONSTANTS
  Texts <- MCTexts
  Edits <- MCEdits
  Lower <- MCLower
  Small = 10
  Digits = 10
  MaxUpdates = 2
SPECIFICATION Spec
INVARIANTS
  ParserReadsTheLanguage
  EventTellsTheRows
PROPERTIES
  SameMeaningChangesNothing
CHECK_DEADLOCK FALSE
