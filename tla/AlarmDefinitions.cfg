CONSTANTS
  d1 = d1
  m1 = m1
  cpu = cpu
  gt90 = gt90
  gt95 = gt95
  None = None
  Unparsable = Unparsable
  Requests = {r1, r2, r3}
  Stored = {d1}
  Tenants = {t1}
  Names = {"n"}
  Details = {"default", "low"}
  DefaultDetails = "default"
  Expressions <- MCExpressions
  Lower <- MCLower
  Methods = {m1}
  AlarmStates = {"ALARM"}
  Alarms = {a1}
  Bare = {}
  Bodies <- FullBody
  Faults = {}
SPECIFICATION Spec
INVARIANTS
  DeletionAnnouncedOnce
  AnnouncementsAreTrue
  AnnouncedInRealTimeOrder
PROPERTY
  DeletedStaysDeleted
SYMMETRY Symmetry
CHECK_DEADLOCK FALSE
