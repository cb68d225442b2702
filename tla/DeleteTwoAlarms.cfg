CONSTANTS
  d1 = d1
  m1 = m1
  cpu = cpu
  gt90 = gt90
  gt95 = gt95
  None = None
  Unparsable = Unparsable
  Requests = {r1, r2}
  Stored = {d1}
  Tenants = {t1}
  Names = {"n"}
  Details = {"default", "low"}
  DefaultDetails = "default"
  Expressions <- MCExpressions
  Lower <- MCLower
  Methods = {m1}
  AlarmStates = {"ALARM"}
  Alarms = {a1, a2}
  Bare = {}
  Bodies <- TwoBodies
  Faults = {}
SPECIFICATION Spec
INVARIANT DeleteDoesNotFail
CHECK_DEADLOCK FALSE
