CONSTANTS
  d1 = d1
  t1 = t1
  None = None
  Invalid = Invalid
  Requests = {r1, r2}
  Alarms = {a1, a2}
  Bare = {a2}
  Definitions = {d1}
  DefinitionOf <- MCDefinitionOf
  Tenants = {t1, t2}
  TenantOf <- MCTenantOf
  States = {"OK", "ALARM"}
  Faults = {"database", "queue", "crash"}
SPECIFICATION Spec
INVARIANTS
  TypeOK
  OwnAlarmsOnly
  SuccessIsAnnounced
  AlarmDeletionAnnouncedOnce
  GoneIsQuiet
  InRealTimeOrder
  TransitionsChain
SYMMETRY Symmetry
CHECK_DEADLOCK FALSE
