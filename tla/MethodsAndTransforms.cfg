CONSTANTS
  None = None
  Requests = {r1, r2, r3}
  Existing = {m1}
  Tenants = {t1, t2}
  Names = {n1, n2}
  Addresses = {a1}
  MaxClock = 1
SYMMETRY Symmetry
SPECIFICATION Spec
INVARIANTS
  ConflictIsReported
  NotFoundIsTrue
  RefusedStoresNothing
PROPERTIES
  OwnMethodsOnly
CHECK_DEADLOCK FALSE
