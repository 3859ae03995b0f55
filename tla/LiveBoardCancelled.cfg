SPECIFICATION Spec
CONSTANTS
  MyMove = {m1}
  TheirMove = {t1}
  None = None
  MaxPly = 2
  MaxChanges = 3
  MaxRequests = 2
  MaxEvents = 2
INVARIANTS
  StreamStateIsReported
CHECK_DEADLOCK FALSE
