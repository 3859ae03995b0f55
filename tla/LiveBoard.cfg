SPECIFICATION Spec
CONSTANTS
  MyMove = {m1, m2}
  TheirMove = {t1}
  None = None
  MaxPly = 4
  MaxChanges = 5
  MaxRequests = 4
  MaxEvents = 2
INVARIANTS
  ShownWasPlayedOrSent
  ConnectedIsCurrent
SYMMETRY Names
CHECK_DEADLOCK FALSE
