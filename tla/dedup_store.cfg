SPECIFICATION Spec
CONSTANTS
  Keys = {k1, k2, k3, k4}
  Capacities = {1, 2, 3}
  MaxTouches = 6
INVARIANTS
  TypeOK
  WindowIsMostRecent
  RuntimesAgree
CHECK_DEADLOCK FALSE
