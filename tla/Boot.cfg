CONSTANTS
  MaxFaults = 1
  MaxCrashes = 1
  MaxRequests = 3
SPECIFICATION Spec
CHECK_DEADLOCK FALSE
INVARIANTS
  ProvenImageKept
  BusyWhileUpdating
  RoutesAnswer
PROPERTIES
  ComesUp
