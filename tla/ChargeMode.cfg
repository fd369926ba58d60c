CONSTANTS
  Callers = {"button", "httpd", "worker"}
  MaxRetries = 1
  MaxCalls = 3
  MaxEvents = 2
SPECIFICATION FairSpec
INVARIANTS
  TypeOK
  NormalHasRadio
  ChargeIsDark
  OneSampler
PROPERTIES
  NeverStranded
CHECK_DEADLOCK FALSE
