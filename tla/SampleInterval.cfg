CONSTANTS
  Callers = {"button", "httpd"}
  MaxRetries = 1
  MaxCalls = 3
  MaxEvents = 2
SPECIFICATION FairSpec
INVARIANTS
  SamplesSlower
CHECK_DEADLOCK FALSE
