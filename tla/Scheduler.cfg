CONSTANTS
  client = client
  normal = normal
  slow = slow
  Clients = {client}
  Tiers = {normal, slow}
  CallingTiers = {normal}
  NumJobs = 1
  QueueDepth = 1
  MaxGen = 2
  MaxSchedule = 2
  NoJob = NoJob
SPECIFICATION FairSpec
INVARIANTS
  TypeOK
  TimersAreOwned
  OnlyOwnHandleCancels
  CancelledIsQuiet
PROPERTIES
  Implements
  OneShotsAreReleased
  CancelReturns
CHECK_DEADLOCK FALSE
