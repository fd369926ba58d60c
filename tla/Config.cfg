CONSTANTS
  httpd = httpd
  worker = worker
  system = system
  api_token = api_token
  other = other
  v = v
  Tasks = {httpd, worker}
  Spaces = {system}
  Keys = {api_token, other}
  Values = {v}
  NoValue = NoValue
  System = system
  Token = api_token
  MaxKeys = 2
  ListMax = 1
  QueueDepth = 1
  NoTask = NoTask
SPECIFICATION Spec
INVARIANTS
  TypeOK
  TokenInSync
  MutexHasHolder
PROPERTIES
  KeepsWrites
CHECK_DEADLOCK FALSE
