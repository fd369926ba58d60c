CONSTANTS
  httpd = httpd
  button = button
  blink = blink
  hello = hello
  Tasks = {httpd}
  Modules = {blink, hello}
  AutoStart = {blink}
  NumJobs = 1
  MaxInst = 3
SPECIFICATION Spec
INVARIANTS
  TypeOK
  JobsAreOwned
  DisabledStaysDown
PROPERTIES
  KeepsLifecycle
CHECK_DEADLOCK FALSE
