CONSTANTS
  httpd = httpd
  button = button
  blink = blink
  hello = hello
  Tasks = {httpd, button}
  Modules = {blink}
  AutoStart = {blink}
  NumJobs = 2
  MaxInst = 1
SPECIFICATION Spec
INVARIANTS
  StopUndoesStart
CHECK_DEADLOCK FALSE
