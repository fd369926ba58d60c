CONSTANTS
  f1 = f1
  f2 = f2
  f3 = f3
  nobody = nobody
  Others = {"dispatcher", "worker"}
  Fds = {f1, f2, f3}
  MaxClients = 2
  MaxWorks = 2
  None = nobody
SPECIFICATION WebUiSpec
CHECK_DEADLOCK FALSE
INVARIANTS
  NoTaskBlocks
