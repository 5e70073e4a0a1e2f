SPECIFICATION Spec
CONSTANTS
  Writers <- TracePuts
  Put <- MCPut
  Pids = {1, 2}
  ReusePids = TRUE
  NoContent = NoContent
  Partial = Partial
  MaxRestarts = 1
INVARIANT
  PutsFailForACause
CHECK_DEADLOCK FALSE
