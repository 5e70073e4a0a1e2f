SPECIFICATION Spec
CONSTANTS
  Writers <- RacingPuts
  Put <- MCPut
  Pids = {1, 2}
  ReusePids = FALSE
  NoContent = NoContent
  Partial = Partial
  MaxRestarts = 1
INVARIANTS
  TypeOK
  NoTornFile
  AcknowledgedPutsAreKept
  PutsFailForACause
PROPERTY
  ImplementsPutStore
CHECK_DEADLOCK FALSE
