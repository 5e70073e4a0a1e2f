SPECIFICATION Spec
CONSTANTS
  Writers <- RacingPuts
  Put <- MCPut
  Pids = {1, 2}
  ReusePids = FALSE
  NoContent = NoContent
  Partial = Partial
  MaxRestarts = 1
PROPERTY
  StoredContentIsKept
CHECK_DEADLOCK FALSE
