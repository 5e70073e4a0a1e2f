SPECIFICATION FairSpec
CONSTANTS
  Allow <- MCAllow
  Bounds <- MCBounds
  I64Max = 3
  NotInteger = NotInteger
  Calls <- MCCalls
  Discovered <- MCDiscovered
  Tokens <- MCTokens
  PrincipalFor <- MCPrincipalFor
  Values <- MCValues
  LintError = LintError
  Code <- MCCode
  VmNext <- MCVmNext
  Outputs <- MCOutputs
  VmErrors <- MCVmErrors
  Unconvertible <- MCUnconvertible
  Misfits <- MCMisfits
  Oversized <- MCOversized
  Runs = {r1, r2}
  Programs <- RacingPrograms
  MaxCrashes = 1
INVARIANTS
  StoredTracesReplay
PROPERTY
  ImplementsAuditLog
  EveryRequestIsAnswered
CHECK_DEADLOCK FALSE
