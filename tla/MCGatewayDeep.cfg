SPECIFICATION Spec
CONSTANTS
  Allow <- MCAllow
  Bounds <- MCBounds
  I64Max = 3
  NotInteger = NotInteger
  Calls <- MCCalls
  Discovered <- MCDiscovered
  Tokens <- MCTokens
  PrincipalFor <- MCPrincipalFor
  Values <- MCValues
  LintError = LintError
  Code <- MCCode
  VmNext <- MCVmNext
  Outputs <- MCOutputs
  VmErrors <- MCVmErrors
  Unconvertible <- MCUnconvertible
  Misfits <- MCMisfits
  Oversized <- MCOversized
  Runs = {r1}
  Programs <- DeepPrograms
  MaxCrashes = 1
INVARIANTS
  TypeOK
  OnlyPermittedCallsAreSent
  LogZipsWithTranscript
  TraceAccountsForEveryCall
  AnswersAreHonest


CHECK_DEADLOCK FALSE
