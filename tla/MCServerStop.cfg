SPECIFICATION Spec
CONSTANTS
  alice = alice
  bob = bob
  stranger = stranger
  quick = quick
  reader = reader
  broken = broken
  NONE = NONE
  Principals <- MCPrincipals
  tokens <- MCTokens
  Presented <- MCPresented
  Sessions = {s1}
  RequestIds = {r1, r2}
  Programs <- MCPrograms
  Compiles <- MCCompiles
  Calls <- MCCalls
INVARIANT
  EveryStartedRunLeavesATrace
CHECK_DEADLOCK FALSE
