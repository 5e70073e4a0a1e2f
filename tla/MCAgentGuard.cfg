SPECIFICATION FairSpec
CONSTANTS
  MaxLintStreak = 2
  MaxRuns = 2
  MaxModelCalls = 5
  MaxCalls = 3
INVARIANTS
  TypeOK
  FailedRunIsNeverRetried
  OneExecutePerReply
  SuccessMeansNoFailedRun
PROPERTIES
  StopIsFinal
  AgentEnds
CHECK_DEADLOCK FALSE
