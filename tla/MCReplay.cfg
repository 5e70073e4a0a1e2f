SPECIFICATION Spec
CONSTANTS
  Ids = {1}
  Asked = {1, 2}
  Codes = {"buy", "peek", "loop"}
  Texts = {"t1", "t2"}
  Responses = {"low", "high"}
  Failed = Failed
  Keys = {"k1", "k2"}
  ForeignKey = "k3"
  Missing = Missing
  Unreadable = Unreadable
  MaxAlterations = 1
  At <- MCAt
  Then <- MCThen
  Size <- MCSize
  Limits <- MCLimits
INVARIANTS
  MatchedIsGenuine
  MatchedRanTheRecordedProgram
  RecordedRunsMatch
PROPERTY
  ReplayEnds
CHECK_DEADLOCK FALSE
