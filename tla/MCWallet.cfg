SPECIFICATION Spec
CONSTANTS
  CallIds = {c1, c2}
  Accounts = {w, v}
  from = w
  Malformed = Malformed
  Amounts = {0, 1, 3}
  Opening = 3
  Income = 3
  Fee = 1
  MILLI_ETH_WEI = 2
  I64Max = 2
  MaxHeight = 4
INVARIANTS
  AttestedBalanceIsOfItsBlock
  AttestedTransferIsOnTheChain
  NoCallSpendsTwice
PROPERTY
  CallsAreAnswered
CHECK_DEADLOCK FALSE
