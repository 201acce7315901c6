CONSTANTS
  Txs <- Mixed
  Coins <- FirstCoins
  Ids = {"a", "b"}
  Period = 1
  Lifetime = 2
  SystemSize <- Growing
  MaxSize = 4
  MaxAhead = 2
  MaxPending = 3
  MaxSwitch = 2
  MaxBlocks = 3
  MaxTime = 3
SPECIFICATION Spec
INVARIANTS TypeOK NoTransactionTwice GeneratedBlockApplies
PROPERTIES SessionRecreated CulledOnlyIfInvalid
