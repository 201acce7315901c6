CONSTANTS
  MaxOps = 2
  FirstAccounts = 1
  MaxAccounts = 2
  MaxOrders = 3
  MaxDeflations = 2
SPECIFICATION Spec
INVARIANTS TypeOK ChargedAtMostOnce TransactionApplies ClearedMeansAll
PROPERTY AccountsCleared
