CONSTANTS
  MaxOps = 2
  FirstAccounts = 2
  MaxAccounts = 2
  MaxOrders = 3
  MaxDeflations = 1
SPECIFICATION Spec
PROPERTY DeflationFinishes
