CONSTANTS
  Types = {t1}
  Values = {v1, v2}
  None = None
  MaxInstance = 2
  MaxNesting = 4
  MaxSizes = {2}
SPECIFICATION Spec
INVARIANTS TypeOK MergeIsCausal RevertNeverThrows EveryLevelRestores
PROPERTIES ActiveLevelsKept RollsBackToSnapshots
SYMMETRY Symm
