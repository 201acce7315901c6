CONSTANTS
  Witnesses = {w1, w2, w3, w4}
  ActiveSets <- ButOneOrOne
  Cycle = 3
  MaxDown = 1
  Threshold = 66
  MaxUndo = 8
  Interval = 4
  SkipSlots = 1
  Window = 4
  Required = 33
SPECIFICATION Spec
SYMMETRY Symmetry
INVARIANTS TypeOK EveryoneHasTurn IrreversibleFollows NeverStops
CHECK_DEADLOCK FALSE
