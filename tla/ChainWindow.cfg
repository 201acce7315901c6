CONSTANTS
  Blocks <- Long
  Valid <- Long
  Producer <- LongSigned
  Witnesses = {"w1", "w2"}
  Nested = {1}
  InitialMax = 10
  None = None
SPECIFICATION RunningSpec
INVARIANT SwitchStaysInWindow

