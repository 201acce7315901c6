CONSTANTS
  Blocks <- Wild
  Valid <- WildValid
  Producer <- WildSigned
  Witnesses = {"w1", "w2"}
  Nested = {1}
  InitialMax = 10
  None = None
SPECIFICATION Spec
INVARIANTS TypeOK ChainIsValid
PROPERTY RestartStaysOnFork
