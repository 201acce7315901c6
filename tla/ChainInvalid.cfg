CONSTANTS
  Blocks <- Spoilt
  Valid <- SpoiltValid
  Producer <- SpoiltSigned
  Witnesses = {"w1", "w2"}
  Nested = {1}
  InitialMax = 10
  None = None
SPECIFICATION RunningSpec
INVARIANTS LevelsLeadBack LongestForkFollowed
PROPERTY SwitchCompletes
