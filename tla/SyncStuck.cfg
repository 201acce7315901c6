CONSTANTS
  Peers = {"p", "q"}
  Blocks = {"a1", "a2", "a3"}
  Genesis = "none"
  Parent <- Tree
  Invalid = {}
  Start = "a1"
  PeerStart <- Together
  IdsLimit = 3
  MinIds = 3
  PerPeer = 2
  MaxHandle = 2
  MaxReceived = 1
  MaxLost <- Never
  MaxAdvances <- Never
  MaxMissing <- Never
SPECIFICATION Spec
CHECK_DEADLOCK FALSE
PROPERTY SyncEnds
