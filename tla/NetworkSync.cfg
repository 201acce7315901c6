CONSTANTS
  Peers = {"p", "q"}
  Blocks = {"a1", "a2", "a3", "b2", "b3", "b4"}
  Genesis = "none"
  Parent <- Tree
  Invalid = {"b3"}
  Start = "none"
  PeerStart <- Forked
  IdsLimit = 2
  MinIds = 2
  PerPeer = 2
  MaxHandle = 2
  MaxReceived = 1
  MaxLost <- OnlyQ
  MaxAdvances <- OnlyP
  MaxMissing <- OnlyP
SPECIFICATION Spec
CHECK_DEADLOCK FALSE
INVARIANTS TypeOK RequestsMatch SyncInOrder SuspensionEnds ListsFollow
