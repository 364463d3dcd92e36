SPECIFICATION FairSpec
CONSTANTS
  Client = Client
  Server = Server
  HdrSz = 2
  TrlSz = 1
  MaxMsg = 1
  NetCap = 1
  MaxSends <- TwoAndOne
  Sizes = {1}
  Events <- AllEvents
INVARIANTS TypeOK ClosedOnce
PROPERTIES SilentAfterClose ImplementsChannel PeerCloseIsNoticed ZombieIsDeleted
CHECK_DEADLOCK FALSE
