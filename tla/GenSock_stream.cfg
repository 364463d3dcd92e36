SPECIFICATION FairSpec
CONSTANTS
  Client = Client
  Server = Server
  HdrSz = 2
  TrlSz = 1
  MaxMsg = 5
  Sizes = {0, 1}
  NetCap = 3
  MaxSends <- ThreeAndOne
  Events <- NoEvents
INVARIANTS SendAccounting FramingIntact DeliveredInOrder
PROPERTIES EnqueuedIsDelivered SendBufferDrains
CHECK_DEADLOCK FALSE
