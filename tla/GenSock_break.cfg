SPECIFICATION FairSpec
CONSTANTS
  Client = Client
  Server = Server
  HdrSz = 2
  TrlSz = 1
  MaxMsg = 1
  Sizes = {1}
  NetCap = 3
  MaxSends <- OneAndNone
  Events = {"broken"}
PROPERTIES BreakIsNoticed
CHECK_DEADLOCK FALSE
