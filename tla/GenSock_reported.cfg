SPECIFICATION FairSpec
CONSTANTS
  Client = Client
  Server = Server
  HdrSz = 2
  TrlSz = 1
  MaxMsg = 1
  Sizes = {1}
  NetCap = 3
  MaxSends <- TwoAndOne
  Events <- NoEvents
PROPERTIES ReportedIsEnqueued
CHECK_DEADLOCK FALSE
