SPECIFICATION FairSpec
CONSTANTS
  Timeout = 3
  Holdoff = 2
  MaxTime = 6
  MaxIn = 3
  Events <- AllEvents
INVARIANTS TypeOK OneVerdict ConnectedBeforeRcv GuiAgrees
PROPERTIES VerdictComes ProgressEnds
CHECK_DEADLOCK FALSE
