SPECIFICATION Spec
CONSTANTS
  Apps = {a1}
  Ports = {p1, p2}
  MyApp = a1
  MyPort = p1
  a1 = a1
  p1 = p1
  p2 = p2
  MaxCalls = 3
  Events <- AllEvents
INVARIANTS TypeOK YesIsTrue NoChangesNothing MyPortIsOpen ProfileAccounted
CHECK_DEADLOCK FALSE
