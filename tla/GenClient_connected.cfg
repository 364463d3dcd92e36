SPECIFICATION Spec
CONSTANTS
  Timeout = 3
  Holdoff = 2
  MaxTime = 6
  MaxIn = 3
  Events = {"reset"}
INVARIANTS ConnectedIsOpen
CHECK_DEADLOCK FALSE
