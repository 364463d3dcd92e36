SPECIFICATION Spec
CONSTANTS
  Procs = {gui, tcm}
  IniPaths <- TwoPaths
  MaxCalls = 3
  MaxEdits = 1
  MaxLen = 7
INVARIANTS WhitespaceIsAlwaysPreserved
CHECK_DEADLOCK FALSE
