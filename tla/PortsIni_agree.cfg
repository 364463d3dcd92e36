SPECIFICATION Spec
CONSTANTS
  Procs = {gui, tcm}
  IniPaths <- TwoPaths
  MaxCalls = 3
  MaxEdits = 1
  MaxLen = 7
INVARIANTS
  WriteSucceeds GetsAgree GotIsInFile
  SplitIsAlwaysRight MergeAlwaysInverts SuffixIsAlwaysReplaced DirsAreAlwaysRight
  ValuesAreAlwaysRead PrecedenceHolds
CHECK_DEADLOCK FALSE
