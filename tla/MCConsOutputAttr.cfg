\* One negative character is enough.
CONSTANTS
  CRT_ROWS = 2
  CRT_COLS = 2
  WAITMAX = 1
  Machines <- MCMachines
  PutChars <- MCPutChars
  Colors <- MCColors
  MaxPuts = 1
SPECIFICATION FairSpec
PROPERTY DefaultAttribute
CHECK_DEADLOCK FALSE
