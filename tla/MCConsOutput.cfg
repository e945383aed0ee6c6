\* Two rows of two: a tab's five spaces scroll more than a whole screen.  Ports
\* that are slow, missing or never ready; one poll before they are given up.
CONSTANTS
  CRT_ROWS = 2
  CRT_COLS = 2
  WAITMAX = 1
  Machines <- MCMachines
  PutChars <- MCPutChars
  Colors <- MCColors
  MaxPuts = 4
SPECIFICATION FairSpec
INVARIANTS
  TypeOK
  PortsCarryPuts
PROPERTIES
  ImplementsTerminal
  PutReturns
CHECK_DEADLOCK FALSE
