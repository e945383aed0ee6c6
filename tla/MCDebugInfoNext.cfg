\* entry.S and a C file of one or two functions, at every address in and around
\* them; any table of four stabs.
CONSTANTS
  LinkedTables <- MCLinked
  Tables <- MCTables
  Addrs <- MCAddrs
  ULIM = 8
  N = 4
  MaxValue = 4
SPECIFICATION MCSpec
INVARIANT StartsBelow
CHECK_DEADLOCK FALSE
