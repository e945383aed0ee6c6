\* Three tests in two parts, two of them with a QEMU of their own; two lines a read.
CONSTANTS
  BUFSIZE = 2
  Scripts <- MCScripts
  StopLines = {"stop here"}
  TESTS <- MCTESTS
  parent <- MCparent
  points <- MCpoints
  UsesQemu = {"jos", "user"}
  Wants <- MCWants
  Selections <- MCSelections
SPECIFICATION FairGradeSpec
INVARIANT ShutDown
CHECK_DEADLOCK FALSE
