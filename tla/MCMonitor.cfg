\* Lines of up to 5 characters, two words at most; three rows of three are just
\* enough for a prompt and a full line.
CONSTANTS
  CRT_ROWS = 3
  CRT_COLS = 3
  BUFLEN = 6
  MAXARGS = 3
  TestDepth = 1
  Glyph = 111
  Leftovers <- MCLeftovers
  Prompt <- MCPrompt
  Inputs <- MCInputs
  WHITESPACE <- MCWHITESPACE
  commands <- MCcommands
SPECIFICATION FairSpec
INVARIANTS
  TypeOK
  LineOnScreen
  ArgvIsWords
  BacktraceLists
  Responds
  InOwnColours
PROPERTIES
  ImplementsEditor
  Prompts
CHECK_DEADLOCK FALSE
