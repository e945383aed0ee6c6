\* Five presses and releases are enough for Ctrl-Alt-Del, for a pair of Ctrl
\* keys going down and up in either order, and for a letter after any of it.
CONSTANTS
  Keys <- MCKeys
  MaxEvents = 5
SPECIFICATION TypingSpec
INVARIANTS
  ModifiersFollow
  CharsAsTyped
CHECK_DEADLOCK FALSE
