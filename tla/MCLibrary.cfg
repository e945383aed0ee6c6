\* ints of 5 bits, long longs of 7; words of two bytes, bytes of three values.
CONSTANTS
  INTBITS = 5
  LLBITS = 7
  MAXERROR = 7
  WORD = 2
  BYTE = 3
  Chars <- MCChars
  Calls <- MCCalls
SPECIFICATION Spec
INVARIANTS
  Formatted
  BufferBounded
  ReadsBack
  StringLibExact
CHECK_DEADLOCK FALSE
