\* A buffer of three slots wraps and overflows within five bytes.
CONSTANTS
  CONSBUFSIZE = 3
  SerialBytes <- MCSerialBytes
  KbdBytes <- MCKbdBytes
  MaxArrivals = 5
  MaxMouse = 1
SPECIFICATION FairSpec
INVARIANTS
  TypeOK
PROPERTIES
  ImplementsQueue
  InputDrains
CHECK_DEADLOCK FALSE
