\* Three characters fill three slots, and nothing is left to read.
CONSTANTS
  CONSBUFSIZE = 3
  SerialBytes <- MCSerialBytes
  KbdBytes <- MCKbdBytes
  MaxArrivals = 3
  MaxMouse = 0
SPECIFICATION FairSpec
PROPERTY ZeroMeansNoneWaiting
CHECK_DEADLOCK FALSE
