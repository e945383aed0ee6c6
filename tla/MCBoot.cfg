\* Every state the firmware may leave; page tables of four entries; sectors of 3
\* bytes, segments of up to 3; three machines.
CONSTANTS
  NPTENTRIES = 4
  KERNBASE = 12
  BootPage = 1
  TextPage = 2
  DataPage = 3
  SECTSIZE = 3
  HdrSectors = 2
  ELFHDR = 3
  A20 = 9
  Memory <- MCMemory
  Images <- Linked
  MaxSize = 3
  Machines <- PCs
  BOOTSIZE = 1
  CodeSizes = {0, 1, 2}
SPECIFICATION FairBootSpec
INVARIANTS
  BootTypeOK
  ReachesMemory
  Loaded
  ImageWhole
  ConsoleReady
PROPERTIES
  Boots
CHECK_DEADLOCK FALSE
