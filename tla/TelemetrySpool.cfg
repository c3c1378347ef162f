CONSTANTS
  Capacity = 2
  MaxSpool = 3
  MaxBody = 1
  MaxScrapes = 3
  MaxFaults = 2
SPECIFICATION FairSpec
INVARIANTS
  TypeOK
  Accounted
PROPERTIES
  FilesLeaveSafely
  SpoolDrains
