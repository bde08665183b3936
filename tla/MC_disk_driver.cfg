\* Two requests of any kind in a row, with everything that may go on during the waits.
SPECIFICATION FairSpec
CONSTANTS
  Inserted = {"A"}
  Tracks = 2
  Sectors = 2
  Sides = 2
  MaxHead = 3
  RamBlocks = 3
  Contents <- AllContents
  Header = Header
  Absent = Absent
  Sources = {7}
  Lines = {5}
  PendingTime = 2
  Cycles = {1, 2}
  HardBlocks = 3
  Connected = TRUE
  Requests <- AllRequests
  MaxRequests = 2
  Meddling = {1}
  None = None
PROPERTIES
  StoreSpec
  RequestsEnd
CHECK_DEADLOCK FALSE
