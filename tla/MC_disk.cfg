\* Any guest: commands that move the head and commands that fail, the hard disk
\* and the MFP's registers, between polls of half a command's time and more.
SPECIFICATION FairSpec
CONSTANTS
  Inserted = {"A"}
  Tracks = 1
  Sectors = 1
  Sides = 1
  MaxHead = 1
  RamBlocks = 1
  Contents = {0}
  Header = 0
  Absent = 0
  Sources = {7}
  Lines = {5}
  PendingTime = 512
  Cycles = {256, 512}
  HardBlocks = 1
  Connected = TRUE
  Modes = {"control", "parameter", "count", "sector", "command"}
  Directions = {"read"}
  Counts = {0}
  HighBytes = {64}
  MedBytes = {0}
  RegisterBytes = {0}
  Commands = {"restore", "seek", "step", "stepin", "stepout", "readtrack", "readaddr"}
  HardCommands <- OneHardCommand
  Parameters = {0}
  SelectLines <- DriveAOnOff
  GpipData = {{}, {5}}
  Edges = {{}, {5}}
  Masks = {{}, {7}}
  Levels = {0}
INVARIANTS
  LineFollowsCommand
PROPERTIES
  EndsInWindow
  EndRequests
  LineFalls
