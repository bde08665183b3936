\* A guest that reads the keyboard only from its interrupt handler.
SPECIFICATION DriverSpec
CONSTANTS
  Sources = {6}
  Lines = {4}
  Nothing = Nothing
  FifoSize = 2
  HostEvents = {"key", "stick"}
  Commands = {9, 13, 20, 26, 128, 1}
  Masks = {{}, {6}}
  EoiModes = {TRUE, FALSE}
  Rising = FALSE
INVARIANTS
  HandlerFindsByte
PROPERTIES
  BytesAreRead
