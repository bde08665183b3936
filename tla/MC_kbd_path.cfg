\* Keys, mouse reports, resets and every order of ACIA and MFP accesses
\* around the arrival of a byte, against the channel.
SPECIFICATION Spec
CONSTANTS
  Sources = {6}
  Lines = {4}
  Nothing = Nothing
  FifoSize = 2
  HostEvents = {"key"}
  Commands = {13, 128, 1}
  Masks = {{}, {6}}
  EoiModes = {TRUE}
  Rising = TRUE
INVARIANTS
  LowLineIsFull
PROPERTIES
  ChannelSpec
