\* Two sources in two register halves under every mask, HBL and VBL, and a guest
\* with user, traced and supervisor code that raises traps and illegal instructions
\* and switches between automatic and software end of interrupt; SIGHUP.  The loop of
\* cpu_run never waits.
SPECIFICATION FairSpec
CONSTANTS
  NoVector = NoVector
  Sources = {6, 13}
  Lines = {4}
  SRValues <- AllLevels
  Raised = {4, 32}
  Faults = {}
  Masks <- AllMasks
  EoiModes = {TRUE, FALSE}
  Timers = {13}
  EdgeData = {{}}
  Beam = TRUE
  BadOpcodes = FALSE
  Signals = TRUE
INVARIANTS
  TypeOK
  NoRequestLost
  RequestStillWanted
  ScanLeavesOnlyMasked
  PrefetchReady
PROPERTIES
  HighestFirst
  LatchWakesStop
