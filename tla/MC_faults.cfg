\* Bus and address errors in the guest's accesses, in exception frames and at
\* the handlers, in both end-of-interrupt modes, and unimplemented opcodes.  The
\* loop of cpu_run never waits.
SPECIFICATION FairSpec
CONSTANTS
  NoVector = NoVector
  Sources = {8, 13}
  Lines = {}
  SRValues <- Tracing
  Raised = {}
  Faults = {2, 3}
  Masks <- OnOff
  EoiModes = {TRUE, FALSE}
  Timers = {8, 13}
  EdgeData = {}
  Beam = FALSE
  BadOpcodes = TRUE
  Signals = TRUE
INVARIANTS
  AutovectorPaired
  RequestOutranksService
PROPERTIES
  TopSourceServed
  PostponedRequestEntered
