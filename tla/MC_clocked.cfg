\* Every clocked instruction with every operand, and mixed programs.
SPECIFICATION ClockSpec
CONSTANTS
  WordBits = 15
  Code <- ClockedCode
  Tasks <- EqualTasks
  Stack = 96
  None = None
INVARIANTS
  AsTabled
PROPERTIES
  Equivalent
  ClockStops
CHECK_DEADLOCK FALSE
