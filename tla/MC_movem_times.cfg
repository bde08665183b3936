SPECIFICATION ClockSpec
CONSTANTS
  WordBits = 15
  Code <- ClockedCode
  Tasks <- EqualTasks
  Stack = 96
  None = None
INVARIANT MovemTimes
CHECK_DEADLOCK FALSE
