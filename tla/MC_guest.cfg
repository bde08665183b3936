\* Guest programs with operands at the boundaries of each size.
SPECIFICATION Spec
CONSTANTS
  WordBits = 15
  Code <- ProgramCode
  Tasks <- AllTasks
  Stack = 96
INVARIANTS
  ArithmeticExact
  OrderDecided
  LoopsAndCalls
  ShiftsAgree
  BitsAndBytes
PROPERTIES
  ProgramsStop
CHECK_DEADLOCK FALSE
