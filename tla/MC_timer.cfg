\* A timer that is started, stopped and switched between two dividers, delay
\* mode and event mode at any time, with passes no longer than a period.
SPECIFICATION Spec
CONSTANTS
  Controls = {0, 1, 8, 10}
  Data = {0, 1, 3}
  Cycles = {4, 8, 12}
  Width = 5
  Events = TRUE
INVARIANTS
  InStep
  CountsDown
