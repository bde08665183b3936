\* The lines of every mode in any order, with WS = 0, 2 and 3: display enable
\* comes at count 56, WS cycles less after power-up.
SPECIFICATION Spec
CONSTANTS
  Lines <- LinesOfModes
  Starts = {57, 55, 54}
  Nothing = Nothing
INVARIANTS
  NoLoadMissed
PROPERTIES
  CallsInTime
  GroupsInOrder
  WordsShownWhole
  LineStartsFresh
