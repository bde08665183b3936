\* All three modes, changed at any count of any line.
SPECIFICATION FairSpec
CONSTANTS
  Modes = {"mode_50", "mode_60", "mode_71"}
  Wake = 0
INVARIANTS
  InRange
PROPERTIES
  FrameIsComplete
  FramesRecur
