------------------------------ MODULE MCVideo ------------------------------
(* The lines of the three modes, for TLC.                                  *)
EXTENDS Video

\* PAL and NTSC in low and medium resolution, and monochrome.
LinesOfModes ==
  {[on |-> 320, off |-> 192, planes |-> 4], [on |-> 320, off |-> 192, planes |-> 2],
   [on |-> 320, off |-> 188, planes |-> 4], [on |-> 160, off |-> 64, planes |-> 1]}

\* They are lines as VideoProofs assumes them.
ASSUME ModesFit == LinesFit
=============================================================================
