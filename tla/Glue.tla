-------------------------------- MODULE Glue --------------------------------
(***************************************************************************)
(* The video timing of the GLUE, as glue.c emulates it: where the beam is, *)
(* when a line and a frame end, when the display is enabled, and when HBL, *)
(* VBL and Timer B events are raised.  The guest may change the mode, the  *)
(* monitor's resolution or the PAL/NTSC bit, at any time.                  *)
(*                                                                         *)
(* The code counts cycles and looks at every even count.  Nothing happens  *)
(* at a count that no mode names, so a step here goes from one of the      *)
(* named counts (Stops) to the next.                                       *)
(***************************************************************************)
EXTENDS Integers

CONSTANTS
  Modes,      \* the modes the guest selects, among "mode_50" ...
  Wake        \* first value of the counter, the environment's WS

ASSUME GlueAssumption ==
  /\ Modes \subseteq {"mode_50", "mode_60", "mode_71"} /\ Modes # {}
  /\ Wake \in 0 .. 54

VARIABLES
  mode,         \* mode_fn
  counter,      \* the count the beam is at
  line,
  counterEnd,   \* counter_end
  lineEnd,      \* line_end
  h, v,         \* horizontal and vertical display enable
  blank,        \* shifter_blank
  steady,       \* history: the mode is the one the frame began with
  hbls,         \* history: HBL raised in this line of a steady frame
  vbls,         \* history: VBL raised in this steady frame
  shown         \* history: Timer B events in this steady frame

beamVars == <<counter, line, counterEnd, lineEnd, h, v, blank>>
history == <<steady, hbls, vbls, shown>>
vars == <<mode, beamVars, history>>

\* The counts at which a mode acts, and its limits.
Timing == [
  mode_50 |-> [unblank |-> 28, on |-> 56, end |-> 54, vbl |-> 256, off |-> 376,
               event |-> 400, black |-> 450, rows |-> 502,
               length |-> 512, vblLine |-> 312, lines |-> 313,
               first |-> 63, last |-> 263],
  mode_60 |-> [unblank |-> 24, on |-> 52, end |-> 54, vbl |-> 256, off |-> 372,
               event |-> 400, black |-> 450, rows |-> 502,
               length |-> 508, vblLine |-> 263, lines |-> 263,
               first |-> 34, last |-> 234],
  mode_71 |-> [unblank |-> -1, on |-> 4, end |-> 54, vbl |-> 80, off |-> 164,
               event |-> 164, black |-> -1, rows |-> 220,
               length |-> 224, vblLine |-> 500, lines |-> 501,
               first |-> 50, last |-> 450]]

\* The values of counter_end and line_end before a mode has set them.
Unset == 1000

\* 514 is a count the code never reaches.
Stops == {Wake} \cup
         {4, 24, 28, 52, 54, 56, 80, 164, 220, 224, 256, 372, 376, 400, 450,
          502, 508, 512, 514}

\* Counters stay within a frame, and an end of line or frame is unset or one of
\* a mode's (glue.c:51-58).
TypeOK ==
  /\ mode \in Modes \cup {"mode_60"}
  /\ counter \in Stops \cup {0}
  /\ counterEnd \in {Unset, 512, 508, 224}
  /\ lineEnd \in {Unset, 313, 263, 501}
  /\ line \in 0 .. Unset
  /\ h \in BOOLEAN /\ v \in BOOLEAN /\ blank \in BOOLEAN
  /\ steady \in BOOLEAN
  /\ hbls \in Nat /\ vbls \in Nat /\ shown \in Nat

\* glue_reset; "60Hz is the default at power-up".
Init ==
  /\ mode = "mode_60"
  /\ counter = Wake /\ line = 0
  /\ counterEnd = Unset /\ lineEnd = Unset
  /\ h = FALSE /\ v = FALSE /\ blank = FALSE
  /\ steady = FALSE
  /\ hbls = 0 /\ vbls = 0 /\ shown = 0

-----------------------------------------------------------------------------

\* Mutant of SetMode: another mode restarts the line.
MutRestart(m) ==
  /\ mode' = m
  /\ steady' = (steady /\ m = mode)
  /\ IF steady' THEN UNCHANGED <<hbls, vbls, shown>>
     ELSE hbls' = 0 /\ vbls' = 0 /\ shown' = 0
  /\ counter' = IF m = mode THEN counter ELSE 0
  /\ UNCHANGED <<line, counterEnd, lineEnd, h, v, blank>>

\* glue_set_resolution, glue_set_sync.
SetMode(m) ==
  /\ mode' = m
  /\ steady' = (steady /\ m = mode)
  /\ IF steady' THEN UNCHANGED <<hbls, vbls, shown>>
     ELSE hbls' = 0 /\ vbls' = 0 /\ shown' = 0
  /\ UNCHANGED beamVars

NextStop ==
  CHOOSE n \in Stops : n > counter /\ \A k \in Stops : k > counter => n <= k

\* Mutants of ModeStep: line_end set on any line, and the last row lost.
MutLatched(t) ==
  /\ h' = ((h \/ counter = t.on) /\ counter # t.off)
  /\ blank' = ((blank \/ counter = t.black) /\ counter # t.unblank)
  /\ counterEnd' = IF counter = t.end THEN t.length ELSE counterEnd
  /\ lineEnd' = IF counter = t.rows THEN t.lines ELSE lineEnd
  /\ v' = ((v \/ (counter = t.rows /\ line = t.first))
           /\ ~(counter = t.rows /\ line = t.last))

MutLastRow(t) ==
  /\ h' = ((h \/ counter = t.on) /\ counter # t.off)
  /\ blank' = ((blank \/ counter = t.black) /\ counter # t.unblank)
  /\ counterEnd' = IF counter = t.end THEN t.length ELSE counterEnd
  /\ lineEnd' = IF counter = t.rows /\ line = 0 THEN t.lines ELSE lineEnd
  /\ v' = ((v \/ (counter = t.rows /\ line = t.first))
           /\ ~(counter = t.rows /\ line = t.last - 1))

\* One call of the mode's function at a count it names.
ModeStep(t) ==
  /\ h' = ((h \/ counter = t.on) /\ counter # t.off)
  /\ blank' = ((blank \/ counter = t.black) /\ counter # t.unblank)
  /\ counterEnd' = IF counter = t.end THEN t.length ELSE counterEnd
  /\ lineEnd' = IF counter = t.rows /\ line = 0 THEN t.lines ELSE lineEnd
  /\ v' = ((v \/ (counter = t.rows /\ line = t.first))
           /\ ~(counter = t.rows /\ line = t.last))

Named(t) ==
  counter \in {t.unblank, t.on, t.end, t.vbl, t.off, t.event, t.black, t.rows}

Bump(n, raised) == IF raised /\ steady THEN n + 1 ELSE n

\* What the mode raises at this count.
Raise(t) ==
  /\ hbls' = Bump(hbls, counter = t.on)
  /\ vbls' = Bump(vbls, counter = t.vbl /\ line = t.vblLine)
  /\ shown' = Bump(shown, counter = t.event /\ v)
  /\ UNCHANGED steady

\* A count the mode acts on; the end of a line is not looked for there.
Act ==
  LET t == Timing[mode]
  IN  /\ Named(t)
      /\ ModeStep(t)
      /\ Raise(t)
      /\ counter' = NextStop
      /\ UNCHANGED <<line, mode>>

\* hsync and, at the last line, vsync.
EndOfLine ==
  /\ ~Named(Timing[mode])
  /\ counter = counterEnd
  /\ counter' = 0
  /\ hbls' = 0
  /\ IF line + 1 = lineEnd
     THEN /\ line' = 0 /\ v' = FALSE
          /\ steady' = TRUE /\ vbls' = 0 /\ shown' = 0
     ELSE /\ line' = line + 1
          /\ UNCHANGED <<v, steady, vbls, shown>>
  /\ UNCHANGED <<mode, counterEnd, lineEnd, h, blank>>

\* Any other count.
Pass ==
  /\ ~Named(Timing[mode])
  /\ counter # counterEnd
  /\ counter' = NextStop
  /\ UNCHANGED <<mode, line, counterEnd, lineEnd, h, v, blank, history>>

GlueClock == Act \/ EndOfLine \/ Pass

Next == GlueClock \/ \E m \in Modes : SetMode(m)

Spec == Init /\ [][Next]_vars

\* Cycles keep coming.
FairSpec == Spec /\ WF_vars(GlueClock)

-----------------------------------------------------------------------------
(* Properties *)

\* The assertions of glue_clock (glue.c:179-180) hold whatever modes the guest
\* selects, and when: no line and no frame runs past its end, although an end
\* is only looked for at one count, and set at another by another mode.
InRange == counter <= 512 /\ line <= lineEnd

Vsync == EndOfLine /\ line + 1 = lineEnd

Rows == IF mode = "mode_71" THEN 400 ELSE 200

\* A frame in one mode is whole, also when the one before was cut off in another
\* mode: each of its lines raises HBL once and leaves the display off, it shows
\* the 200 rows of a colour or the 400 rows of a monochrome picture and, in the
\* modes of 50 and 71 Hz, raises VBL once (glue.c:99-151).
FrameIsComplete ==
  [][steady => /\ EndOfLine => hbls = 1 /\ ~h
               /\ Vsync => shown = Rows /\ (mode # "mode_60" => vbls = 1)]_vars

\* Frames go on ending, whatever the guest does to the mode.
FramesRecur == []<>(line = 0 /\ counter = 0)
=============================================================================
