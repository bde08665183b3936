----------------------------- MODULE GlueProofs -----------------------------
(* The assertions of glue_clock hold, and a frame in one mode is whole,      *)
(* for every sequence of mode changes.                                     *)
EXTENDS Glue, TLAPS

ModeNames == {"mode_50", "mode_60", "mode_71"}

\* The limits of the modes, as far as the ends of lines and frames need them.
LEMMA TimingFacts ==
  ASSUME NEW m \in ModeNames
  PROVE  /\ Timing[m].end = 54
         /\ Timing[m].length \in {512, 508, 224}
         /\ Timing[m].lines \in {313, 263, 501}
         /\ Timing[m].rows > 54
         /\ \A n \in {224, 508, 512} :
              /\ n # Timing[m].unblank /\ n # Timing[m].on
              /\ n # Timing[m].end /\ n # Timing[m].vbl
              /\ n # Timing[m].off /\ n # Timing[m].event
              /\ n # Timing[m].black /\ n # Timing[m].rows
<1>1. CASE m = "mode_50"
  BY <1>1 DEF Timing
<1>2. CASE m = "mode_60"
  BY <1>2 DEF Timing
<1>3. CASE m = "mode_71"
  BY <1>3 DEF Timing
<1>4. QED
  BY <1>1, <1>2, <1>3 DEF ModeNames

\* The counts at which a mode acts lie within the longest line.
LEMMA StopsAreCounts == Stops \subseteq 0 .. 514
BY GlueAssumption DEF Stops

\* The next of the named counts exists, and none lies in between.
LEMMA NextStopFacts ==
  ASSUME counter \in Stops \cup {0}, counter <= 512
  PROVE  /\ NextStop \in Stops /\ NextStop > counter
         /\ \A k \in Stops : k > counter => NextStop <= k
<1> DEFINE
  c == counter
  b == IF c < 4 THEN 4 ELSE IF c < 24 THEN 24 ELSE IF c < 28 THEN 28
       ELSE IF c < 52 THEN 52 ELSE IF c < 54 THEN 54 ELSE IF c < 56 THEN 56
       ELSE IF c < 80 THEN 80 ELSE IF c < 164 THEN 164
       ELSE IF c < 220 THEN 220 ELSE IF c < 224 THEN 224
       ELSE IF c < 256 THEN 256 ELSE IF c < 372 THEN 372
       ELSE IF c < 376 THEN 376 ELSE IF c < 400 THEN 400
       ELSE IF c < 450 THEN 450 ELSE IF c < 502 THEN 502
       ELSE IF c < 508 THEN 508 ELSE IF c < 512 THEN 512 ELSE 514
  n == IF Wake > c /\ Wake < b THEN Wake ELSE b
<1>1. c \in Int /\ Wake \in Int
  BY StopsAreCounts, GlueAssumption
<1>2. b \in Stops /\ b > c
  BY <1>1 DEF Stops
<1>3. \A k \in Stops \ {Wake} : k > c => b <= k
  BY <1>1, GlueAssumption DEF Stops
<1>4. n \in Stops /\ n > c
  BY <1>1, <1>2 DEF Stops
<1>5. \A k \in Stops : k > c => n <= k
  <2> SUFFICES ASSUME NEW k \in Stops, k > c PROVE n <= k
    OBVIOUS
  <2>1. CASE k = Wake
    BY <1>1, <1>2, <2>1, StopsAreCounts
  <2>2. CASE k # Wake
    BY <1>1, <1>2, <1>3, <2>2, StopsAreCounts
  <2>3. QED
    BY <2>1, <2>2
<1>6. \E s \in Stops : s > counter /\ \A k \in Stops : k > counter => s <= k
  <2> HIDE DEF n
  <2>1. QED
    BY <1>4, <1>5
<1>7. QED
  BY <1>6 DEF NextStop

\* Until the first count 54 no line has ended and no end is set; from there on
\* the beam never passes the end of its line, and is on a line of its frame.
BeamInv ==
  /\ TypeOK
  /\ counterEnd = Unset => counter <= 54 /\ line = 0
  /\ counterEnd # Unset => counter <= counterEnd
  /\ line < lineEnd

\* glue_reset establishes the beam's invariant.
LEMMA InitInv == Init => BeamInv
<1> SUFFICES ASSUME Init PROVE BeamInv
  OBVIOUS
<1>1. TypeOK
  <2>1. /\ h \in BOOLEAN /\ v \in BOOLEAN
        /\ blank \in BOOLEAN /\ steady \in BOOLEAN
    BY Zenon DEF Init
  <2>2. QED
    BY <2>1 DEF Init, TypeOK, Stops, Unset
<1>2. QED
  BY <1>1, GlueAssumption DEF Init, BeamInv, Unset

\* The mode is one of glue.c's three.
LEMMA ModeType == BeamInv => mode \in ModeNames
BY GlueAssumption DEF BeamInv, TypeOK, ModeNames

\* A change of mode moves nothing.
LEMMA SetModeInv ==
  ASSUME BeamInv, NEW m \in Modes, SetMode(m)
  PROVE  BeamInv'
<1>1. UNCHANGED beamVars /\ mode' \in Modes
  BY DEF SetMode
<1>2. steady' \in BOOLEAN
  BY Zenon DEF SetMode
<1>3. hbls' \in Nat /\ vbls' \in Nat /\ shown' \in Nat
  BY DEF SetMode, BeamInv, TypeOK
<1>4. QED
  BY <1>1, <1>2, <1>3 DEF BeamInv, TypeOK, beamVars, Stops

\* An act before the end of the line sets the ends that the mode has, the one
\* of the frame on its first line only.
LEMMA ActInv ==
  ASSUME BeamInv, Act
  PROVE  BeamInv'
<1> DEFINE t == Timing[mode]
<1>1. mode \in ModeNames
  BY ModeType
<1>2. /\ t.end = 54 /\ t.length \in {512, 508, 224}
      /\ t.lines \in {313, 263, 501} /\ t.rows > 54
      /\ \A n \in {224, 508, 512} : ~(counter = n /\ Named(t))
  BY <1>1, TimingFacts DEF Named
<1>3. Named(t) /\ ModeStep(t) /\ Raise(t) /\ counter' = NextStop
      /\ line' = line /\ mode' = mode
  BY DEF Act
<1> HIDE DEF t
<1>4. /\ counter \in Stops \cup {0} /\ counter \in 0 .. 514
      /\ line \in 0 .. 1000
      /\ counterEnd \in {1000, 512, 508, 224}
      /\ lineEnd \in {1000, 313, 263, 501}
  BY StopsAreCounts DEF BeamInv, TypeOK, Unset
<1>5. counterEnd # 1000 => counter < counterEnd
  BY <1>2, <1>3, <1>4 DEF BeamInv, Unset
<1>6. counter <= 512
  BY <1>4, <1>5 DEF BeamInv, Unset
<1>7. /\ counter' \in Stops /\ counter' > counter
      /\ \A k \in Stops : k > counter => counter' <= k
  BY <1>3, <1>4, <1>6, NextStopFacts
<1>8. /\ counterEnd' = (IF counter = 54 THEN t.length ELSE counterEnd)
      /\ lineEnd' = (IF counter = t.rows /\ line = 0 THEN t.lines ELSE lineEnd)
  BY <1>2, <1>3 DEF ModeStep
<1>9. counter' <= 54 \/ counterEnd' # 1000
  <2>1. CASE counter < 54
    BY <1>4, <1>7, <2>1, StopsAreCounts DEF Stops
  <2>2. CASE counter >= 54
    BY <1>2, <1>4, <1>8, <2>2 DEF BeamInv, Unset
  <2>3. QED
    BY <1>4, <2>1, <2>2
<1>10. counterEnd' \in {1000, 512, 508, 224}
  BY <1>2, <1>4, <1>8
<1>11. counterEnd' # 1000 => counter' <= counterEnd'
  <2>1. SUFFICES ASSUME counterEnd' # 1000 PROVE counter' <= counterEnd'
    OBVIOUS
  <2>2. counterEnd' \in Stops
    BY <1>10, <2>1 DEF Stops
  <2>3. counter < counterEnd'
    BY <1>2, <1>4, <1>5, <1>8, <2>1
  <2>4. QED
    BY <1>7, <2>2, <2>3
<1>12. lineEnd' \in {1000, 313, 263, 501} /\ line' < lineEnd'
  BY <1>2, <1>3, <1>4, <1>8 DEF BeamInv
<1>13. counterEnd' = 1000 => line' = 0
  BY <1>2, <1>3, <1>8 DEF BeamInv, Unset
<1>14. h' \in BOOLEAN /\ v' \in BOOLEAN /\ blank' \in BOOLEAN
  BY <1>3, Zenon DEF ModeStep
<1>15. steady' \in BOOLEAN /\ hbls' \in Nat /\ vbls' \in Nat /\ shown' \in Nat
  BY <1>3 DEF Raise, Bump, BeamInv, TypeOK
<1>16. TypeOK'
  BY <1>3, <1>4, <1>7, <1>10, <1>12, <1>14, <1>15
     DEF TypeOK, BeamInv, Unset, Stops
<1>17. QED
  BY <1>9, <1>11, <1>12, <1>13, <1>16, <1>7, StopsAreCounts DEF BeamInv, Unset

\* A line ends at its end and the next one starts before it.
LEMMA EndOfLineInv ==
  ASSUME BeamInv, EndOfLine
  PROVE  BeamInv'
<1>1. /\ counter = counterEnd /\ counter' = 0 /\ counterEnd' = counterEnd
      /\ lineEnd' = lineEnd /\ mode' = mode /\ h' = h /\ blank' = blank
  BY DEF EndOfLine
<1>2. /\ line \in 0 .. 1000 /\ counterEnd \in {1000, 512, 508, 224}
      /\ lineEnd \in {1000, 313, 263, 501} /\ line < lineEnd
  BY DEF BeamInv, TypeOK, Unset
<1>3. counterEnd # 1000
  BY <1>1, <1>2 DEF BeamInv, Unset
<1>4. line' \in 0 .. 1000 /\ line' < lineEnd
  <2>1. CASE line + 1 = lineEnd
    BY <1>2, <2>1 DEF EndOfLine
  <2>2. CASE line + 1 # lineEnd
    BY <1>2, <2>2 DEF EndOfLine
  <2>3. QED
    BY <2>1, <2>2
<1>5. v' \in BOOLEAN /\ steady' \in BOOLEAN
  <2>1. CASE line + 1 = lineEnd
    BY <2>1 DEF EndOfLine
  <2>2. CASE line + 1 # lineEnd
    BY <2>2 DEF EndOfLine, BeamInv, TypeOK
  <2>3. QED
    BY <2>1, <2>2
<1>6. hbls' \in Nat /\ vbls' \in Nat /\ shown' \in Nat
  BY DEF EndOfLine, BeamInv, TypeOK
<1>7. TypeOK'
  BY <1>1, <1>4, <1>5, <1>6 DEF BeamInv, TypeOK, Unset, Stops
<1>8. QED
  BY <1>1, <1>2, <1>3, <1>4, <1>7 DEF BeamInv, Unset

\* A count that no mode names is passed only before the end of the line.
LEMMA PassInv ==
  ASSUME BeamInv, Pass
  PROVE  BeamInv'
<1>1. /\ ~Named(Timing[mode]) /\ counter # counterEnd /\ counter' = NextStop
      /\ line' = line /\ mode' = mode /\ counterEnd' = counterEnd
      /\ lineEnd' = lineEnd
  BY DEF Pass
<1>2. /\ counter \in Stops \cup {0} /\ counter \in 0 .. 514
      /\ counterEnd \in {1000, 512, 508, 224}
  BY StopsAreCounts DEF BeamInv, TypeOK, Unset
<1>3. counterEnd # 1000 => counter < counterEnd
  BY <1>1, <1>2 DEF BeamInv, Unset
<1>4. counter <= 512
  BY <1>2, <1>3 DEF BeamInv, Unset
<1>5. /\ counter' \in Stops /\ counter' > counter
      /\ \A k \in Stops : k > counter => counter' <= k
  BY <1>1, <1>2, <1>4, NextStopFacts
<1>6. counter # 54
  <2>1. Timing[mode].end = 54
    BY ModeType, TimingFacts
  <2>2. QED
    BY <1>1, <2>1 DEF Named
<1>7. counterEnd = 1000 => counter' <= 54
  BY <1>2, <1>5, <1>6 DEF BeamInv, Unset, Stops
<1>8. counterEnd # 1000 => counter' <= counterEnd
  <2>1. counterEnd # 1000 => counterEnd \in Stops
    BY <1>2 DEF Stops
  <2>2. QED
    BY <1>3, <1>5, <2>1
<1>9. TypeOK'
  BY <1>1, <1>5 DEF Pass, history, BeamInv, TypeOK, Unset, Stops
<1>10. QED
  BY <1>1, <1>7, <1>8, <1>9 DEF BeamInv, Unset

\* Every call of glue_clock and every change of mode keeps it.
LEMMA NextInv == BeamInv /\ [Next]_vars => BeamInv'
<1> SUFFICES ASSUME BeamInv, [Next]_vars PROVE BeamInv'
  OBVIOUS
<1>1. CASE Act
  BY <1>1, ActInv
<1>2. CASE EndOfLine
  BY <1>2, EndOfLineInv
<1>3. CASE Pass
  BY <1>3, PassInv
<1>4. ASSUME NEW m \in Modes, SetMode(m)
      PROVE  BeamInv'
  BY <1>4, SetModeInv
<1>5. CASE UNCHANGED vars
  BY <1>5 DEF vars, beamVars, history, BeamInv, TypeOK, Stops
<1>6. QED
  BY <1>1, <1>2, <1>3, <1>4, <1>5 DEF Next, GlueClock

\* It holds in every reachable state.
LEMMA BeamInvariant == Spec => []BeamInv
BY InitInv, NextInv, PTL DEF Spec

\* The beam's counters and outputs keep their types (glue.c:51-56).
THEOREM TypeCorrect == Spec => []TypeOK
<1>1. BeamInv => TypeOK
  BY DEF BeamInv
<1>2. QED
  BY <1>1, BeamInvariant, PTL

\* No line and no frame runs past its end (glue.c:179-180), for every set of
\* modes and every first count.
THEOREM RangeCorrect == Spec => []InRange
<1>1. BeamInv => InRange
  <2> SUFFICES ASSUME BeamInv PROVE InRange
    OBVIOUS
  <2>1. /\ counter \in 0 .. 514 /\ line \in 0 .. 1000
        /\ counterEnd \in {1000, 512, 508, 224}
        /\ lineEnd \in {1000, 313, 263, 501}
    BY StopsAreCounts DEF BeamInv, TypeOK, Unset
  <2>2. counter <= 512
    BY <2>1 DEF BeamInv, Unset
  <2>3. QED
    BY <2>1, <2>2 DEF BeamInv, InRange
<1>2. QED
  BY <1>1, BeamInvariant, PTL

-----------------------------------------------------------------------------
(* A frame in one mode *)

\* Where a mode acts along a line, and on which lines.
LEMMA TimingOrder ==
  ASSUME NEW m \in ModeNames
  PROVE  LET t == Timing[m]
         IN  /\ {t.on, t.off, t.event, t.rows, t.vbl, t.end} \subseteq Stops
             /\ {t.on, t.off, t.event, t.rows, t.vbl, t.end, t.length} \subseteq Int
             /\ t.on < t.off /\ t.off <= t.event /\ t.event < t.rows
             /\ t.rows < t.length /\ t.vbl < t.length /\ t.end = 54
             /\ 0 < t.on /\ 0 < t.vbl
             /\ {t.first, t.last, t.lines, t.vblLine} \subseteq Int
             /\ 0 < t.first /\ t.first < t.last /\ t.last < t.lines
             /\ 0 < t.vblLine /\ (m # "mode_60" => t.vblLine = t.lines - 1)
             /\ t.last - t.first = (IF m = "mode_71" THEN 400 ELSE 200)
             /\ 54 < t.length
<1>1. CASE m = "mode_50"
  BY <1>1 DEF Timing, Stops
<1>2. CASE m = "mode_60"
  BY <1>2 DEF Timing, Stops
<1>3. CASE m = "mode_71"
  BY <1>3 DEF Timing, Stops
<1>4. QED
  BY <1>1, <1>2, <1>3 DEF ModeNames

\* The beam has passed the count n of line l.
Passed(l, n) == line > l \/ (line = l /\ counter > n)

\* The rows that are displayed before line n in mode t.
ShownBefore(t, n) ==
  IF n <= t.first + 1 THEN 0
  ELSE IF n > t.last THEN t.last - t.first
  ELSE n - t.first - 1

\* In a frame that kept its mode, what is set and counted so far is what the
\* mode sets and raises up to where the beam is.
LineInv(t) ==
  /\ counter > t.end => counterEnd = t.length
  /\ hbls = (IF counter > t.on THEN 1 ELSE 0)
  /\ counter > t.off => ~h

RowsInv(t) ==
  /\ Passed(0, t.rows) => lineEnd = t.lines
  /\ v <=> Passed(t.first, t.rows) /\ ~Passed(t.last, t.rows)
  /\ shown = ShownBefore(t, IF counter > t.event THEN line + 1 ELSE line)

VblInv(t) ==
  mode # "mode_60" => vbls = (IF Passed(t.vblLine, t.vbl) THEN 1 ELSE 0)

FrameInv ==
  steady => LineInv(Timing[mode]) /\ RowsInv(Timing[mode]) /\ VblInv(Timing[mode])

\* The next named count is beyond a named count exactly if the beam is there already.
LEMMA Advances ==
  ASSUME counter \in Stops \cup {0}, counter <= 512, counter' = NextStop
  PROVE  \A s \in Stops : counter' > s <=> counter >= s
<1>1. /\ counter' \in Stops /\ counter' > counter
      /\ \A k \in Stops : k > counter => counter' <= k
  BY NextStopFacts
<1>2. counter \in Int /\ \A s \in Stops : s \in Int
  BY StopsAreCounts
<1>3. QED
  BY <1>1, <1>2

\* What the beam's invariant says of the counts, as numbers.
LEMMA BeamFacts ==
  ASSUME BeamInv
  PROVE  /\ mode \in ModeNames
         /\ counter \in Stops \cup {0} /\ counter \in 0 .. 514 /\ counter <= 512
         /\ counterEnd \in {1000, 512, 508, 224}
         /\ lineEnd \in {1000, 313, 263, 501}
         /\ line \in 0 .. 1000 /\ line < lineEnd
         /\ h \in BOOLEAN /\ v \in BOOLEAN /\ steady \in BOOLEAN
         /\ hbls \in Nat /\ vbls \in Nat /\ shown \in Nat
<1>1. /\ counter \in Stops \cup {0} /\ counter \in 0 .. 514
      /\ counterEnd \in {1000, 512, 508, 224}
      /\ lineEnd \in {1000, 313, 263, 501}
      /\ line \in 0 .. 1000
  BY StopsAreCounts DEF BeamInv, TypeOK, Unset
<1>2. counter <= 512
  BY <1>1 DEF BeamInv, Unset
<1>3. QED
  BY <1>1, <1>2, ModeType DEF BeamInv, TypeOK

\* The end of a line of such a frame is the mode's.
LEMMA EndIsOwn ==
  ASSUME BeamInv, LineInv(Timing[mode]), counter = counterEnd
  PROVE  counter = Timing[mode].length
<1>1. counter > 54
  BY BeamFacts DEF BeamInv, Unset
<1>2. Timing[mode].end = 54
  BY BeamFacts, TimingOrder
<1>3. QED
  BY <1>1, <1>2 DEF LineInv

\* A count at which the mode acts sets and raises what is due there.
LEMMA ActFrame ==
  ASSUME BeamInv, FrameInv, Act
  PROVE  FrameInv'
<1> DEFINE t == Timing[mode]
<1>1. /\ mode' = mode /\ line' = line /\ ModeStep(t) /\ Raise(t)
      /\ counter' = NextStop /\ steady' = steady
  BY DEF Act, Raise
<1>2. SUFFICES ASSUME steady PROVE LineInv(t)' /\ RowsInv(t)' /\ VblInv(t)'
  BY <1>1 DEF FrameInv
<1>3. LineInv(t) /\ RowsInv(t) /\ VblInv(t)
  BY <1>2 DEF FrameInv
<1>4. /\ {t.on, t.off, t.event, t.rows, t.vbl, t.end} \subseteq Stops
      /\ {t.on, t.off, t.event, t.rows, t.vbl, t.end, t.length} \subseteq Int
      /\ t.on < t.off /\ t.off <= t.event /\ t.event < t.rows
      /\ t.rows < t.length /\ t.vbl < t.length /\ t.end = 54
      /\ {t.first, t.last, t.lines, t.vblLine} \subseteq Int
      /\ 0 < t.first /\ t.first < t.last /\ t.last < t.lines
      /\ 0 < t.vblLine
  BY BeamFacts, TimingOrder
<1>t. t' = t
  BY <1>1
<1> HIDE DEF t
<1>n. /\ t.first \in Int /\ t.last \in Int /\ t.rows \in Int /\ t.event \in Int
      /\ t.on \in Int /\ t.off \in Int
      /\ counter \in Int /\ line \in Int
  BY <1>4, BeamFacts
<1>5. \A s \in {t.on, t.off, t.event, t.rows, t.vbl, t.end} : counter' > s <=> counter >= s
  BY <1>1, <1>4, BeamFacts, Advances
<1>6. LineInv(t)'
  <2>1. counter' > t.end => counterEnd' = t.length
    BY <1>1, <1>3, <1>4, <1>5, BeamFacts DEF ModeStep, LineInv
  <2>2. hbls' = (IF counter' > t.on THEN 1 ELSE 0)
    BY <1>1, <1>2, <1>3, <1>4, <1>5, BeamFacts DEF Raise, Bump, LineInv
  <2>3. counter' > t.off => ~h'
    <3>1. h' <=> (h \/ counter = t.on) /\ counter # t.off
      BY <1>1 DEF ModeStep
    <3>2. counter > t.off => ~h
      BY <1>3 DEF LineInv
    <3>3. counter' > t.off => counter >= t.off
      BY <1>5
    <3>4. counter >= t.off => counter # t.on /\ (counter > t.off \/ counter = t.off)
      BY <1>4, <1>n
    <3>5. QED
      BY <3>1, <3>2, <3>3, <3>4, Zenon
  <2>4. QED
    BY <1>t, <2>1, <2>2, <2>3 DEF LineInv
<1>7. RowsInv(t)'
  <2>1. Passed(0, t.rows)' => lineEnd' = t.lines
    BY <1>1, <1>3, <1>4, <1>5, <1>t, BeamFacts DEF ModeStep, RowsInv, Passed
  <2>2. v' <=> Passed(t.first, t.rows)' /\ ~Passed(t.last, t.rows)'
    <3>1. v' <=> /\ v \/ (counter = t.rows /\ line = t.first)
                 /\ ~(counter = t.rows /\ line = t.last)
      BY <1>1 DEF ModeStep
    <3>2. v <=> Passed(t.first, t.rows) /\ ~Passed(t.last, t.rows)
      BY <1>3 DEF RowsInv
    <3>3. \A n \in Int : Passed(n, t.rows)' <=> Passed(n, t.rows) \/ (line = n /\ counter = t.rows)
      BY <1>1, <1>4, <1>5, <1>t, BeamFacts DEF Passed
    <3>4. \A n \in Int : ~(Passed(n, t.rows) /\ line = n /\ counter = t.rows)
      BY <1>n DEF Passed
    <3>5. Passed(t.last, t.rows) => Passed(t.first, t.rows)
      BY <1>4, <1>n DEF Passed
    <3>6. line = t.first => line # t.last /\ ~Passed(t.last, t.rows)
      BY <1>4, <1>n DEF Passed
    <3>7. Passed(t.first, t.rows)' <=> Passed(t.first, t.rows) \/ (line = t.first /\ counter = t.rows)
      BY <1>4, <1>t, <3>3
    <3>8. Passed(t.last, t.rows)' <=> Passed(t.last, t.rows) \/ (line = t.last /\ counter = t.rows)
      BY <1>4, <1>t, <3>3
    <3>9. QED
      BY <3>1, <3>2, <3>5, <3>6, <3>7, <3>8, Zenon
  <2>3. shown' = ShownBefore(t, IF counter' > t.event THEN line + 1 ELSE line)
    <3>1. shown' = (IF counter = t.event /\ v THEN shown + 1 ELSE shown)
      BY <1>1, <1>2 DEF Raise, Bump
    <3>2. shown = ShownBefore(t, IF counter > t.event THEN line + 1 ELSE line)
      BY <1>3 DEF RowsInv
    <3>3. counter' > t.event <=> counter >= t.event
      BY <1>5
    <3>4. counter = t.event => (v <=> line > t.first /\ line <= t.last)
      <4>1. v <=> Passed(t.first, t.rows) /\ ~Passed(t.last, t.rows)
        BY <1>3 DEF RowsInv
      <4>2. counter = t.event => ~(counter > t.rows)
        BY <1>4, <1>n
      <4>3. counter = t.event => (Passed(t.first, t.rows) <=> line > t.first)
        BY <4>2 DEF Passed
      <4>4. counter = t.event => (Passed(t.last, t.rows) <=> line > t.last)
        BY <4>2 DEF Passed
      <4>5. line > t.last <=> ~(line <= t.last)
        BY <1>n
      <4>6. QED
        BY <4>1, <4>3, <4>4, <4>5, Zenon
    <3>5. CASE counter = t.event
      <4>1. /\ shown = ShownBefore(t, line)
            /\ shown' = IF v THEN shown + 1 ELSE shown
            /\ v <=> line > t.first /\ line <= t.last
        BY <1>n, <3>1, <3>2, <3>4, <3>5
      <4>2. ShownBefore(t, line + 1) = IF line > t.first /\ line <= t.last
                                       THEN ShownBefore(t, line) + 1
                                       ELSE ShownBefore(t, line)
        BY <1>4, <1>n DEF ShownBefore
      <4>3. shown' = ShownBefore(t, line + 1)
        BY <4>1, <4>2
      <4>4. QED
        BY <1>n, <3>3, <3>5, <4>3
    <3>6. CASE counter # t.event
      BY <1>4, <3>1, <3>2, <3>3, <3>6, BeamFacts
    <3>7. QED
      BY <3>5, <3>6
  <2>4. QED
    BY <1>1, <1>t, <2>1, <2>2, <2>3 DEF RowsInv, ShownBefore
<1>8. VblInv(t)'
  <2>1. vbls' = (IF counter = t.vbl /\ line = t.vblLine THEN vbls + 1 ELSE vbls)
    BY <1>1, <1>2 DEF Raise, Bump
  <2>2. counter' > t.vbl <=> counter >= t.vbl
    BY <1>5
  <2>3. QED
    BY <1>1, <1>3, <1>4, <1>t, <2>1, <2>2, BeamFacts DEF VblInv, Passed
<1>9. QED
  BY <1>6, <1>7, <1>8

\* Nothing is set and nothing is due at a count the mode does not name.
LEMMA PassFrame ==
  ASSUME BeamInv, FrameInv, Pass
  PROVE  FrameInv'
<1> DEFINE t == Timing[mode]
<1>1. /\ ~Named(t) /\ counter' = NextStop
      /\ UNCHANGED <<mode, line, counterEnd, lineEnd, h, v, history>>
  BY DEF Pass
<1>2. UNCHANGED <<steady, hbls, vbls, shown>>
  BY <1>1 DEF history
<1>3. SUFFICES ASSUME steady PROVE LineInv(t)' /\ RowsInv(t)' /\ VblInv(t)'
  BY <1>1, <1>2 DEF FrameInv
<1>4. LineInv(t) /\ RowsInv(t) /\ VblInv(t)
  BY <1>3 DEF FrameInv
<1>5. /\ {t.on, t.off, t.event, t.rows, t.vbl, t.end} \subseteq Stops
      /\ {t.on, t.off, t.event, t.rows, t.vbl, t.end, t.length} \subseteq Int
  BY BeamFacts, TimingOrder
<1>t. t' = t
  BY <1>1
<1> HIDE DEF t
<1>6. \A s \in {t.on, t.off, t.event, t.rows, t.vbl, t.end} : counter' > s <=> counter > s
  <2>1. \A s \in {t.on, t.off, t.event, t.rows, t.vbl, t.end} : counter' > s <=> counter >= s
    BY <1>1, <1>5, BeamFacts, Advances
  <2>2. \A s \in {t.on, t.off, t.event, t.rows, t.vbl, t.end} : counter # s
    BY <1>1 DEF Named
  <2>3. counter \in Int
    BY BeamFacts
  <2>4. SUFFICES ASSUME NEW s \in {t.on, t.off, t.event, t.rows, t.vbl, t.end}
                 PROVE  counter' > s <=> counter > s
    OBVIOUS
  <2>5. s \in Int
    BY <1>5
  <2>6. QED
    BY <2>1, <2>2, <2>3, <2>5
<1>7. /\ counter' > t.on <=> counter > t.on
      /\ counter' > t.off <=> counter > t.off
      /\ counter' > t.event <=> counter > t.event
      /\ counter' > t.rows <=> counter > t.rows
      /\ counter' > t.vbl <=> counter > t.vbl
      /\ counter' > t.end <=> counter > t.end
  BY <1>6
<1>8. LineInv(t)'
  BY <1>1, <1>2, <1>4, <1>7, <1>t DEF LineInv
<1>9. RowsInv(t)'
  BY <1>1, <1>2, <1>4, <1>7, <1>t DEF RowsInv, Passed, ShownBefore
<1>10. VblInv(t)'
  BY <1>1, <1>2, <1>4, <1>7, <1>t DEF VblInv, Passed
<1>11. QED
  BY <1>8, <1>9, <1>10

\* The next line, or the next frame, begins with nothing set and nothing due.
LEMMA EndOfLineFrame ==
  ASSUME BeamInv, FrameInv, EndOfLine
  PROVE  FrameInv'
<1> DEFINE t == Timing[mode]
<1>1. /\ counter = counterEnd /\ counter' = 0 /\ hbls' = 0
      /\ UNCHANGED <<mode, counterEnd, lineEnd, h>>
  BY DEF EndOfLine
<1>2. /\ {t.on, t.off, t.event, t.rows, t.vbl, t.end, t.length} \subseteq Int
      /\ t.on < t.off /\ t.off <= t.event /\ t.event < t.rows
      /\ t.rows < t.length /\ t.vbl < t.length /\ t.end = 54
      /\ 0 < t.on /\ 0 < t.vbl
      /\ 0 < t.first /\ t.first < t.last /\ t.last < t.lines
      /\ 0 < t.vblLine
  BY BeamFacts, TimingOrder
<1>n. /\ t.first \in Int /\ t.last \in Int /\ t.vblLine \in Int
      /\ t.on \in Int /\ t.off \in Int /\ t.event \in Int /\ t.rows \in Int
      /\ t.vbl \in Int /\ t.length \in Int
      /\ counter \in Int /\ line \in Nat
  BY BeamFacts, TimingOrder
<1>t. t' = t
  BY <1>1
<1>3. steady => LineInv(t) /\ RowsInv(t) /\ VblInv(t) /\ counter = t.length
  BY <1>1, EndIsOwn DEF FrameInv
<1>4. SUFFICES LineInv(t)' /\ (steady' => RowsInv(t)' /\ VblInv(t)')
  BY <1>1 DEF FrameInv
<1> HIDE DEF t
<1>5. LineInv(t)'
  BY <1>1, <1>2, <1>n, <1>t DEF LineInv
<1>6. CASE line + 1 = lineEnd
  <2>1. line' = 0 /\ v' = FALSE /\ vbls' = 0 /\ shown' = 0
    BY <1>6 DEF EndOfLine
  <2>2. ~(counter' > t.rows) /\ ~(counter' > t.event) /\ ~(counter' > t.vbl)
    BY <1>1, <1>2, <1>n
  <2>3. RowsInv(t)'
    BY <1>2, <1>n, <1>t, <2>1, <2>2 DEF RowsInv, Passed, ShownBefore
  <2>4. VblInv(t)'
    BY <1>2, <1>n, <1>t, <2>1, <2>2 DEF VblInv, Passed
  <2>5. QED
    BY <1>5, <2>3, <2>4
<1>7. CASE line + 1 # lineEnd
  <2>1. line' = line + 1 /\ UNCHANGED <<v, steady, vbls, shown>>
    BY <1>7 DEF EndOfLine
  <2>2. SUFFICES ASSUME steady PROVE RowsInv(t)' /\ VblInv(t)'
    BY <1>5, <2>1
  <2>3. LineInv(t) /\ RowsInv(t) /\ VblInv(t) /\ counter = t.length
    BY <1>3, <2>2
  <2>4. \A n \in Int : Passed(n, t.rows)' <=> Passed(n, t.rows)
    BY <1>1, <1>2, <1>n, <1>t, <2>1, <2>3 DEF Passed
  <2>5. \A n \in Int : Passed(n, t.vbl)' <=> Passed(n, t.vbl)
    BY <1>1, <1>2, <1>n, <1>t, <2>1, <2>3 DEF Passed
  <2>6. lineEnd' = t.lines
    BY <1>1, <1>2, <1>n, <2>3 DEF RowsInv, Passed
  <2>7. v' <=> Passed(t.first, t.rows)' /\ ~Passed(t.last, t.rows)'
    BY <1>n, <1>t, <2>1, <2>3, <2>4 DEF RowsInv
  <2>8. shown' = ShownBefore(t, line')
    BY <1>2, <1>n, <2>1, <2>3 DEF RowsInv
  <2>9. ~(counter' > t.event)
    BY <1>1, <1>2, <1>n
  <2>10. RowsInv(t)'
    BY <1>t, <2>6, <2>7, <2>8, <2>9 DEF RowsInv, ShownBefore
  <2>11. VblInv(t)'
    BY <1>1, <1>n, <1>t, <2>1, <2>3, <2>5 DEF VblInv
  <2>12. QED
    BY <2>10, <2>11
<1>8. QED
  BY <1>6, <1>7

\* What is counted in a frame is what its mode sets and raises.
LEMMA FrameStep == BeamInv /\ FrameInv /\ [Next]_vars => FrameInv'
<1> SUFFICES ASSUME BeamInv, FrameInv, [Next]_vars PROVE FrameInv'
  OBVIOUS
<1>1. CASE Act
  BY <1>1, ActFrame
<1>2. CASE EndOfLine
  BY <1>2, EndOfLineFrame
<1>3. CASE Pass
  BY <1>3, PassFrame
<1>4. ASSUME UNCHANGED beamVars,
             steady' => mode' = mode /\ steady /\ UNCHANGED <<hbls, vbls, shown>>
      PROVE  FrameInv'
  BY <1>4 DEF beamVars, FrameInv, LineInv, RowsInv, VblInv, Passed, ShownBefore
<1>5. ASSUME NEW m \in Modes, SetMode(m)
      PROVE  FrameInv'
  <2>1. UNCHANGED beamVars /\ mode' = m /\ (steady' <=> steady /\ m = mode)
    BY <1>5 DEF SetMode
  <2>2. steady' => UNCHANGED <<hbls, vbls, shown>>
    BY <1>5 DEF SetMode
  <2>3. QED
    BY <1>4, <2>1, <2>2
<1>6. CASE UNCHANGED vars
  BY <1>4, <1>6 DEF vars, history
<1>7. QED
  BY <1>1, <1>2, <1>3, <1>5, <1>6 DEF Next, GlueClock

\* A frame that keeps its mode raises HBL once on each of its lines, leaves the
\* display off at their ends, shows all of its rows and raises its VBL once
\* (glue.c:99-151), also when the frame before it was cut off in another mode.
THEOREM FrameCorrect == Spec => FrameIsComplete
<1>1. Init => FrameInv
  BY DEF Init, FrameInv
<1>2. ASSUME BeamInv, FrameInv, steady, EndOfLine
      PROVE  /\ hbls = 1 /\ ~h
             /\ Vsync => shown = Rows /\ (mode # "mode_60" => vbls = 1)
  <2> DEFINE t == Timing[mode]
  <2>1. LineInv(t) /\ RowsInv(t) /\ VblInv(t) /\ counter = t.length
    BY <1>2, EndIsOwn DEF FrameInv, EndOfLine
  <2>2. /\ t.on < t.off /\ t.off <= t.event /\ t.event < t.rows
        /\ t.rows < t.length /\ t.vbl < t.length
        /\ 0 < t.first /\ t.first < t.last /\ t.last < t.lines
        /\ 0 < t.vblLine /\ (mode # "mode_60" => t.vblLine = t.lines - 1)
        /\ t.last - t.first = Rows
    BY <1>2, BeamFacts, TimingOrder DEF Rows
  <2>3. /\ t.first \in Int /\ t.last \in Int /\ t.lines \in Int /\ t.vblLine \in Int
        /\ t.on \in Int /\ t.off \in Int /\ t.event \in Int /\ t.rows \in Int
        /\ t.vbl \in Int /\ t.length \in Int
        /\ counter \in Int /\ line \in Nat
    BY <1>2, BeamFacts, TimingOrder
  <2> HIDE DEF t
  <2>4. hbls = 1 /\ ~h
    BY <2>1, <2>2, <2>3 DEF LineInv
  <2>5. ASSUME Vsync PROVE shown = Rows /\ (mode # "mode_60" => vbls = 1)
    <3>1. line + 1 = lineEnd /\ lineEnd = t.lines
      BY <2>1, <2>2, <2>3, <2>5 DEF Vsync, RowsInv, Passed
    <3>2. shown = ShownBefore(t, line + 1)
      BY <2>1, <2>2, <2>3 DEF RowsInv
    <3>3. shown = Rows
      BY <2>2, <2>3, <3>1, <3>2 DEF ShownBefore
    <3>4. mode # "mode_60" => vbls = 1
      BY <2>1, <2>2, <2>3, <3>1 DEF VblInv, Passed
    <3>5. QED
      BY <3>3, <3>4
  <2>6. QED
    BY <2>4, <2>5
<1>3. BeamInv /\ FrameInv /\ [Next]_vars
        => [steady => /\ EndOfLine => hbls = 1 /\ ~h
                      /\ Vsync => shown = Rows /\ (mode # "mode_60" => vbls = 1)]_vars
  BY <1>2 DEF Vsync
<1>4. QED
  BY <1>1, <1>3, FrameStep, BeamInvariant, PTL DEF Spec, FrameIsComplete
=============================================================================
