------------------------------- MODULE Video -------------------------------
(***************************************************************************)
(* From display enable to pixels: the delayed calls of clock.c, the MMU's  *)
(* LOAD (mmu.c) and the Shifter's state machine (shifter.c), cycle by      *)
(* cycle in the order of clock_step.                                       *)
(*                                                                         *)
(* The GLUE is an input here: on each displayed line it holds DE for a     *)
(* number of cycles of its mode, then leaves it off for the rest.  A word  *)
(* of the screen is its number modulo 8, and a rotating register holds a   *)
(* word and how many of its 16 pixels are still to be drawn.               *)
(***************************************************************************)
EXTENDS Integers, Sequences, FiniteSets

CONSTANTS
  Lines,      \* displayed lines, [on, off : cycles, planes : bitplanes]
  Starts,     \* cycles from power-up to the first DE
  Nothing     \* no word

ASSUME VideoAssumption ==
  /\ \A l \in Lines :
       l.on \in Nat \ {0} /\ l.off \in Nat \ {0} /\ l.planes \in {1, 2, 4}
  /\ Starts \subseteq Nat \ {0}

\* What the modes of the GLUE make of it (glue.c:113-169): whole groups of sixteen
\* cycles of display, a blank that is a multiple of the MMU's four cycles and
\* longer than the last group takes, and a first display enable that is no multiple
\* of them after power-up.
LinesFit ==
  /\ \A l \in Lines : l.on % 16 = 0 /\ l.off % 4 = 0 /\ l.off >= 20
  /\ \A s \in Starts : s % 4 # 0

VARIABLES
  at,           \* the part of clock_step that runs next
  beam,         \* cycles until the GLUE changes DE
  row,          \* the last line displayed
  de,           \* de of the MMU and of the Shifter
  clock,        \* the MMU's clock, modulo 4
  load,
  queue,        \* first_delay, each clock relative to the one before
  fetched,      \* words read from the screen, modulo 8 (scrptr)
  IR, RR, loads, reload, loadPixels, rrPixels, counting,
  next          \* history: the word the next group begins with

glueVars == <<beam, row, de>>
mmuVars == <<clock, load, fetched>>
shifterVars == <<IR, RR, loads, reload, loadPixels, rrPixels, counting>>
vars == <<at, glueVars, mmuVars, queue, shifterVars, next>>

Blank == [word |-> Nothing, left |-> 0]

Init ==
  /\ at = "calls" /\ beam \in Starts /\ row \in Lines
  /\ de = FALSE /\ clock = 0 /\ load = FALSE /\ fetched = 0
  /\ queue = <<>>
  /\ IR = [i \in 0 .. 3 |-> Nothing] /\ RR = [i \in 0 .. 3 |-> Blank]
  /\ loads = 0 /\ reload = FALSE /\ counting = FALSE
  /\ loadPixels = 4 /\ rrPixels = 0
  /\ next = 0

-----------------------------------------------------------------------------
(* The queue of clock.c. *)

\* The cycles until the k-th call of q.
Elapsed(q, k) ==
  LET sum[i \in 0 .. k] == IF i = 0 THEN 0 ELSE sum[i - 1] + q[i].clock IN sum[k]

\* How many calls of q come no later than after n cycles.
Before(q, n) ==
  CHOOSE k \in 0 .. Len(q) :
    Elapsed(q, k) <= n /\ (k < Len(q) => Elapsed(q, k + 1) > n)

\* clock_delay: behind the calls of the same cycle; the call behind it counts
\* from it.
Delay(q, cycles, f) ==
  LET k == Before(q, cycles)
      c == cycles - Elapsed(q, k)
      after == SubSeq(q, k + 1, Len(q))
  IN  SubSeq(q, 1, k) \o <<[clock |-> c, callback |-> f]>>
      \o (IF after = <<>> THEN <<>>
          ELSE <<[after[1] EXCEPT !.clock = @ - c]>> \o Tail(after))

\* Mutant of Due: a cycle early.
MutDueEarly == queue # <<>> /\ Head(queue).clock <= 1

Due == queue # <<>> /\ Head(queue).clock = 0

\* A callback whose time has come.
Call ==
  /\ at = "calls" /\ Due
  /\ LET f == Head(queue).callback
     IN  /\ load' = CASE f = "raise_load" -> TRUE
                      [] f = "lower_load" -> FALSE
                      [] OTHER -> load
         /\ loads' = IF f = "increment_loads" /\ loads < 4 THEN loads + 1
                     ELSE loads
         /\ counting' = (counting \/ f = "set_counting")
  /\ queue' = Tail(queue)
  /\ UNCHANGED <<at, glueVars, clock, fetched, IR, RR, reload, loadPixels,
                 rrPixels, next>>

\* No further callback in this cycle.
Count ==
  /\ at = "calls" /\ ~Due
  /\ queue' = IF queue = <<>> THEN <<>> ELSE [queue EXCEPT ![1].clock = @ - 1]
  /\ at' = "glue"
  /\ UNCHANGED <<glueVars, mmuVars, shifterVars, next>>

-----------------------------------------------------------------------------
(* DE and LOAD. *)

\* The delay of raise_load and lower_load.
LoadDelay == 2

\* glue_clock calls mmu_de and shifter_de.  The guest changes the resolution
\* between the lines.
Glue ==
  /\ at = "glue"
  /\ IF beam > 1
     THEN beam' = beam - 1 /\ UNCHANGED <<row, de, queue>>
     ELSE /\ de' = ~de
          /\ queue' = Delay(queue, LoadDelay, IF de' THEN "raise_load" ELSE "lower_load")
          /\ IF de' THEN row' \in Lines /\ beam' = row'.on
             ELSE row' = row /\ beam' = row.off
  /\ at' = "mmu"
  /\ UNCHANGED <<mmuVars, shifterVars, next>>

\* Mutants of Load: the registers are filled from the wrong end, and the pixel
\* counter is started although the display is off.
MutReversed ==
  /\ IR' = IF loads < 4 THEN [IR EXCEPT ![3 - loads] = fetched] ELSE IR
  /\ LET q == Delay(queue, 0, "increment_loads")
     IN  queue' = IF de THEN Delay(q, 2, "set_counting") ELSE q
  /\ fetched' = (fetched + 1) % 8

MutAlwaysCounting ==
  /\ IR' = IF loads < 4 THEN [IR EXCEPT ![loads] = fetched] ELSE IR
  /\ LET q == Delay(queue, 0, "increment_loads")
     IN  queue' = Delay(q, 2, "set_counting")
  /\ fetched' = (fetched + 1) % 8

\* shifter_load of the word at scrptr.
Load ==
  /\ IR' = IF loads < 4 THEN [IR EXCEPT ![loads] = fetched] ELSE IR
  /\ LET q == Delay(queue, 0, "increment_loads")
     IN  queue' = IF de THEN Delay(q, 2, "set_counting") ELSE q
  /\ fetched' = (fetched + 1) % 8

Fetches == clock = 2 /\ load

\* mmu_clock
Mmu ==
  /\ at = "mmu"
  /\ IF Fetches THEN Load ELSE UNCHANGED <<IR, queue, fetched>>
  /\ clock' = (clock + 1) % 4
  /\ at' = "shifter"
  /\ UNCHANGED <<glueVars, load, RR, loads, reload, loadPixels, rrPixels,
                 counting, next>>

-----------------------------------------------------------------------------
(* The Shifter. *)

\* res.draw: in each cycle 1, 2 or 4 pixels out of as many registers as planes.
Drawn ==
  [i \in 0 .. 3 |->
    IF i < row.planes /\ RR[i].left > 0
    THEN [RR[i] EXCEPT !.left = @ - 4 \div row.planes] ELSE RR[i]]

\* Mutant of Shifts: a cycle early.
MutEarly ==
  \/ row.planes = 2 /\ rrPixels = 6
  \/ row.planes = 1 /\ rrPixels % 4 = 2

\* The registers that shift_rr moves others into, and from where.
Shifts ==
  \/ row.planes = 2 /\ rrPixels = 7
  \/ row.planes = 1 /\ rrPixels % 4 = 3

Shifted ==
  IF Shifts
  THEN [i \in 0 .. 3 |->
         IF i + row.planes < 4 THEN Drawn[i + row.planes] ELSE Blank]
  ELSE Drawn

Counted == IF counting THEN loadPixels + 1 ELSE 4

\* Mutant of Loads: the loads are not counted anew.
MutNoReload == loads

\* The four loads are complete at the moment the pixel counter comes round.
Loads == IF reload THEN 0 ELSE loads

Round == Counted = 15
LoadsRR == Round /\ Loads = 4

\* shifter_clock
Shifter ==
  /\ at = "shifter"
  /\ RR' = IF LoadsRR THEN [i \in 0 .. 3 |-> [word |-> IR[i], left |-> 16]]
           ELSE Shifted
  /\ loads' = Loads
  /\ reload' = LoadsRR
  /\ counting' = (counting /\ (LoadsRR => de))
  /\ loadPixels' = IF Round THEN -1 ELSE Counted
  /\ rrPixels' = IF Round THEN 0
                 ELSE IF rrPixels = 15 THEN 12 ELSE rrPixels + 1
  /\ next' = IF LoadsRR THEN (next + 4) % 8 ELSE next
  /\ at' = "calls"
  /\ UNCHANGED <<glueVars, mmuVars, queue, IR>>

Next == Call \/ Count \/ Glue \/ Mmu \/ Shifter

Spec == Init /\ [][Next]_vars

-----------------------------------------------------------------------------
(* Properties *)

\* The calls that queue makes after n cycles.
DueIn(n) ==
  LET now(k) == Elapsed(queue, k) = n
  IN  [i \in 1 .. Cardinality({k \in 1 .. Len(queue) : now(k)}) |->
        LET k == CHOOSE k \in 1 .. Len(queue) :
                   now(k) /\ Cardinality({j \in 1 .. k : now(j)}) = i
        IN  queue[k].callback]

Calls == INSTANCE DelayedCalls WITH
  Callbacks <- {"raise_load", "lower_load", "increment_loads", "set_counting"},
  MaxDelay <- 2, due <- [n \in 0 .. 2 |-> DueIn(n)]

\* The list of relative delays (clock.c:14-50) makes every call in its cycle,
\* once and in order.
CallsInTime == Calls!Spec

\* No word that is read from the screen is thrown away (shifter.c:361), which
\* would lose 16 pixels and put the rest of the line into the wrong planes.
NoLoadMissed == at = "mmu" /\ Fetches => loads < 4

\* The registers are copied when exactly the next four words are there, "at
\* the right time" (shifter.c:310-311), also on the line after any other.
GroupsInOrder ==
  [][Shifter /\ LoadsRR => \A i \in 0 .. 3 : IR[i] = (next + i) % 8]_vars

\* No pixel is cut off by a copy over it.
WordsShownWhole ==
  [][Shifter => /\ Shifts => \A i \in 0 .. row.planes - 1 : Drawn[i].left = 0
                /\ LoadsRR => \A i \in 0 .. 3 : Shifted[i].left = 0]_vars

\* When a line begins all words of the lines before it are drawn, and the
\* Shifter waits for the first.
LineStartsFresh ==
  [][Glue /\ de' /\ ~de =>
       /\ next = fetched /\ loads = 0 /\ ~counting
       /\ \A i \in 0 .. 3 : RR[i].left = 0]_vars
=============================================================================
