----------------------------- MODULE VideoProofs -----------------------------
(* From display enable to pixels, for lines of any length: the LOADs of a    *)
(* line are counted, copied and drawn in groups of four, and the list of     *)
(* relative delays makes each call in its cycle.                             *)
EXTENDS Video, SequenceTheorems, FiniteSetTheorems, TLAPS

-----------------------------------------------------------------------------
(* The inductive invariant.  Cycles are counted from the first LOAD of a line *)
(* in groups of sixteen: cycle v of group g, with groups before the first and *)
(* after the last while nothing is loaded.  A line has n groups and lasts for *)
(* t cycles; from DE to LOAD it is 3 + j cycles.                              *)

\* The LOADs of group g are within the line.
In(g, n) == g \in 0 .. n - 1

\* The calls of the queue: four LOADs in each group schedule two of them, but
\* the last of a line only one; the edges of LOAD are a few cycles before the
\* first group and at the end of the last.
Item(c, f) == [clock |-> c, callback |-> f]
Inc == Item(0, "increment_loads")
Cnt(c) == Item(c, "set_counting")
Edge(c, g) == Item(c, IF g < 0 THEN "raise_load" ELSE "lower_load")

Cnts(g, v, n) == In(g, n) /\ (g = n - 1 => v < 12)
Edges(g, n) == g \in {-1, n - 1}

IncDue(g, v, n) == In(g, n) /\ v % 4 = 1
CntDue(g, v, n) == Cnts(g, v, n) /\ v % 4 = 3
EdgeDue(g, v, j, n) == Edges(g, n) /\ v = 16 - j

\* One call may wait for a later cycle; d is 1 before this cycle is counted.
Waits(g, v, j, n) ==
  \/ Cnts(g, v, n) /\ v % 4 \in {1, 2}
  \/ Edges(g, n) /\ v \in {14 - j, 15 - j}

Later(g, v, j, n, d) ==
  IF Cnts(g, v, n) /\ v % 4 \in {1, 2} THEN Cnt(2 - (v % 4) + d) ELSE Edge(15 - j - v + d, g)

Waiting(g, v, j, n, d) == IF Waits(g, v, j, n) THEN <<Later(g, v, j, n, d)>> ELSE <<>>

\* What is left of the calls of this cycle after p of them.
EdgeLeft(g, v, j, n, p) == EdgeDue(g, v, j, n) /\ p = 0
IncLeft(g, v, j, n, p) == IncDue(g, v, n) /\ p < IF EdgeDue(g, v, j, n) THEN 2 ELSE 1
CntLeft(g, v, n, p) == CntDue(g, v, n) /\ p = 0

Ahead(c, g, v, j, n) ==
  IF Waits(g, v, j, n) THEN <<c, Later(g, v, j, n, 1)>> ELSE <<c>>

AtCalls(g, v, j, n, p) ==
  IF EdgeLeft(g, v, j, n, p)
  THEN IF IncDue(g, v, n) THEN <<Edge(0, g), Inc>> ELSE <<Edge(0, g)>>
  ELSE IF IncLeft(g, v, j, n, p) THEN Ahead(Inc, g, v, j, n)
  ELSE IF CntLeft(g, v, n, p) THEN Ahead(Cnt(0), g, v, j, n)
  ELSE Waiting(g, v, j, n, 1)

\* After the GLUE, which may have changed DE.
AtMmu(g, v, j, n) ==
  IF ~(Edges(g, n) /\ v = 13 - j) THEN Waiting(g, v, j, n, 0)
  ELSE IF Waits(g, v, j, n) THEN <<Later(g, v, j, n, 0), Edge(2, g)>>
  ELSE <<Edge(2, g)>>

\* After a LOAD.
AtShifter(g, v, j, n) ==
  IF ~(In(g, n) /\ v % 4 = 0) THEN AtMmu(g, v, j, n)
  ELSE IF Cnts(g, v, n) THEN <<Inc, Cnt(2)>>
  ELSE IF j = 3 THEN <<Edge(0, g), Inc>>
  ELSE <<Inc, Edge(3 - j, g)>>

Queue(g, v, j, n, p) ==
  CASE at = "calls" -> AtCalls(g, v, j, n, p)
    [] at = "glue" -> Waiting(g, v, j, n, 0)
    [] at = "mmu" -> AtMmu(g, v, j, n)
    [] at = "shifter" -> AtShifter(g, v, j, n)

\* LOAD is on from the first cycle of the display to its last, 3 cycles later.
LoadOn(g, v, j, n) == \/ In(g, n) /\ ~(g = n - 1 /\ v >= 16 - j)
                      \/ g = -1 /\ v >= 16 - j

\* Where the beam is: DE changed b cycles ago, or t if the line is about to end.
BeamInv(g, v, j, n, t) ==
  LET b == 16 * g + v + j + (IF at \in {"calls", "glue"} THEN 2 ELSE 3)
  IN  /\ row \in Lines /\ row.on = 16 * n
      /\ b \in 0 .. t - 1
      /\ de <=> b < 16 * n
      /\ beam = (IF de THEN 16 * n ELSE t) - b
      /\ t % 4 = 0 /\ t >= 16 * n + 20

\* The words counted: the four of a group up to the cycle after the copy.
LoadInv(g, v, j, n, p) ==
  /\ clock = (v + (IF at = "shifter" THEN 3 ELSE 2)) % 4
  /\ load <=> IF at = "calls" /\ EdgeLeft(g, v, j, n, p) THEN g >= 0 ELSE LoadOn(g, v, j, n)
  /\ loads = (IF In(g, n) /\ v \in 1 .. 14 THEN (v + 3) \div 4 ELSE 0)
             - (IF at = "calls" /\ IncLeft(g, v, j, n, p) THEN 1 ELSE 0)
  /\ reload <=> In(g, n) /\ v = 14

\* The pixel counter runs from the third cycle to the last copy.
CountInv(g, v, n, p) ==
  /\ counting <=> /\ In(g, n) /\ ~(g = 0 /\ v < 3) /\ ~(g = n - 1 /\ v > 13)
                  /\ ~(at = "calls" /\ g = 0 /\ v = 3 /\ CntLeft(g, v, n, p))
  /\ loadPixels = IF In(g, n) /\ ~(g = 0 /\ v < 3) /\ ~(g = n - 1 /\ v = 15)
                  THEN IF v < 14 THEN v + 1 ELSE v - 15
                  ELSE 4

\* The words of the group that are in the registers.
Held(g, v, n) ==
  (IF In(g, n) /\ v \in 1 .. 13 THEN (v + 3) \div 4 ELSE 0)
  + (IF at = "shifter" /\ In(g, n) /\ v % 4 = 0 THEN 1 ELSE 0)

WordInv(g, v, n) ==
  /\ next \in 0 .. 7
  /\ fetched = (next + Held(g, v, n)) % 8
  /\ IR = [i \in 0 .. 3 |-> IR[i]]
  /\ \A i \in 0 .. Held(g, v, n) - 1 : IR[i] = (next + i) % 8

\* The group before is drawn in sixteen cycles from the copy on.
Drawing(g, v, n) == (In(g, n) /\ v >= 14) \/ (g \in 1 .. n /\ v < 14)
Place(v) == IF v >= 14 THEN v - 14 ELSE v + 2

\* Pixels left in register i after s cycles.
LeftAt(i, s) ==
  CASE row.planes = 4 -> 16 - s
    [] row.planes = 2 -> IF i < 2 THEN 16 - 2 * (s % 8) ELSE IF s < 8 THEN 16 ELSE 0
    [] row.planes = 1 -> IF i = 0 THEN 16 - 4 * (s % 4) ELSE IF i + (s \div 4) < 4 THEN 16 ELSE 0

PixelInv(g, v, n) ==
  /\ rrPixels \in 0 .. 15
  /\ Drawing(g, v, n) => rrPixels = Place(v)
  /\ RR = [i \in 0 .. 3 |-> [word |-> RR[i].word, left |-> RR[i].left]]
  /\ \A i \in 0 .. 3 : RR[i].left = IF Drawing(g, v, n) THEN LeftAt(i, Place(v)) ELSE 0

\* Calls that are due in this cycle, and made at the control point "calls".
Dues(g, v, j, n) == IF EdgeDue(g, v, j, n) /\ IncDue(g, v, n) THEN 2
                 ELSE IF EdgeDue(g, v, j, n) \/ IncDue(g, v, n) \/ CntDue(g, v, n) THEN 1
                 ELSE 0

LineInv(g, v, j, n, t, p) ==
  /\ at \in {"calls", "glue", "mmu", "shifter"}
  /\ p <= Dues(g, v, j, n)
  /\ BeamInv(g, v, j, n, t)
  /\ queue = Queue(g, v, j, n, p)
  /\ LoadInv(g, v, j, n, p)
  /\ CountInv(g, v, n, p)
  /\ WordInv(g, v, n)
  /\ PixelInv(g, v, n)

VideoInv ==
  \E g \in Int, v \in 0 .. 15, j \in 1 .. 3, n \in Nat \ {0}, t \in Nat, p \in 0 .. 2 :
    LineInv(g, v, j, n, t, p)

-----------------------------------------------------------------------------
(* The list of relative delays *)

\* The parts of a call.
LEMMA ItemFacts ==
  ASSUME NEW c, NEW f
  PROVE  Item(c, f).clock = c /\ Item(c, f).callback = f
BY DEF Item

\* The sums of delays as a function.
Sums(f, q, k) == f = [i \in 0 .. k |-> IF i = 0 THEN 0 ELSE f[i - 1] + q[i].clock]

\* The first two sums are what they say.
LEMMA ElapsedFacts ==
  ASSUME NEW q, NEW k \in 0 .. 2
  PROVE  Elapsed(q, k) = IF k = 0 THEN 0
                         ELSE IF k = 1 THEN 0 + q[1].clock ELSE (0 + q[1].clock) + q[2].clock
<1> DEFINE f == [i \in 0 .. k |-> IF i = 0 THEN 0
                                  ELSE IF i = 1 THEN 0 + q[1].clock
                                  ELSE (0 + q[1].clock) + q[2].clock]
           s == CHOOSE s : Sums(s, q, k)
<1>1. Elapsed(q, k) = s[k]
  BY DEF Elapsed, Sums
<1>2. \A i \in 0 .. k : f[i] = IF i = 0 THEN 0 ELSE f[i - 1] + q[i].clock
  OBVIOUS
<1>3. Sums(f, q, k)
  <2>1. f = [i \in 0 .. k |-> f[i]]
    OBVIOUS
  <2>2. QED
    BY <1>2, <2>1 DEF Sums
<1>4. Sums(s, q, k)
  BY <1>3
<1>5. \A i \in 0 .. k : s[i] = IF i = 0 THEN 0 ELSE s[i - 1] + q[i].clock
  BY <1>4 DEF Sums
<1> HIDE DEF s
<1>6. s[0] = 0 /\ (k >= 1 => s[1] = s[0] + q[1].clock) /\ (k = 2 => s[2] = s[1] + q[2].clock)
  BY <1>5
<1>7. QED
  BY <1>1, <1>6

\* Short sequences, part by part.
LEMMA Short ==
  ASSUME NEW a, NEW b
  PROVE  /\ SubSeq(<<>>, 1, 0) = <<>> /\ SubSeq(<<a>>, 1, 0) = <<>> /\ SubSeq(<<a>>, 2, 1) = <<>>
         /\ SubSeq(<<a>>, 1, 1) = <<a>>
         /\ <<>> \o <<a>> = <<a>> /\ <<a>> \o <<>> = <<a>> /\ <<>> \o <<>> = <<>>
         /\ <<a>> \o <<b>> = <<a, b>>
         /\ Tail(<<a>>) = <<>> /\ Tail(<<a, b>>) = <<b>>
<1>1. <<>> \in Seq({a, b}) /\ <<a>> \in Seq({a, b}) /\ <<b>> \in Seq({a, b}) /\ <<a, b>> \in Seq({a, b})
  OBVIOUS
<1>2. Len(<<a>>) = 1 /\ Len(<<b>>) = 1 /\ Len(<<a, b>>) = 2
  OBVIOUS
<1>3. SubSeq(<<>>, 1, 0) = <<>> /\ SubSeq(<<a>>, 1, 0) = <<>> /\ SubSeq(<<a>>, 2, 1) = <<>>
  BY SubSeqEmpty
<1>4. SubSeq(<<a>>, 1, 1) = <<a>>
  BY <1>1, <1>2, SubSeqFull
<1>5. <<>> \o <<a>> = <<a>> /\ <<a>> \o <<>> = <<a>> /\ <<>> \o <<>> = <<>>
  BY <1>1, ConcatEmptySeq
<1>6. <<a>> \o <<b>> = <<a, b>>
  <2> DEFINE ab == <<a>> \o <<b>>
             pair == <<a, b>>
  <2>1. ab \in Seq({a, b}) /\ Len(ab) = 2 /\ ab[1] = a /\ ab[2] = b
    BY <1>1, <1>2, ConcatProperties
  <2>2. pair \in Seq({a, b}) /\ Len(pair) = 2 /\ pair[1] = a /\ pair[2] = b
    BY <1>1
  <2> HIDE DEF ab, pair
  <2>3. \A i \in 1 .. Len(ab) : ab[i] = pair[i]
    BY <2>1, <2>2
  <2>4. ab = pair
    BY <2>1, <2>2, <2>3, SeqEqual
  <2>5. QED
    BY <2>4 DEF ab, pair
<1>7. Tail(<<a>>) = <<>> /\ Tail(<<a, b>>) = <<b>>
  OBVIOUS
<1>8. QED
  BY <1>3, <1>4, <1>5, <1>6, <1>7

\* A call joins an empty list.
LEMMA DelayEmpty ==
  ASSUME NEW c \in Nat, NEW f
  PROVE  Delay(<<>>, c, f) = <<Item(c, f)>>
<1>1. Elapsed(<<>>, 0) = 0
  BY ElapsedFacts
<1>2. Before(<<>>, c) = 0
  BY <1>1 DEF Before
<1>3. SubSeq(<<>>, 1, 0) = <<>> /\ Len(<<>>) = 0
  BY Short
<1>4. c - 0 = c /\ SubSeq(<<>>, 0 + 1, 0) = <<>>
  BY <1>3
<1>5. Delay(<<>>, c, f) = <<>> \o <<[clock |-> c, callback |-> f]>> \o <<>>
  BY <1>1, <1>2, <1>3, <1>4 DEF Delay
<1>6. QED
  BY <1>5, Short DEF Item

\* A call joins a list of one, before it or behind it.
LEMMA DelayOne ==
  ASSUME NEW c \in Nat, NEW f, NEW b \in Nat, NEW h
  PROVE  Delay(<<Item(b, h)>>, c, f) =
           IF b <= c THEN <<Item(b, h), Item(c - b, f)>> ELSE <<Item(c, f), Item(b - c, h)>>
<1> USE DEF Item
<1> DEFINE e == [clock |-> b, callback |-> h]
           q == <<e>>
           x(m) == [clock |-> m, callback |-> f]
<1>1. q[1] = e /\ e.clock = b /\ Len(q) = 1
  OBVIOUS
<1>2. Elapsed(q, 0) = 0 /\ Elapsed(q, 1) = b
  <2>1. 0 + b = b
    OBVIOUS
  <2>2. QED
    BY <1>1, <2>1, ElapsedFacts
<1>3. \A m, o : [e EXCEPT !.clock = m] = [clock |-> m, callback |-> h]
  OBVIOUS
<1>4. /\ SubSeq(q, 1, 1) = q /\ SubSeq(q, 2, 1) = <<>> /\ SubSeq(q, 1, 0) = <<>>
      /\ Tail(q) = <<>>
  BY Short
<1>5. \A y : <<>> \o <<y>> = <<y>> /\ <<y>> \o <<>> = <<y>> /\ <<e>> \o <<y>> = <<e, y>>
  BY Short
<1>6. \A y, z : <<y>> \o <<z>> = <<y, z>>
  BY Short
<1>7. CASE b <= c
  <2>1. Before(q, c) = 1
    <3> HIDE DEF q
    <3>1. QED
      BY <1>1, <1>2, <1>7 DEF Before
  <2>2. Delay(q, c, f) = <<e>> \o <<x(c - b)>> \o <<>>
    <3> HIDE DEF e
    <3>1. q = <<e>>
      OBVIOUS
    <3> HIDE DEF q
    <3>2. SubSeq(q, 1 + 1, 1) = <<>>
      BY <1>4
    <3>3. QED
      BY <1>1, <1>2, <1>4, <2>1, <3>1, <3>2 DEF Delay
  <2>3. <<e, x(c - b)>> \o <<>> = <<e, x(c - b)>>
    BY ConcatEmptySeq
  <2>4. QED
    BY <1>5, <1>7, <2>2, <2>3
<1>8. CASE ~(b <= c)
  <2>1. Before(q, c) = 0
    <3> HIDE DEF q
    <3>1. QED
      BY <1>1, <1>2, <1>8 DEF Before
  <2>2. Delay(q, c, f) = <<>> \o <<x(c - 0)>> \o (<<[e EXCEPT !.clock = @ - (c - 0)]>> \o <<>>)
    <3>1. q # <<>>
      OBVIOUS
    <3> HIDE DEF e, q
    <3>2. SubSeq(q, 0 + 1, 1) = q
      BY <1>4
    <3>3. QED
      BY <1>1, <1>2, <1>4, <2>1, <3>1, <3>2 DEF Delay
  <2>3. [e EXCEPT !.clock = @ - (c - 0)] = [clock |-> b - c, callback |-> h] /\ c - 0 = c
    OBVIOUS
  <2>4. QED
    BY <1>5, <1>6, <1>8, <2>2, <2>3
<1>9. QED
  BY <1>7, <1>8

-----------------------------------------------------------------------------
(* The calls of a line *)

\* No two kinds of calls are due in a cycle but the end of LOAD and the count of the last word.
LEMMA DueFacts ==
  ASSUME NEW g \in Int, NEW v \in 0 .. 15, NEW j \in 1 .. 3, NEW n \in Nat \ {0}
  PROVE  /\ EdgeDue(g, v, j, n) => ~Waits(g, v, j, n) /\ ~CntDue(g, v, n)
         /\ IncDue(g, v, n) => ~CntDue(g, v, n)
         /\ Edges(g, n) /\ v = 13 - j =>
              ((g = n - 1 /\ j = 3) <=> Waits(g, v, j, n))
<1>1. /\ v % 4 = 1 <=> v \in {1, 5, 9, 13}
      /\ v % 4 = 2 <=> v \in {2, 6, 10, 14}
      /\ v % 4 = 3 <=> v \in {3, 7, 11, 15}
  OBVIOUS
<1>2. QED
  BY <1>1 DEF EdgeDue, Edges, Waits, CntDue, Cnts, IncDue, In

\* A call that waits is made within the next two cycles.
LEMMA LaterFacts ==
  ASSUME NEW g \in Int, NEW v \in 0 .. 15, NEW j \in 1 .. 3, NEW n \in Nat \ {0},
         Waits(g, v, j, n)
  PROVE  \E c \in {0, 1}, f \in {"raise_load", "lower_load", "set_counting"} :
           /\ Later(g, v, j, n, 0) = Item(c, f)
           /\ Later(g, v, j, n, 1) = Item(c + 1, f)
<1>1. CASE Cnts(g, v, n) /\ v % 4 \in {1, 2}
  <2> DEFINE c == 2 - (v % 4)
  <2>1. c \in {0, 1} /\ c + 0 = c
    BY <1>1
  <2>2. QED
    BY <1>1, <2>1 DEF Later, Cnt
<1>2. CASE ~(Cnts(g, v, n) /\ v % 4 \in {1, 2})
  <2> DEFINE c == 15 - j - v
             f == IF g < 0 THEN "raise_load" ELSE "lower_load"
  <2>1. c \in {0, 1} /\ c + 0 = c
    BY <1>2 DEF Waits
  <2>2. f \in {"raise_load", "lower_load", "set_counting"}
    OBVIOUS
  <2>3. Later(g, v, j, n, 0) = Item(c + 0, f) /\ Later(g, v, j, n, 1) = Item(c + 1, f)
    BY <1>2 DEF Later, Edge
  <2>4. QED
    BY <2>1, <2>2, <2>3
<1>3. QED
  BY <1>1, <1>2

\* A callback is due exactly while one of this cycle is left.
LEMMA DueIsLeft ==
  ASSUME NEW g \in Int, NEW v \in 0 .. 15, NEW j \in 1 .. 3, NEW n \in Nat \ {0}, NEW p \in 0 .. 2,
         queue = AtCalls(g, v, j, n, p)
  PROVE  /\ EdgeLeft(g, v, j, n, p) => /\ queue # <<>> /\ Head(queue) = Edge(0, g)
                                       /\ Tail(queue) = IF IncDue(g, v, n) THEN <<Inc>> ELSE <<>>
         /\ ~EdgeLeft(g, v, j, n, p) /\ IncLeft(g, v, j, n, p) =>
              /\ queue # <<>> /\ Head(queue) = Inc /\ Tail(queue) = Waiting(g, v, j, n, 1)
         /\ ~EdgeLeft(g, v, j, n, p) /\ ~IncLeft(g, v, j, n, p) /\ CntLeft(g, v, n, p) =>
              /\ queue # <<>> /\ Head(queue) = Cnt(0) /\ Tail(queue) = Waiting(g, v, j, n, 1)
         /\ ~EdgeLeft(g, v, j, n, p) /\ ~IncLeft(g, v, j, n, p) /\ ~CntLeft(g, v, n, p) =>
              queue = Waiting(g, v, j, n, 1)
         /\ Due <=> \/ EdgeLeft(g, v, j, n, p) \/ IncLeft(g, v, j, n, p) \/ CntLeft(g, v, n, p)
<1>1. /\ EdgeLeft(g, v, j, n, p) => /\ queue # <<>> /\ Head(queue) = Edge(0, g)
                                    /\ Tail(queue) = IF IncDue(g, v, n) THEN <<Inc>> ELSE <<>>
      /\ ~EdgeLeft(g, v, j, n, p) /\ IncLeft(g, v, j, n, p) =>
           /\ queue # <<>> /\ Head(queue) = Inc /\ Tail(queue) = Waiting(g, v, j, n, 1)
      /\ ~EdgeLeft(g, v, j, n, p) /\ ~IncLeft(g, v, j, n, p) /\ CntLeft(g, v, n, p) =>
           /\ queue # <<>> /\ Head(queue) = Cnt(0) /\ Tail(queue) = Waiting(g, v, j, n, 1)
      /\ ~EdgeLeft(g, v, j, n, p) /\ ~IncLeft(g, v, j, n, p) /\ ~CntLeft(g, v, n, p) =>
           queue = Waiting(g, v, j, n, 1)
  BY Short DEF AtCalls, Ahead, Waiting
<1>2. Edge(0, g).clock = 0 /\ Inc.clock = 0 /\ Cnt(0).clock = 0
  BY ItemFacts DEF Edge, Inc, Cnt
<1>3. queue = Waiting(g, v, j, n, 1) => ~Due
  <2>1. CASE Waits(g, v, j, n)
    <3>1. \E c \in {0, 1}, f \in {"raise_load", "lower_load", "set_counting"} :
            Later(g, v, j, n, 0) = Item(c, f) /\ Later(g, v, j, n, 1) = Item(c + 1, f)
      BY <2>1, LaterFacts
    <3>3. PICK c \in {0, 1}, f \in {"raise_load", "lower_load", "set_counting"} :
            Later(g, v, j, n, 1) = Item(c + 1, f)
      BY <3>1
    <3>2. Item(c + 1, f).clock # 0
      BY ItemFacts
    <3>4. QED
      BY <2>1, <3>2, <3>3 DEF Due, Waiting
  <2>2. CASE ~Waits(g, v, j, n)
    BY <2>2 DEF Due, Waiting
  <2>3. QED
    BY <2>1, <2>2
<1>4. QED
  BY <1>1, <1>2, <1>3 DEF Due

\* A callback leaves the next one of this cycle first.
LEMMA CallStep ==
  ASSUME NEW g \in Int, NEW v \in 0 .. 15, NEW j \in 1 .. 3, NEW n \in Nat \ {0}, NEW t \in Nat,
         NEW p \in 0 .. 2,
         LineInv(g, v, j, n, t, p), Call
  PROVE  p + 1 \in 0 .. 2 /\ LineInv(g, v, j, n, t, p + 1)'
<1> DEFINE E == EdgeLeft(g, v, j, n, p)
           I == ~E /\ IncLeft(g, v, j, n, p)
           C == ~E /\ ~I /\ CntLeft(g, v, n, p)
<1>1. at = "calls" /\ at' = "calls" /\ queue = AtCalls(g, v, j, n, p) /\ Due
  BY DEF Call, LineInv, Queue
<1>2. /\ E => Head(queue) = Edge(0, g) /\ Tail(queue) = IF IncDue(g, v, n) THEN <<Inc>> ELSE <<>>
      /\ I => Head(queue) = Inc /\ Tail(queue) = Waiting(g, v, j, n, 1)
      /\ C => Head(queue) = Cnt(0) /\ Tail(queue) = Waiting(g, v, j, n, 1)
      /\ E \/ I \/ C
  BY <1>1, DueIsLeft
<1>3. /\ EdgeDue(g, v, j, n) => ~Waits(g, v, j, n) /\ ~CntDue(g, v, n)
      /\ IncDue(g, v, n) => ~CntDue(g, v, n)
  BY DueFacts
<1>4. /\ E <=> EdgeDue(g, v, j, n) /\ p = 0
      /\ I <=> IncDue(g, v, n) /\ p = IF EdgeDue(g, v, j, n) THEN 1 ELSE 0
      /\ C <=> CntDue(g, v, n) /\ p = 0
  BY <1>3 DEF EdgeLeft, IncLeft, CntLeft
<1>5. /\ ~EdgeLeft(g, v, j, n, p + 1)
      /\ IncLeft(g, v, j, n, p + 1) <=> E /\ IncDue(g, v, n)
      /\ ~CntLeft(g, v, n, p + 1)
      /\ p + 1 <= Dues(g, v, j, n) /\ p + 1 \in 0 .. 2
  BY <1>2, <1>3, <1>4 DEF EdgeLeft, IncLeft, CntLeft, Dues
<1>6. queue' = AtCalls(g, v, j, n, p + 1)
  <2>1. queue' = Tail(queue)
    BY DEF Call
  <2>2. CASE E
    <3>1. ~Waits(g, v, j, n)
      BY <1>3, <1>4, <2>2
    <3>2. Ahead(Inc, g, v, j, n) = <<Inc>> /\ Waiting(g, v, j, n, 1) = <<>>
      BY <3>1 DEF Ahead, Waiting
    <3>3. QED
      BY <1>2, <1>5, <2>1, <2>2, <3>2 DEF AtCalls
  <2>3. CASE ~E
    BY <1>2, <1>5, <2>1, <2>3 DEF AtCalls
  <2>4. QED
    BY <2>2, <2>3
<1>7. /\ load' <=> IF E THEN g < 0 ELSE load
      /\ loads' = IF I /\ loads < 4 THEN loads + 1 ELSE loads
      /\ counting' <=> counting \/ C
  <2>1. /\ Edge(0, g).callback = IF g < 0 THEN "raise_load" ELSE "lower_load"
        /\ Inc.callback = "increment_loads" /\ Cnt(0).callback = "set_counting"
    BY ItemFacts DEF Edge, Inc, Cnt
  <2>2. /\ E => Head(queue).callback = IF g < 0 THEN "raise_load" ELSE "lower_load"
        /\ I => Head(queue).callback = "increment_loads"
        /\ C => Head(queue).callback = "set_counting"
        /\ E \/ I \/ C
    BY <1>2, <2>1
  <2>3. /\ load' = CASE Head(queue).callback = "raise_load" -> TRUE
                     [] Head(queue).callback = "lower_load" -> FALSE
                     [] OTHER -> load
        /\ loads' = IF Head(queue).callback = "increment_loads" /\ loads < 4 THEN loads + 1
                    ELSE loads
        /\ counting' <=> counting \/ Head(queue).callback = "set_counting"
    BY Zenon DEF Call
  <2> HIDE DEF E, I, C
  <2>4. QED
    BY <2>2, <2>3
<1> HIDE DEF E, I, C
<1>8. /\ UNCHANGED <<at, glueVars, clock, fetched, IR, RR, reload, loadPixels, rrPixels, next>>
      /\ (reload' <=> reload)
  BY DEF Call
<1>9. BeamInv(g, v, j, n, t)' /\ WordInv(g, v, n)' /\ PixelInv(g, v, n)'
  <2>1. UNCHANGED <<at, beam, row, de, fetched, IR, RR, rrPixels, next>>
    BY <1>8 DEF glueVars
  <2>2. BeamInv(g, v, j, n, t)'
    BY <2>1 DEF LineInv, BeamInv
  <2>3. WordInv(g, v, n)'
    BY <2>1 DEF LineInv, WordInv, Held
  <2>4. PixelInv(g, v, n)'
    BY <2>1 DEF LineInv, PixelInv, LeftAt
  <2>5. QED
    BY <2>2, <2>3, <2>4
<1>10. LoadInv(g, v, j, n, p + 1)'
  <2>1. LoadInv(g, v, j, n, p)
    BY DEF LineInv
  <2>2. E => (LoadOn(g, v, j, n) <=> g < 0)
    BY <1>4 DEF EdgeDue, Edges, LoadOn, In
  <2>3. load' <=> LoadOn(g, v, j, n)
    BY <1>1, <1>7, <2>1, <2>2 DEF LoadInv, E
  <2>4. I => loads < 4
    BY <1>1, <1>4, <2>1 DEF LoadInv, IncDue, IncLeft
  <2>5. loads' = (IF In(g, n) /\ v \in 1 .. 14 THEN (v + 3) \div 4 ELSE 0)
                 - (IF IncLeft(g, v, j, n, p + 1) THEN 1 ELSE 0)
    BY <1>1, <1>4, <1>5, <1>7, <2>1, <2>4 DEF LoadInv, IncDue, IncLeft
  <2>6. QED
    BY <1>1, <1>5, <1>8, <2>1, <2>3, <2>5 DEF LoadInv
<1>11. CountInv(g, v, n, p + 1)'
  <2>1. CountInv(g, v, n, p)
    BY DEF LineInv
  <2>2. CntLeft(g, v, n, p) => C
    BY <1>3, <1>4 DEF CntLeft
  <2>3. C => v % 4 = 3 /\ Cnts(g, v, n)
    BY <1>4 DEF CntDue
  <2>4. counting' <=> In(g, n) /\ ~(g = 0 /\ v < 3) /\ ~(g = n - 1 /\ v > 13)
    BY <1>1, <1>7, <2>1, <2>2, <2>3 DEF CountInv, Cnts, C
  <2>5. QED
    BY <1>1, <1>5, <1>8, <2>1, <2>4 DEF CountInv
<1>12. QED
  BY <1>1, <1>5, <1>6, <1>9, <1>10, <1>11 DEF LineInv, Queue

\* The list counts down to what waits for the next cycles.
LEMMA CountStep ==
  ASSUME NEW g \in Int, NEW v \in 0 .. 15, NEW j \in 1 .. 3, NEW n \in Nat \ {0}, NEW t \in Nat,
         NEW p \in 0 .. 2,
         LineInv(g, v, j, n, t, p), Count
  PROVE  LineInv(g, v, j, n, t, p)'
<1>1. at = "calls" /\ at' = "glue" /\ queue = AtCalls(g, v, j, n, p) /\ ~Due
  BY DEF Count, LineInv, Queue
<1>2. /\ ~EdgeLeft(g, v, j, n, p) /\ ~IncLeft(g, v, j, n, p) /\ ~CntLeft(g, v, n, p)
      /\ queue = Waiting(g, v, j, n, 1)
  BY <1>1, DueIsLeft
<1>3. queue' = Waiting(g, v, j, n, 0)
  <2>1. queue' = IF queue = <<>> THEN <<>> ELSE [queue EXCEPT ![1].clock = @ - 1]
    BY DEF Count
  <2>2. CASE Waits(g, v, j, n)
    <3>1. PICK c \in {0, 1}, f \in {"raise_load", "lower_load", "set_counting"} :
            Later(g, v, j, n, 0) = Item(c, f) /\ Later(g, v, j, n, 1) = Item(c + 1, f)
      BY <2>2, LaterFacts
    <3>2. queue = <<Item(c + 1, f)>>
      BY <1>2, <2>2, <3>1 DEF Waiting
    <3>3. queue' = <<[Item(c + 1, f) EXCEPT !.clock = @ - 1]>>
      BY <2>1, <3>2
    <3>4. [Item(c + 1, f) EXCEPT !.clock = @ - 1] = Item(c, f)
      BY DEF Item
    <3>5. QED
      BY <2>2, <3>1, <3>3, <3>4 DEF Waiting
  <2>3. CASE ~Waits(g, v, j, n)
    BY <1>2, <2>1, <2>3 DEF Waiting
  <2>4. QED
    BY <2>2, <2>3
<1>4. /\ UNCHANGED <<beam, row, de, clock, load, fetched, IR, RR, loads, loadPixels, rrPixels, next>>
      /\ (load' <=> load) /\ (de' <=> de) /\ (reload' <=> reload) /\ (counting' <=> counting)
  BY DEF Count, glueVars, mmuVars, shifterVars
<1>5. BeamInv(g, v, j, n, t)'
  BY <1>1, <1>4 DEF LineInv, BeamInv
<1>6. LoadInv(g, v, j, n, p)'
  BY <1>1, <1>2, <1>4 DEF LineInv, LoadInv
<1>7. CountInv(g, v, n, p)'
  BY <1>1, <1>2, <1>4 DEF LineInv, CountInv
<1>8. WordInv(g, v, n)'
  BY <1>1, <1>4 DEF LineInv, WordInv, Held
<1>9. PixelInv(g, v, n)'
  BY <1>4 DEF LineInv, PixelInv, LeftAt
<1>10. QED
  BY <1>1, <1>3, <1>5, <1>6, <1>7, <1>8, <1>9 DEF LineInv, Queue

-----------------------------------------------------------------------------
(* Display enable *)

\* Whole groups, and an even number of clocks of the MMU between two lines.
LEMMA LineFacts ==
  ASSUME LinesFit, NEW l \in Lines
  PROVE  \E n \in Nat \ {0} : l.on = 16 * n /\ l.off \in Nat /\ l.off % 4 = 0 /\ l.off >= 20
<1>1. l.on \in Nat \ {0} /\ l.off \in Nat /\ l.on % 16 = 0 /\ l.off % 4 = 0 /\ l.off >= 20
  BY VideoAssumption DEF LinesFit
<1>2. l.on \div 16 \in Nat \ {0} /\ l.on = 16 * (l.on \div 16)
  BY <1>1
<1>3. QED
  BY <1>1, <1>2

\* A line begins: the Shifter has drawn the last words of the one before.
LEMMA OnStep ==
  ASSUME NEW g \in Int, NEW v \in 0 .. 15, NEW j \in 1 .. 3, NEW n \in Nat \ {0}, NEW t \in Nat,
         NEW p \in 0 .. 2,
         LinesFit, LineInv(g, v, j, n, t, p), Glue, ~(beam > 1), ~de
  PROVE  /\ VideoInv'
         /\ g >= n /\ g * 16 + v + j >= 16 * n + 17
<1>0. /\ de' /\ row' \in Lines /\ beam' = row'.on
      /\ queue' = Delay(queue, LoadDelay, "raise_load")
  BY Zenon DEF Glue
<1>1. at = "glue" /\ at' = "mmu" /\ queue = Waiting(g, v, j, n, 0) /\ BeamInv(g, v, j, n, t)
  BY DEF Glue, LineInv, Queue
<1>2. 16 * g + v + j + 2 = t - 1 /\ t % 4 = 0 /\ t >= 16 * n + 20
  BY <1>1 DEF BeamInv
<1>3. g >= n /\ g * 16 + v + j >= 16 * n + 17 /\ (g = n => v >= 14)
  BY <1>2
<1>4. /\ ~In(g, n) /\ ~Edges(g, n) /\ ~Cnts(g, v, n) /\ ~Drawing(g, v, n)
  BY <1>3 DEF In, Edges, Cnts, Drawing
<1> DEFINE w == 13 - j
<1>5. w \in 10 .. 12 /\ w % 4 = v % 4
  BY <1>2
<1>6. PICK m \in Nat \ {0} :
        row'.on = 16 * m /\ row'.off \in Nat /\ row'.off % 4 = 0 /\ row'.off >= 20 /\ row' \in Lines
  BY <1>0, LineFacts
<1>u. PICK u : u = row'.on + row'.off
  OBVIOUS
<1>7. ~In(-1, m) /\ Edges(-1, m) /\ ~Cnts(-1, w, m) /\ ~Drawing(-1, w, m) /\ ~LoadOn(-1, w, j, m)
  BY <1>5 DEF In, Edges, Cnts, Drawing, LoadOn
<1>8. BeamInv(-1, w, j, m, u)'
  <2>2. /\ u = 16 * m + row'.off /\ u \in Nat /\ u % 4 = 0 /\ u >= 16 * m + 20
        /\ 16 * (-1) + w + j + 3 = 0
        /\ 0 \in 0 .. u - 1 /\ 0 < 16 * m /\ 16 * m - 0 = 16 * m
    BY <1>6, <1>u
  <2> HIDE DEF w
  <2>3. QED
    BY <1>0, <1>1, <1>6, <2>2 DEF BeamInv
<1>9. AtMmu(-1, w, j, m) = <<Item(2, "raise_load")>>
  <2>1. ~Waits(-1, w, j, m)
    BY <1>7 DEF Waits
  <2>2. QED
    BY <1>7, <2>1 DEF AtMmu, Edge
<1>10. queue' = <<Item(2, "raise_load")>>
  <2>1. queue = <<>>
    BY <1>1, <1>4 DEF Waiting, Waits
  <2>2. queue' = Delay(queue, 2, "raise_load")
    BY <1>0 DEF LoadDelay
  <2>3. QED
    BY <2>1, <2>2, DelayEmpty
<1>11. /\ UNCHANGED <<clock, fetched, IR, RR, loads, loadPixels, rrPixels, next>>
       /\ (load' <=> load) /\ (reload' <=> reload) /\ (counting' <=> counting)
  BY DEF Glue, mmuVars, shifterVars
<1> HIDE DEF w
<1>12. LoadInv(-1, w, j, m, 0)'
  <2>1. ~LoadOn(g, v, j, n) /\ LoadInv(g, v, j, n, p)
    BY <1>3, <1>4 DEF LineInv, LoadOn
  <2>2. clock = (w + 2) % 4
    BY <1>1, <1>5, <2>1 DEF LoadInv
  <2>3. QED
    BY <1>1, <1>4, <1>7, <1>11, <2>1, <2>2 DEF LoadInv
<1>13. CountInv(-1, w, m, 0)'
  BY <1>1, <1>4, <1>7, <1>11 DEF LineInv, CountInv
<1>14. WordInv(-1, w, m)'
  BY <1>1, <1>4, <1>7, <1>11 DEF LineInv, WordInv, Held
<1>15. PixelInv(-1, w, m)'
  BY <1>4, <1>7, <1>11 DEF LineInv, PixelInv
<1>16. 0 <= Dues(-1, w, j, m)
  BY DEF Dues
<1>17. LineInv(-1, w, j, m, u, 0)'
  BY <1>1, <1>8, <1>9, <1>10, <1>12, <1>13, <1>14, <1>15, <1>16 DEF LineInv, Queue
<1>18. -1 \in Int /\ w \in 0 .. 15 /\ u \in Nat /\ 0 \in 0 .. 2
  BY <1>5, <1>6, <1>u
<1>19. QED
  BY <1>3, <1>6, <1>17, <1>18 DEF VideoInv

\* A line ends with its last word still to be counted.
LEMMA OffStep ==
  ASSUME NEW g \in Int, NEW v \in 0 .. 15, NEW j \in 1 .. 3, NEW n \in Nat \ {0}, NEW t \in Nat,
         NEW p \in 0 .. 2,
         LinesFit, LineInv(g, v, j, n, t, p), Glue, ~(beam > 1), de
  PROVE  VideoInv'
<1>0. /\ ~de' /\ row' = row /\ beam' = row.off
      /\ queue' = Delay(queue, LoadDelay, "lower_load")
  BY Zenon DEF Glue
<1>1. at = "glue" /\ at' = "mmu" /\ queue = Waiting(g, v, j, n, 0) /\ BeamInv(g, v, j, n, t)
  BY DEF Glue, LineInv, Queue
<1>2. 16 * g + v + j + 2 = 16 * n - 1
  BY <1>1 DEF BeamInv
<1>3. g = n - 1 /\ v = 13 - j
  BY <1>2
<1>u. PICK u : u = row.on + row.off
  OBVIOUS
<1>4. row.on = 16 * n /\ row.off \in Nat /\ row.off % 4 = 0 /\ row.off >= 20 /\ row' = row
      /\ row \in Lines
  BY <1>0, <1>1, LineFacts DEF BeamInv
<1>5. BeamInv(g, v, j, n, u)'
  <2>2. /\ u = 16 * n + row.off /\ u \in Nat /\ u % 4 = 0 /\ u >= 16 * n + 20
        /\ 16 * g + v + j + 3 = 16 * n
    BY <1>2, <1>4, <1>u
  <2>3. QED
    BY <1>0, <1>1, <1>4, <2>2 DEF BeamInv
<1>6. queue' = AtMmu(g, v, j, n)
  <2>1. queue' = Delay(queue, 2, "lower_load")
    BY <1>0 DEF LoadDelay
  <2>2. Edges(g, n) /\ v = 13 - j /\ g >= 0 /\ ~(g < 0)
    BY <1>3 DEF Edges
  <2>3. CASE Waits(g, v, j, n)
    <3>1. Cnts(g, v, n) /\ v = 10
      BY <1>3, <2>3 DEF Waits, Cnts
    <3>2. Later(g, v, j, n, 0) = Item(0, "set_counting")
      BY <3>1 DEF Later, Cnt
    <3>3. queue' = Delay(<<Item(0, "set_counting")>>, 2, "lower_load")
      BY <1>1, <2>1, <2>3, <3>2 DEF Waiting
    <3>4. queue' = <<Item(0, "set_counting"), Item(2 - 0, "lower_load")>>
      <4>1. 0 \in Nat /\ 2 \in Nat /\ 0 <= 2
        OBVIOUS
      <4>2. QED
        BY <3>3, <4>1, DelayOne, Zenon
    <3>5. 2 - 0 = 2
      OBVIOUS
    <3>6. QED
      BY <2>2, <2>3, <3>2, <3>4, <3>5 DEF AtMmu, Edge
  <2>4. CASE ~Waits(g, v, j, n)
    <3>1. queue' = <<Item(2, "lower_load")>>
      BY <1>1, <2>1, <2>4, DelayEmpty DEF Waiting
    <3>2. QED
      BY <2>2, <2>4, <3>1 DEF AtMmu, Edge
  <2>5. QED
    BY <2>3, <2>4
<1>7. /\ UNCHANGED <<row, clock, fetched, IR, RR, loads, loadPixels, rrPixels, next>>
      /\ (load' <=> load) /\ (reload' <=> reload) /\ (counting' <=> counting)
  BY <1>4 DEF Glue, mmuVars, shifterVars
<1>8. LoadInv(g, v, j, n, p)' /\ CountInv(g, v, n, p)' /\ WordInv(g, v, n)' /\ PixelInv(g, v, n)'
  <2>1. LoadInv(g, v, j, n, p)'
    BY <1>1, <1>7 DEF LineInv, LoadInv
  <2>2. CountInv(g, v, n, p)'
    BY <1>1, <1>7 DEF LineInv, CountInv
  <2>3. WordInv(g, v, n)'
    BY <1>1, <1>7 DEF LineInv, WordInv, Held
  <2>4. PixelInv(g, v, n)'
    BY <1>7 DEF LineInv, PixelInv, LeftAt
  <2>5. QED
    BY <2>1, <2>2, <2>3, <2>4
<1>9. LineInv(g, v, j, n, u, p)'
  BY <1>1, <1>5, <1>6, <1>8 DEF LineInv, Queue
<1>10. u \in Nat
  BY <1>4, <1>u
<1>11. QED
  BY <1>9, <1>10 DEF VideoInv

\* Within a line DE stays as it is.
LEMMA StayStep ==
  ASSUME NEW g \in Int, NEW v \in 0 .. 15, NEW j \in 1 .. 3, NEW n \in Nat \ {0}, NEW t \in Nat,
         NEW p \in 0 .. 2,
         LineInv(g, v, j, n, t, p), Glue, beam > 1
  PROVE  LineInv(g, v, j, n, t, p)'
<1>1. at = "glue" /\ at' = "mmu" /\ queue = Waiting(g, v, j, n, 0) /\ BeamInv(g, v, j, n, t)
  BY DEF Glue, LineInv, Queue
<1>2. /\ beam' = beam - 1
      /\ UNCHANGED <<row, queue, clock, fetched, IR, RR, loads, loadPixels, rrPixels, next>>
      /\ (de' <=> de) /\ (load' <=> load) /\ (reload' <=> reload) /\ (counting' <=> counting)
  BY DEF Glue, mmuVars, shifterVars
<1>3. /\ row \in Lines /\ row.on = 16 * n
      /\ 16 * g + v + j + 2 \in 0 .. t - 1
      /\ de <=> 16 * g + v + j + 2 < 16 * n
      /\ beam = (IF de THEN 16 * n ELSE t) - (16 * g + v + j + 2)
      /\ t % 4 = 0 /\ t >= 16 * n + 20
  BY <1>1 DEF BeamInv
<1>4. BeamInv(g, v, j, n, t)'
  <2>1. /\ 16 * g + v + j + 3 \in 0 .. t - 1
        /\ de <=> 16 * g + v + j + 3 < 16 * n
        /\ beam' = (IF de THEN 16 * n ELSE t) - (16 * g + v + j + 3)
    BY <1>2, <1>3
  <2>2. QED
    BY <1>1, <1>2, <1>3, <2>1 DEF BeamInv
<1>5. ~(Edges(g, n) /\ v = 13 - j)
  BY <1>3 DEF Edges
<1>6. queue' = AtMmu(g, v, j, n)
  BY <1>1, <1>2, <1>5 DEF AtMmu
<1>7. LoadInv(g, v, j, n, p)' /\ CountInv(g, v, n, p)' /\ WordInv(g, v, n)' /\ PixelInv(g, v, n)'
  <2>1. LoadInv(g, v, j, n, p)'
    BY <1>1, <1>2 DEF LineInv, LoadInv
  <2>2. CountInv(g, v, n, p)'
    BY <1>1, <1>2 DEF LineInv, CountInv
  <2>3. WordInv(g, v, n)'
    BY <1>1, <1>2 DEF LineInv, WordInv, Held
  <2>4. PixelInv(g, v, n)'
    BY <1>2 DEF LineInv, PixelInv, LeftAt
  <2>5. QED
    BY <2>1, <2>2, <2>3, <2>4
<1>8. QED
  BY <1>1, <1>4, <1>6, <1>7 DEF LineInv, Queue

-----------------------------------------------------------------------------
(* LOAD *)

\* A LOAD comes in every fourth cycle of the groups of a line.
LEMMA FetchFacts ==
  ASSUME NEW g \in Int, NEW v \in 0 .. 15, NEW j \in 1 .. 3, NEW n \in Nat \ {0}, NEW t \in Nat,
         NEW p \in 0 .. 2,
         LineInv(g, v, j, n, t, p), at = "mmu"
  PROVE  /\ Fetches <=> In(g, n) /\ v % 4 = 0
         /\ Fetches => /\ loads = v \div 4 /\ loads \in 0 .. 3
                       /\ Held(g, v, n) = v \div 4
                       /\ de <=> Cnts(g, v, n)
<1>1. LoadInv(g, v, j, n, p) /\ BeamInv(g, v, j, n, t)
  BY DEF LineInv
<1>2. clock = 2 <=> v % 4 = 0
  BY <1>1 DEF LoadInv
<1>3. v % 4 = 0 => v \in {0, 4, 8, 12}
  OBVIOUS
<1>4. v % 4 = 0 => (load <=> In(g, n))
  BY <1>1, <1>3 DEF LoadInv, LoadOn, In
<1>5. Fetches <=> In(g, n) /\ v % 4 = 0
  BY <1>2, <1>4 DEF Fetches
<1>6. Fetches => loads = v \div 4 /\ loads \in 0 .. 3
  BY <1>1, <1>3, <1>5 DEF LoadInv
<1>7. Fetches => Held(g, v, n) = v \div 4
  BY <1>3, <1>5 DEF Held
<1>8. Fetches => (de <=> Cnts(g, v, n))
  <2>1. de <=> 16 * g + v + j + 3 < 16 * n
    BY <1>1 DEF BeamInv
  <2>2. ASSUME v \in {0, 4, 8, 12}, In(g, n)
        PROVE  16 * g + v + j + 3 < 16 * n <=> Cnts(g, v, n)
    BY <2>2 DEF Cnts, In
  <2>3. QED
    BY <1>3, <1>5, <2>1, <2>2
<1>9. QED
  BY <1>5, <1>6, <1>7, <1>8

\* A LOAD within the line finds an empty list, and the last one LOAD's end.
LEMMA FetchQueue ==
  ASSUME NEW g \in Int, NEW v \in 0 .. 15, NEW j \in 1 .. 3, NEW n \in Nat \ {0}, NEW t \in Nat,
         NEW p \in 0 .. 2,
         LineInv(g, v, j, n, t, p), at = "mmu", Fetches
  PROVE  /\ Cnts(g, v, n) => queue = <<>>
         /\ ~Cnts(g, v, n) => g = n - 1 /\ v = 12 /\ queue = <<Item(3 - j, "lower_load")>>
<1>1. queue = AtMmu(g, v, j, n)
  BY DEF LineInv, Queue
<1>2. In(g, n) /\ v % 4 = 0
  BY FetchFacts
<1>3. v \in {0, 4, 8, 12}
  BY <1>2
<1>4. CASE Cnts(g, v, n)
  <2>1. ~Waits(g, v, j, n) /\ ~(Edges(g, n) /\ v = 13 - j)
    BY <1>2, <1>3, <1>4 DEF Waits, Edges, Cnts, In
  <2>2. QED
    BY <1>1, <1>4, <2>1 DEF AtMmu, Waiting
<1>5. CASE ~Cnts(g, v, n)
  <2>1. g = n - 1 /\ v = 12 /\ Edges(g, n) /\ ~(g < 0)
    BY <1>2, <1>3, <1>5 DEF Cnts, Edges, In
  <2>2. CASE j = 1
    <3>1. ~Waits(g, v, j, n) /\ v = 13 - j /\ 3 - j = 2
      BY <1>5, <2>1, <2>2 DEF Waits
    <3>2. QED
      BY <1>1, <1>5, <2>1, <3>1 DEF AtMmu, Edge
  <2>3. CASE j \in {2, 3}
    <3>1. Waits(g, v, j, n) /\ v # 13 - j /\ (15 - j) - v + 0 = 3 - j
      BY <1>5, <2>1, <2>3 DEF Waits
    <3>2. Later(g, v, j, n, 0) = Item(3 - j, "lower_load")
      BY <1>5, <2>1, <3>1 DEF Later, Edge
    <3>3. QED
      BY <1>1, <1>5, <2>1, <3>1, <3>2 DEF AtMmu, Waiting
  <2>4. QED
    BY <2>2, <2>3
<1>6. QED
  BY <1>4, <1>5

\* What a LOAD within the line schedules.
LEMMA DelayBoth ==
  Delay(Delay(<<>>, 0, "increment_loads"), 2, "set_counting") =
    <<Item(0, "increment_loads"), Item(2, "set_counting")>>
<1> DEFINE inc == "increment_loads"
           set == "set_counting"
<1>1. 0 \in Nat /\ 2 \in Nat /\ 0 <= 2 /\ 2 - 0 = 2
  OBVIOUS
<1>2. Delay(<<>>, 0, inc) = <<Item(0, inc)>>
  BY <1>1, DelayEmpty
<1>3. Delay(<<Item(0, inc)>>, 2, set) = <<Item(0, inc), Item(2 - 0, set)>>
  BY <1>1, DelayOne, Zenon
<1>4. QED
  BY <1>1, <1>2, <1>3

\* What the last LOAD of a line schedules, before or after LOAD's end.
LEMMA DelayLast ==
  ASSUME NEW j \in 1 .. 3
  PROVE  Delay(<<Item(3 - j, "lower_load")>>, 0, "increment_loads") =
           IF j = 3 THEN <<Item(0, "lower_load"), Item(0, "increment_loads")>>
           ELSE <<Item(0, "increment_loads"), Item(3 - j, "lower_load")>>
<1> DEFINE inc == "increment_loads"
           low == "lower_load"
<1>1. 3 - j \in Nat /\ 0 \in Nat
  OBVIOUS
<1>2. \A b \in Nat : Delay(<<Item(b, low)>>, 0, inc) =
         IF b <= 0 THEN <<Item(b, low), Item(0 - b, inc)>> ELSE <<Item(0, inc), Item(b - 0, low)>>
  BY <1>1, DelayOne
<1>3. Delay(<<Item(3 - j, low)>>, 0, inc) =
        IF 3 - j <= 0 THEN <<Item(3 - j, low), Item(0 - (3 - j), inc)>>
        ELSE <<Item(0, inc), Item((3 - j) - 0, low)>>
  BY <1>1, <1>2
<1>4. CASE j = 3
  <2>1. 3 - j <= 0 /\ 3 - j = 0 /\ 0 - (3 - j) = 0
    BY <1>4
  <2>2. QED
    BY <1>3, <1>4, <2>1, Zenon
<1>5. CASE j # 3
  <2>1. ~(3 - j <= 0) /\ (3 - j) - 0 = 3 - j
    BY <1>5
  <2>2. QED
    BY <1>3, <1>5, <2>1, Zenon
<1>6. QED
  BY <1>4, <1>5

\* A LOAD puts the next word into the next register and schedules its count.
LEMMA MmuStep ==
  ASSUME NEW g \in Int, NEW v \in 0 .. 15, NEW j \in 1 .. 3, NEW n \in Nat \ {0}, NEW t \in Nat,
         NEW p \in 0 .. 2,
         LineInv(g, v, j, n, t, p), Mmu
  PROVE  LineInv(g, v, j, n, t, p)'
<1>1. /\ at = "mmu" /\ at' = "shifter" /\ queue = AtMmu(g, v, j, n)
      /\ BeamInv(g, v, j, n, t) /\ LoadInv(g, v, j, n, p) /\ WordInv(g, v, n)
  BY DEF Mmu, LineInv, Queue
<1>2. /\ clock' = (clock + 1) % 4
      /\ UNCHANGED <<beam, row, de, RR, loads, loadPixels, rrPixels, next>>
      /\ (de' <=> de) /\ (load' <=> load) /\ (reload' <=> reload) /\ (counting' <=> counting)
  BY DEF Mmu, glueVars
<1>3. /\ Fetches <=> In(g, n) /\ v % 4 = 0
      /\ Fetches => /\ loads = v \div 4 /\ loads \in 0 .. 3
                    /\ Held(g, v, n) = v \div 4
                    /\ de <=> Cnts(g, v, n)
  BY <1>1, FetchFacts
<1>4. BeamInv(g, v, j, n, t)'
  BY <1>1, <1>2 DEF BeamInv
<1>5. LoadInv(g, v, j, n, p)'
  <2>1. clock' = (v + 3) % 4
    BY <1>1, <1>2 DEF LoadInv
  <2>2. QED
    BY <1>1, <1>2, <2>1 DEF LoadInv
<1>6. CountInv(g, v, n, p)'
  BY <1>1, <1>2 DEF LineInv, CountInv
<1>7. PixelInv(g, v, n)'
  BY <1>2 DEF LineInv, PixelInv, LeftAt
<1>8. CASE Fetches
  <2> DEFINE k == v \div 4
  <2>1. /\ IR' = [IR EXCEPT ![k] = fetched] /\ fetched' = (fetched + 1) % 8
        /\ LET q == Delay(queue, 0, "increment_loads")
           IN  queue' = IF de THEN Delay(q, 2, "set_counting") ELSE q
    BY <1>3, <1>8 DEF Mmu, Load
  <2>2. v \in {0, 4, 8, 12} /\ In(g, n) /\ k \in 0 .. 3
    BY <1>3, <1>8
  <2>3. WordInv(g, v, n)'
    <3>1. Held(g, v, n)' = k + 1
      BY <1>1, <1>3, <1>8, <2>2 DEF Held
    <3>2. Held(g, v, n) = k
      BY <1>3, <1>8
    <3> HIDE DEF k
    <3>3. /\ next \in 0 .. 7 /\ fetched = (next + k) % 8 /\ IR = [i \in 0 .. 3 |-> IR[i]]
          /\ \A i \in 0 .. k - 1 : IR[i] = (next + i) % 8
      BY <1>1, <3>2 DEF WordInv
    <3>4. IR' = [i \in 0 .. 3 |-> IR'[i]] /\ IR'[k] = fetched
          /\ \A i \in 0 .. 3 : i # k => IR'[i] = IR[i]
      BY <2>1, <2>2, <3>3
    <3>5. fetched' = (next + (k + 1)) % 8
      BY <2>1, <2>2, <3>3
    <3>6. \A i \in 0 .. (k + 1) - 1 : IR'[i] = (next + i) % 8
      <4>1. \A i \in 0 .. (k + 1) - 1 : i = k \/ (i \in 0 .. k - 1 /\ i \in 0 .. 3 /\ i # k)
        BY <2>2
      <4>2. IR'[k] = (next + k) % 8
        BY <3>3, <3>4
      <4>3. \A i \in 0 .. k - 1 : i \in 0 .. 3 /\ i # k => IR'[i] = (next + i) % 8
        BY <3>3, <3>4
      <4>4. QED
        BY <4>1, <4>2, <4>3
    <3>7. QED
      BY <1>2, <3>1, <3>3, <3>4, <3>5, <3>6 DEF WordInv
  <2>4. queue' = AtShifter(g, v, j, n)
    <3> DEFINE inc == "increment_loads"
               set == "set_counting"
               low == "lower_load"
    <3>1. queue' = IF Cnts(g, v, n) THEN Delay(Delay(queue, 0, inc), 2, set) ELSE Delay(queue, 0, inc)
      BY <1>3, <1>8, <2>1
    <3>2. /\ Cnts(g, v, n) => queue = <<>>
          /\ ~Cnts(g, v, n) => g = n - 1 /\ v = 12 /\ queue = <<Item(3 - j, low)>>
      BY <1>1, <1>8, FetchQueue
    <3>3. CASE Cnts(g, v, n)
      <4>1. queue' = <<Item(0, inc), Item(2, set)>>
        BY <3>1, <3>2, <3>3, DelayBoth
      <4>2. QED
        BY <2>2, <3>3, <4>1 DEF AtShifter, Inc, Cnt
    <3>4. CASE ~Cnts(g, v, n)
      <4>1. queue' = Delay(<<Item(3 - j, low)>>, 0, inc)
        BY <3>1, <3>2, <3>4
      <4>2. queue' = IF j = 3 THEN <<Item(0, low), Item(0, inc)>>
                     ELSE <<Item(0, inc), Item(3 - j, low)>>
        BY <4>1, DelayLast
      <4>3. ~(g < 0)
        BY <3>2, <3>4
      <4>4. QED
        BY <2>2, <3>4, <4>2, <4>3 DEF AtShifter, Edge, Inc
    <3>5. QED
      BY <3>3, <3>4
  <2>5. QED
    BY <1>1, <1>4, <1>5, <1>6, <1>7, <2>3, <2>4 DEF LineInv, Queue
<1>9. CASE ~Fetches
  <2>1. UNCHANGED <<IR, queue, fetched>>
    BY <1>9 DEF Mmu
  <2>2. WordInv(g, v, n)'
    <3>1. Held(g, v, n)' = Held(g, v, n)
      BY <1>1, <1>3, <1>9 DEF Held
    <3>2. QED
      BY <1>1, <1>2, <2>1, <3>1 DEF WordInv
  <2>3. queue' = AtShifter(g, v, j, n)
    BY <1>1, <1>3, <1>9, <2>1 DEF AtShifter
  <2>4. QED
    BY <1>1, <1>4, <1>5, <1>6, <1>7, <2>2, <2>3 DEF LineInv, Queue
<1>10. QED
  BY <1>8, <1>9

-----------------------------------------------------------------------------
(* The next cycle *)

\* Cycle w of group h follows cycle v of group g.
Follows(h, w, g, v) ==
  \/ v < 15 /\ h = g /\ w = v + 1
  \/ v = 15 /\ h = g + 1 /\ w = 0

\* What waits after a cycle is what the next one finds.
Kept(h, w, g, v, j, n) == AtShifter(g, v, j, n) = AtCalls(h, w, j, n, 0)

\* It is kept, at the end of a group as well.
LEMMA QueueFollows ==
  ASSUME NEW g \in Int, NEW v \in 0 .. 15, NEW j \in 1 .. 3, NEW n \in Nat \ {0},
         NEW h \in Int, NEW w \in 0 .. 15, Follows(h, w, g, v)
  PROVE  Kept(h, w, g, v, j, n)
<1> SUFFICES AtShifter(g, v, j, n) = AtCalls(h, w, j, n, 0)
  BY DEF Kept
<1>1. /\ v % 4 = 0 <=> v \in {0, 4, 8, 12}
      /\ v % 4 = 1 <=> v \in {1, 5, 9, 13}
      /\ v % 4 = 2 <=> v \in {2, 6, 10, 14}
      /\ w % 4 = 1 <=> w \in {1, 5, 9, 13}
      /\ w % 4 = 2 <=> w \in {2, 6, 10, 14}
      /\ w % 4 = 3 <=> w \in {3, 7, 11, 15}
  OBVIOUS
<1>2. ASSUME NEW x \in Int, NEW y \in 0 .. 15
      PROVE  /\ EdgeLeft(x, y, j, n, 0) <=> EdgeDue(x, y, j, n)
             /\ IncLeft(x, y, j, n, 0) <=> IncDue(x, y, n)
             /\ CntLeft(x, y, n, 0) <=> CntDue(x, y, n)
  BY DEF EdgeLeft, IncLeft, CntLeft
<1>3. CASE v = 15
  <2>1. /\ ~(v % 4 = 0) /\ ~Waits(g, v, j, n) /\ v # 13 - j
        /\ ~Waits(h, w, j, n) /\ ~EdgeDue(h, w, j, n) /\ ~IncDue(h, w, n) /\ ~CntDue(h, w, n)
    BY <1>1, <1>3 DEF Waits, EdgeDue, IncDue, CntDue, Follows
  <2>2. AtShifter(g, v, j, n) = <<>>
    BY <2>1 DEF AtShifter, AtMmu, Waiting
  <2>3. AtCalls(h, w, j, n, 0) = <<>>
    BY <1>2, <2>1 DEF AtCalls, Waiting
  <2>4. QED
    BY <2>2, <2>3
<1>4. CASE v < 15 /\ In(g, n) /\ v % 4 = 0
  <2>1. h = g /\ w = v + 1 /\ v \in {0, 4, 8, 12} /\ w % 4 = 1 /\ IncDue(h, w, n)
    BY <1>1, <1>4 DEF Follows, IncDue
  <2>2. CASE Cnts(g, v, n)
    <3>1. Cnts(h, w, n) /\ ~EdgeDue(h, w, j, n) /\ Waits(h, w, j, n) /\ 2 - 1 + 1 = 2
      BY <2>1, <2>2 DEF Cnts, EdgeDue, Edges, In, Waits
    <3>2. AtShifter(g, v, j, n) = <<Inc, Cnt(2)>>
      BY <1>4, <2>2 DEF AtShifter
    <3>3. Later(h, w, j, n, 1) = Cnt(2)
      BY <2>1, <3>1 DEF Later
    <3>4. QED
      BY <1>2, <2>1, <3>1, <3>2, <3>3 DEF AtCalls, Ahead
  <2>3. CASE ~Cnts(g, v, n)
    <3>1. g = n - 1 /\ v = 12 /\ ~Cnts(h, w, n) /\ Edges(h, n)
      BY <1>4, <2>1, <2>3 DEF Cnts, Edges, In
    <3>2. CASE j = 3
      <4>1. EdgeDue(h, w, j, n)
        BY <2>1, <3>1, <3>2 DEF EdgeDue
      <4>2. QED
        BY <1>2, <1>4, <2>1, <2>3, <3>2, <4>1 DEF AtShifter, AtCalls
    <3>3. CASE j # 3
      <4>1. ~EdgeDue(h, w, j, n) /\ Waits(h, w, j, n) /\ 15 - j - w + 1 = 3 - j
        BY <2>1, <3>1, <3>3 DEF EdgeDue, Waits
      <4>2. Later(h, w, j, n, 1) = Edge(3 - j, g)
        BY <2>1, <3>1, <4>1 DEF Later
      <4>3. QED
        BY <1>2, <1>4, <2>1, <2>3, <3>3, <4>1, <4>2 DEF AtShifter, AtCalls, Ahead
    <3>4. QED
      BY <3>2, <3>3
  <2>4. QED
    BY <2>2, <2>3
<1>5. CASE v < 15 /\ ~(In(g, n) /\ v % 4 = 0) /\ Edges(g, n) /\ v = 13 - j
  <2>1. /\ h = g /\ w = v + 1 /\ w = 14 - j /\ AtShifter(g, v, j, n) = AtMmu(g, v, j, n)
        /\ ~EdgeDue(h, w, j, n) /\ ~IncDue(h, w, n) /\ Waits(h, w, j, n)
        /\ CntDue(h, w, n) <=> Waits(g, v, j, n)
        /\ Waits(g, v, j, n) => Cnts(g, v, n) /\ v % 4 = 2
        /\ ~(Cnts(h, w, n) /\ w % 4 \in {1, 2})
    <3>1. h = g /\ w = v + 1 /\ w = 14 - j /\ AtShifter(g, v, j, n) = AtMmu(g, v, j, n)
      BY <1>5 DEF Follows, AtShifter
    <3>2. ~EdgeDue(h, w, j, n) /\ Waits(h, w, j, n)
      BY <1>5, <3>1 DEF EdgeDue, Waits
    <3>3. ~IncDue(h, w, n)
      BY <1>1, <1>5, <3>1 DEF IncDue
    <3>4. CntDue(h, w, n) <=> Waits(g, v, j, n)
      BY <1>1, <1>5, <3>1 DEF CntDue, Cnts, Waits, Edges, In
    <3>5. Waits(g, v, j, n) => Cnts(g, v, n) /\ v % 4 = 2
      BY <1>1, <1>5 DEF Cnts, Waits, Edges, In
    <3>6. ~(Cnts(h, w, n) /\ w % 4 \in {1, 2})
      BY <1>1, <1>5, <3>1 DEF Cnts, Edges, In
    <3>7. QED
      BY <3>1, <3>2, <3>3, <3>4, <3>5, <3>6
  <2>2. Later(h, w, j, n, 1) = Edge(2, g)
    <3>1. 15 - j - w + 1 = 2
      BY <2>1
    <3>2. QED
      BY <2>1, <3>1 DEF Later
  <2>3. CASE Waits(g, v, j, n)
    <3>1. Later(g, v, j, n, 0) = Cnt(0)
      <4>1. 2 - 2 + 0 = 0
        OBVIOUS
      <4>2. QED
        BY <2>1, <2>3, <4>1 DEF Later
    <3>2. AtShifter(g, v, j, n) = <<Cnt(0), Edge(2, g)>>
      BY <1>5, <2>1, <2>3, <3>1 DEF AtMmu
    <3>3. AtCalls(h, w, j, n, 0) = <<Cnt(0), Edge(2, g)>>
      BY <1>2, <2>1, <2>2, <2>3 DEF AtCalls, Ahead
    <3>4. QED
      BY <3>2, <3>3
  <2>4. CASE ~Waits(g, v, j, n)
    <3>1. AtShifter(g, v, j, n) = <<Edge(2, g)>>
      BY <1>5, <2>1, <2>4 DEF AtMmu
    <3>2. AtCalls(h, w, j, n, 0) = <<Edge(2, g)>>
      BY <1>2, <2>1, <2>2, <2>4 DEF AtCalls, Waiting
    <3>3. QED
      BY <3>1, <3>2
  <2>5. QED
    BY <2>3, <2>4
<1>6. CASE v < 15 /\ ~(In(g, n) /\ v % 4 = 0) /\ ~(Edges(g, n) /\ v = 13 - j)
  <2>1. h = g /\ w = v + 1 /\ AtShifter(g, v, j, n) = Waiting(g, v, j, n, 0)
    BY <1>6 DEF Follows, AtShifter, AtMmu
  <2>2. CASE Cnts(g, v, n) /\ v % 4 = 1
    <3>1. v \in {1, 5, 9} \/ (v = 13 /\ g < n - 1)
      BY <1>1, <2>2 DEF Cnts, In
    <3>2. /\ Cnts(h, w, n) /\ w % 4 = 2
          /\ ~EdgeDue(h, w, j, n) /\ ~IncDue(h, w, n) /\ ~CntDue(h, w, n)
      BY <1>1, <2>1, <2>2, <3>1 DEF Cnts, EdgeDue, Edges, In, IncDue, CntDue
    <3>3. 2 - 1 + 0 = 1 /\ 2 - 2 + 1 = 1
      OBVIOUS
    <3>4. Waits(g, v, j, n) /\ Later(g, v, j, n, 0) = Cnt(1)
      BY <2>2, <3>3 DEF Waits, Later
    <3>5. Waits(h, w, j, n) /\ Later(h, w, j, n, 1) = Cnt(1)
      BY <3>2, <3>3 DEF Waits, Later
    <3>6. QED
      BY <1>2, <2>1, <3>2, <3>4, <3>5 DEF AtCalls, Waiting
  <2>3. CASE Cnts(g, v, n) /\ v % 4 = 2
    <3>1. v \in {2, 6, 10} \/ (v = 14 /\ g < n - 1)
      BY <1>1, <2>3 DEF Cnts, In
    <3>2. Cnts(h, w, n) /\ w % 4 = 3 /\ CntDue(h, w, n)
      BY <1>1, <2>1, <2>3, <3>1 DEF Cnts, In, CntDue
    <3>3. ~EdgeDue(h, w, j, n) /\ ~IncDue(h, w, n) /\ ~Waits(h, w, j, n)
      <4>1. ~IncDue(h, w, n)
        BY <3>2 DEF IncDue
      <4>2. g = n - 1 => v \in {2, 6, 10}
        BY <3>1
      <4>3. g # -1
        BY <2>3 DEF Cnts, In
      <4>4. ~EdgeDue(h, w, j, n)
        BY <2>1, <4>2, <4>3 DEF EdgeDue, Edges
      <4>5. ~(Edges(h, n) /\ w \in {14 - j, 15 - j})
        BY <1>6, <2>1, <4>2, <4>3 DEF Edges
      <4>6. QED
        BY <3>2, <4>1, <4>4, <4>5 DEF Waits
    <3>4. 2 - 2 + 0 = 0
      OBVIOUS
    <3>5. Waits(g, v, j, n) /\ Later(g, v, j, n, 0) = Cnt(0)
      BY <2>3, <3>4 DEF Waits, Later
    <3>6. QED
      BY <1>2, <2>1, <3>2, <3>3, <3>5 DEF AtCalls, Ahead, Waiting
  <2>4. CASE Edges(g, n) /\ v = 14 - j /\ ~(Cnts(g, v, n) /\ v % 4 \in {1, 2})
    <3>1. w = 15 - j /\ Edges(h, n) /\ Waits(h, w, j, n) /\ Waits(g, v, j, n)
      BY <2>1, <2>4 DEF Waits
    <3>2. ~Cnts(h, w, n)
      BY <2>1, <3>1 DEF Cnts, Edges, In
    <3>3. ~EdgeDue(h, w, j, n) /\ ~CntDue(h, w, n)
      BY <3>1, <3>2 DEF EdgeDue, CntDue
    <3>4. ~IncDue(h, w, n)
      BY <1>1, <1>6, <2>1, <2>4 DEF IncDue
    <3>5. 15 - j - v + 0 = 1 /\ 15 - j - w + 1 = 1
      BY <2>4, <3>1
    <3>6. Later(g, v, j, n, 0) = Edge(1, g)
      BY <2>4, <3>5 DEF Later
    <3>7. Later(h, w, j, n, 1) = Edge(1, g)
      BY <2>1, <3>2, <3>5 DEF Later
    <3>8. QED
      BY <1>2, <2>1, <3>1, <3>3, <3>4, <3>6, <3>7 DEF AtCalls, Waiting
  <2>5. CASE Edges(g, n) /\ v = 15 - j /\ ~(Cnts(g, v, n) /\ v % 4 \in {1, 2})
    <3>1. w = 16 - j /\ EdgeDue(h, w, j, n) /\ Waits(g, v, j, n)
      BY <2>1, <2>5 DEF Waits, EdgeDue
    <3>2. ~IncDue(h, w, n)
      BY <1>1, <1>6, <2>1, <2>5 DEF IncDue
    <3>3. 15 - j - v + 0 = 0
      BY <2>5
    <3>4. Later(g, v, j, n, 0) = Edge(0, g)
      BY <2>5, <3>3 DEF Later
    <3>5. QED
      BY <1>2, <2>1, <3>1, <3>2, <3>4 DEF AtCalls, Waiting
  <2>6. CASE ~Waits(g, v, j, n)
    <3>1. ~EdgeDue(h, w, j, n)
      BY <2>1, <2>6 DEF EdgeDue, Waits
    <3>2. ~IncDue(h, w, n)
      BY <1>1, <1>6, <2>1 DEF IncDue
    <3>3. ~CntDue(h, w, n)
      BY <1>1, <2>1, <2>6 DEF CntDue, Cnts, Waits
    <3>4. ~(Cnts(h, w, n) /\ w % 4 \in {1, 2})
      BY <1>1, <1>6, <2>1, <2>6 DEF Cnts, Waits
    <3>5. ~(Edges(h, n) /\ w \in {14 - j, 15 - j})
      BY <1>6, <2>1, <2>6 DEF Waits
    <3>6. QED
      BY <1>2, <2>1, <2>6, <3>1, <3>2, <3>3, <3>4, <3>5 DEF AtCalls, Waiting, Waits
  <2>7. QED
    BY <2>2, <2>3, <2>4, <2>5, <2>6 DEF Waits
<1>7. QED
  BY <1>3, <1>4, <1>5, <1>6

\* The pixel counter comes round when the four words of a group are counted.
LEMMA CopyFacts ==
  ASSUME NEW g \in Int, NEW v \in 0 .. 15, NEW j \in 1 .. 3, NEW n \in Nat \ {0}, NEW t \in Nat,
         NEW p \in 0 .. 2,
         LineInv(g, v, j, n, t, p), at = "shifter"
  PROVE  /\ Round <=> In(g, n) /\ v = 13
         /\ LoadsRR <=> Round
         /\ Loads = IF In(g, n) /\ v \in 1 .. 13 THEN (v + 3) \div 4 ELSE 0
         /\ Counted = IF counting THEN (IF v < 14 THEN v + 2 ELSE v - 14) ELSE 4
         /\ counting <=> In(g, n) /\ ~(g = 0 /\ v < 3) /\ ~(g = n - 1 /\ v > 13)
         /\ Round => Held(g, v, n) = 4 /\ (de <=> g < n - 1)
<1>1. LoadInv(g, v, j, n, p) /\ CountInv(g, v, n, p) /\ BeamInv(g, v, j, n, t)
  BY DEF LineInv
<1>2. counting <=> In(g, n) /\ ~(g = 0 /\ v < 3) /\ ~(g = n - 1 /\ v > 13)
  BY <1>1 DEF CountInv
<1>3. Counted = IF counting THEN (IF v < 14 THEN v + 2 ELSE v - 14) ELSE 4
  BY <1>1, <1>2 DEF CountInv, Counted
<1>4. Round <=> In(g, n) /\ v = 13
  BY <1>2, <1>3 DEF Round
<1>5. Loads = IF In(g, n) /\ v \in 1 .. 13 THEN (v + 3) \div 4 ELSE 0
  BY <1>1 DEF LoadInv, Loads
<1>6. LoadsRR <=> Round
  BY <1>4, <1>5 DEF LoadsRR
<1>7. Round => Held(g, v, n) = 4
  BY <1>4 DEF Held
<1>8. Round => (de <=> g < n - 1)
  <2>1. de <=> 16 * g + v + j + 3 < 16 * n
    BY <1>1 DEF BeamInv
  <2>2. QED
    BY <1>4, <2>1 DEF In
<1>9. QED
  BY <1>2, <1>3, <1>4, <1>5, <1>6, <1>7, <1>8

\* What a register holds after the pixels of a cycle, as it is.
LEMMA DrawnFacts ==
  ASSUME row.planes \in {1, 2, 4},
         RR = [i \in 0 .. 3 |-> [word |-> RR[i].word, left |-> RR[i].left]],
         NEW i \in 0 .. 3
  PROVE  Drawn[i] = [word |-> RR[i].word,
                     left |-> IF i < row.planes /\ RR[i].left > 0
                              THEN RR[i].left - 4 \div row.planes ELSE RR[i].left]
<1> DEFINE r == RR[i]
<1>1. r = [word |-> r.word, left |-> r.left]
  OBVIOUS
<1>2. Drawn[i] = IF i < row.planes /\ r.left > 0
                 THEN [r EXCEPT !.left = @ - 4 \div row.planes] ELSE r
  BY DEF Drawn
<1> HIDE DEF r
<1>3. [r EXCEPT !.left = @ - 4 \div row.planes] =
        [word |-> r.word, left |-> r.left - 4 \div row.planes]
  BY <1>1
<1>4. Drawn[i] = [word |-> r.word,
                  left |-> IF i < row.planes /\ r.left > 0
                           THEN r.left - 4 \div row.planes ELSE r.left]
  BY <1>1, <1>2, <1>3
<1>5. QED
  BY <1>4 DEF r

\* In each cycle the pixels of a group of registers go on, and registers of drawn words
\* take over the ones behind them.
LEMMA ShiftedFacts ==
  ASSUME row.planes \in {1, 2, 4},
         RR = [i \in 0 .. 3 |-> [word |-> RR[i].word, left |-> RR[i].left]],
         NEW s \in 0 .. 15, rrPixels = s,
         \A i \in 0 .. 3 : RR[i].left = LeftAt(i, s)
  PROVE  /\ \A i \in 0 .. 3 : Shifted[i].left = IF s < 15 THEN LeftAt(i, s + 1) ELSE 0
         /\ Shifts => \A i \in 0 .. row.planes - 1 : Drawn[i].left = 0
<1>1. ASSUME NEW i \in 0 .. 3
      PROVE  Drawn[i].left = IF i < row.planes /\ LeftAt(i, s) > 0
                             THEN LeftAt(i, s) - 4 \div row.planes ELSE LeftAt(i, s)
  BY DrawnFacts
<1>2. ASSUME NEW i \in 0 .. 3
      PROVE  Shifted[i] = IF Shifts THEN IF i + row.planes < 4 THEN Drawn[i + row.planes] ELSE Blank
                          ELSE Drawn[i]
  BY DEF Shifted
<1>3. Blank.left = 0
  BY DEF Blank
<1>4. CASE row.planes = 4
  <2>1. \A i \in 0 .. 3 : \A x \in 0 .. 15 : LeftAt(i, x) = 16 - x
    BY <1>4 DEF LeftAt
  <2>2. ~Shifts /\ 4 \div 4 = 1
    BY <1>4 DEF Shifts
  <2>3. \A i \in 0 .. 3 : Shifted[i].left = 16 - s - 1
    BY <1>1, <1>2, <1>4, <2>1, <2>2
  <2>4. \A i \in 0 .. 3 : s < 15 => LeftAt(i, s + 1) = 16 - s - 1
    BY <2>1
  <2>5. QED
    BY <2>2, <2>3, <2>4
<1>5. CASE row.planes = 2
  <2>1. \A x \in 0 .. 15 : /\ \A i \in {0, 1} : LeftAt(i, x) = 16 - 2 * (x % 8)
                           /\ \A i \in {2, 3} : LeftAt(i, x) = IF x < 8 THEN 16 ELSE 0
    BY <1>5 DEF LeftAt
  <2>2. (Shifts <=> s = 7) /\ 4 \div 2 = 2
    BY <1>5 DEF Shifts
  <2>3. /\ \A i \in {0, 1} : Drawn[i].left = 14 - 2 * (s % 8)
        /\ \A i \in {2, 3} : Drawn[i].left = IF s < 8 THEN 16 ELSE 0
    BY <1>1, <1>5, <2>1, <2>2
  <2>4. CASE s = 7
    <3>1. /\ Shifted[0] = Drawn[2] /\ Shifted[1] = Drawn[3]
          /\ Shifted[2] = Blank /\ Shifted[3] = Blank
      BY <1>2, <1>5, <2>2, <2>4
    <3>2. \A i \in 0 .. 3 : Shifted[i].left = IF i < 2 THEN 16 ELSE 0
      BY <1>3, <2>3, <2>4, <3>1
    <3>3. \A i \in 0 .. 3 : LeftAt(i, s + 1) = IF i < 2 THEN 16 ELSE 0
      BY <2>1, <2>4
    <3>4. \A i \in 0 .. row.planes - 1 : Drawn[i].left = 0
      BY <1>5, <2>3, <2>4
    <3>5. QED
      BY <2>4, <3>2, <3>3, <3>4
  <2>5. CASE s # 7
    <3>1. \A i \in 0 .. 3 : Shifted[i] = Drawn[i]
      BY <1>2, <2>2, <2>5
    <3>2. s < 15 => (s + 1) % 8 = (s % 8) + 1 /\ (s + 1 < 8 <=> s < 8)
      BY <2>5
    <3>3. ASSUME NEW i \in 0 .. 3, s < 15
          PROVE  LeftAt(i, s + 1) = Drawn[i].left
      BY <2>1, <2>3, <3>2, <3>3
    <3>4. ASSUME NEW i \in 0 .. 3, s = 15
          PROVE  Drawn[i].left = 0
      BY <2>3, <3>4
    <3>5. s < 15 \/ s = 15
      OBVIOUS
    <3>6. QED
      BY <2>2, <2>5, <3>1, <3>3, <3>4, <3>5
  <2>6. QED
    BY <2>4, <2>5
<1>6. CASE row.planes = 1
  <2>1. \A x \in 0 .. 15 : /\ LeftAt(0, x) = 16 - 4 * (x % 4)
                           /\ \A i \in 1 .. 3 : LeftAt(i, x) = IF i + (x \div 4) < 4 THEN 16 ELSE 0
    BY <1>6 DEF LeftAt
  <2>2. (Shifts <=> s % 4 = 3) /\ 4 \div 1 = 4
    BY <1>6 DEF Shifts
  <2>3. /\ Drawn[0].left = 12 - 4 * (s % 4)
        /\ \A i \in 1 .. 3 : Drawn[i].left = IF i + (s \div 4) < 4 THEN 16 ELSE 0
    BY <1>1, <1>6, <2>1, <2>2
  <2>4. CASE s % 4 = 3
    <3>1. /\ Shifted[0] = Drawn[1] /\ Shifted[1] = Drawn[2] /\ Shifted[2] = Drawn[3]
          /\ Shifted[3] = Blank
      BY <1>2, <1>6, <2>2, <2>4
    <3>2. s \in {3, 7, 11, 15}
      BY <2>4
    <3>3. \A i \in 0 .. 2 : Shifted[i].left = IF i + 1 + (s \div 4) < 4 THEN 16 ELSE 0
      BY <2>3, <3>1, <3>2
    <3>4. Shifted[3].left = 0
      BY <1>3, <3>1
    <3>5. ASSUME s < 15
          PROVE  /\ (s + 1) % 4 = 0 /\ (s + 1) \div 4 = (s \div 4) + 1
                 /\ s \div 4 \in 0 .. 2 /\ s + 1 \in 0 .. 15
      BY <3>2, <3>5
    <3>6. ASSUME s < 15, NEW i \in 0 .. 3
          PROVE  Shifted[i].left = LeftAt(i, s + 1)
      BY <2>1, <3>3, <3>4, <3>5, <3>6
    <3>7. ASSUME s = 15, NEW i \in 0 .. 3
          PROVE  Shifted[i].left = 0
      BY <3>3, <3>4, <3>7
    <3>8. \A i \in 0 .. row.planes - 1 : Drawn[i].left = 0
      BY <1>6, <2>3, <2>4
    <3>9. s < 15 \/ s = 15
      OBVIOUS
    <3>10. QED
      BY <3>6, <3>7, <3>8, <3>9
  <2>5. CASE s % 4 # 3
    <3>1. \A i \in 0 .. 3 : Shifted[i] = Drawn[i]
      BY <1>2, <2>2, <2>5
    <3>2. /\ s < 15 /\ s + 1 \in 0 .. 15
          /\ (s + 1) % 4 = (s % 4) + 1 /\ (s + 1) \div 4 = s \div 4
      BY <2>5
    <3>3. \A i \in 0 .. 3 : LeftAt(i, s + 1) = Drawn[i].left
      BY <2>1, <2>3, <3>2
    <3>4. QED
      BY <2>2, <2>5, <3>1, <3>2, <3>3
  <2>6. QED
    BY <2>4, <2>5
<1>7. QED
  BY <1>4, <1>5, <1>6

\* Registers without pixels stay so.
LEMMA IdleFacts ==
  ASSUME row.planes \in {1, 2, 4},
         RR = [i \in 0 .. 3 |-> [word |-> RR[i].word, left |-> RR[i].left]],
         \A i \in 0 .. 3 : RR[i].left = 0
  PROVE  /\ \A i \in 0 .. 3 : Shifted[i].left = 0
         /\ Shifts => \A i \in 0 .. row.planes - 1 : Drawn[i].left = 0
<1>1. \A i \in 0 .. 3 : Drawn[i].left = 0
  BY DrawnFacts
<1>2. ASSUME NEW i \in 0 .. 3
      PROVE  Shifted[i] = IF Shifts THEN IF i + row.planes < 4 THEN Drawn[i + row.planes] ELSE Blank
                          ELSE Drawn[i]
  BY DEF Shifted
<1>3. ASSUME NEW i \in 0 .. 3, i + row.planes < 4 PROVE i + row.planes \in 0 .. 3
  BY <1>3
<1>4. QED
  BY <1>1, <1>2, <1>3 DEF Blank

\* Shifted registers are records, too.
LEMMA ShiftedForm ==
  ASSUME row.planes \in {1, 2, 4},
         RR = [i \in 0 .. 3 |-> [word |-> RR[i].word, left |-> RR[i].left]]
  PROVE  Shifted = [i \in 0 .. 3 |-> [word |-> Shifted[i].word, left |-> Shifted[i].left]]
<1>1. ASSUME NEW i \in 0 .. 3
      PROVE  Drawn[i] = [word |-> Drawn[i].word, left |-> Drawn[i].left]
  BY DrawnFacts
<1>2. Blank = [word |-> Blank.word, left |-> Blank.left]
  BY DEF Blank
<1>3. ASSUME NEW i \in 0 .. 3
      PROVE  Shifted[i] = [word |-> Shifted[i].word, left |-> Shifted[i].left]
  <2>1. Shifted[i] = IF Shifts THEN IF i + row.planes < 4 THEN Drawn[i + row.planes] ELSE Blank
                     ELSE Drawn[i]
    BY DEF Shifted
  <2>2. i + row.planes < 4 => i + row.planes \in 0 .. 3
    OBVIOUS
  <2>3. Shifted[i] = Blank \/ \E k \in 0 .. 3 : Shifted[i] = Drawn[k]
    BY <2>1, <2>2
  <2>4. QED
    BY <1>1, <1>2, <2>3
<1>4. Shifted = [i \in 0 .. 3 |-> Shifted[i]]
  <2>1. Drawn = [i \in 0 .. 3 |-> Drawn[i]]
    BY DEF Drawn
  <2>2. CASE Shifts
    BY <2>2 DEF Shifted
  <2>3. CASE ~Shifts
    BY <2>1, <2>3 DEF Shifted
  <2>4. QED
    BY <2>2, <2>3
<1>5. QED
  BY <1>3, <1>4

\* The pixels of a group go on for sixteen cycles from the copy on.
LEMMA PlaceFacts ==
  ASSUME NEW g \in Int, NEW v \in 0 .. 15, NEW n \in Nat \ {0},
         NEW h \in Int, NEW w \in 0 .. 15, Follows(h, w, g, v)
  PROVE  /\ In(g, n) /\ v = 13 => Drawing(h, w, n) /\ Place(w) = 0
         /\ ~(In(g, n) /\ v = 13) =>
              /\ Drawing(h, w, n) => /\ Drawing(g, v, n) /\ Place(v) < 15
                                     /\ Place(w) = Place(v) + 1
              /\ ~Drawing(h, w, n) => ~Drawing(g, v, n) \/ Place(v) = 15
         /\ Place(v) \in 0 .. 15
<1>1. In(g, n) /\ v = 13 => Drawing(h, w, n) /\ Place(w) = 0
  BY DEF Follows, Drawing, Place
<1>2. ASSUME ~(In(g, n) /\ v = 13), Drawing(h, w, n)
      PROVE  Drawing(g, v, n) /\ Place(v) < 15 /\ Place(w) = Place(v) + 1
  BY <1>2 DEF Follows, Drawing, Place, In
<1>3. ASSUME ~(In(g, n) /\ v = 13), ~Drawing(h, w, n)
      PROVE  ~Drawing(g, v, n) \/ Place(v) = 15
  BY <1>3 DEF Follows, Drawing, Place, In
<1>4. Place(v) \in 0 .. 15
  BY DEF Place
<1>5. QED
  BY <1>1, <1>2, <1>3, <1>4

\* The Shifter's part of a cycle.
LEMMA ShifterStep ==
  ASSUME NEW g \in Int, NEW v \in 0 .. 15, NEW j \in 1 .. 3, NEW n \in Nat \ {0}, NEW t \in Nat,
         NEW p \in 0 .. 2,
         LineInv(g, v, j, n, t, p), Shifter
  PROVE  VideoInv'
<1>1. /\ at = "shifter" /\ at' = "calls" /\ queue = AtShifter(g, v, j, n)
      /\ BeamInv(g, v, j, n, t) /\ LoadInv(g, v, j, n, p) /\ CountInv(g, v, n, p)
      /\ WordInv(g, v, n) /\ PixelInv(g, v, n)
  BY DEF Shifter, LineInv, Queue
<1>2. /\ UNCHANGED <<beam, row, clock, fetched, queue, IR>>
      /\ (de' <=> de) /\ (load' <=> load)
      /\ (reload' <=> LoadsRR) /\ (counting' <=> counting /\ (LoadsRR => de))
      /\ loads' = Loads
      /\ loadPixels' = IF Round THEN -1 ELSE Counted
  BY DEF Shifter, glueVars, mmuVars
<1>3. /\ Round <=> In(g, n) /\ v = 13
      /\ LoadsRR <=> Round
      /\ Loads = IF In(g, n) /\ v \in 1 .. 13 THEN (v + 3) \div 4 ELSE 0
      /\ Counted = IF counting THEN (IF v < 14 THEN v + 2 ELSE v - 14) ELSE 4
      /\ counting <=> In(g, n) /\ ~(g = 0 /\ v < 3) /\ ~(g = n - 1 /\ v > 13)
      /\ Round => Held(g, v, n) = 4 /\ (de <=> g < n - 1)
  BY <1>1, CopyFacts
<1>4. PICK h \in Int, w \in 0 .. 15 : Follows(h, w, g, v)
  <2>1. CASE v < 15
    <3>1. v + 1 \in 0 .. 15 /\ Follows(g, v + 1, g, v)
      BY <2>1 DEF Follows
    <3>2. QED
      BY <3>1
  <2>2. CASE v = 15
    <3>1. g + 1 \in Int /\ 0 \in 0 .. 15 /\ Follows(g + 1, 0, g, v)
      BY <2>2 DEF Follows
    <3>2. QED
      BY <3>1
  <2>3. QED
    BY <2>1, <2>2
<1>5. queue' = AtCalls(h, w, j, n, 0)
  <2>1. Kept(h, w, g, v, j, n)
    BY <1>4, QueueFollows
  <2>2. QED
    BY <1>1, <1>2, <2>1 DEF Kept
<1>6. BeamInv(h, w, j, n, t)'
  <2>1. 16 * h + w + j + 2 = 16 * g + v + j + 3
    BY <1>4 DEF Follows
  <2>2. QED
    BY <1>1, <1>2, <2>1 DEF BeamInv
<1>7. LoadInv(h, w, j, n, 0)'
  <2>1. clock' = (w + 2) % 4
    BY <1>1, <1>2, <1>4 DEF LoadInv, Follows
  <2>2. load <=> IF EdgeDue(h, w, j, n) THEN h >= 0 ELSE LoadOn(h, w, j, n)
    <3>1. load <=> LoadOn(g, v, j, n)
      BY <1>1 DEF LoadInv
    <3>2. LoadOn(g, v, j, n) <=> IF EdgeDue(h, w, j, n) THEN h >= 0 ELSE LoadOn(h, w, j, n)
      <4>1. CASE v = 15
        BY <1>4, <4>1 DEF Follows, LoadOn, EdgeDue, In
      <4>2. CASE v < 15 /\ EdgeDue(h, w, j, n)
        BY <1>4, <4>2 DEF Follows, LoadOn, EdgeDue, Edges, In
      <4>3. CASE v < 15 /\ ~EdgeDue(h, w, j, n)
        BY <1>4, <4>3 DEF Follows, LoadOn, EdgeDue, Edges, In
      <4>4. QED
        BY <4>1, <4>2, <4>3
    <3>3. QED
      BY <3>1, <3>2
  <2>3. Loads = (IF In(h, n) /\ w \in 1 .. 14 THEN (w + 3) \div 4 ELSE 0)
                - (IF IncDue(h, w, n) THEN 1 ELSE 0)
    <3>1. CASE v = 15
      BY <1>3, <1>4, <3>1 DEF Follows, IncDue
    <3>2. CASE v < 15
      BY <1>3, <1>4, <3>2 DEF Follows, IncDue
    <3>3. QED
      BY <3>1, <3>2
  <2>4. LoadsRR <=> In(h, n) /\ w = 14
    BY <1>3, <1>4 DEF Follows
  <2>5. /\ EdgeLeft(h, w, j, n, 0) <=> EdgeDue(h, w, j, n)
        /\ IncLeft(h, w, j, n, 0) <=> IncDue(h, w, n)
    BY DEF EdgeLeft, IncLeft
  <2>6. QED
    BY <1>1, <1>2, <2>1, <2>2, <2>3, <2>4, <2>5 DEF LoadInv
<1>8. CountInv(h, w, n, 0)'
  <2>1. CntLeft(h, w, n, 0) <=> CntDue(h, w, n)
    BY DEF CntLeft
  <2>2. h = 0 /\ w = 3 => (CntDue(h, w, n) <=> In(h, n))
    BY DEF CntDue, Cnts, In
  <2>3. counting' <=> In(h, n) /\ ~(h = 0 /\ w < 3) /\ ~(h = n - 1 /\ w > 13)
                      /\ ~(h = 0 /\ w = 3)
    <3>1. CASE v = 15
      BY <1>2, <1>3, <1>4, <3>1 DEF Follows, In
    <3>2. CASE v = 13
      BY <1>2, <1>3, <1>4, <3>2 DEF Follows, In
    <3>3. CASE v < 15 /\ v # 13
      BY <1>2, <1>3, <1>4, <3>3 DEF Follows
    <3>4. QED
      BY <3>1, <3>2, <3>3
  <2>4. loadPixels' = IF In(h, n) /\ ~(h = 0 /\ w < 3) /\ ~(h = n - 1 /\ w = 15)
                      THEN IF w < 14 THEN w + 1 ELSE w - 15
                      ELSE 4
    <3>1. CASE v = 15
      BY <1>2, <1>3, <1>4, <3>1 DEF Follows, In
    <3>2. CASE v = 13
      BY <1>2, <1>3, <1>4, <3>2 DEF Follows, In
    <3>3. CASE v < 15 /\ v # 13
      BY <1>2, <1>3, <1>4, <3>3 DEF Follows
    <3>4. QED
      BY <3>1, <3>2, <3>3
  <2>5. QED
    BY <1>1, <2>1, <2>2, <2>3, <2>4 DEF CountInv
<1>9. WordInv(h, w, n)'
  <2>1. /\ next \in 0 .. 7 /\ fetched = (next + Held(g, v, n)) % 8
        /\ IR = [i \in 0 .. 3 |-> IR[i]]
        /\ \A i \in 0 .. Held(g, v, n) - 1 : IR[i] = (next + i) % 8
    BY <1>1 DEF WordInv
  <2>2. Held(h, w, n)' = IF In(h, n) /\ w \in 1 .. 13 THEN (w + 3) \div 4 ELSE 0
    BY <1>1 DEF Held
  <2>3. CASE Round
    <3>1. next' = (next + 4) % 8
      BY <1>3, <2>3 DEF Shifter
    <3>2. Held(h, w, n)' = 0
      BY <1>3, <1>4, <2>2, <2>3 DEF Follows
    <3>3. fetched' = (next' + 0) % 8 /\ next' \in 0 .. 7
      BY <1>2, <1>3, <2>1, <2>3, <3>1
    <3>4. QED
      BY <1>2, <2>1, <3>2, <3>3 DEF WordInv
  <2>4. CASE ~Round
    <3>1. next' = next
      BY <1>3, <2>4 DEF Shifter
    <3>2. Held(h, w, n)' = Held(g, v, n)
      <4>1. Held(g, v, n) = (IF In(g, n) /\ v \in 1 .. 13 THEN (v + 3) \div 4 ELSE 0)
                            + (IF In(g, n) /\ v % 4 = 0 THEN 1 ELSE 0)
        BY <1>1 DEF Held
      <4>2. CASE v = 15
        BY <1>4, <2>2, <4>1, <4>2 DEF Follows
      <4>3. CASE v < 15
        BY <1>3, <1>4, <2>2, <2>4, <4>1, <4>3 DEF Follows
      <4>4. QED
        BY <4>2, <4>3
    <3>3. QED
      BY <1>2, <2>1, <3>1, <3>2 DEF WordInv
  <2>5. QED
    BY <2>3, <2>4
<1>10. PixelInv(h, w, n)'
  <2>1. /\ rrPixels \in 0 .. 15 /\ (Drawing(g, v, n) => rrPixels = Place(v))
        /\ RR = [i \in 0 .. 3 |-> [word |-> RR[i].word, left |-> RR[i].left]]
        /\ \A i \in 0 .. 3 : RR[i].left = IF Drawing(g, v, n) THEN LeftAt(i, Place(v)) ELSE 0
        /\ row.planes \in {1, 2, 4}
    BY <1>1, VideoAssumption DEF PixelInv, BeamInv
  <2>2. rrPixels' = IF Round THEN 0 ELSE IF rrPixels = 15 THEN 12 ELSE rrPixels + 1
    BY DEF Shifter
  <2>3. /\ Round => Drawing(h, w, n) /\ Place(w) = 0
        /\ ~Round => /\ Drawing(h, w, n) => /\ Drawing(g, v, n) /\ Place(v) < 15
                                            /\ Place(w) = Place(v) + 1
                     /\ ~Drawing(h, w, n) => ~Drawing(g, v, n) \/ Place(v) = 15
        /\ Place(v) \in 0 .. 15
    <3>1. /\ In(g, n) /\ v = 13 => Drawing(h, w, n) /\ Place(w) = 0
          /\ ~(In(g, n) /\ v = 13) =>
               /\ Drawing(h, w, n) => Drawing(g, v, n) /\ Place(v) < 15 /\ Place(w) = Place(v) + 1
               /\ ~Drawing(h, w, n) => ~Drawing(g, v, n) \/ Place(v) = 15
          /\ Place(v) \in 0 .. 15
      BY <1>4, PlaceFacts
    <3>2. QED
      BY <1>3, <3>1, Zenon
  <2>4. \A i, s : LeftAt(i, s)' = LeftAt(i, s)
    BY <1>2 DEF LeftAt
  <2>5. CASE Round
    <3>1. RR' = [i \in 0 .. 3 |-> [word |-> IR[i], left |-> 16]]
      BY <1>3, <2>5 DEF Shifter
    <3>2. \A i \in 0 .. 3 : LeftAt(i, 0) = 16
      BY <2>1 DEF LeftAt
    <3>3. RR' = [i \in 0 .. 3 |-> [word |-> RR'[i].word, left |-> RR'[i].left]]
          /\ \A i \in 0 .. 3 : RR'[i].left = 16
      BY <3>1
    <3>4. QED
      BY <2>2, <2>3, <2>4, <2>5, <3>2, <3>3 DEF PixelInv
  <2>6. CASE ~Round
    <3>1. RR' = Shifted
      BY <1>3, <2>6 DEF Shifter
    <3>2. RR' = [i \in 0 .. 3 |-> [word |-> RR'[i].word, left |-> RR'[i].left]]
      BY <2>1, <3>1, ShiftedForm
    <3>3. rrPixels' \in 0 .. 15 /\ (Drawing(h, w, n) => rrPixels' = Place(w))
      BY <2>1, <2>2, <2>3, <2>6
    <3>4. CASE Drawing(g, v, n)
      <4>1. \A i \in 0 .. 3 : Shifted[i].left = IF Place(v) < 15 THEN LeftAt(i, Place(v) + 1) ELSE 0
        BY <2>1, <2>3, <3>4, ShiftedFacts
      <4>2. Drawing(h, w, n) <=> Place(v) < 15
        BY <2>3, <2>6, <3>4
      <4>3. QED
        BY <2>3, <2>4, <2>6, <3>1, <3>2, <3>3, <4>1, <4>2 DEF PixelInv
    <3>5. CASE ~Drawing(g, v, n)
      <4>1. \A i \in 0 .. 3 : Shifted[i].left = 0
        BY <2>1, <3>5, IdleFacts
      <4>2. ~Drawing(h, w, n)
        BY <2>3, <2>6, <3>5
      <4>3. QED
        BY <3>1, <3>2, <3>3, <4>1, <4>2 DEF PixelInv
    <3>6. QED
      BY <3>4, <3>5
  <2>7. QED
    BY <2>5, <2>6
<1>11. 0 <= Dues(h, w, j, n) /\ 0 \in 0 .. 2
  BY DEF Dues
<1>12. LineInv(h, w, j, n, t, 0)'
  BY <1>1, <1>5, <1>6, <1>7, <1>8, <1>9, <1>10, <1>11 DEF LineInv, Queue
<1>13. QED
  BY <1>11, <1>12 DEF VideoInv

-----------------------------------------------------------------------------
(* The invariant *)

\* Before the first line the Shifter is past the last group of one.
LEMMA InitVideo == ASSUME LinesFit, Init PROVE VideoInv
<1>1. PICK n \in Nat \ {0} : row.on = 16 * n /\ row \in Lines
  BY LineFacts DEF Init
<1>2. beam \in Nat \ {0} /\ beam % 4 # 0
  BY VideoAssumption DEF Init, LinesFit
<1> DEFINE j == 4 - (beam % 4)
           g == n + 2
<1>3. PICK b : b = beam
  OBVIOUS
<1>4. PICK t : t = 16 * (n + 2) + 4 + (4 - (b % 4)) + b
  OBVIOUS
<1>5. j \in 1 .. 3 /\ g \in Int /\ t \in Nat /\ t % 4 = 0 /\ t >= 16 * n + 20 /\ t = 16 * g + 4 + j + b
  BY <1>2, <1>3, <1>4
<1>6. g > n
  OBVIOUS
<1> HIDE DEF j, g
<1>7. at = "calls" /\ ~de /\ ~load /\ ~reload /\ ~counting
  BY DEF Init
<1>8. /\ ~In(g, n) /\ ~Edges(g, n) /\ ~Cnts(g, 2, n) /\ ~LoadOn(g, 2, j, n) /\ ~Drawing(g, 2, n)
  BY <1>5, <1>6 DEF In, Edges, Cnts, LoadOn, Drawing
<1>9. BeamInv(g, 2, j, n, t)
  <2>1. 16 * g + 2 + j + 2 = t - b /\ t - b \in 0 .. t - 1 /\ ~(t - b < 16 * n) /\ b = t - (t - b)
    BY <1>2, <1>3, <1>5, <1>6
  <2>2. QED
    BY <1>1, <1>3, <1>5, <1>7, <2>1 DEF BeamInv
<1>10. queue = AtCalls(g, 2, j, n, 0)
  BY <1>8 DEF Init, AtCalls, EdgeLeft, EdgeDue, IncLeft, IncDue, CntLeft, CntDue, Waiting, Waits
<1>11. LoadInv(g, 2, j, n, 0)
  BY <1>7, <1>8 DEF Init, LoadInv, EdgeLeft, EdgeDue, IncLeft, IncDue
<1>12. CountInv(g, 2, n, 0)
  BY <1>7, <1>8 DEF Init, CountInv
<1>13. WordInv(g, 2, n)
  <2>1. Held(g, 2, n) = 0
    BY <1>7, <1>8 DEF Held
  <2>2. next = 0 /\ fetched = 0 /\ IR = [i \in 0 .. 3 |-> Nothing] /\ (0 + 0) % 8 = 0
    BY DEF Init
  <2>3. QED
    BY <2>1, <2>2 DEF WordInv
<1>14. PixelInv(g, 2, n)
  BY <1>8 DEF Init, PixelInv, Blank
<1>15. 0 <= Dues(g, 2, j, n)
  BY DEF Dues
<1>16. LineInv(g, 2, j, n, t, 0)
  BY <1>7, <1>9, <1>10, <1>11, <1>12, <1>13, <1>14, <1>15 DEF LineInv, Queue
<1>17. 2 \in 0 .. 15 /\ 0 \in 0 .. 2
  OBVIOUS
<1>18. QED
  BY <1>5, <1>16, <1>17 DEF VideoInv

\* A step that changes nothing keeps it.
LEMMA StillStep ==
  ASSUME NEW g, NEW v, NEW j, NEW n, NEW t, NEW p, LineInv(g, v, j, n, t, p), UNCHANGED vars
  PROVE  LineInv(g, v, j, n, t, p)'
<1>1. /\ UNCHANGED <<at, beam, row, clock, queue, fetched, IR, RR, loads, loadPixels, rrPixels, next>>
      /\ (de' <=> de) /\ (load' <=> load) /\ (reload' <=> reload) /\ (counting' <=> counting)
  BY DEF vars, glueVars, mmuVars, shifterVars
<1>2. BeamInv(g, v, j, n, t)'
  BY <1>1 DEF LineInv, BeamInv
<1>3. LoadInv(g, v, j, n, p)'
  BY <1>1 DEF LineInv, LoadInv
<1>4. CountInv(g, v, n, p)'
  BY <1>1 DEF LineInv, CountInv
<1>5. WordInv(g, v, n)'
  BY <1>1 DEF LineInv, WordInv, Held
<1>6. PixelInv(g, v, n)'
  BY <1>1 DEF LineInv, PixelInv, LeftAt
<1>7. queue' = Queue(g, v, j, n, p)'
  BY <1>1 DEF LineInv, Queue
<1>8. QED
  BY <1>1, <1>2, <1>3, <1>4, <1>5, <1>6, <1>7 DEF LineInv

\* Every step keeps it.
LEMMA NextVideo == ASSUME LinesFit, VideoInv, [Next]_vars PROVE VideoInv'
<1>1. PICK g \in Int, v \in 0 .. 15, j \in 1 .. 3, n \in Nat \ {0}, t \in Nat, p \in 0 .. 2 :
        LineInv(g, v, j, n, t, p)
  BY DEF VideoInv
<1>2. CASE Call
  <2>1. p + 1 \in 0 .. 2 /\ LineInv(g, v, j, n, t, p + 1)'
    BY <1>1, <1>2, CallStep
  <2>2. QED
    BY <2>1 DEF VideoInv
<1>3. ASSUME Count \/ Mmu \/ (Glue /\ beam > 1) PROVE VideoInv'
  <2>1. LineInv(g, v, j, n, t, p)'
    <3>1. CASE Count
      BY <1>1, <3>1, CountStep
    <3>2. CASE Mmu
      BY <1>1, <3>2, MmuStep
    <3>3. CASE Glue /\ beam > 1
      BY <1>1, <3>3, StayStep
    <3>4. QED
      BY <1>3, <3>1, <3>2, <3>3
  <2>2. QED
    BY <2>1 DEF VideoInv
<1>4. CASE Glue /\ ~(beam > 1) /\ ~de
  BY <1>1, <1>4, OnStep
<1>5. CASE Glue /\ ~(beam > 1) /\ de
  BY <1>1, <1>5, OffStep
<1>6. CASE Shifter
  BY <1>1, <1>6, ShifterStep
<1>7. CASE UNCHANGED vars
  <2>1. LineInv(g, v, j, n, t, p)'
    BY <1>1, <1>7, StillStep
  <2>2. QED
    BY <2>1 DEF VideoInv
<1>8. QED
  BY <1>2, <1>3, <1>4, <1>5, <1>6, <1>7 DEF Next

\* The invariant holds for lines of any length.
LEMMA VideoInvariant == ASSUME LinesFit PROVE Spec => []VideoInv
<1>1. Init => VideoInv
  BY InitVideo
<1>2. VideoInv /\ [Next]_vars => VideoInv'
  BY NextVideo
<1>3. QED
  BY <1>1, <1>2, PTL DEF Spec

\* No word that is read from the screen is thrown away (shifter.c:361).
THEOREM LoadsCorrect == ASSUME LinesFit PROVE Spec => []NoLoadMissed
<1>1. VideoInv => NoLoadMissed
  <2> SUFFICES ASSUME VideoInv, at = "mmu", Fetches PROVE loads < 4
    BY DEF NoLoadMissed
  <2>1. PICK g \in Int, v \in 0 .. 15, j \in 1 .. 3, n \in Nat \ {0}, t \in Nat, p \in 0 .. 2 :
          LineInv(g, v, j, n, t, p)
    BY DEF VideoInv
  <2>2. loads \in 0 .. 3
    BY <2>1, FetchFacts
  <2>3. QED
    BY <2>2
<1>2. QED
  BY <1>1, VideoInvariant, PTL

\* The registers are copied when exactly the next four words are there
\* (shifter.c:310-311).
THEOREM GroupsCorrect == ASSUME LinesFit PROVE Spec => GroupsInOrder
<1>1. ASSUME VideoInv, Shifter, LoadsRR PROVE \A i \in 0 .. 3 : IR[i] = (next + i) % 8
  <2>1. PICK g \in Int, v \in 0 .. 15, j \in 1 .. 3, n \in Nat \ {0}, t \in Nat, p \in 0 .. 2 :
          LineInv(g, v, j, n, t, p)
    BY <1>1 DEF VideoInv
  <2>2. at = "shifter"
    BY <1>1 DEF Shifter
  <2>3. Held(g, v, n) = 4
    BY <1>1, <2>1, <2>2, CopyFacts
  <2>4. \A i \in 0 .. Held(g, v, n) - 1 : IR[i] = (next + i) % 8
    BY <2>1 DEF LineInv, WordInv
  <2>5. QED
    BY <2>3, <2>4
<1>2. VideoInv /\ [Next]_vars =>
        [Shifter /\ LoadsRR => \A i \in 0 .. 3 : IR[i] = (next + i) % 8]_vars
  BY <1>1
<1>3. QED
  BY <1>2, VideoInvariant, PTL DEF Spec, GroupsInOrder

\* No pixel is cut off by a copy over it (shifter.c:274-295).
THEOREM WordsCorrect == ASSUME LinesFit PROVE Spec => WordsShownWhole
<1> DEFINE Whole == /\ Shifts => \A i \in 0 .. row.planes - 1 : Drawn[i].left = 0
                    /\ LoadsRR => \A i \in 0 .. 3 : Shifted[i].left = 0
<1>1. ASSUME VideoInv, Shifter PROVE Whole
  <2>1. PICK g \in Int, v \in 0 .. 15, j \in 1 .. 3, n \in Nat \ {0}, t \in Nat, p \in 0 .. 2 :
          LineInv(g, v, j, n, t, p)
    BY <1>1 DEF VideoInv
  <2>2. at = "shifter"
    BY <1>1 DEF Shifter
  <2>3. LoadsRR => v = 13
    BY <2>1, <2>2, CopyFacts
  <2>4. /\ (Drawing(g, v, n) => rrPixels = Place(v))
        /\ RR = [i \in 0 .. 3 |-> [word |-> RR[i].word, left |-> RR[i].left]]
        /\ \A i \in 0 .. 3 : RR[i].left = IF Drawing(g, v, n) THEN LeftAt(i, Place(v)) ELSE 0
        /\ row.planes \in {1, 2, 4}
    BY <2>1, VideoAssumption DEF LineInv, PixelInv, BeamInv
  <2>5. CASE Drawing(g, v, n)
    <3>1. Place(v) \in 0 .. 15 /\ (v = 13 => Place(v) = 15)
      BY DEF Place
    <3>2. /\ \A i \in 0 .. 3 : Shifted[i].left = IF Place(v) < 15 THEN LeftAt(i, Place(v) + 1) ELSE 0
          /\ Shifts => \A i \in 0 .. row.planes - 1 : Drawn[i].left = 0
      BY <2>4, <2>5, <3>1, ShiftedFacts
    <3>3. QED
      BY <2>3, <3>1, <3>2
  <2>6. CASE ~Drawing(g, v, n)
    BY <2>4, <2>6, IdleFacts
  <2>7. QED
    BY <2>5, <2>6
<1>2. VideoInv /\ [Next]_vars => [Shifter => Whole]_vars
  BY <1>1
<1>3. QED
  BY <1>2, VideoInvariant, PTL DEF Spec, WordsShownWhole

\* A line begins with everything drawn, and the Shifter waits for its first word.
THEOREM StartCorrect == ASSUME LinesFit PROVE Spec => LineStartsFresh
<1> DEFINE Fresh == /\ next = fetched /\ loads = 0 /\ ~counting
                    /\ \A i \in 0 .. 3 : RR[i].left = 0
<1>1. ASSUME VideoInv, Glue, de', ~de PROVE Fresh
  <2>1. PICK g \in Int, v \in 0 .. 15, j \in 1 .. 3, n \in Nat \ {0}, t \in Nat, p \in 0 .. 2 :
          LineInv(g, v, j, n, t, p)
    BY <1>1 DEF VideoInv
  <2>2. at = "glue" /\ ~(beam > 1)
    BY <1>1, Zenon DEF Glue
  <2>3. g >= n /\ g * 16 + v + j >= 16 * n + 17
    BY <1>1, <2>1, <2>2, OnStep
  <2>4. ~In(g, n) /\ ~Drawing(g, v, n)
    BY <2>3 DEF In, Drawing
  <2>5. LoadInv(g, v, j, n, p) /\ CountInv(g, v, n, p) /\ WordInv(g, v, n) /\ PixelInv(g, v, n)
    BY <2>1 DEF LineInv
  <2>6. loads = 0 /\ ~counting
    BY <2>2, <2>4, <2>5 DEF LoadInv, CountInv
  <2>7. next = fetched
    <3>1. Held(g, v, n) = 0
      BY <2>2, <2>4 DEF Held
    <3>2. next \in 0 .. 7 /\ fetched = (next + 0) % 8
      BY <2>5, <3>1 DEF WordInv
    <3>3. QED
      BY <3>2
  <2>8. \A i \in 0 .. 3 : RR[i].left = 0
    BY <2>4, <2>5 DEF PixelInv
  <2>9. QED
    BY <2>6, <2>7, <2>8
<1>2. VideoInv /\ [Next]_vars => [Glue /\ de' /\ ~de => Fresh]_vars
  BY <1>1
<1>3. QED
  BY <1>2, VideoInvariant, PTL DEF Spec, LineStartsFresh

-----------------------------------------------------------------------------
(* The list implements DelayedCalls *)

\* The calls that a list makes after n cycles.
Made(q, n) ==
  LET now(k) == Elapsed(q, k) = n
  IN  [i \in 1 .. Cardinality({k \in 1 .. Len(q) : now(k)}) |->
        LET k == CHOOSE k \in 1 .. Len(q) :
                   now(k) /\ Cardinality({j \in 1 .. k : now(j)}) = i
        IN  q[k].callback]

\* Up to two elements are counted.
LEMMA Counts ==
  /\ Cardinality({}) = 0 /\ Cardinality({1}) = 1 /\ Cardinality({2}) = 1
  /\ Cardinality({1, 2}) = 2
<1>1. Cardinality({}) = 0
  BY FS_EmptySet
<1>2. Cardinality({1}) = 1 /\ Cardinality({2}) = 1
  BY FS_Singleton
<1>3. Cardinality({1, 2}) = 2
  <2>1. IsFiniteSet({1})
    BY FS_Singleton
  <2>2. {1} \cup {2} = {1, 2} /\ 2 \notin {1} /\ 1 + 1 = 2
    OBVIOUS
  <2>3. QED
    BY <1>2, <2>1, <2>2, FS_AddElement
<1>4. QED
  BY <1>1, <1>2, <1>3

\* The place of the i-th call that q makes after n cycles.
Position(q, n, i) ==
  CHOOSE k \in 1 .. Len(q) :
    Elapsed(q, k) = n /\ Cardinality({j \in 1 .. k : Elapsed(q, j) = n}) = i

\* A sequence of as many calls as are made then, each from its place.
LEMMA MadePlaces ==
  ASSUME NEW q, NEW n
  PROVE  Made(q, n) = [i \in 1 .. Cardinality({k \in 1 .. Len(q) : Elapsed(q, k) = n}) |->
                        q[Position(q, n, i)].callback]
BY DEF Made, Position

\* A list of no calls makes none.
LEMMA MadeEmpty == ASSUME NEW n \in Nat PROVE Made(<<>>, n) = <<>>
<1>1. {k \in 1 .. Len(<<>>) : Elapsed(<<>>, k) = n} = {}
  OBVIOUS
<1>2. QED
  BY <1>1, Counts DEF Made

\* A list of one call makes it after its delay.
LEMMA MadeOne ==
  ASSUME NEW b \in Nat, NEW h, NEW n \in Nat
  PROVE  Made(<<Item(b, h)>>, n) = IF b = n THEN <<h>> ELSE <<>>
<1> DEFINE q == <<Item(b, h)>>
<1>1. Len(q) = 1 /\ q[1].callback = h /\ q[1].clock = b
  BY ItemFacts
<1> HIDE DEF q
<1>2. Elapsed(q, 1) = b
  <2>1. 0 + b = b
    OBVIOUS
  <2>2. QED
    BY <1>1, <2>1, ElapsedFacts
<1>3. CASE b = n
  <2>1. {k \in 1 .. 1 : Elapsed(q, k) = n} = {1}
    BY <1>2, <1>3
  <2>2. Position(q, n, 1) = 1
    <3>1. \A k \in 1 .. 1 : k = 1
      OBVIOUS
    <3>2. QED
      BY <1>1, <1>2, <1>3, <2>1, <3>1, Counts DEF Position
  <2>3. Made(q, n) = [i \in 1 .. 1 |-> q[Position(q, n, i)].callback]
    BY <1>1, <2>1, Counts, MadePlaces
  <2>4. Made(q, n) = [i \in 1 .. 1 |-> h]
    BY <1>1, <2>2, <2>3
  <2>5. [i \in 1 .. 1 |-> h] = <<h>>
    OBVIOUS
  <2>6. QED
    BY <1>3, <2>4, <2>5 DEF q
<1>4. CASE b # n
  <2>1. {k \in 1 .. Len(q) : Elapsed(q, k) = n} = {}
    BY <1>1, <1>2, <1>4
  <2>2. Made(q, n) = [i \in 1 .. 0 |-> q[Position(q, n, i)].callback]
    BY <2>1, Counts, MadePlaces
  <2>3. [i \in 1 .. 0 |-> q[Position(q, n, i)].callback] = <<>>
    OBVIOUS
  <2>4. QED
    BY <1>4, <2>2, <2>3 DEF q
<1>5. QED
  BY <1>3, <1>4

\* A list of two calls: the second counts from the first.
LEMMA MadeTwo ==
  ASSUME NEW b \in Nat, NEW h, NEW c \in Nat, NEW f, NEW n \in Nat
  PROVE  Made(<<Item(b, h), Item(c, f)>>, n) =
           IF b = n THEN IF c = 0 THEN <<h, f>> ELSE <<h>>
           ELSE IF b + c = n THEN <<f>> ELSE <<>>
<1> DEFINE q == <<Item(b, h), Item(c, f)>>
<1>1. /\ Len(q) = 2 /\ q[1].callback = h /\ q[1].clock = b /\ q[2].callback = f /\ q[2].clock = c
  BY ItemFacts
<1> HIDE DEF q
<1>2. Elapsed(q, 1) = b /\ Elapsed(q, 2) = b + c
  <2>1. 0 + b = b
    OBVIOUS
  <2>2. QED
    BY <1>1, <2>1, ElapsedFacts
<1>3. 1 .. 2 = {1, 2} /\ 1 .. 1 = {1}
  OBVIOUS
<1>4. ASSUME NEW x, Cardinality({k \in 1 .. Len(q) : Elapsed(q, k) = n}) = 1,
             q[Position(q, n, 1)].callback = x
      PROVE  Made(q, n) = <<x>>
  <2>1. Made(q, n) = [i \in 1 .. 1 |-> q[Position(q, n, i)].callback]
    BY <1>4, MadePlaces
  <2>2. Made(q, n) = [i \in 1 .. 1 |-> x]
    BY <1>4, <2>1
  <2>3. [i \in 1 .. 1 |-> x] = <<x>>
    OBVIOUS
  <2>4. QED
    BY <2>2, <2>3
<1>5. CASE b = n /\ c = 0
  <2>1. /\ {k \in 1 .. 2 : Elapsed(q, k) = n} = {1, 2}
        /\ {k \in 1 .. 1 : Elapsed(q, k) = n} = {1}
    BY <1>2, <1>5
  <2>2. Position(q, n, 1) = 1
    BY <1>1, <1>2, <1>3, <1>5, <2>1, Counts DEF Position
  <2>3. Position(q, n, 2) = 2
    BY <1>1, <1>2, <1>3, <1>5, <2>1, Counts DEF Position
  <2>4. Made(q, n) = [i \in 1 .. 2 |-> q[Position(q, n, i)].callback]
    BY <1>1, <2>1, Counts, MadePlaces
  <2>5. Made(q, n) = [i \in 1 .. 2 |-> IF i = 1 THEN h ELSE f]
    BY <1>1, <1>3, <2>2, <2>3, <2>4
  <2>6. [i \in 1 .. 2 |-> IF i = 1 THEN h ELSE f] = <<h, f>>
    OBVIOUS
  <2>7. QED
    BY <1>5, <2>5, <2>6 DEF q
<1>6. CASE b = n /\ c # 0
  <2>1. /\ {k \in 1 .. 2 : Elapsed(q, k) = n} = {1}
        /\ {k \in 1 .. 1 : Elapsed(q, k) = n} = {1}
    BY <1>2, <1>6
  <2>2. Position(q, n, 1) = 1
    BY <1>1, <1>2, <1>3, <1>6, <2>1, Counts DEF Position
  <2>3. Made(q, n) = <<h>>
    BY <1>1, <1>4, <2>1, <2>2, Counts
  <2>4. QED
    BY <1>6, <2>3 DEF q
<1>7. CASE b # n /\ b + c = n
  <2>1. /\ {k \in 1 .. 2 : Elapsed(q, k) = n} = {2}
        /\ {k \in 1 .. 1 : Elapsed(q, k) = n} = {}
    BY <1>2, <1>7
  <2>2. Position(q, n, 1) = 2
    BY <1>1, <1>2, <1>3, <1>7, <2>1, Counts DEF Position
  <2>3. Made(q, n) = <<f>>
    BY <1>1, <1>4, <2>1, <2>2, Counts
  <2>4. QED
    BY <1>7, <2>3 DEF q
<1>8. CASE b # n /\ b + c # n
  <2>1. {k \in 1 .. Len(q) : Elapsed(q, k) = n} = {}
    BY <1>1, <1>2, <1>8
  <2>2. Made(q, n) = [i \in 1 .. 0 |-> q[Position(q, n, i)].callback]
    BY <2>1, Counts, MadePlaces
  <2>3. [i \in 1 .. 0 |-> q[Position(q, n, i)].callback] = <<>>
    OBVIOUS
  <2>4. QED
    BY <1>8, <2>2, <2>3 DEF q
<1>9. QED
  BY <1>5, <1>6, <1>7, <1>8

\* What the list makes within the next two cycles.
Agenda(q) == [n \in 0 .. 2 |-> Made(q, n)]

Callbacks == {"raise_load", "lower_load", "increment_loads", "set_counting"}

\* It is due in the sense of DelayedCalls.
LEMMA DueAgenda ==
  /\ [n \in 0 .. 2 |-> DueIn(n)] = Agenda(queue)
  /\ [n \in 0 .. 2 |-> DueIn(n)'] = Agenda(queue')
BY DEF Agenda, Made, DueIn

\* The agenda of an empty list.
LEMMA AgendaEmpty == Agenda(<<>>) = [n \in 0 .. 2 |-> <<>>]
<1>1. \A n \in 0 .. 2 : n \in Nat
  OBVIOUS
<1>2. QED
  BY <1>1, MadeEmpty DEF Agenda

\* That of a list of one call.
LEMMA AgendaOne ==
  ASSUME NEW b \in Nat, NEW h
  PROVE  Agenda(<<Item(b, h)>>) = [n \in 0 .. 2 |-> IF b = n THEN <<h>> ELSE <<>>]
<1>1. \A n \in 0 .. 2 : n \in Nat
  OBVIOUS
<1>2. QED
  BY <1>1, MadeOne DEF Agenda

\* That of a list of two.
LEMMA AgendaTwo ==
  ASSUME NEW b \in Nat, NEW h, NEW c \in Nat, NEW f
  PROVE  Agenda(<<Item(b, h), Item(c, f)>>) =
           [n \in 0 .. 2 |-> IF b = n THEN IF c = 0 THEN <<h, f>> ELSE <<h>>
                             ELSE IF b + c = n THEN <<f>> ELSE <<>>]
<1>1. \A n \in 0 .. 2 : n \in Nat
  OBVIOUS
<1>2. \A n \in 0 .. 2 : Made(<<Item(b, h), Item(c, f)>>, n) =
                       IF b = n THEN IF c = 0 THEN <<h, f>> ELSE <<h>>
                       ELSE IF b + c = n THEN <<f>> ELSE <<>>
  <2>1. SUFFICES ASSUME NEW n \in 0 .. 2
                 PROVE  Made(<<Item(b, h), Item(c, f)>>, n) =
                          IF b = n THEN IF c = 0 THEN <<h, f>> ELSE <<h>>
                          ELSE IF b + c = n THEN <<f>> ELSE <<>>
    OBVIOUS
  <2>2. n \in Nat
    BY <1>1
  <2>3. QED
    BY <2>2, MadeTwo
<1>3. QED
  BY <1>2 DEF Agenda

\* The steps of DelayedCalls, from agenda a to agenda z.
Makes(a, z) == a[0] # <<>> /\ z = [a EXCEPT ![0] = Tail(@)]
Turns(a, z) == a[0] = <<>> /\ z = [n \in 0 .. 2 |-> IF n < 2 THEN a[n + 1] ELSE <<>>]
Takes(a, z) ==
  \E f \in [0 .. 2 -> {<<>>} \cup {<<c>> : c \in Callbacks}] : z = [n \in 0 .. 2 |-> a[n] \o f[n]]

\* They are its steps.
LEMMA AgendaStep ==
  ASSUME \/ Makes(Agenda(queue), Agenda(queue'))
         \/ Turns(Agenda(queue), Agenda(queue'))
         \/ Takes(Agenda(queue), Agenda(queue'))
         \/ queue' = queue
  PROVE  [Calls!Next]_[n \in 0 .. 2 |-> DueIn(n)]
<1> DEFINE a == [n \in 0 .. 2 |-> DueIn(n)]
           z == [n \in 0 .. 2 |-> DueIn(n)']
<1>1. a = Agenda(queue) /\ z = Agenda(queue')
  BY DueAgenda
<1>2. CASE Makes(a, z)
  BY <1>2 DEF Makes, Calls!Next, Calls!Call
<1>3. CASE Turns(a, z)
  BY <1>3 DEF Turns, Calls!Next, Calls!Cycle, Calls!Delays
<1>4. CASE Takes(a, z)
  BY <1>4 DEF Takes, Callbacks, Calls!Next, Calls!Register, Calls!Delays
<1>5. CASE queue' = queue
  BY <1>1, <1>5
<1>6. QED
  BY <1>1, <1>2, <1>3, <1>4, <1>5

\* A callback is the first of those due now.
LEMMA CallMade ==
  ASSUME NEW h, NEW c \in Nat, NEW f,
         \/ queue = <<Item(0, h)>> /\ queue' = <<>>
         \/ queue = <<Item(0, h), Item(c, f)>> /\ queue' = <<Item(c, f)>>
  PROVE  Makes(Agenda(queue), Agenda(queue'))
<1>1. Tail(<<h>>) = <<>> /\ Tail(<<h, f>>) = <<f>> /\ <<h>> # <<>> /\ <<h, f>> # <<>>
  BY Short
<1>2. 0 \in Nat /\ 0 + c = c
  OBVIOUS
<1>3. CASE queue = <<Item(0, h)>> /\ queue' = <<>>
  <2>1. /\ Agenda(queue) = [n \in 0 .. 2 |-> IF 0 = n THEN <<h>> ELSE <<>>]
        /\ Agenda(queue') = [n \in 0 .. 2 |-> <<>>]
    BY <1>2, <1>3, AgendaEmpty, AgendaOne
  <2>2. QED
    BY <1>1, <2>1 DEF Makes
<1>4. CASE queue = <<Item(0, h), Item(c, f)>> /\ queue' = <<Item(c, f)>>
  <2>1. Agenda(queue) = [n \in 0 .. 2 |-> IF 0 = n THEN IF c = 0 THEN <<h, f>> ELSE <<h>>
                                          ELSE IF 0 + c = n THEN <<f>> ELSE <<>>]
    BY <1>2, <1>4, AgendaTwo
  <2>2. Agenda(queue') = [n \in 0 .. 2 |-> IF c = n THEN <<f>> ELSE <<>>]
    BY <1>4, AgendaOne
  <2>3. QED
    BY <1>1, <1>2, <2>1, <2>2 DEF Makes
<1>5. QED
  BY <1>3, <1>4

\* A cycle brings the rest of the list a cycle nearer.
LEMMA CycleMade ==
  ASSUME NEW b \in 1 .. 2, NEW h,
         \/ queue = <<>> /\ queue' = <<>>
         \/ queue = <<Item(b, h)>> /\ queue' = <<Item(b - 1, h)>>
  PROVE  Turns(Agenda(queue), Agenda(queue'))
<1>1. CASE queue = <<>> /\ queue' = <<>>
  BY <1>1, AgendaEmpty DEF Turns
<1>2. CASE queue = <<Item(b, h)>> /\ queue' = <<Item(b - 1, h)>>
  <2>1. b \in Nat /\ b - 1 \in Nat
    OBVIOUS
  <2>2. /\ Agenda(queue) = [n \in 0 .. 2 |-> IF b = n THEN <<h>> ELSE <<>>]
        /\ Agenda(queue') = [n \in 0 .. 2 |-> IF b - 1 = n THEN <<h>> ELSE <<>>]
    BY <1>2, <2>1, AgendaOne
  <2>3. QED
    BY <2>2 DEF Turns
<1>3. QED
  BY <1>1, <1>2

\* A new call comes behind those of its cycle.
LEMMA DelayMade ==
  ASSUME NEW x \in Callbacks, NEW b \in 0 .. 1, NEW h,
         \/ queue = <<>> /\ queue' = <<Item(2, x)>>
         \/ queue = <<Item(b, h)>> /\ queue' = <<Item(b, h), Item(2 - b, x)>>
  PROVE  Takes(Agenda(queue), Agenda(queue'))
<1> DEFINE f == [n \in 0 .. 2 |-> IF n = 2 THEN <<x>> ELSE <<>>]
<1>1. f \in [0 .. 2 -> {<<>>} \cup {<<c>> : c \in Callbacks}]
  OBVIOUS
<1>2. /\ <<>> \o <<x>> = <<x>> /\ <<>> \o <<>> = <<>> /\ <<h>> \o <<>> = <<h>>
  BY Short
<1>3. \A n \in 0 .. 2 : f[n] = IF n = 2 THEN <<x>> ELSE <<>>
  OBVIOUS
<1> HIDE DEF f
<1>4. Agenda(queue') = [n \in 0 .. 2 |-> Agenda(queue)[n] \o f[n]]
  <2>1. CASE queue = <<>> /\ queue' = <<Item(2, x)>>
    <3>1. /\ Agenda(queue) = [n \in 0 .. 2 |-> <<>>]
          /\ Agenda(queue') = [n \in 0 .. 2 |-> IF 2 = n THEN <<x>> ELSE <<>>]
      BY <2>1, AgendaEmpty, AgendaOne
    <3>2. QED
      BY <1>2, <1>3, <3>1
  <2>2. CASE queue = <<Item(b, h)>> /\ queue' = <<Item(b, h), Item(2 - b, x)>>
    <3>1. b \in Nat /\ 2 - b \in Nat /\ 2 - b # 0 /\ b + (2 - b) = 2 /\ b # 2
      OBVIOUS
    <3>2. Agenda(queue) = [n \in 0 .. 2 |-> IF b = n THEN <<h>> ELSE <<>>]
      BY <2>2, <3>1, AgendaOne
    <3>3. Agenda(queue') = [n \in 0 .. 2 |-> IF b = n THEN IF 2 - b = 0 THEN <<h, x>> ELSE <<h>>
                                             ELSE IF b + (2 - b) = n THEN <<x>> ELSE <<>>]
      BY <2>2, <3>1, AgendaTwo
    <3>4. Agenda(queue') = [n \in 0 .. 2 |-> IF b = n THEN <<h>> ELSE IF n = 2 THEN <<x>> ELSE <<>>]
      BY <3>1, <3>3
    <3>5. \A n \in 0 .. 2 : Agenda(queue)[n] \o f[n] =
                            IF b = n THEN <<h>> ELSE IF n = 2 THEN <<x>> ELSE <<>>
      BY <1>2, <1>3, <3>1, <3>2
    <3>6. QED
      BY <3>4, <3>5
  <2>3. QED
    BY <2>1, <2>2
<1>5. QED
  BY <1>1, <1>4 DEF Takes

\* So do the calls that a LOAD schedules.
LEMMA LoadMade ==
  ASSUME NEW b \in 0 .. 2, NEW h \in Callbacks, NEW x \in Callbacks, NEW y \in Callbacks,
         \/ queue = <<>> /\ queue' = <<Item(0, x), Item(2, y)>>
         \/ /\ queue = <<Item(b, h)>>
            /\ queue' = IF b = 0 THEN <<Item(0, h), Item(0, x)>> ELSE <<Item(0, x), Item(b, h)>>
  PROVE  Takes(Agenda(queue), Agenda(queue'))
<1>1. /\ <<>> \o <<x>> = <<x>> /\ <<>> \o <<>> = <<>> /\ <<h>> \o <<>> = <<h>> /\ <<>> \o <<y>> = <<y>>
      /\ <<h>> \o <<x>> = <<h, x>>
  BY Short
<1>2. CASE queue = <<>> /\ queue' = <<Item(0, x), Item(2, y)>>
  <2> DEFINE f == [n \in 0 .. 2 |-> IF n = 0 THEN <<x>> ELSE IF n = 2 THEN <<y>> ELSE <<>>]
  <2>1. f \in [0 .. 2 -> {<<>>} \cup {<<c>> : c \in Callbacks}]
    OBVIOUS
  <2>2. \A n \in 0 .. 2 : f[n] = IF n = 0 THEN <<x>> ELSE IF n = 2 THEN <<y>> ELSE <<>>
    OBVIOUS
  <2> HIDE DEF f
  <2>3. Agenda(queue) = [n \in 0 .. 2 |-> <<>>]
    BY <1>2, AgendaEmpty
  <2>4. Agenda(queue') = [n \in 0 .. 2 |-> IF 0 = n THEN IF 2 = 0 THEN <<x, y>> ELSE <<x>>
                                           ELSE IF 0 + 2 = n THEN <<y>> ELSE <<>>]
    <3>1. 0 \in Nat /\ 2 \in Nat
      OBVIOUS
    <3>2. QED
      BY <1>2, <3>1, AgendaTwo
  <2>5. Agenda(queue') = [n \in 0 .. 2 |-> Agenda(queue)[n] \o f[n]]
    BY <1>1, <2>2, <2>3, <2>4
  <2>6. QED
    BY <2>1, <2>5 DEF Takes
<1>3. CASE /\ queue = <<Item(b, h)>>
           /\ queue' = IF b = 0 THEN <<Item(0, h), Item(0, x)>> ELSE <<Item(0, x), Item(b, h)>>
  <2> DEFINE f == [n \in 0 .. 2 |-> IF n = 0 THEN <<x>> ELSE <<>>]
  <2>1. f \in [0 .. 2 -> {<<>>} \cup {<<c>> : c \in Callbacks}]
    OBVIOUS
  <2>2. \A n \in 0 .. 2 : f[n] = IF n = 0 THEN <<x>> ELSE <<>>
    OBVIOUS
  <2> HIDE DEF f
  <2>3. b \in Nat /\ 0 \in Nat /\ 0 + b = b /\ 0 + 0 = 0
    OBVIOUS
  <2>4. Agenda(queue) = [n \in 0 .. 2 |-> IF b = n THEN <<h>> ELSE <<>>]
    BY <1>3, <2>3, AgendaOne
  <2>5. Agenda(queue') = [n \in 0 .. 2 |-> Agenda(queue)[n] \o f[n]]
    <3>1. CASE b = 0
      <4>1. Agenda(queue') = [n \in 0 .. 2 |-> IF 0 = n THEN IF 0 = 0 THEN <<h, x>> ELSE <<h>>
                                               ELSE IF 0 + 0 = n THEN <<x>> ELSE <<>>]
        BY <1>3, <2>3, <3>1, AgendaTwo
      <4>2. QED
        BY <1>1, <2>2, <2>3, <2>4, <3>1, <4>1
    <3>2. CASE b # 0
      <4>1. Agenda(queue') = [n \in 0 .. 2 |-> IF 0 = n THEN IF b = 0 THEN <<x, h>> ELSE <<x>>
                                               ELSE IF 0 + b = n THEN <<h>> ELSE <<>>]
        BY <1>3, <2>3, <3>2, AgendaTwo
      <4>2. Agenda(queue') = [n \in 0 .. 2 |-> IF n = 0 THEN <<x>> ELSE IF b = n THEN <<h>> ELSE <<>>]
        BY <2>3, <3>2, <4>1
      <4>3. \A n \in 0 .. 2 : Agenda(queue)[n] \o f[n] =
                              IF n = 0 THEN <<x>> ELSE IF b = n THEN <<h>> ELSE <<>>
        BY <1>1, <2>2, <2>4, <3>2
      <4>4. QED
        BY <4>2, <4>3
    <3>3. QED
      BY <3>1, <3>2
  <2>6. QED
    BY <2>1, <2>5 DEF Takes
<1>4. QED
  BY <1>2, <1>3
\* A list that begins with a call of this cycle, alone or before one other.
Heads(q, h) == q = <<Item(0, h)>> \/ \E c \in Nat : \E f : q = <<Item(0, h), Item(c, f)>>

\* What is due is such a list.
LEMMA DueList ==
  ASSUME NEW g \in Int, NEW v \in 0 .. 15, NEW j \in 1 .. 3, NEW n \in Nat \ {0}, NEW p \in 0 .. 2,
         queue = AtCalls(g, v, j, n, p), Due
  PROVE  \E h : Heads(queue, h)
<1> DEFINE E == EdgeLeft(g, v, j, n, p)
           I == IncLeft(g, v, j, n, p)
           C == CntLeft(g, v, n, p)
<1>1. E \/ I \/ C
  BY DueIsLeft
<1>2. CASE E
  <2>1. PICK h : Edge(0, g) = Item(0, h)
    BY DEF Edge
  <2>2. queue = IF IncDue(g, v, n) THEN <<Item(0, h), Item(0, "increment_loads")>> ELSE <<Item(0, h)>>
    BY <1>2, <2>1 DEF AtCalls, Inc
  <2>3. 0 \in Nat
    OBVIOUS
  <2>4. Heads(queue, h)
    BY <2>2, <2>3 DEF Heads
  <2>5. QED
    BY <2>4
<1>3. ASSUME NEW h, queue = Ahead(Item(0, h), g, v, j, n)
      PROVE  Heads(queue, h)
  <2>1. CASE Waits(g, v, j, n)
    <3>1. PICK c \in {0, 1}, f \in {"raise_load", "lower_load", "set_counting"} :
            Later(g, v, j, n, 0) = Item(c, f) /\ Later(g, v, j, n, 1) = Item(c + 1, f)
      BY <2>1, LaterFacts
    <3>2. c + 1 \in Nat /\ queue = <<Item(0, h), Item(c + 1, f)>>
      BY <1>3, <2>1, <3>1 DEF Ahead
    <3>3. QED
      BY <3>2 DEF Heads
  <2>2. CASE ~Waits(g, v, j, n)
    BY <1>3, <2>2 DEF Ahead, Heads
  <2>3. QED
    BY <2>1, <2>2
<1>4. CASE ~E /\ I
  <2>1. queue = Ahead(Item(0, "increment_loads"), g, v, j, n)
    BY <1>4 DEF AtCalls, Inc
  <2>2. QED
    BY <1>3, <2>1
<1>5. CASE ~E /\ ~I /\ C
  <2>1. queue = Ahead(Item(0, "set_counting"), g, v, j, n)
    BY <1>5 DEF AtCalls, Cnt
  <2>2. QED
    BY <1>3, <2>1
<1>6. QED
  BY <1>1, <1>2, <1>4, <1>5

\* A callback is one step of DelayedCalls.
LEMMA AgendaCall ==
  ASSUME NEW g \in Int, NEW v \in 0 .. 15, NEW j \in 1 .. 3, NEW n \in Nat \ {0}, NEW t \in Nat,
         NEW p \in 0 .. 2,
         LineInv(g, v, j, n, t, p), Call
  PROVE  Makes(Agenda(queue), Agenda(queue'))
<1>1. queue = AtCalls(g, v, j, n, p) /\ Due /\ queue' = Tail(queue)
  BY DEF Call, LineInv, Queue
<1>2. PICK h : Heads(queue, h)
  BY <1>1, DueList
<1>3. CASE queue = <<Item(0, h)>>
  <2>1. queue' = <<>> /\ 0 \in Nat
    BY <1>1, <1>3, Short
  <2>2. QED
    BY <1>3, <2>1, CallMade
<1>4. CASE \E c \in Nat : \E f : queue = <<Item(0, h), Item(c, f)>>
  <2>1. PICK c \in Nat : \E f : queue = <<Item(0, h), Item(c, f)>>
    BY <1>4
  <2>2. PICK f : queue = <<Item(0, h), Item(c, f)>>
    BY <2>1
  <2>3. queue' = <<Item(c, f)>>
    BY <1>1, <2>2, Short
  <2>4. QED
    BY <2>2, <2>3, CallMade
<1>5. QED
  BY <1>2, <1>3, <1>4 DEF Heads

\* The end of a cycle is another.
LEMMA AgendaCount ==
  ASSUME NEW g \in Int, NEW v \in 0 .. 15, NEW j \in 1 .. 3, NEW n \in Nat \ {0}, NEW t \in Nat,
         NEW p \in 0 .. 2,
         LineInv(g, v, j, n, t, p), Count
  PROVE  Turns(Agenda(queue), Agenda(queue'))
<1>0. LineInv(g, v, j, n, t, p)'
  BY CountStep
<1>1. /\ at = "calls" /\ at' = "glue" /\ queue = AtCalls(g, v, j, n, p) /\ ~Due
  BY DEF Count, LineInv, Queue
<1>2. queue = Waiting(g, v, j, n, 1)
  BY <1>1, DueIsLeft
<1>3. queue' = Waiting(g, v, j, n, 0)
  BY <1>0, <1>1 DEF LineInv, Queue
<1>4. CASE Waits(g, v, j, n)
  <2>1. PICK c \in {0, 1}, f \in {"raise_load", "lower_load", "set_counting"} :
          Later(g, v, j, n, 0) = Item(c, f) /\ Later(g, v, j, n, 1) = Item(c + 1, f)
    BY <1>4, LaterFacts
  <2>2. queue = <<Item(c + 1, f)>> /\ queue' = <<Item(c, f)>>
    BY <1>2, <1>3, <1>4, <2>1 DEF Waiting
  <2>3. PICK b \in 1 .. 2 : b = c + 1 /\ b - 1 = c
    OBVIOUS
  <2>4. queue = <<Item(b, f)>> /\ queue' = <<Item(b - 1, f)>>
    BY <2>2, <2>3
  <2>5. QED
    BY <2>4, CycleMade
<1>5. CASE ~Waits(g, v, j, n)
  <2>1. queue = <<>> /\ queue' = <<>> /\ 1 \in 1 .. 2
    BY <1>2, <1>3, <1>5 DEF Waiting
  <2>2. QED
    BY <2>1, CycleMade
<1>6. QED
  BY <1>4, <1>5

\* An edge of DE delays one call by two cycles.
LEMMA AgendaGlue ==
  ASSUME NEW g \in Int, NEW v \in 0 .. 15, NEW j \in 1 .. 3, NEW n \in Nat \ {0}, NEW t \in Nat,
         NEW p \in 0 .. 2,
         LineInv(g, v, j, n, t, p), Glue, ~(beam > 1)
  PROVE  Takes(Agenda(queue), Agenda(queue'))
<1>1. queue = Waiting(g, v, j, n, 0)
  BY DEF Glue, LineInv, Queue
<1>2. PICK x \in Callbacks : queue' = Delay(queue, 2, x)
  BY Zenon DEF Glue, LoadDelay, Callbacks
<1>3. CASE Waits(g, v, j, n)
  <2>1. PICK c \in {0, 1}, f \in {"raise_load", "lower_load", "set_counting"} :
          Later(g, v, j, n, 0) = Item(c, f) /\ Later(g, v, j, n, 1) = Item(c + 1, f)
    BY <1>3, LaterFacts
  <2>2. queue = <<Item(c, f)>>
    BY <1>1, <1>3, <2>1 DEF Waiting
  <2>3. c \in Nat /\ 2 \in Nat /\ c <= 2 /\ c \in 0 .. 1
    OBVIOUS
  <2>4. Delay(<<Item(c, f)>>, 2, x) = <<Item(c, f), Item(2 - c, x)>>
    <3>1. \A d \in Nat : Delay(<<Item(d, f)>>, 2, x) =
            IF d <= 2 THEN <<Item(d, f), Item(2 - d, x)>> ELSE <<Item(2, x), Item(d - 2, f)>>
      BY <2>3, DelayOne
    <3>2. QED
      BY <2>3, <3>1
  <2>5. queue' = <<Item(c, f), Item(2 - c, x)>>
    BY <1>2, <2>2, <2>4
  <2>6. QED
    BY <2>2, <2>3, <2>5, DelayMade
<1>4. CASE ~Waits(g, v, j, n)
  <2>1. queue = <<>>
    BY <1>1, <1>4 DEF Waiting
  <2>2. 2 \in Nat /\ 0 \in 0 .. 1
    OBVIOUS
  <2>3. Delay(<<>>, 2, x) = <<Item(2, x)>>
    BY <2>2, DelayEmpty
  <2>4. queue' = <<Item(2, x)>>
    BY <1>2, <2>1, <2>3
  <2>5. QED
    BY <2>1, <2>2, <2>4, DelayMade
<1>5. QED
  BY <1>3, <1>4

\* A LOAD registers its two calls, or the one, at once.
LEMMA AgendaLoad ==
  ASSUME NEW g \in Int, NEW v \in 0 .. 15, NEW j \in 1 .. 3, NEW n \in Nat \ {0}, NEW t \in Nat,
         NEW p \in 0 .. 2,
         LineInv(g, v, j, n, t, p), Mmu, Fetches
  PROVE  Takes(Agenda(queue), Agenda(queue'))
<1> DEFINE inc == "increment_loads"
           set == "set_counting"
           low == "lower_load"
<1>1. at = "mmu"
  BY DEF Mmu
<1>2. de <=> Cnts(g, v, n)
  BY <1>1, FetchFacts
<1>3. queue' = IF Cnts(g, v, n) THEN Delay(Delay(queue, 0, inc), 2, set) ELSE Delay(queue, 0, inc)
  BY <1>2 DEF Mmu, Load
<1>4. /\ Cnts(g, v, n) => queue = <<>>
      /\ ~Cnts(g, v, n) => queue = <<Item(3 - j, low)>>
  BY <1>1, FetchQueue
<1>5. inc \in Callbacks /\ set \in Callbacks /\ low \in Callbacks
  BY DEF Callbacks
<1>6. CASE Cnts(g, v, n)
  <2>1. queue = <<>> /\ queue' = <<Item(0, inc), Item(2, set)>> /\ 0 \in 0 .. 2
    BY <1>3, <1>4, <1>6, DelayBoth
  <2>2. QED
    BY <1>5, <2>1, LoadMade
<1>7. CASE ~Cnts(g, v, n)
  <2>1. PICK b \in 0 .. 2 : b = 3 - j /\ (b = 0 <=> j = 3)
    OBVIOUS
  <2>2. queue = <<Item(b, low)>> /\ queue' = Delay(<<Item(3 - j, low)>>, 0, inc)
    BY <1>3, <1>4, <1>7, <2>1
  <2>3. queue' = IF j = 3 THEN <<Item(0, low), Item(0, inc)>> ELSE <<Item(0, inc), Item(3 - j, low)>>
    BY <2>2, DelayLast
  <2>4. queue' = IF b = 0 THEN <<Item(0, low), Item(0, inc)>> ELSE <<Item(0, inc), Item(b, low)>>
    BY <2>1, <2>3
  <2>5. QED
    BY <1>5, <2>2, <2>4, LoadMade
<1>8. QED
  BY <1>6, <1>7

\* Every step of the emulator is a step of DelayedCalls, or none.
LEMMA NextCalls == ASSUME VideoInv, [Next]_vars PROVE [Calls!Next]_[n \in 0 .. 2 |-> DueIn(n)]
<1>1. PICK g \in Int, v \in 0 .. 15, j \in 1 .. 3, n \in Nat \ {0}, t \in Nat, p \in 0 .. 2 :
        LineInv(g, v, j, n, t, p)
  BY DEF VideoInv
<1>2. CASE Call
  BY <1>1, <1>2, AgendaCall, AgendaStep
<1>3. CASE Count
  BY <1>1, <1>3, AgendaCount, AgendaStep
<1>4. CASE Glue /\ ~(beam > 1)
  BY <1>1, <1>4, AgendaGlue, AgendaStep
<1>5. CASE Mmu /\ Fetches
  BY <1>1, <1>5, AgendaLoad, AgendaStep
<1>6. CASE (Glue /\ beam > 1) \/ (Mmu /\ ~Fetches) \/ Shifter \/ UNCHANGED vars
  <2>1. queue' = queue
    BY <1>6 DEF Glue, Mmu, Shifter, vars
  <2>2. QED
    BY <2>1, AgendaStep
<1>7. QED
  BY <1>2, <1>3, <1>4, <1>5, <1>6 DEF Next

\* The list of relative delays (clock.c:14-50) makes every call in its cycle,
\* once and in order.
THEOREM CallsCorrect == ASSUME LinesFit PROVE Spec => CallsInTime
<1>1. Init => Calls!Init
  <2>1. ASSUME Init PROVE [n \in 0 .. 2 |-> DueIn(n)] = [n \in 0 .. 2 |-> <<>>]
    BY <2>1, DueAgenda, AgendaEmpty DEF Init
  <2>2. QED
    BY <2>1 DEF Calls!Init, Calls!Delays
<1>2. VideoInv /\ [Next]_vars => [Calls!Next]_[n \in 0 .. 2 |-> DueIn(n)]
  BY NextCalls
<1>3. QED
  BY <1>1, <1>2, VideoInvariant, PTL DEF Spec, CallsInTime, Calls!Spec
=============================================================================
