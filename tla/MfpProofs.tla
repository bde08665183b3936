------------------------------ MODULE MfpProofs ------------------------------
(* The loop of mfp_do_interrupts computes Served, for every register, and a  *)
(* timer keeps time and count, for every counter width.                      *)
EXTENDS MfpTimer, MfpLoop, TLAPS

-----------------------------------------------------------------------------
(* The loop over the sources *)

Served0 == Start!Served(ipr0, ipl)

\* What the loop has done to the sources above i.
LoopInv ==
  /\ i \in -1 .. 15
  /\ ipr0 \subseteq Sources /\ isr0 \subseteq Sources
  /\ ier \subseteq Sources /\ imr \subseteq Sources
  /\ sei \in BOOLEAN
  /\ ipl \in 0 .. 7
  /\ handed = {k \in Served0 : k > i}
  /\ handed # {} => last \in handed /\ \A k \in handed : last <= k
  /\ ipr \subseteq ipr0
  /\ \A k \in ipr0 : k \in ipr <=> k <= i \/ (k \in ier /\ k \notin Served0)
  /\ isr = IF sei THEN isr0 \cup handed ELSE isr0 \ handed

\* A nonempty set of sources has a greatest member.
LEMMA GreatestSource ==
  ASSUME NEW S \in SUBSET Sources, S # {}
  PROVE  \E n \in S : \A k \in S : k <= n
<1> SUFFICES ASSUME \A n \in S : \E k \in S : k > n
             PROVE  FALSE
  BY MfpAssumption
<1> S \subseteq 0 .. 15
  BY MfpAssumption
<1>1. S \cap (12 .. 15) = {}  OBVIOUS
<1>2. S \cap (8 .. 11) = {}   BY <1>1
<1>3. S \cap (4 .. 7) = {}    BY <1>1, <1>2
<1>4. S \cap (0 .. 3) = {}    BY <1>1, <1>2, <1>3
<1>5. S \cap (0 .. 15) = {}   BY <1>1, <1>2, <1>3, <1>4
<1>6. QED
  BY <1>5

\* The tests of mfp_do_interrupt decide membership in the closed form.
LEMMA TestsDecide ==
  ASSUME LoopInv, i \in ipr0
  PROVE  i \in Served0 <=> i \in ier \cap imr /\ ~HigherISR(i) /\ ~(ipl >= 6)
<1> DEFINE Open0 == ipr0 \cap ier \cap imr
<1> USE DEF LoopInv
<1>0. /\ Sources \subseteq 0 .. 15
      /\ Start!Open(ipr0) = Open0
  BY MfpAssumption DEF Start!Open
<1>1. CASE ipl >= 6
  BY <1>1 DEF Served0, Start!Served
<1>2. CASE ~(ipl >= 6) /\ sei
  <2>1. Served0 = {n \in Open0 : \A k \in Open0 \cup isr0 : k <= n}
    BY <1>0, <1>2 DEF Served0, Start!Served
  <2>2. isr = isr0 \cup {k \in Served0 : k > i}
    BY <1>2
  <2>3. ASSUME i \in Served0 PROVE ~HigherISR(i) /\ i \in Open0
    BY <2>1, <2>2, <2>3, <1>0 DEF HigherISR
  <2>4. ASSUME i \in Open0, ~HigherISR(i) PROVE i \in Served0
    <3>1. PICK n \in Open0 \cup isr0 : \A k \in Open0 \cup isr0 : k <= n
      BY <2>4, GreatestSource
    <3>2. n \in 0 .. 15 /\ i <= n
      BY <3>1, <2>4, <1>0
    <3>3. CASE n > i
      <4>1. n \notin isr
        BY <2>4, <3>3 DEF HigherISR
      <4>2. n \in Served0
        BY <2>1, <2>2, <3>1, <4>1
      <4>3. QED
        BY <2>2, <3>3, <4>1, <4>2
    <3>4. CASE n = i
      BY <2>1, <2>4, <3>1, <3>4
    <3>5. QED
      BY <3>2, <3>3, <3>4
  <2>5. QED
    BY <1>2, <2>3, <2>4
<1>3. CASE ~(ipl >= 6) /\ ~sei
  <2>1. Served0 = {n \in Open0 : \A k \in isr0 \ Open0 : k < n}
    BY <1>0, <1>3 DEF Served0, Start!Served
  <2>2. isr = isr0 \ {k \in Served0 : k > i}
    BY <1>3
  <2>3. ASSUME i \in Served0 PROVE ~HigherISR(i) /\ i \in Open0
    <3>1. i \in Open0
      BY <2>1, <2>3
    <3>2. ASSUME NEW k \in isr, k > i PROVE FALSE
      <4>1. k \in isr0 /\ k \in 0 .. 15
        BY <2>2, <3>2, <1>0
      <4>2. k \in Open0
        BY <2>1, <2>3, <3>2, <4>1, <1>0
      <4>3. k \notin Served0
        BY <2>2, <3>2
      <4>4. PICK j \in isr0 \ Open0 : ~(j < k)
        BY <2>1, <4>2, <4>3
      <4>5. j < i /\ j \in 0 .. 15
        BY <2>1, <2>3, <4>4, <1>0
      <4>6. QED
        BY <3>2, <4>1, <4>4, <4>5
    <3>3. QED
      BY <3>1, <3>2 DEF HigherISR
  <2>4. ASSUME i \in Open0, ~HigherISR(i) PROVE i \in Served0
    <3>1. ASSUME NEW k \in isr0 \ Open0 PROVE k < i
      <4>1. k \in isr /\ k \in 0 .. 15 /\ k # i
        BY <2>1, <2>2, <2>4, <3>1, <1>0
      <4>2. QED
        BY <2>4, <4>1 DEF HigherISR
    <3>2. QED
      BY <2>1, <2>4, <3>1
  <2>5. QED
    BY <1>3, <2>3, <2>4
<1>4. QED
  BY <1>1, <1>2, <1>3

\* One turn of the loop treats one source as the closed form says (mfp.c:505).
LEMMA IterateStep == LoopInv /\ Iterate => LoopInv'
<1> SUFFICES ASSUME LoopInv, Iterate PROVE LoopInv'
  OBVIOUS
<1> USE DEF LoopInv, Iterate
<1>0. /\ Sources \subseteq 0 .. 15 /\ i \in 0 .. 15 /\ i' = i - 1
      /\ UNCHANGED <<ier, imr, sei, ipl, ipr0, isr0>>
  BY MfpAssumption
<1>1. Served0' = Served0
  BY <1>0 DEF Served0, Start!Served, Start!Open
<1>2. Served0 \subseteq ipr0 \cap ier \cap imr
  BY DEF Served0, Start!Served, Start!Open
<1>3. \A k \in 0 .. 15 : k > i' <=> k > i \/ k = i
  BY <1>0
<1>4. i \in ipr <=> i \in ipr0
  BY <1>0
<1>5. CASE i \in ipr0 /\ i \in Served0
  <2>1. /\ isr' = IF sei THEN isr \cup {i} ELSE isr \ {i}
        /\ ipr' = ipr \ {i}
        /\ handed' = handed \cup {i}
        /\ last' = i
    BY <1>4, <1>5, TestsDecide DEF DoInterrupt
  <2>2. handed' = {k \in Served0 : k > i'}
    BY <1>0, <1>2, <1>3, <1>5, <2>1
  <2>3. last' \in handed' /\ \A k \in handed' : last' <= k
    BY <1>0, <1>2, <2>1
  <2>4. /\ ipr' \subseteq ipr0
        /\ \A k \in ipr0 : k \in ipr' <=> k <= i' \/ (k \in ier /\ k \notin Served0)
    BY <1>0, <1>2, <1>5, <2>1
  <2>5. isr' = IF sei THEN isr0 \cup handed' ELSE isr0 \ handed'
    BY <2>1
  <2>6. i' \in -1 .. 15
    BY <1>0
  <2>7. QED
    BY <1>0, <1>1, <2>2, <2>3, <2>4, <2>5, <2>6
<1>6. CASE i \in ipr0 /\ i \notin Served0
  <2>1. /\ UNCHANGED <<isr, handed, last>>
        /\ ipr' = IF i \in ier THEN ipr ELSE ipr \ {i}
    BY <1>4, <1>6, TestsDecide DEF DoInterrupt
  <2>2. handed' = {k \in Served0 : k > i'}
    BY <1>0, <1>2, <1>3, <1>6, <2>1
  <2>3. /\ ipr' \subseteq ipr0
        /\ \A k \in ipr0 : k \in ipr' <=> k <= i' \/ (k \in ier /\ k \notin Served0)
    BY <1>0, <1>6, <2>1
  <2>4. QED
    BY <1>0, <1>1, <2>1, <2>2, <2>3
<1>7. CASE i \notin ipr0
  <2>1. UNCHANGED <<ipr, isr, handed, last>>
    BY <1>4, <1>7
  <2>2. handed' = {k \in Served0 : k > i'}
    BY <1>0, <1>2, <1>3, <1>7, <2>1
  <2>3. /\ ipr' \subseteq ipr0
        /\ \A k \in ipr0 : k \in ipr' <=> k <= i' \/ (k \in ier /\ k \notin Served0)
    BY <1>0, <1>7, <2>1
  <2>4. QED
    BY <1>0, <1>1, <2>1, <2>2, <2>3
<1>8. QED
  BY <1>5, <1>6, <1>7

\* The loop of the code and the one-step pass of Machine agree, whatever the
\* registers hold (mfp.c:501-505).
THEOREM LoopCorrect == LoopSpec => []LoopAgrees
<1>1. LoopInit => LoopInv
  <2> SUFFICES ASSUME LoopInit PROVE LoopInv
    OBVIOUS
  <2>1. /\ Sources \subseteq 0 .. 15 /\ i = 15 /\ handed = {}
        /\ ipr0 = ipr /\ isr0 = isr /\ ipr \subseteq Sources
        /\ Served0 \subseteq ipr0
    BY MfpAssumption DEF LoopInit, Served0, Start!Served, Start!Open
  <2>2. \A k \in Sources : k <= i /\ ~(k > i)
    BY <2>1
  <2>3. handed = {k \in Served0 : k > i}
    BY <2>1, <2>2
  <2>4. \A k \in ipr0 : k \in ipr <=> k <= i \/ (k \in ier /\ k \notin Served0)
    BY <2>1, <2>2
  <2>5. /\ isr0 \subseteq Sources /\ ier \subseteq Sources
        /\ imr \subseteq Sources /\ ipl \in 0 .. 7 /\ sei \in BOOLEAN
    BY DEF LoopInit
  <2>6. isr = IF sei THEN isr0 \cup handed ELSE isr0 \ handed
    BY <2>1
  <2>7. ipr \subseteq ipr0 /\ i \in -1 .. 15 /\ ipr0 \subseteq Sources
    BY <2>1
  <2>8. QED
    BY <2>1, <2>3, <2>4, <2>5, <2>6, <2>7 DEF LoopInv
<1>2. LoopInv /\ [Iterate]_<<mfpVars, loopVars>> => LoopInv'
  <2> SUFFICES ASSUME LoopInv, UNCHANGED <<mfpVars, loopVars>> PROVE LoopInv'
    BY IterateStep
  <2> QED
    BY DEF LoopInv, mfpVars, loopVars, Served0, Start!Served, Start!Open
<1>3. LoopInv => LoopAgrees
  <2> SUFFICES ASSUME LoopInv, i = -1 PROVE LoopAgrees
    BY DEF LoopAgrees
  <2> USE DEF LoopInv
  <2>1. Sources \subseteq 0 .. 15 /\ Served0 \subseteq ipr0 \cap ier
    BY MfpAssumption DEF Served0, Start!Served, Start!Open
  <2>2. \A k \in Sources : k > i /\ ~(k <= i)
    BY <2>1
  <2>3. handed = Served0
    BY <2>1, <2>2
  <2>4. ipr = (ipr0 \cap ier) \ Served0
    BY <2>1, <2>2
  <2>5. Served0 # {} => last = LastServed(Served0)
    <3> SUFFICES ASSUME Served0 # {} PROVE last = LastServed(Served0)
      OBVIOUS
    <3>1. last \in Served0 /\ \A k \in Served0 : last <= k
      BY <2>3
    <3>2. ASSUME NEW n \in Served0, \A k \in Served0 : n <= k PROVE n = last
      BY <2>1, <3>1, <3>2
    <3>3. QED
      BY <3>1, <3>2 DEF LastServed
  <2>6. QED
    BY <2>3, <2>4, <2>5 DEF LoopAgrees, Served0
<1>4. QED
  BY <1>1, <1>2, <1>3, PTL DEF LoopSpec

-----------------------------------------------------------------------------
(* The timers *)

\* Only the divider of a stopped timer is zero (mfp.c:109).
LEMMA DividerFacts ==
  /\ \A n \in 0 .. 7 : Divider[n] \in {0, 4, 10, 16, 50, 64, 100, 200}
  /\ \A n \in 0 .. 7 : Divider[n] = 0 <=> n = 0
BY DEF Divider

\* Only a stopped timer has no period.
LEMMA PeriodType ==
  ASSUME NEW c \in 0 .. 15
  PROVE  /\ Period(c) \in Nat
         /\ c % 8 # 0 => Period(c) > 0
<1>1. c % 8 \in 0 .. 7
  OBVIOUS
<1>2. PICK d \in {0, 4, 10, 16, 50, 64, 100, 200} :
        Divider[c % 8] = d /\ (d = 0 <=> c % 8 = 0)
  BY <1>1, DividerFacts
<1>3. Period(c) = 313 * d
  BY <1>2 DEF Period
<1>4. QED
  BY <1>2, <1>3

\* The initial registers are typed.
LEMMA InitType == Init => TypeOK
<1> SUFFICES ASSUME Init PROVE TypeOK
  OBVIOUS
<1>1. raised \in BOOLEAN
  BY Zenon DEF Init
<1>2. /\ ctl = 0 /\ data = 0 /\ precnt = 0 /\ timercnt = 0
      /\ ideal = 0 /\ loaded = 0 /\ since = 0
  BY DEF Init
<1>3. QED
  BY <1>1, <1>2, TimerAssumption DEF TypeOK

\* A tick keeps the counter's width (mfp.c:336).
LEMMA TickType ==
  ASSUME TypeOK, Tick
  PROVE  /\ timercnt' \in 0 .. Width - 1 /\ loaded' \in 0 .. Width - 1
         /\ since' \in Nat /\ raised' \in BOOLEAN
<1> DEFINE left == IF timercnt = 0 THEN Width - 1 ELSE timercnt - 1
<1>1. left \in 0 .. Width - 1
  BY TimerAssumption DEF TypeOK
<1>2. CASE left = 0
  <2>1. timercnt' = data /\ raised' = TRUE /\ loaded' = data /\ since' = 0
    BY <1>2 DEF Tick
  <2>2. raised' \in BOOLEAN
    BY <2>1
  <2>3. QED
    BY <2>1, <2>2 DEF TypeOK
<1>3. CASE left # 0
  <2>1. /\ timercnt' = left /\ raised' = FALSE /\ loaded' = loaded
        /\ since' = since + 1
    BY <1>3 DEF Tick
  <2>2. raised' \in BOOLEAN
    BY <2>1
  <2>3. QED
    BY <1>1, <2>1, <2>2 DEF TypeOK
<1>4. QED
  BY <1>2, <1>3

\* Every step keeps the widths.
LEMMA TypePreserved == TypeOK /\ [Next]_vars => TypeOK'
<1> SUFFICES ASSUME TypeOK, [Next]_vars PROVE TypeOK'
  OBVIOUS
<1> USE TimerAssumption DEF TypeOK
<1>1. ASSUME NEW c \in Controls, WriteControl(c) PROVE TypeOK'
  <2>1. c \in 0 .. 15 /\ raised' = FALSE
    BY <1>1 DEF WriteControl
  <2>2. precnt' \in Int /\ ideal' \in Int
    BY <1>1, <2>1, PeriodType DEF WriteControl
  <2>3. QED
    BY <1>1, <2>1, <2>2 DEF WriteControl
<1>2. ASSUME NEW v \in Data, WriteData(v) PROVE TypeOK'
  <2>1. raised' = FALSE /\ v \in 0 .. Width - 1
    BY <1>2 DEF WriteData
  <2>2. raised' \in BOOLEAN
    BY <2>1
  <2>3. QED
    BY <1>2, <2>1, <2>2 DEF WriteData
<1>3. ASSUME NEW n \in Cycles, Update(n) PROVE TypeOK'
  <2>1. Period(ctl) \in Int /\ Period(ctl) > 0
    <3>1. ctl % 8 # 0
      BY <1>3 DEF Update, Delay
    <3>2. QED
      BY <3>1, PeriodType
  <2>2. precnt' \in Int /\ ideal' \in Int
    BY <1>3, <2>1 DEF Update, Refill
  <2>3. /\ timercnt' \in 0 .. Width - 1 /\ loaded' \in 0 .. Width - 1
        /\ since' \in Nat /\ raised' \in BOOLEAN
    BY <1>3, TickType DEF Update
  <2>4. QED
    BY <1>3, <2>2, <2>3 DEF Update
<1>4. CASE Event
  BY <1>4, TickType DEF Event
<1>5. CASE UNCHANGED vars
  BY <1>5 DEF vars
<1>6. QED
  BY <1>1, <1>2, <1>3, <1>4, <1>5 DEF Next

\* The timer's state is well typed.
THEOREM TypeCorrect == Spec => []TypeOK
BY InitType, TypePreserved, PTL DEF Spec

-----------------------------------------------------------------------------

\* A value short of zero by no more than the modulus wraps once.
LEMMA WrapsOnce ==
  ASSUME NEW d \in {4, 10, 16, 50, 64, 100, 200},
         NEW x \in Int, x < 0, x + 313 * d >= 0
  PROVE  x % (313 * d) = x + 313 * d
<1>1. CASE d = 4    BY <1>1
<1>2. CASE d = 10   BY <1>2
<1>3. CASE d = 16   BY <1>3
<1>4. CASE d = 50   BY <1>4
<1>5. CASE d = 64   BY <1>5
<1>6. CASE d = 100  BY <1>6
<1>7. CASE d = 200  BY <1>7
<1>8. QED
  BY <1>1, <1>2, <1>3, <1>4, <1>5, <1>6, <1>7

InStepInv == TypeOK /\ InStep /\ precnt >= 0 /\ (ctl \in Controls \/ ctl = 0)

\* A pass no longer than a period keeps the prescaler in step.
LEMMA InStepPreserved ==
  ASSUME PassesAreShort, InStepInv, [Next]_vars
  PROVE  InStepInv'
<1> USE TimerAssumption DEF InStepInv, InStep
<1>0. TypeOK'
  BY TypePreserved
<1>1. ASSUME NEW c \in Controls, WriteControl(c) PROVE InStepInv'
  <2>1. c \in 0 .. 15 /\ precnt \in Int
    BY DEF TypeOK
  <2>2. precnt' = ideal' /\ precnt' >= 0
    BY <1>1, <2>1, PeriodType DEF WriteControl
  <2>3. QED
    BY <1>0, <1>1, <2>2 DEF WriteControl
<1>2. ASSUME NEW v \in Data, WriteData(v) PROVE InStepInv'
  BY <1>0, <1>2 DEF WriteData
<1>3. ASSUME NEW n \in Cycles, Update(n) PROVE InStepInv'
  <2> DEFINE d == Divider[ctl % 8]
             short == precnt - 96 * n
  <2>1. /\ ctl \in Controls /\ ctl % 8 # 0 /\ ctl % 8 \in 0 .. 7
        /\ n \in Nat /\ precnt \in Int
    BY <1>3 DEF Update, Delay, TypeOK
  <2>2. d \in {4, 10, 16, 50, 64, 100, 200}
    BY <2>1, DividerFacts
  <2>3. 96 * n <= 313 * d /\ Period(ctl) = 313 * d
    BY <2>1 DEF PassesAreShort, Period
  <2>4. short \in Int /\ short + 313 * d >= 0
    BY <2>1, <2>2, <2>3
  <2>5. short < 0 => short % (313 * d) = short + 313 * d
    BY <2>2, <2>4, WrapsOnce
  <2>6. /\ precnt' = IF short < 0 THEN short + 313 * d ELSE short
        /\ ideal' = IF short < 0 THEN short % (313 * d) ELSE short
        /\ ctl' = ctl
    BY <1>3, <2>3 DEF Update, Refill
  <2>7. QED
    BY <1>0, <2>1, <2>2, <2>4, <2>5, <2>6
<1>4. CASE Event
  BY <1>0, <1>4 DEF Event
<1>5. CASE UNCHANGED vars
  BY <1>0, <1>5 DEF vars
<1>6. QED
  BY <1>1, <1>2, <1>3, <1>4, <1>5 DEF Next

\* As long as no pass is longer than a period, update_timer's one tick per
\* pass loses none (mfp.c:331-343).
THEOREM InStepCorrect == PassesAreShort /\ Spec => []InStep
<1> SUFFICES ASSUME PassesAreShort PROVE Spec => []InStep
  OBVIOUS
<1>1. Init => InStepInv
  BY InitType DEF InStepInv, InStep, Init
<1>2. InStepInv /\ [Next]_vars => InStepInv'
  BY InStepPreserved
<1>3. InStepInv => InStep
  BY DEF InStepInv
<1>4. QED
  BY <1>1, <1>2, <1>3, PTL DEF Spec

\* Every step keeps counter and count together.
LEMMA CountsDownStep == TypeOK /\ CountsDown /\ [Next]_vars => CountsDown'
<1> SUFFICES ASSUME TypeOK, CountsDown, [Next]_vars PROVE CountsDown'
  OBVIOUS
<1> USE TimerAssumption DEF TypeOK, CountsDown
<1>1. ASSUME Tick PROVE CountsDown'
  BY <1>1 DEF Tick
<1>2. ASSUME NEW c \in Controls, WriteControl(c) PROVE CountsDown'
  BY <1>2 DEF WriteControl
<1>3. ASSUME NEW v \in Data, WriteData(v) PROVE CountsDown'
  BY <1>3 DEF WriteData
<1>4. ASSUME NEW n \in Cycles, Update(n) PROVE CountsDown'
  BY <1>1, <1>4 DEF Update
<1>5. CASE Event
  BY <1>1, <1>5 DEF Event
<1>6. CASE UNCHANGED vars
  BY <1>6 DEF vars
<1>7. QED
  BY <1>2, <1>3, <1>4, <1>5, <1>6 DEF Next

\* The counter raises after exactly the ticks it was loaded with, whatever the
\* guest writes in between (mfp.c:334-342, mfp.c:517-523).
THEOREM CountsDownCorrect == Spec => []CountsDown
<1>1. Init => CountsDown
  BY TimerAssumption DEF Init, CountsDown
<1>2. QED
  BY <1>1, CountsDownStep, TypeCorrect, PTL DEF Spec
=============================================================================
