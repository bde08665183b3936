------------------------------ MODULE MfpTimer ------------------------------
(***************************************************************************)
(* One timer of the MFP: the prescaler precnt, the counter timercnt and    *)
(* the two registers the guest writes.  Machine asks a timer only whether  *)
(* it ran out during a pass; this module says when it does.                *)
(*                                                                         *)
(* Prescaler units are 1/313 of an MFP clock: an 8 MHz cycle is 96 of them *)
(* and a divider of d lasts 313 * d.  The variables ideal, loaded and since*)
(* are history: a prescaler that never falls behind, the value the counter *)
(* was last loaded with and the ticks it has seen since.                   *)
(***************************************************************************)
EXTENDS Integers

CONSTANTS
  Controls,   \* values the guest writes to the control register, 0 .. 15
  Data,       \* values the guest writes to the data register
  Cycles,     \* CPU cycles between two passes
  Width,      \* number of values of timercnt, 256 in the code
  Events      \* TRUE for Timer B, which counts display-enable edges

ASSUME TimerAssumption ==
  /\ Controls \subseteq 0 .. 15
  /\ Width \in Nat \ {0}
  /\ Data \subseteq 0 .. Width - 1
  /\ Cycles \subseteq Nat
  /\ Events \in BOOLEAN

VARIABLES ctl, data, precnt, timercnt, raised, ideal, loaded, since

vars == <<ctl, data, precnt, timercnt, raised, ideal, loaded, since>>

Divider == [n \in 0 .. 7 |-> CASE n = 0 -> 0  [] n = 1 -> 4  [] n = 2 -> 10
                               [] n = 3 -> 16 [] n = 4 -> 50 [] n = 5 -> 64
                               [] n = 6 -> 100 [] n = 7 -> 200]

\* The length of a prescaler period under control value c.
Period(c) == 313 * Divider[c % 8]

\* In delay mode (or pulse mode, which the code runs as delay mode).
Delay == ctl % 8 # 0

\* The registers and the counter keep their widths (mfp.c:103).
TypeOK ==
  /\ ctl \in 0 .. 15
  /\ data \in 0 .. Width - 1 /\ loaded \in 0 .. Width - 1
  /\ timercnt \in 0 .. Width - 1
  /\ precnt \in Int /\ ideal \in Int
  /\ raised \in BOOLEAN
  /\ since \in Nat

Init ==
  /\ ctl = 0 /\ data = 0 /\ precnt = 0 /\ timercnt = 0
  /\ raised = FALSE
  /\ ideal = 0 /\ loaded = 0 /\ since = 0

\* Starting a stopped timer in delay mode fills the prescaler.
WriteControl(c) ==
  /\ IF ctl = 0 /\ c % 8 # 0
     THEN precnt' = Period(c) /\ ideal' = Period(c)
     ELSE UNCHANGED <<precnt, ideal>>
  /\ ctl' = c
  /\ raised' = FALSE
  /\ UNCHANGED <<data, timercnt, loaded, since>>

\* The counter takes the new value at once only while the timer is stopped.
WriteData(v) ==
  /\ data' = v
  /\ IF ctl = 0 THEN timercnt' = v /\ loaded' = v /\ since' = 0
                ELSE UNCHANGED <<timercnt, loaded, since>>
  /\ raised' = FALSE
  /\ UNCHANGED <<ctl, precnt, ideal>>

\* Mutant: the counter reloads when it wraps, not when it reaches zero.
MutTick ==
  IF timercnt = 0
  THEN timercnt' = data /\ raised' = TRUE /\ loaded' = data /\ since' = 0
  ELSE /\ timercnt' = timercnt - 1
       /\ raised' = FALSE
       /\ since' = since + 1
       /\ UNCHANGED loaded

\* timercnt is a BYTE: a counter of zero wraps and runs the full width.
Tick ==
  LET left == IF timercnt = 0 THEN Width - 1 ELSE timercnt - 1
  IN  IF left = 0
      THEN timercnt' = data /\ raised' = TRUE /\ loaded' = data /\ since' = 0
      ELSE /\ timercnt' = left
           /\ raised' = FALSE
           /\ since' = since + 1
           /\ UNCHANGED loaded

\* Mutant: a tick starts a full period, the cycles past it are dropped.
MutRefill(short) == IF short < 0 THEN Period(ctl) ELSE short

\* A prescaler that ran out is given one period, whatever it is short of.
Refill(short) == IF short < 0 THEN short + Period(ctl) ELSE short

\* update_timer, once per pass: at most one tick, however many are due.
Update(cycles) ==
  LET short == precnt - 96 * cycles
  IN  /\ Delay
      /\ precnt' = Refill(short)
      /\ IF short < 0 THEN Tick
         ELSE raised' = FALSE /\ UNCHANGED <<timercnt, loaded, since>>
      /\ ideal' = IF ideal - 96 * cycles < 0
                  THEN (ideal - 96 * cycles) % Period(ctl)
                  ELSE ideal - 96 * cycles
      /\ UNCHANGED <<ctl, data>>

\* mfp_do_timerb_event: one line of the display in event-count mode.
Event ==
  /\ Events /\ ctl = 8
  /\ Tick
  /\ UNCHANGED <<ctl, data, precnt, ideal>>

Next ==
  \/ \E c \in Controls : WriteControl(c)
  \/ \E v \in Data : WriteData(v)
  \/ \E n \in Cycles : Update(n)
  \/ Event

Spec == Init /\ [][Next]_vars

-----------------------------------------------------------------------------

\* No pass is longer than the shortest period the guest selects.
PassesAreShort ==
  \A c \in Controls, n \in Cycles : c % 8 # 0 => 96 * n <= Period(c)

\* The one tick per pass of update_timer keeps exact time: the prescaler is
\* never behind one that ticks as often as it should (mfp.c:333-335).
InStep == precnt = ideal

\* An interrupt comes after exactly the ticks the counter was loaded with, a
\* load of zero standing for the full width (mfp.c:336-338, mfp.c:517-519), also
\* when the data register changes in between or the mode does.
CountsDown ==
  LET full == IF loaded = 0 THEN Width ELSE loaded
  IN  /\ since < full
      /\ timercnt = IF since = 0 THEN loaded ELSE full - since
=============================================================================
