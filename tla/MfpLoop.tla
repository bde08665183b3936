------------------------------ MODULE MfpLoop ------------------------------
(***************************************************************************)
(* The loop of mfp_do_interrupts, one call of mfp_do_interrupt at a time,  *)
(* from source 15 down to source 0.  It shows that the closed form Served  *)
(* of module Mfp, which module Machine takes in one step, is what the loop *)
(* computes from whatever the registers hold when the pass begins.         *)
(***************************************************************************)
EXTENDS Mfp

VARIABLES
  i,        \* the source the loop looks at next
  ipl,      \* IPL
  handed,   \* sources passed to cpu_set_interrupt
  last,     \* the source passed to it last, -1 before the first
  ipr0,     \* IPR and ISR at the start of the pass
  isr0

loopVars == <<i, ipl, handed, last, ipr0, isr0>>

\* Registers as they were when the pass began.
Start == INSTANCE Mfp WITH ipr <- ipr0, isr <- isr0

LoopInit ==
  /\ gpip = {} /\ aer = {}
  /\ ier \in SUBSET Sources /\ imr \in SUBSET Sources
  /\ ipr \in SUBSET Sources /\ isr \in SUBSET Sources
  /\ sei \in BOOLEAN
  /\ ipl \in 0 .. 7
  /\ i = 15
  /\ handed = {} /\ last = -1
  /\ ipr0 = ipr /\ isr0 = isr

\* mfp_higher_ISR: a source above n is in service.
HigherISR(n) == \E k \in isr : k > n

\* mfp_do_interrupt(i), when the source is pending.
DoInterrupt ==
  IF i \notin ier
  THEN /\ ipr' = ipr \ {i}
       /\ UNCHANGED <<isr, handed, last>>
  ELSE IF HigherISR(i) \/ i \notin imr \/ ipl >= 6
  THEN UNCHANGED <<ipr, isr, handed, last>>
  ELSE /\ isr' = IF sei THEN isr \cup {i} ELSE isr \ {i}
       /\ ipr' = ipr \ {i}
       /\ handed' = handed \cup {i}
       /\ last' = i

Iterate ==
  /\ i >= 0
  /\ IF i \in ipr THEN DoInterrupt ELSE UNCHANGED <<ipr, isr, handed, last>>
  /\ i' = i - 1
  /\ UNCHANGED <<gpip, aer, ier, imr, sei, ipl, ipr0, isr0>>

LoopSpec == LoopInit /\ [][Iterate]_<<mfpVars, loopVars>>

\* When the loop ends it has handed over exactly the sources of the closed
\* form, the least of them last, cleared those and the disabled ones from IPR,
\* and changed their in-service bits only (mfp.c:501-505).
LoopAgrees ==
  i = -1 =>
    LET served == Start!Served(ipr0, ipl)
    IN  /\ handed = served
        /\ served # {} => last = LastServed(served)
        /\ ipr = (ipr0 \cap ier) \ served
        /\ isr = IF sei THEN isr0 \cup served ELSE isr0 \ served
=============================================================================
