-------------------------------- MODULE Mfp --------------------------------
(***************************************************************************)
(* The interrupt controller of the MC68901 MFP, as mfp.c emulates it.      *)
(*                                                                         *)
(* A sixteen-bit register pair (IERA/IERB, IPRA/IPRB, ...) is the set of   *)
(* the interrupt numbers whose bit is one.  Of VR only bit 3 is kept: it   *)
(* selects between software and automatic end of interrupt.  The timers'   *)
(* counters are in module MfpTimer; here a pass over the controller is     *)
(* told which timers ran out.                                              *)
(***************************************************************************)
EXTENDS Integers, FiniteSets

CONSTANTS
  Sources,   \* the interrupt numbers modelled, among 0 .. 15
  Lines      \* the GPIP inputs modelled, among 4 (ACIA) and 5 (FDC, HDC)

ASSUME MfpAssumption ==
  /\ Sources \subseteq 0 .. 15
  /\ IsFiniteSet(Sources)
  /\ Lines \subseteq {4, 5}

VARIABLES
  gpip,      \* GPIP: the inputs that are high
  aer,       \* AER: the inputs that interrupt on a rising edge
  ier,       \* IERA, IERB: enabled sources
  ipr,       \* IPRA, IPRB: pending sources
  isr,       \* ISRA, ISRB: sources in service
  imr,       \* IMRA, IMRB: unmasked sources
  sei        \* VR bit 3: TRUE when the handler has to end the interrupt

mfpVars == <<gpip, aer, ier, ipr, isr, imr, sei>>

\* The interrupt number a GPIP input raises.
LineSource(l) == IF l = 4 THEN 6 ELSE 7

RegA == Sources \cap (8 .. 15)
RegB == Sources \cap (0 .. 7)

MfpTypeOK ==
  /\ gpip \subseteq Lines
  /\ aer \subseteq Lines
  /\ ier \subseteq Sources
  /\ ipr \subseteq Sources
  /\ isr \subseteq Sources
  /\ imr \subseteq Sources
  /\ sei \in BOOLEAN

\* The registers are static storage: all zero until the guest writes them.
MfpInit ==
  /\ gpip = {} /\ aer = {}
  /\ ier = {} /\ ipr = {} /\ isr = {} /\ imr = {}
  /\ sei = FALSE

-----------------------------------------------------------------------------
(* Raising a source *)

\* A source becomes pending only while it is enabled.
SetPending(pending0, raised) == pending0 \cup (raised \cap ier)

\* Mutant: the edges are taken the other way round.
MutFallPending(pending0, falling) ==
  SetPending(pending0, {LineSource(l) : l \in falling \cap gpip \cap aer})

\* The pending sources once the inputs in `falling` have been driven low.
FallPending(pending0, falling) ==
  SetPending(pending0, {LineSource(l) : l \in (falling \cap gpip) \ aer})

\* Mutant: a rising input interrupts whatever AER says.
MutSetGPIP(l) ==
  /\ ipr' = SetPending(ipr, {LineSource(k) : k \in {l} \ gpip})
  /\ gpip' = gpip \cup {l}
  /\ UNCHANGED <<aer, ier, isr, imr, sei>>

SetGPIP(l) ==
  /\ ipr' = SetPending(ipr, {LineSource(k) : k \in ({l} \ gpip) \cap aer})
  /\ gpip' = gpip \cup {l}
  /\ UNCHANGED <<aer, ier, isr, imr, sei>>

ClrGPIP(l) ==
  /\ ipr' = FallPending(ipr, {l})
  /\ gpip' = gpip \ {l}
  /\ UNCHANGED <<aer, ier, isr, imr, sei>>

-----------------------------------------------------------------------------
(* Register writes by the guest.  A byte write touches one half of a pair. *)

Splice(old, half, data) == (old \ half) \cup (data \cap half)

WriteGPIP(data) ==
  /\ gpip' = data
  /\ UNCHANGED <<aer, ier, ipr, isr, imr, sei>>

WriteAER(data) ==
  /\ aer' = data
  /\ UNCHANGED <<gpip, ier, ipr, isr, imr, sei>>

WriteIER(half, data) ==
  /\ ier' = Splice(ier, half, data)
  /\ UNCHANGED <<gpip, aer, ipr, isr, imr, sei>>

WriteIPR(half, data) ==
  /\ ipr' = Splice(ipr, half, data)
  /\ UNCHANGED <<gpip, aer, ier, isr, imr, sei>>

\* The only register a write cannot set bits in.
WriteISR(half, data) ==
  /\ isr' = isr \ (half \ data)
  /\ UNCHANGED <<gpip, aer, ier, ipr, imr, sei>>

WriteIMR(half, data) ==
  /\ imr' = Splice(imr, half, data)
  /\ UNCHANGED <<gpip, aer, ier, ipr, isr, sei>>

WriteVR(eoi) ==
  /\ sei' = eoi
  /\ UNCHANGED <<gpip, aer, ier, ipr, isr, imr>>

-----------------------------------------------------------------------------
(* The pass over the sixteen sources that follows every instruction *)

\* Mutant: the mask register is not consulted.
MutOpen(pend) == pend \cap ier

\* Pending, enabled and unmasked.
Open(pend) == pend \cap ier \cap imr

\* Mutant: the loop goes on after a source has been served.
MutServedAll(pend, ipl) ==
  IF ipl >= 6 THEN {} ELSE {i \in Open(pend) : \A k \in isr : k <= i}

\* Mutant: the in-service register is not consulted.
MutServedNested(pend, ipl) ==
  IF ipl >= 6 THEN {}
  ELSE IF sei THEN {i \in Open(pend) : \A k \in Open(pend) : k <= i}
       ELSE Open(pend)

(***************************************************************************)
(* The sources the pass hands to the CPU, in closed form.  With software   *)
(* end of interrupt the first one sets its in-service bit and shuts out    *)
(* the rest.  With automatic end a source clears its in-service bit, so    *)
(* one pass hands over every open source that no foreign in-service bit    *)
(* outranks.  Module MfpLoop checks this form against the loop of the code.*)
(***************************************************************************)
Served(pend, ipl) ==
  IF ipl >= 6 THEN {}
  ELSE IF sei
       THEN {i \in Open(pend) : \A k \in Open(pend) \cup isr : k <= i}
       ELSE {i \in Open(pend) : \A k \in isr \ Open(pend) : k < i}

\* Every call of cpu_set_interrupt overwrites the vector; the lowest is last.
LastServed(served) == CHOOSE i \in served : \A k \in served : i <= k

\* Mutant: serving a source does not clear its pending bit.
MutPassServedPending(expired, falling, ipl) ==
  LET pend   == SetPending(ipr, expired)
      served == Served(pend, ipl)
  IN  /\ ipr' = FallPending(pend \cap ier, falling)
      /\ isr' = IF sei THEN isr \cup served ELSE isr \ served
      /\ gpip' = gpip \ falling
      /\ UNCHANGED <<aer, ier, imr, sei>>

(***************************************************************************)
(* mfp_do_interrupts, followed by the falling inputs of the FDC and the    *)
(* ACIA, which mmu_do_interrupts polls after the MFP.                      *)
(***************************************************************************)
InterruptPass(expired, falling, ipl) ==
  LET pend   == SetPending(ipr, expired)
      served == Served(pend, ipl)
  IN  /\ ipr' = FallPending((pend \cap ier) \ served, falling)
      /\ isr' = IF sei THEN isr \cup served ELSE isr \ served
      /\ gpip' = gpip \ falling
      /\ UNCHANGED <<aer, ier, imr, sei>>

\* Timer B in event-count mode ran out on a display-enable edge.
TimerBEvent == ipr' = SetPending(ipr, {8} \cap Sources)
=============================================================================
