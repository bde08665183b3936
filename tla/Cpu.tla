-------------------------------- MODULE Cpu --------------------------------
(***************************************************************************)
(* Exception processing of the MC68000, as cpu.c emulates it: the pending  *)
(* exceptions, the status register, the STOP state, the prefetch word and  *)
(* the two interrupt latches of the GLUE.  Registers, memory and the stack *)
(* are the guest's data and are left out: an exception frame's SR comes    *)
(* back as whatever the guest's RTE finds on the stack.                    *)
(***************************************************************************)
EXTENDS Integers

CONSTANT NoVector      \* IPL_NO_AUTOVECTOR

VARIABLES
  sr,          \* S, T and the interrupt level of cpu->sr
  stopped,     \* cpu->stopped
  prefetched,  \* cpu->has_prefetched
  pending,     \* the vectors v with exception_pending[v] = 1
  vector,      \* interrupt_autovector[6]; the other levels only get NoVector
  ipl1,        \* the HBL latch
  ipl2         \* the VBL latch

cpuVars == <<sr, stopped, prefetched, pending, vector, ipl1, ipl2>>

BusErr    == 2
AddrErr   == 3
Illegal   == 4
ZeroDiv   == 5
Privilege == 8
TraceVec  == 9
LineA     == 10
LineF     == 11
Trap0     == 32

FullStacked == {BusErr, AddrErr}
Interrupts  == 25 .. 31
Level(v)    == v - 24
HBL == 26
VBL == 28
MFP == 30

\* What an instruction may raise by its own decoding.
ProgramVectors == {Illegal, ZeroDiv, Privilege, LineA, LineF, Trap0}
Vectors == FullStacked \cup ProgramVectors \cup {TraceVec, HBL, VBL, MFP}

StatusRegister == [s : BOOLEAN, t : BOOLEAN, ipl : 0 .. 7]

CpuTypeOK(sources) ==
  /\ sr \in StatusRegister
  /\ stopped \in BOOLEAN
  /\ prefetched \in BOOLEAN
  /\ pending \subseteq Vectors
  /\ vector \in sources \cup {NoVector}
  /\ ipl1 \in BOOLEAN
  /\ ipl2 \in BOOLEAN

ResetSR == [s |-> TRUE, t |-> FALSE, ipl |-> 3]

CpuInit ==
  /\ sr = ResetSR
  /\ stopped = FALSE
  /\ prefetched = TRUE
  /\ pending = {}
  /\ vector = NoVector
  /\ ipl1 = FALSE
  /\ ipl2 = FALSE

\* cpu_do_reset leaves cpu->stopped as it was.
CpuReset ==
  /\ sr' = ResetSR
  /\ prefetched' = TRUE
  /\ pending' = {}
  /\ vector' = NoVector
  /\ ipl1' = FALSE
  /\ ipl2' = FALSE
  /\ UNCHANGED stopped

-----------------------------------------------------------------------------
(* The order in which one scan looks at the pending exceptions *)

\* Mutant: the scan over the interrupts stops before level 2.
MutRank(v) ==
  CASE v \in 32 .. 47   -> v - 31
    [] v = ZeroDiv      -> 17
    [] v = LineA        -> 20
    [] v = LineF        -> 21
    [] v = Privilege    -> 22
    [] v = Illegal      -> 23
    [] v \in 27 .. 31   -> 55 - v
    [] v = TraceVec     -> 31
    [] OTHER            -> 0

\* Bus and address errors are tested before the scan, hence rank 0.
Rank(v) ==
  CASE v \in 32 .. 47   -> v - 31
    [] v = ZeroDiv      -> 17
    [] v = LineA        -> 20
    [] v = LineF        -> 21
    [] v = Privilege    -> 22
    [] v = Illegal      -> 23
    [] v \in Interrupts -> 55 - v
    [] v = TraceVec     -> 31
    [] OTHER            -> 0

\* v is the next pending exception of a scan that has passed rank `scan`.
NextInScan(v, scan) ==
  /\ v \in pending
  /\ Rank(v) > scan
  /\ \A w \in pending : Rank(w) > scan => Rank(v) <= Rank(w)

\* Mutant: an interrupt of the CPU's own level gets through.
MutMasked(v) == v \in Interrupts /\ Level(v) < sr.ipl

Masked(v) == v \in Interrupts /\ Level(v) <= sr.ipl

\* Mutant: interrupt_autovector keeps the vector after the entry.
MutEnterVector(v, sf, pf) ==
  /\ sr' = [s |-> TRUE, t |-> FALSE,
            ipl |-> IF v \in Interrupts THEN Level(v) ELSE sr.ipl]
  /\ pending' = ((pending \cup sf) \ {v}) \cup pf
  /\ stopped' = FALSE
  /\ prefetched' = TRUE
  /\ UNCHANGED vector

\* Mutant: the level is taken from the vector number without its base.
MutEnterBase(v, sf, pf) ==
  /\ sr' = [s |-> TRUE, t |-> FALSE,
            ipl |-> IF v \in Interrupts THEN v ELSE sr.ipl]
  /\ pending' = ((pending \cup sf) \ {v}) \cup pf
  /\ vector' = IF v = MFP THEN NoVector ELSE vector
  /\ stopped' = FALSE
  /\ prefetched' = TRUE

\* Mutant: exception_pending is not cleared by the entry.
MutEnterPending(v, sf, pf) ==
  /\ sr' = [s |-> TRUE, t |-> FALSE,
            ipl |-> IF v \in Interrupts THEN Level(v) ELSE sr.ipl]
  /\ pending' = pending \cup sf \cup pf
  /\ vector' = IF v = MFP THEN NoVector ELSE vector
  /\ stopped' = FALSE
  /\ prefetched' = TRUE

(***************************************************************************)
(* The exception is taken.  Writing its frame and reading its vector may   *)
(* raise the faults sf, the prefetch at the handler the faults pf: those   *)
(* are pending when the next instruction has run.                          *)
(***************************************************************************)
Enter(v, sf, pf) ==
  /\ sr' = [s |-> TRUE, t |-> FALSE,
            ipl |-> IF v \in Interrupts THEN Level(v) ELSE sr.ipl]
  /\ pending' = ((pending \cup sf) \ {v}) \cup pf
  /\ vector' = IF v = MFP THEN NoVector ELSE vector
  /\ stopped' = FALSE
  /\ prefetched' = TRUE

\* Mutant: returning early also skips the refill of the prefetch word.
MutLeavePending(pf) ==
  /\ pending' = pending \cup pf
  /\ stopped' = FALSE
  /\ UNCHANGED <<sr, prefetched, vector, ipl1, ipl2>>

\* The interrupt stays pending, but cpu_do_exception has left STOP by then.
LeavePending(pf) ==
  /\ pending' = pending \cup pf
  /\ stopped' = FALSE
  /\ prefetched' = TRUE
  /\ UNCHANGED <<sr, vector, ipl1, ipl2>>

-----------------------------------------------------------------------------
(* The latches *)

\* glue_clock runs for every cycle of an instruction or an exception.
Latch(hbl, vbl) ==
  /\ ipl1' = (ipl1 \/ hbl)
  /\ ipl2' = (ipl2 \/ vbl)

\* Mutant: HBL is let through at level 0 only.
MutCheckInterrupts(served, last) ==
  LET hbl == ipl1 /\ sr.ipl < 1
      vbl == ipl2 /\ sr.ipl < 4
  IN  /\ pending' = pending \cup (IF served # {} THEN {MFP} ELSE {})
                            \cup (IF hbl THEN {HBL} ELSE {})
                            \cup (IF vbl THEN {VBL} ELSE {})
      /\ vector' = IF served # {} THEN last ELSE vector
      /\ ipl1' = (ipl1 /\ ~hbl)
      /\ ipl2' = (ipl2 /\ ~vbl)
      /\ UNCHANGED <<sr, stopped, prefetched>>

(***************************************************************************)
(* cpu_check_for_pending_interrupts once the MFP has served `served`, of   *)
(* which `last` was passed last to cpu_set_interrupt.                      *)
(***************************************************************************)
CheckInterrupts(served, last) ==
  LET hbl == ipl1 /\ sr.ipl < 2
      vbl == ipl2 /\ sr.ipl < 4
  IN  /\ pending' = pending \cup (IF served # {} THEN {MFP} ELSE {})
                            \cup (IF hbl THEN {HBL} ELSE {})
                            \cup (IF vbl THEN {VBL} ELSE {})
      /\ vector' = IF served # {} THEN last ELSE vector
      /\ ipl1' = (ipl1 /\ ~hbl)
      /\ ipl2' = (ipl2 /\ ~vbl)
      /\ UNCHANGED <<sr, stopped, prefetched>>
=============================================================================
