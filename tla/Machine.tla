------------------------------ MODULE Machine ------------------------------
(***************************************************************************)
(* The emulator's main loop over the CPU and the MFP: cpu_run calls        *)
(* cpu_step_instr, which runs one instruction, lets the chips have the     *)
(* cycles it took, polls them for interrupts and scans the pending         *)
(* exceptions.  The control point `at` walks through that sequence; each   *)
(* of its calls is one action.  The program is single threaded: only the   *)
(* SIGHUP handler runs between two of these steps.                         *)
(*                                                                         *)
(* The guest is any program: it may run any instruction next, with the     *)
(* operands the constants below allow.                                     *)
(***************************************************************************)
EXTENDS Mfp, Cpu

CONSTANTS
  SRValues,     \* status registers the guest loads (RTE, MOVE to SR, STOP)
  Raised,       \* program exceptions the guest's instructions raise
  Faults,       \* bus and address errors the guest's accesses raise
  Masks,        \* data the guest writes to IERx, IPRx, ISRx and IMRx
  EoiModes,     \* values of VR bit 3 the guest writes
  Timers,       \* sources of the MFP timers that run
  EdgeData,     \* data the guest writes to GPIP and AER
  Beam,         \* TRUE when the GLUE raises HBL and VBL
  BadOpcodes,   \* TRUE when the guest reaches an unimplemented opcode
  Signals       \* TRUE when SIGHUP arrives

ASSUME MachineAssumption ==
  /\ SRValues \subseteq StatusRegister
  /\ Raised \subseteq ProgramVectors \ {Privilege}
  /\ Faults \subseteq FullStacked
  /\ Masks \subseteq SUBSET Sources
  /\ EoiModes \subseteq BOOLEAN
  /\ Timers \subseteq Sources \cap {4, 5, 8, 13}
  /\ EdgeData \subseteq SUBSET Lines
  /\ Beam \in BOOLEAN /\ BadOpcodes \in BOOLEAN /\ Signals \in BOOLEAN
  /\ NoVector \notin Sources

VARIABLES
  at,          \* the next call of the loop
  scan,        \* rank the exception scan has passed
  resetCpu,    \* reset_cpu
  owed         \* history: sources handed to the CPU since it last entered one

loopVars == <<at, scan, resetCpu, owed>>
vars == <<mfpVars, cpuVars, loopVars>>

Points == {"instr", "cycles", "check", "scan", "loop"}

\* The CPU's and the MFP's registers keep their kinds (cpu.h:9,
\* mfp.c:93), through reset, faults and nested exceptions.
TypeOK ==
  /\ MfpTypeOK
  /\ CpuTypeOK(Sources)
  /\ at \in Points
  /\ scan \in 0 .. 31
  /\ resetCpu \in BOOLEAN
  /\ owed \subseteq Sources

Init ==
  /\ MfpInit
  /\ CpuInit
  /\ at = "instr"
  /\ scan = 0
  /\ resetCpu = FALSE
  /\ owed = {}

-----------------------------------------------------------------------------
(* Running one instruction *)

\* fetch_instr consumes the prefetch word; T marks a trace exception pending
\* before the instruction runs.
Fetch ==
  /\ at = "instr"
  /\ ~stopped
  /\ prefetched
  /\ at' = "cycles"
  /\ UNCHANGED <<vector, ipl1, ipl2, scan, resetCpu, owed>>

Traced == IF sr.t THEN {TraceVec} ELSE {}

\* An instruction that completes refills the prefetch word.  Its accesses, the
\* refill among them, raise the faults f.
Complete(f) ==
  /\ prefetched' = TRUE
  /\ pending' = pending \cup Traced \cup f
  /\ UNCHANGED stopped

\* An instruction that raises an exception leaves the refill to it.
Abort(v, f) ==
  /\ prefetched' = FALSE
  /\ pending' = pending \cup Traced \cup f \cup {v}
  /\ UNCHANGED <<sr, stopped>>

Ordinary(f) == Fetch /\ Complete(f) /\ UNCHANGED <<sr, mfpVars>>

RaiseException(v, f) == Fetch /\ Abort(v, f) /\ UNCHANGED mfpVars

\* MOVE to SR, and RTE with what it finds on the stack.
LoadSR(new, f) ==
  /\ Fetch
  /\ IF sr.s THEN sr' = new /\ Complete(f) ELSE Abort(Privilege, {})
  /\ UNCHANGED mfpVars

\* STOP does not refill the prefetch word either.
StopInstr(new, f) ==
  /\ Fetch
  /\ IF sr.s
     THEN /\ sr' = new
          /\ stopped' = TRUE
          /\ prefetched' = FALSE
          /\ pending' = pending \cup Traced \cup f
     ELSE Abort(Privilege, {})
  /\ UNCHANGED mfpVars

\* An instruction that writes an MFP register, or accesses a chip whose
\* interrupt output is GPIP input l.
WriteMfp ==
  \/ \E half \in {RegA, RegB}, data \in Masks :
       \/ WriteIER(half, data)
       \/ WriteIPR(half, data)
       \/ WriteISR(half, data)
       \/ WriteIMR(half, data)
  \/ \E data \in EdgeData : WriteGPIP(data) \/ WriteAER(data)
  \/ \E eoi \in EoiModes : WriteVR(eoi)

MfpAccess(f) == Fetch /\ Complete(f) /\ WriteMfp /\ UNCHANGED sr

ChipAccess(l, f) ==
  /\ Fetch
  /\ Complete(f)
  /\ SetGPIP(l) \/ ClrGPIP(l)
  /\ UNCHANGED sr

\* An unimplemented opcode returns CPU_BREAKPOINT, which ends cpu_run before
\* it looks at reset_cpu; main calls it again.
BadOpcode ==
  /\ at = "instr"
  /\ ~stopped
  /\ prefetched' = FALSE
  /\ UNCHANGED <<mfpVars, sr, stopped, pending, vector, ipl1, ipl2, loopVars>>

\* While the CPU is stopped the loop runs NOPs, which refill the prefetch word.
StoppedNop(f) ==
  /\ at = "instr"
  /\ stopped
  /\ prefetched' = TRUE
  /\ pending' = pending \cup f
  /\ at' = "cycles"
  /\ UNCHANGED <<mfpVars, sr, stopped, vector, ipl1, ipl2, scan, resetCpu, owed>>

Execute(f) ==
  \/ Ordinary(f)
  \/ \E v \in Raised : RaiseException(v, f)
  \/ \E new \in SRValues : LoadSR(new, f) \/ StopInstr(new, f)
  \/ MfpAccess(f)
  \/ \E l \in Lines : ChipAccess(l, f)
  \/ StoppedNop(f)

Instruction ==
  \/ \E f \in SUBSET Faults : Execute(f)
  \/ BadOpcodes /\ BadOpcode

-----------------------------------------------------------------------------
(* The rest of cpu_step_instr *)

\* cpu_do_cycle: the GLUE may latch HBL or VBL and count a Timer B event.
Tick ==
  \E hbl, vbl \in IF Beam THEN BOOLEAN ELSE {FALSE} :
    /\ Latch(hbl, vbl)
    /\ \/ UNCHANGED mfpVars
       \/ /\ Beam
          /\ TimerBEvent
          /\ UNCHANGED <<gpip, aer, ier, isr, imr, sei>>

DoCycles ==
  /\ at = "cycles"
  /\ Tick
  /\ at' = "check"
  /\ UNCHANGED <<sr, stopped, prefetched, pending, vector,
                 scan, resetCpu, owed>>

CheckPending ==
  /\ at = "check"
  /\ \E expired \in SUBSET Timers, falling \in SUBSET Lines :
       LET served == Served(SetPending(ipr, expired), sr.ipl)
       IN  /\ InterruptPass(expired, falling, sr.ipl)
           /\ CheckInterrupts(served, LastServed(served))
           /\ owed' = owed \cup served
  /\ at' = "scan"
  /\ scan' = 0
  /\ UNCHANGED resetCpu

Faulted == pending \cap FullStacked # {}

\* cpu_do_exception for one vector; sf and pf are faults it meets itself.
DoException(v, sf, pf) ==
  \/ /\ ~Masked(v)
     /\ Enter(v, sf, pf)
     /\ Tick
     /\ owed' = IF v = MFP THEN {} ELSE owed
  \/ /\ Masked(v)
     /\ LeavePending(pf)
     /\ UNCHANGED <<mfpVars, owed>>

\* A bus error, or else an address error, is all that is taken.
TakeFault ==
  /\ at = "scan"
  /\ scan = 0
  /\ \E v \in FullStacked, sf \in SUBSET Faults, pf \in SUBSET Faults :
       /\ v \in pending
       /\ v = AddrErr => BusErr \notin pending
       /\ DoException(v, sf, pf)
  /\ at' = "loop"
  /\ UNCHANGED <<scan, resetCpu>>

TakeNext ==
  /\ at = "scan"
  /\ scan = 0 => ~Faulted
  /\ \E v \in Vectors, sf \in SUBSET Faults, pf \in SUBSET Faults :
       /\ NextInScan(v, scan)
       /\ DoException(v, sf, pf)
       /\ scan' = Rank(v)
  /\ UNCHANGED <<at, resetCpu>>

EndScan ==
  /\ at = "scan"
  /\ scan = 0 => ~Faulted
  /\ \A v \in pending : Rank(v) <= scan
  /\ at' = "loop"
  /\ scan' = 0
  /\ UNCHANGED <<mfpVars, cpuVars, resetCpu, owed>>

\* The end of cpu_run's loop body.
NextRound ==
  /\ at = "loop"
  /\ at' = "instr"
  /\ IF resetCpu
     THEN CpuReset /\ resetCpu' = FALSE /\ owed' = {}
     ELSE UNCHANGED <<cpuVars, resetCpu, owed>>
  /\ scan' = 0
  /\ UNCHANGED mfpVars

\* reset_action, the SIGHUP handler.
Sighup ==
  /\ resetCpu' = TRUE
  /\ UNCHANGED <<mfpVars, cpuVars, at, scan, owed>>

Step == Instruction \/ DoCycles \/ CheckPending \/ TakeFault \/ TakeNext
        \/ EndScan \/ NextRound

Next == Step \/ (Signals /\ Sighup)

Spec == Init /\ [][Next]_vars

\* cpu_run never waits: the process always takes its next step.
FairSpec == Spec /\ WF_vars(Step)

-----------------------------------------------------------------------------
(* Safety *)

\* The MFP's exception is pending exactly while interrupt_autovector[6] holds
\* its vector: an entry through a stale or a missing vector (cpu.c:142) would
\* send the guest to the wrong handler.
AutovectorPaired == MFP \in pending <=> vector # NoVector

\* A request waiting at the CPU is never outranked by a source in service, so
\* no handler is interrupted by a lower source of the MFP (mfp_higher_ISR),
\* however long a bus error postpones the entry.
RequestOutranksService == MFP \in pending => \A k \in isr : k <= vector

\* Once a pass is over no disabled source is pending: clearing an enable bit
\* is noticed by the pass of the same instruction (mfp.c:459).
DisabledNotPending == at \in {"scan", "loop", "instr"} => ipr \subseteq ier

\* With software end of interrupt the vector the CPU is about to use is the
\* only one it was given: cpu_set_interrupt overwrites no request (cpu.c:402).
NoRequestLost == sei /\ MFP \in pending => owed = {vector}

\* The source the CPU enters is enabled and unmasked at that moment, not just
\* when the MFP delivered it.
RequestStillWanted == MFP \in pending => vector \in ier \cap imr

\* An interrupt the scan has passed over is masked, so the scan may stop
\* (cpu.c:271-274).
ScannedAreMasked ==
  at = "scan" => \A v \in pending \cap Interrupts : Rank(v) <= scan => Masked(v)

\* cpu_step_instr leaves nothing pending but interrupts the CPU masks.
ScanLeavesOnlyMasked == at = "loop" => \A v \in pending : Masked(v)

\* fetch_instr's assertion (cpu.c:84): whatever the last step did, the next
\* instruction finds its opcode prefetched.
PrefetchReady == at = "instr" /\ ~stopped => prefetched

(* What a step may never do *)

Entered(v) == at = "scan" /\ v \in pending /\ v \notin pending'

\* Of the pending interrupts only the highest is entered, and only from a
\* lower level (cpu.c:270: "to prevent lower IPLs to trigger").
HighestFirst ==
  [][\A v \in Interrupts :
       Entered(v) => /\ \A w \in pending \cap Interrupts : w <= v
                     /\ sr.ipl < Level(v) /\ sr'.ipl = Level(v)]_vars

(* Liveness *)

Wanted(i) == i \in ipr \cap ier \cap imr

\* If the guest keeps coming back below level 6, the highest source does not
\* stay pending: it is served, or the guest withdraws it.
TopSourceServed ==
  LET top == CHOOSE i \in Sources : \A k \in Sources : k <= i
  IN  []<>(at = "check" /\ sr.ipl < 6) => (Wanted(top) ~> ~Wanted(top))

\* A request that a bus or address error postponed is entered (or reset away)
\* once scans without such an error come round with the level below 6.
PostponedRequestEntered ==
  []<>(at = "scan" /\ scan = 0 /\ ~Faulted /\ sr.ipl < 6)
    => (MFP \in pending ~> MFP \notin pending)

\* A latched HBL becomes an exception once the guest runs below level 2, and
\* with it a stopped CPU resumes (unless SIGHUP is about to reset the latch).
LatchWakesStop ==
  []<>(at = "check" /\ sr.ipl < 2) => (stopped /\ ipl1 ~> ~stopped \/ resetCpu)
=============================================================================
