--------------------------- MODULE MachineProofs ---------------------------
(* Theorems about Machine, for every value of its constants.               *)
EXTENDS Machine, TLAPS

USE DEF BusErr, AddrErr, Illegal, ZeroDiv, Privilege, TraceVec, LineA, LineF,
        Trap0, HBL, VBL, MFP, Interrupts, FullStacked, Level

-----------------------------------------------------------------------------
(* Operators *)

\* A nonempty set of sources has a least member, so the vector of a pass that
\* serves anything is well defined.
LEMMA LeastServed ==
  ASSUME NEW S \in SUBSET Sources, S # {}
  PROVE  /\ LastServed(S) \in S
         /\ \A k \in S : LastServed(S) <= k
<1>1. \E i \in S : \A k \in S : i <= k
  <2> SUFFICES ASSUME \A i \in S : \E k \in S : k < i
               PROVE  FALSE
    BY MfpAssumption
  <2> S \subseteq 0 .. 15
    BY MfpAssumption
  <2>1. S \cap (0 .. 3) = {}    OBVIOUS
  <2>2. S \cap (4 .. 7) = {}    BY <2>1
  <2>3. S \cap (8 .. 11) = {}   BY <2>2, <2>1
  <2>4. S \cap (12 .. 15) = {}  BY <2>3, <2>2, <2>1
  <2>5. QED
    <3>1. S \cap (0 .. 15) = {}  BY <2>1, <2>2, <2>3, <2>4
    <3>2. QED  BY <3>1
<1>2. QED
  BY <1>1 DEF LastServed

\* What a pass serves was pending, enabled and unmasked, at a level below 6.
LEMMA ServedOpen ==
  ASSUME NEW pend, NEW ipl, NEW i \in Served(pend, ipl)
  PROVE  /\ i \in pend /\ i \in ier /\ i \in imr
         /\ ~(ipl >= 6)
BY DEF Served, Open

\* With software end of interrupt a pass serves at most one source.
LEMMA ServedOnce ==
  ASSUME TypeOK, sei, NEW pend \in SUBSET Sources, NEW ipl,
         NEW i \in Served(pend, ipl), NEW k \in Served(pend, ipl)
  PROVE  i = k
<1>1. /\ i \in Open(pend) /\ k \in Open(pend)
      /\ i <= k /\ k <= i
  BY DEF Served
<1>2. i \in 0 .. 15 /\ k \in 0 .. 15
  BY <1>1, MfpAssumption DEF Open
<1>3. QED
  BY <1>1, <1>2

-----------------------------------------------------------------------------
(* Type correctness *)

\* A byte write to half of a register pair leaves a set of sources.
LEMMA SpliceType ==
  ASSUME NEW old \in SUBSET Sources, NEW half \in {RegA, RegB},
         NEW data \in SUBSET Sources
  PROVE  Splice(old, half, data) \subseteq Sources
BY DEF Splice

\* What timers and lines make pending are sources.
LEMMA LineSourcePending ==
  ASSUME TypeOK, NEW pend \in SUBSET Sources, NEW raised
  PROVE  SetPending(pend, raised) \subseteq Sources
BY DEF SetPending, TypeOK, MfpTypeOK

\* Whatever an instruction raises is a vector of the model.
LEMMA VectorFacts ==
  /\ Traced \subseteq Vectors
  /\ Raised \subseteq Vectors
  /\ Faults \subseteq Vectors
  /\ Privilege \in Vectors
<1>1. Raised \subseteq ProgramVectors
  BY MachineAssumption
<1>2. Faults \subseteq FullStacked
  BY MachineAssumption
<1>3. QED
  BY <1>1, <1>2 DEF Traced, Vectors, ProgramVectors

\* An instruction that completes keeps the types.
LEMMA CompleteType ==
  ASSUME TypeOK, NEW more \in SUBSET Vectors, Complete(more)
  PROVE  /\ prefetched' \in BOOLEAN /\ stopped' \in BOOLEAN
         /\ pending' \subseteq Vectors
BY VectorFacts DEF Complete, TypeOK, CpuTypeOK

\* So does one that raises an exception.
LEMMA AbortType ==
  ASSUME TypeOK, NEW v \in Vectors, NEW f \in SUBSET Vectors, Abort(v, f)
  PROVE  /\ prefetched' \in BOOLEAN /\ stopped' \in BOOLEAN
         /\ pending' \subseteq Vectors
         /\ sr' \in StatusRegister
<1>1. pending' \subseteq Vectors
  BY VectorFacts DEF Abort, TypeOK, CpuTypeOK
<1>2. QED
  BY <1>1 DEF Abort, TypeOK, CpuTypeOK

\* Every instruction keeps the types.
LEMMA InstructionType == TypeOK /\ Instruction => TypeOK'
<1> SUFFICES ASSUME TypeOK, Instruction PROVE TypeOK'
  OBVIOUS
<1> USE MachineAssumption DEF TypeOK, CpuTypeOK, Points, Fetch
<1> DEFINE Chip == UNCHANGED mfpVars
<1>0. Chip => MfpTypeOK'
  BY DEF mfpVars, MfpTypeOK
<1>1. ASSUME NEW f \in SUBSET Faults, Ordinary(f) PROVE TypeOK'
  BY <1>1, <1>0, VectorFacts DEF Ordinary, Complete
<1>2. ASSUME NEW f \in SUBSET Faults, StoppedNop(f) PROVE TypeOK'
  BY <1>2, <1>0, VectorFacts DEF StoppedNop
<1>3. ASSUME NEW f \in SUBSET Faults, NEW v \in Raised,
             RaiseException(v, f)
      PROVE  TypeOK'
  BY <1>3, <1>0, VectorFacts, AbortType DEF RaiseException
<1>4. ASSUME NEW f \in SUBSET Faults, NEW new \in SRValues,
             LoadSR(new, f)
      PROVE TypeOK'
  BY <1>4, <1>0, VectorFacts, AbortType, CompleteType DEF LoadSR
<1>5. ASSUME NEW f \in SUBSET Faults, NEW new \in SRValues,
             StopInstr(new, f)
      PROVE TypeOK'
  <2>0. new \in StatusRegister
    OBVIOUS
  <2>1. CASE sr.s
    <3>1. pending' \subseteq Vectors
      BY <1>5, <2>1, VectorFacts DEF StopInstr
    <3>2. sr' = new /\ stopped' = TRUE /\ prefetched' = FALSE
      BY <1>5, <2>1 DEF StopInstr
    <3>3. QED
      BY <1>5, <2>0, <3>1, <3>2, <1>0 DEF StopInstr
  <2>2. CASE ~sr.s
    <3>1. Fetch
      BY <1>5 DEF StopInstr
    <3>2. UNCHANGED mfpVars
      BY <1>5 DEF StopInstr
    <3>3. Abort(Privilege, {})
      BY <1>5, <2>2 DEF StopInstr
    <3>4. QED
      BY <3>1, <3>2, <3>3, <1>0, VectorFacts, AbortType
  <2>3. QED
    BY <2>1, <2>2
<1>6. ASSUME NEW f \in SUBSET Faults, MfpAccess(f) PROVE TypeOK'
  <2>1. WriteMfp => MfpTypeOK'
    <3> USE DEF MfpTypeOK
    <3>1. ASSUME NEW half \in {RegA, RegB}, NEW data \in Masks,
                 \/ WriteIER(half, data) \/ WriteIPR(half, data)
                 \/ WriteISR(half, data) \/ WriteIMR(half, data)
          PROVE  MfpTypeOK'
      <4>1. data \subseteq Sources
        OBVIOUS
      <4>2. QED
        BY <3>1, <4>1, SpliceType DEF WriteIER, WriteIPR, WriteISR, WriteIMR
    <3>2. ASSUME NEW data \in EdgeData, WriteGPIP(data) \/ WriteAER(data)
          PROVE  MfpTypeOK'
      BY <3>2 DEF WriteGPIP, WriteAER
    <3>3. ASSUME NEW eoi \in EoiModes, WriteVR(eoi)
          PROVE  MfpTypeOK'
      BY <3>3 DEF WriteVR
    <3>4. QED
      BY <3>1, <3>2, <3>3 DEF WriteMfp
  <2>2. QED
    BY <1>6, <2>1, VectorFacts DEF MfpAccess, Complete
<1>7. ASSUME NEW f \in SUBSET Faults, NEW l \in Lines,
             ChipAccess(l, f)
      PROVE  TypeOK'
  <2>1. MfpTypeOK'
    BY <1>7, LineSourcePending
       DEF ChipAccess, SetGPIP, ClrGPIP, FallPending, MfpTypeOK
  <2>2. QED
    BY <1>7, <2>1, VectorFacts DEF ChipAccess, Complete
<1>8. CASE BadOpcode
  BY <1>8, <1>0 DEF BadOpcode, loopVars
<1> HIDE DEF TypeOK, CpuTypeOK, Points, Fetch
<1>9. ASSUME NEW f \in SUBSET Faults, Execute(f) PROVE TypeOK'
  BY <1>1, <1>2, <1>3, <1>4, <1>5, <1>6, <1>7, <1>9 DEF Execute
<1>10. QED
  BY <1>8, <1>9 DEF Instruction

\* So do the other steps of the loop.
LEMMA TickType == TypeOK /\ Tick => MfpTypeOK' /\ ipl1' \in BOOLEAN /\ ipl2' \in BOOLEAN
<1> SUFFICES ASSUME TypeOK, Tick
             PROVE  MfpTypeOK' /\ ipl1' \in BOOLEAN /\ ipl2' \in BOOLEAN
  OBVIOUS
<1>1. MfpTypeOK'
  <2>1. CASE UNCHANGED mfpVars
    BY <2>1 DEF TypeOK, MfpTypeOK, mfpVars
  <2>2. CASE TimerBEvent /\ UNCHANGED <<gpip, aer, ier, isr, imr, sei>>
    BY <2>2, LineSourcePending DEF TypeOK, MfpTypeOK, TimerBEvent
  <2>3. QED
    BY <2>1, <2>2 DEF Tick
<1>2. QED
  BY <1>1 DEF Tick, Latch

\* So do timers, the pass and the latches (cpu.c:378).
LEMMA CheckPendingType == TypeOK /\ CheckPending => TypeOK'
<1> SUFFICES ASSUME TypeOK, CheckPending PROVE TypeOK'
  OBVIOUS
<1>1. PICK expired \in SUBSET Timers, falling \in SUBSET Lines :
        LET served == Served(SetPending(ipr, expired), sr.ipl)
        IN  /\ InterruptPass(expired, falling, sr.ipl)
            /\ CheckInterrupts(served, LastServed(served))
            /\ owed' = owed \cup served
  BY DEF CheckPending
<1> DEFINE pend == SetPending(ipr, expired)
           served == Served(pend, sr.ipl)
<1>2. pend \subseteq Sources
  BY LineSourcePending DEF TypeOK, MfpTypeOK
<1>3. served \subseteq Sources
  BY ServedOpen, <1>2
<1>4. MfpTypeOK'
  <2>1. FallPending((pend \cap ier) \ served, falling) \subseteq Sources
    BY <1>2, LineSourcePending DEF FallPending
  <2>2. QED
    BY <1>1, <1>3, <2>1 DEF InterruptPass, TypeOK, MfpTypeOK
<1>5. pending' \subseteq Vectors
  BY <1>1 DEF CheckInterrupts, TypeOK, CpuTypeOK, Vectors
<1>6. vector' \in Sources \cup {NoVector}
  BY <1>1, <1>3, LeastServed DEF CheckInterrupts, TypeOK, CpuTypeOK
<1>7. CpuTypeOK(Sources)'
  BY <1>1, <1>5, <1>6 DEF CheckInterrupts, TypeOK, CpuTypeOK
<1>8. QED
  BY <1>1, <1>3, <1>4, <1>7 DEF CheckPending, TypeOK, Points

\* So does the entry of an exception (cpu.c:165).
LEMMA DoExceptionType ==
  ASSUME TypeOK, NEW v \in Vectors,
         NEW sf \in SUBSET Faults, NEW pf \in SUBSET Faults,
         DoException(v, sf, pf)
  PROVE  MfpTypeOK' /\ CpuTypeOK(Sources)' /\ owed' \subseteq Sources
<1>1. CASE ~Masked(v) /\ Enter(v, sf, pf) /\ Tick
           /\ owed' = IF v = MFP THEN {} ELSE owed
  <2>1. sr' \in StatusRegister
    BY <1>1 DEF Enter, TypeOK, CpuTypeOK, StatusRegister
  <2>2. pending' \subseteq Vectors
    BY <1>1, VectorFacts DEF Enter, TypeOK, CpuTypeOK
  <2>3. QED
    BY <1>1, <2>1, <2>2, TickType DEF Enter, TypeOK, CpuTypeOK
<1>2. CASE LeavePending(pf) /\ UNCHANGED <<mfpVars, owed>>
  <2>1. pending' \subseteq Vectors
    BY <1>2, VectorFacts DEF LeavePending, TypeOK, CpuTypeOK
  <2>2. QED
    BY <1>2, <2>1 DEF LeavePending, TypeOK, CpuTypeOK, MfpTypeOK, mfpVars
<1>3. QED
  BY <1>1, <1>2 DEF DoException

\* Positions in the scan are those of cpu.c:257.
LEMMA RankType == \A v \in Vectors : Rank(v) \in 0 .. 31
BY DEF Rank, Vectors, ProgramVectors

\* The reset's status register is one.
LEMMA ResetType == ResetSR \in StatusRegister
BY DEF ResetSR, StatusRegister

\* Every step of the loop keeps the types.
LEMMA TypePreserved == TypeOK /\ [Next]_vars => TypeOK'
<1> SUFFICES ASSUME TypeOK, [Next]_vars PROVE TypeOK'
  OBVIOUS
<1>1. CASE Instruction
  BY <1>1, InstructionType
<1>2. CASE DoCycles
  BY <1>2, TickType DEF DoCycles, TypeOK, CpuTypeOK, Points
<1>3. CASE CheckPending
  BY <1>3, CheckPendingType
<1>4. CASE TakeFault
  <2>1. PICK v \in FullStacked, sf \in SUBSET Faults, pf \in SUBSET Faults :
          DoException(v, sf, pf)
    BY <1>4 DEF TakeFault
  <2>2. v \in Vectors
    BY DEF Vectors
  <2>3. QED
    BY <1>4, <2>1, <2>2, DoExceptionType DEF TakeFault, TypeOK, Points
<1>5. CASE TakeNext
  <2>1. PICK v \in Vectors, sf \in SUBSET Faults, pf \in SUBSET Faults :
          DoException(v, sf, pf) /\ scan' = Rank(v)
    BY <1>5 DEF TakeNext
  <2>2. QED
    BY <1>5, <2>1, DoExceptionType, RankType DEF TakeNext, TypeOK, Points
<1>6. CASE EndScan
  BY <1>6 DEF EndScan, TypeOK, CpuTypeOK, MfpTypeOK, mfpVars, cpuVars, Points
<1>7. CASE NextRound
  <2>1. MfpTypeOK'
    BY <1>7 DEF NextRound, TypeOK, MfpTypeOK, mfpVars
  <2>2. CASE resetCpu
    <3>1. CpuReset /\ resetCpu' = FALSE /\ owed' = {}
      BY <1>7, <2>2 DEF NextRound
    <3>2. CpuTypeOK(Sources)'
      BY <3>1, ResetType DEF CpuReset, TypeOK, CpuTypeOK
    <3>3. resetCpu' \in BOOLEAN
      BY <3>1
    <3>4. owed' \subseteq Sources
      BY <3>1
    <3>5. at' \in Points /\ scan' \in 0 .. 31
      BY <1>7 DEF NextRound, Points
    <3>6. QED
      BY <2>1, <3>2, <3>3, <3>4, <3>5 DEF TypeOK
  <2>3. CASE ~resetCpu
    BY <1>7, <2>1, <2>3 DEF NextRound, TypeOK, CpuTypeOK, cpuVars, Points
  <2>4. QED
    BY <2>2, <2>3
<1>8. CASE Sighup
  BY <1>8 DEF Sighup, TypeOK, CpuTypeOK, MfpTypeOK, mfpVars, cpuVars
<1>9. CASE UNCHANGED vars
  BY <1>9 DEF vars, loopVars, TypeOK, CpuTypeOK, MfpTypeOK, mfpVars, cpuVars
<1>10. QED
  BY <1>1, <1>2, <1>3, <1>4, <1>5, <1>6, <1>7, <1>8, <1>9 DEF Next, Step

\* cpu_init establishes them.
LEMMA InitType == Init => TypeOK
<1> SUFFICES ASSUME Init PROVE TypeOK
  OBVIOUS
<1>1. MfpTypeOK
  BY DEF Init, MfpInit, MfpTypeOK
<1>2. CpuTypeOK(Sources)
  BY ResetType DEF Init, CpuInit, CpuTypeOK
<1>3. at \in Points /\ owed \subseteq Sources
  BY DEF Init, Points
<1>4. resetCpu \in BOOLEAN
  BY Zenon DEF Init
<1>5. scan \in 0 .. 31
  <2>1. scan = 0
    BY DEF Init
  <2>2. QED
    BY <2>1
<1>6. QED
  BY <1>1, <1>2, <1>3, <1>4, <1>5 DEF TypeOK

\* Every state of the loop is well typed.
THEOREM TypeCorrect == Spec => []TypeOK
BY InitType, TypePreserved, PTL DEF Spec

-----------------------------------------------------------------------------
(* What the steps do, as far as the invariants can tell *)

\* Interrupts are scanned from the highest down; only faults have rank 0.
LEMMA RankFacts ==
  /\ \A v \in Vectors : v \in Interrupts => Rank(v) = 55 - v
  /\ \A v \in Vectors : v \notin FullStacked => Rank(v) > 0
  /\ \A v, w \in Vectors :
       v \notin FullStacked /\ Rank(v) = Rank(w) => v = w
BY DEF Rank, Vectors, ProgramVectors

\* What an instruction raises is no interrupt.
LEMMA RaisedFacts ==
  /\ Traced \cap Interrupts = {}
  /\ Raised \cap Interrupts = {}
  /\ Faults \cap Interrupts = {}
<1>1. Raised \subseteq ProgramVectors
  BY MachineAssumption
<1>2. Faults \subseteq FullStacked
  BY MachineAssumption
<1>3. QED
  BY <1>1, <1>2 DEF Traced, ProgramVectors

\* An instruction adds no interrupt, puts no source in service and leaves the
\* hand-over of the MFP alone.
LEMMA InstructionEffect ==
  ASSUME TypeOK, Instruction
  PROVE  /\ at = "instr"
         /\ at' = "cycles" \/ (BadOpcodes /\ BadOpcode)
         /\ pending \subseteq pending'
         /\ (pending' \ pending) \cap Interrupts = {}
         /\ isr' \subseteq isr
         /\ UNCHANGED <<vector, scan, owed, resetCpu>>
<1> DEFINE Goal == /\ at = "instr" /\ at' = "cycles"
                   /\ pending \subseteq pending'
                   /\ (pending' \ pending) \cap Interrupts = {}
                   /\ isr' \subseteq isr
                   /\ UNCHANGED <<vector, scan, owed, resetCpu>>
<1> USE DEF Fetch
<1>0. UNCHANGED mfpVars => isr' \subseteq isr
  BY DEF mfpVars
<1>1. ASSUME NEW f \in SUBSET Faults, Ordinary(f) PROVE Goal
  BY <1>1, <1>0, RaisedFacts DEF Ordinary, Complete
<1>2. ASSUME NEW f \in SUBSET Faults, StoppedNop(f) PROVE Goal
  BY <1>2, <1>0, RaisedFacts DEF StoppedNop
<1>3. ASSUME NEW f \in SUBSET Faults, NEW v \in Raised,
             RaiseException(v, f)
      PROVE  Goal
  BY <1>3, <1>0, RaisedFacts DEF RaiseException, Abort
<1>4. ASSUME NEW f \in SUBSET Faults, NEW new \in SRValues,
             LoadSR(new, f)
      PROVE Goal
  BY <1>4, <1>0, RaisedFacts DEF LoadSR, Complete, Abort
<1>5. ASSUME NEW f \in SUBSET Faults, NEW new \in SRValues,
             StopInstr(new, f)
      PROVE Goal
  <2>1. CASE sr.s
    BY <1>5, <2>1, <1>0, RaisedFacts DEF StopInstr
  <2>2. CASE ~sr.s
    BY <1>5, <2>2, <1>0, RaisedFacts DEF StopInstr, Abort
  <2>3. QED
    BY <2>1, <2>2
<1>6. ASSUME NEW f \in SUBSET Faults, MfpAccess(f) PROVE Goal
  <2>1. isr' \subseteq isr
    BY <1>6 DEF MfpAccess, WriteMfp, WriteIER, WriteIPR, WriteISR, WriteIMR,
                WriteGPIP, WriteAER, WriteVR
  <2>2. QED
    BY <1>6, <2>1, RaisedFacts DEF MfpAccess, Complete
<1>7. ASSUME NEW f \in SUBSET Faults, NEW l \in Lines,
             ChipAccess(l, f)
      PROVE  Goal
  BY <1>7, RaisedFacts DEF ChipAccess, Complete, SetGPIP, ClrGPIP
<1>8. CASE BadOpcodes /\ BadOpcode
  BY <1>8, <1>0 DEF BadOpcode, loopVars
<1>9. ASSUME NEW f \in SUBSET Faults, Execute(f) PROVE Goal
  BY <1>1, <1>2, <1>3, <1>4, <1>5, <1>6, <1>7, <1>9 DEF Execute
<1>10. QED
  BY <1>8, <1>9 DEF Instruction

\* Time passing puts nothing in service and makes no disabled source pending.
LEMMA TickEffect ==
  ASSUME TypeOK, Tick
  PROVE  /\ UNCHANGED <<ier, imr, isr, sei>>
         /\ ipr \subseteq ier => ipr' \subseteq ier'
BY DEF Tick, TimerBEvent, SetPending, mfpVars

\* The vector of a pass that serves anything outranks what is then in service.
LEMMA ServedOutranks ==
  ASSUME TypeOK, NEW pend \in SUBSET Sources, NEW ipl,
         Served(pend, ipl) # {},
         NEW k \in IF sei THEN isr \cup Served(pend, ipl)
                          ELSE isr \ Served(pend, ipl)
  PROVE  k <= LastServed(Served(pend, ipl))
<1> DEFINE served == Served(pend, ipl)
           last == LastServed(served)
<1>0. served \subseteq Sources
  BY ServedOpen
<1>1. last \in served
  BY <1>0, LeastServed
<1>2. k \in 0 .. 15 /\ last \in 0 .. 15 /\ Sources \subseteq 0 .. 15
  BY <1>0, <1>1, MfpAssumption DEF TypeOK, MfpTypeOK
<1>3. CASE sei
  <2>1. served = {i \in Open(pend) : \A j \in Open(pend) \cup isr : j <= i}
    BY <1>3 DEF Served
  <2>2. QED
    BY <1>1, <1>3, <2>1
<1>4. CASE ~sei
  <2>1. served = {i \in Open(pend) : \A j \in isr \ Open(pend) : j < i}
    BY <1>4 DEF Served
  <2>2. k \in isr /\ k \notin served
    BY <1>4
  <2>3. CASE k \notin Open(pend)
    BY <1>1, <1>2, <2>1, <2>2, <2>3
  <2>4. CASE k \in Open(pend)
    <3>1. PICK j \in isr \ Open(pend) : ~(j < k)
      BY <2>1, <2>2, <2>4
    <3>2. j < last
      BY <1>1, <2>1, <3>1
    <3>3. j \in 0 .. 15
      BY <3>1, <1>2 DEF TypeOK, MfpTypeOK
    <3>4. QED
      BY <1>2, <3>1, <3>2, <3>3
  <2>5. QED
    BY <2>3, <2>4
<1>5. QED
  BY <1>3, <1>4

-----------------------------------------------------------------------------
(* The hand-over of interrupts, with every fault and every mode *)

EntryInv ==
  /\ TypeOK
  /\ AutovectorPaired
  /\ RequestOutranksService
  /\ DisabledNotPending
  /\ ScannedAreMasked

USE DEF EntryInv, AutovectorPaired, RequestOutranksService, DisabledNotPending,
        ScannedAreMasked

\* No instruction, MFP writes included, disturbs what holds between pass and entry.
LEMMA EntryInstruction == EntryInv /\ Instruction => EntryInv'
<1> SUFFICES ASSUME EntryInv, Instruction PROVE EntryInv'
  OBVIOUS
<1>1. CASE BadOpcode
  <2>1. UNCHANGED <<ipr, ier, isr, pending, vector, at, scan, sr>>
    BY <1>1 DEF BadOpcode, mfpVars, loopVars
  <2>2. TypeOK'
    BY InstructionType
  <2>3. QED
    BY <2>1, <2>2 DEF Masked
<1>2. CASE at' = "cycles"
  <2>1. AutovectorPaired'
    BY InstructionEffect
  <2>2. RequestOutranksService'
    BY InstructionEffect
  <2>3. QED
    BY <1>2, <2>1, <2>2, InstructionType
<1>3. QED
  BY <1>1, <1>2, InstructionEffect

\* The pass hands over only what outranks everything in service.
LEMMA EntryCheckPending == EntryInv /\ CheckPending => EntryInv'
<1> SUFFICES ASSUME EntryInv, CheckPending PROVE EntryInv'
  OBVIOUS
<1>1. PICK expired \in SUBSET Timers, falling \in SUBSET Lines :
        LET served == Served(SetPending(ipr, expired), sr.ipl)
        IN  /\ InterruptPass(expired, falling, sr.ipl)
            /\ CheckInterrupts(served, LastServed(served))
            /\ owed' = owed \cup served
  BY DEF CheckPending
<1> DEFINE pend == SetPending(ipr, expired)
           served == Served(pend, sr.ipl)
<1>2. pend \subseteq Sources
  BY LineSourcePending DEF TypeOK, MfpTypeOK
<1>3. served \subseteq Sources
  BY ServedOpen, <1>2
<1>4. /\ served # {} => MFP \in pending' /\ vector' = LastServed(served)
      /\ served = {} => (MFP \in pending' <=> MFP \in pending) /\ vector' = vector
  BY <1>1 DEF CheckInterrupts
<1>5. AutovectorPaired'
  BY <1>3, <1>4, LeastServed, MachineAssumption
<1>6. RequestOutranksService'
  <2> SUFFICES ASSUME MFP \in pending', NEW k \in isr' PROVE k <= vector'
    OBVIOUS
  <2>1. isr' = IF sei THEN isr \cup served ELSE isr \ served
    BY <1>1 DEF InterruptPass
  <2>2. CASE served # {}
    BY <1>2, <1>4, <2>1, <2>2, ServedOutranks
  <2>3. CASE served = {}
    BY <1>4, <2>1, <2>3
  <2>4. QED
    BY <2>2, <2>3
<1>7. DisabledNotPending'
  <2>1. /\ ier' = ier
        /\ ipr' = FallPending((pend \cap ier) \ served, falling)
    BY <1>1 DEF InterruptPass
  <2>2. QED
    BY <2>1 DEF FallPending, SetPending
<1>8. ScannedAreMasked'
  <2>1. scan' = 0 /\ pending' \subseteq Vectors
    BY CheckPendingType DEF CheckPending, TypeOK, CpuTypeOK
  <2>2. QED
    BY <2>1, RankFacts
<1>9. QED
  BY CheckPendingType, <1>5, <1>6, <1>7, <1>8

\* Taking or leaving an exception keeps the hand-over consistent, and an
\* interrupt that was masked before stays masked.
LEMMA EntryDoException ==
  ASSUME EntryInv, NEW v \in Vectors, v \in pending,
         NEW sf \in SUBSET Faults, NEW pf \in SUBSET Faults,
         DoException(v, sf, pf)
  PROVE  /\ AutovectorPaired' /\ RequestOutranksService'
         /\ ipr \subseteq ier => ipr' \subseteq ier'
         /\ pending' \cap Interrupts \subseteq pending \cap Interrupts
         /\ \A w \in pending \cap Interrupts : Masked(w) => Masked(w)'
         /\ v \in Interrupts => v \notin pending' \/ Masked(v)'
<1>0. /\ sf \cap Interrupts = {} /\ pf \cap Interrupts = {}
      /\ sr.ipl \in 0 .. 7
  BY RaisedFacts DEF TypeOK, CpuTypeOK, StatusRegister
<1>1. CASE ~Masked(v) /\ Enter(v, sf, pf) /\ Tick
           /\ owed' = IF v = MFP THEN {} ELSE owed
  <2>1. /\ pending' \cap Interrupts = (pending \ {v}) \cap Interrupts
        /\ vector' = IF v = MFP THEN NoVector ELSE vector
        /\ sr'.ipl = IF v \in Interrupts THEN Level(v) ELSE sr.ipl
    BY <1>0, <1>1 DEF Enter
  <2>2. isr' = isr /\ (ipr \subseteq ier => ipr' \subseteq ier')
    BY <1>1, TickEffect
  <2>3. AutovectorPaired' /\ RequestOutranksService'
    BY <2>1, <2>2
  <2>4. \A w \in pending \cap Interrupts : Masked(w) => Masked(w)'
    BY <1>0, <1>1, <2>1 DEF Masked
  <2>5. QED
    BY <2>1, <2>2, <2>3, <2>4
<1>2. CASE /\ Masked(v) /\ LeavePending(pf)
           /\ UNCHANGED <<mfpVars, owed>>
  <2>1. /\ pending' \cap Interrupts = pending \cap Interrupts
        /\ UNCHANGED <<vector, sr, isr, ipr, ier>>
    BY <1>0, <1>2 DEF LeavePending, mfpVars
  <2>2. QED
    BY <1>2, <2>1 DEF Masked
<1>3. QED
  BY <1>1, <1>2 DEF DoException

\* Every step of the loop keeps it.
LEMMA EntryStep == EntryInv /\ [Next]_vars => EntryInv'
<1> SUFFICES ASSUME EntryInv, [Next]_vars PROVE EntryInv'
  OBVIOUS
<1>0. TypeOK'
  BY TypePreserved
<1>1. CASE Instruction
  BY <1>1, EntryInstruction
<1>2. CASE DoCycles
  <2>1. UNCHANGED <<pending, vector, isr>> /\ at' = "check"
    BY <1>2, TickEffect DEF DoCycles
  <2>2. QED
    BY <1>0, <2>1
<1>3. CASE CheckPending
  BY <1>3, EntryCheckPending
<1>4. CASE TakeFault
  <2>1. PICK v \in FullStacked, sf \in SUBSET Faults, pf \in SUBSET Faults :
          v \in pending /\ DoException(v, sf, pf)
    BY <1>4 DEF TakeFault
  <2>2. at = "scan" /\ at' = "loop" /\ v \in Vectors
    BY <1>4 DEF TakeFault, Vectors
  <2>3. QED
    BY <1>0, <2>1, <2>2, EntryDoException
<1>5. CASE TakeNext
  <2>1. PICK v \in Vectors, sf \in SUBSET Faults, pf \in SUBSET Faults :
          NextInScan(v, scan) /\ DoException(v, sf, pf) /\ scan' = Rank(v)
    BY <1>5 DEF TakeNext
  <2>2. v \in pending
    BY <2>1 DEF NextInScan
  <2>3. at = "scan"
    BY <1>5 DEF TakeNext
  <2>4. ScannedAreMasked'
    <3> SUFFICES ASSUME NEW w \in pending' \cap Interrupts, Rank(w) <= scan'
                 PROVE  Masked(w)'
      OBVIOUS
    <3>1. w \in pending \cap Interrupts /\ w \in Vectors
      BY <2>1, <2>2, EntryDoException DEF TypeOK, CpuTypeOK
    <3>2. CASE Rank(w) <= scan
      BY <2>1, <2>2, <2>3, <3>1, <3>2, EntryDoException
    <3>3. CASE ~(Rank(w) <= scan)
      <4>1. Rank(v) <= Rank(w)
        <5>1. Rank(w) > scan
          BY <3>1, <3>3, RankType DEF TypeOK
        <5>2. QED
          BY <2>1, <3>1, <5>1 DEF NextInScan
      <4>2. Rank(w) = Rank(v)
        BY <2>1, <3>1, <4>1, RankType
      <4>3. w = v
        BY <3>1, <4>2, RankFacts
      <4>4. QED
        BY <2>1, <2>2, <3>1, <4>3, EntryDoException
    <3>4. QED
      BY <3>2, <3>3
  <2>5. QED
    BY <1>0, <2>1, <2>2, <2>3, <2>4, EntryDoException
<1>6. CASE EndScan
  BY <1>0, <1>6 DEF EndScan, mfpVars, cpuVars
<1>7. CASE NextRound
  <2>1. at = "loop" /\ at' = "instr" /\ UNCHANGED <<ipr, ier, isr>>
    BY <1>7 DEF NextRound, mfpVars
  <2>2. \/ pending' = {} /\ vector' = NoVector
        \/ UNCHANGED <<pending, vector>>
    BY <1>7 DEF NextRound, CpuReset, cpuVars
  <2>3. QED
    BY <1>0, <2>1, <2>2
<1>8. CASE Sighup
  <2>1. UNCHANGED <<at, scan, pending, vector, ipr, ier, isr, sr>>
    BY <1>8 DEF Sighup, mfpVars, cpuVars
  <2>2. QED
    BY <1>0, <2>1 DEF Masked
<1>9. CASE UNCHANGED vars
  <2>1. UNCHANGED <<at, scan, pending, vector, ipr, ier, isr, sr>>
    BY <1>9 DEF vars, loopVars, mfpVars, cpuVars
  <2>2. QED
    BY <1>0, <2>1 DEF Masked
<1>10. QED
  BY <1>1, <1>2, <1>3, <1>4, <1>5, <1>6, <1>7, <1>8, <1>9 DEF Next, Step

\* It holds in every reachable state.
LEMMA EntryInvariant == Spec => []EntryInv
<1>1. Init => EntryInv
  <2> SUFFICES ASSUME Init PROVE EntryInv
    OBVIOUS
  <2>1. TypeOK
    BY InitType
  <2>2. pending = {} /\ vector = NoVector /\ ipr = {} /\ at = "instr"
    BY DEF Init, MfpInit, CpuInit
  <2>3. QED
    BY <2>1, <2>2
<1>2. QED
  BY <1>1, EntryStep, PTL DEF Spec

\* The MFP's exception is pending exactly while its vector is there (cpu.c:142).
THEOREM AutovectorCorrect == Spec => []AutovectorPaired
BY EntryInvariant, PTL DEF EntryInv

\* No request at the CPU is outranked by a source in service (mfp_higher_ISR).
THEOREM RequestOutranks == Spec => []RequestOutranksService
BY EntryInvariant, PTL DEF EntryInv

\* After a pass no disabled source is pending (mfp.c:459).
THEOREM DisabledCorrect == Spec => []DisabledNotPending
BY EntryInvariant, PTL DEF EntryInv

\* Interrupts the scan has passed are masked (cpu.c:271-274).
THEOREM ScanCorrect == Spec => []ScannedAreMasked
BY EntryInvariant, PTL DEF EntryInv

\* Only the highest pending interrupt is entered, from a lower level
\* (cpu.c:265-274).
THEOREM HighestFirstCorrect == Spec => HighestFirst
<1> DEFINE Highest ==
      \A v \in Interrupts :
        Entered(v) => /\ \A w \in pending \cap Interrupts : w <= v
                      /\ sr.ipl < Level(v) /\ sr'.ipl = Level(v)
<1>1. EntryInv /\ [Next]_vars => [Highest]_vars
  <2> SUFFICES ASSUME EntryInv, [Next]_vars, NEW v \in Interrupts, Entered(v)
               PROVE  /\ \A w \in pending \cap Interrupts : w <= v
                      /\ sr.ipl < Level(v) /\ sr'.ipl = Level(v)
    OBVIOUS
  <2>0. at = "scan" /\ v \in pending /\ v \notin pending'
    BY DEF Entered
  <2>1. CASE TakeNext
    <3>1. PICK u \in Vectors, sf \in SUBSET Faults, pf \in SUBSET Faults :
            NextInScan(u, scan) /\ DoException(u, sf, pf)
      BY <2>1 DEF TakeNext
    <3>2. ~Masked(u) /\ Enter(u, sf, pf) /\ u = v
      BY <2>0, <3>1 DEF DoException, Enter, LeavePending
    <3>3. sr.ipl < Level(v) /\ sr'.ipl = Level(v)
      BY <3>2 DEF Masked, Enter, TypeOK, CpuTypeOK, StatusRegister
    <3>4. ASSUME NEW w \in pending \cap Interrupts PROVE w <= v
      <4>1. w \in Vectors
        BY DEF TypeOK, CpuTypeOK
      <4>2. CASE Rank(w) <= scan
        BY <2>0, <3>3, <4>2 DEF Masked, TypeOK, CpuTypeOK, StatusRegister
      <4>3. CASE ~(Rank(w) <= scan)
        <5>1. Rank(w) > scan
          BY <4>1, <4>3, RankType DEF TypeOK
        <5>2. Rank(v) <= Rank(w)
          BY <3>1, <3>2, <5>1 DEF NextInScan
        <5>3. QED
          BY <3>1, <3>2, <4>1, <5>2, RankFacts
      <4>4. QED
        BY <4>2, <4>3
    <3>5. QED
      BY <3>3, <3>4
  <2>2. CASE TakeFault
    BY <2>0, <2>2 DEF TakeFault, DoException, Enter, LeavePending
  <2>3. CASE Instruction \/ DoCycles \/ CheckPending \/ NextRound
    <3>1. CASE Instruction
      BY <2>0, <3>1, InstructionEffect
    <3>2. QED
      BY <2>0, <2>3, <3>1 DEF DoCycles, CheckPending, NextRound
  <2>4. CASE EndScan \/ Sighup \/ UNCHANGED vars
    BY <2>0, <2>4 DEF EndScan, Sighup, vars, cpuVars
  <2>5. QED
    BY <2>1, <2>2, <2>3, <2>4 DEF Next, Step
<1>2. QED
  BY <1>1, EntryInvariant, PTL DEF Spec, HighestFirst

-----------------------------------------------------------------------------
(* The prefetch word, when the guest meets no unimplemented opcode *)

\* The word may be missing only while the CPU is stopped, or until the
\* exception that its instruction raised is taken.
PrefetchInv ==
  /\ TypeOK
  /\ ~prefetched => \/ stopped
                    \/ at \in {"cycles", "check", "scan"} /\ pending # {}
  /\ at = "scan" /\ ~prefetched => scan = 0

\* An instruction leaves a word prefetched or an exception that will fetch one.
LEMMA PrefetchInstruction ==
  ASSUME PrefetchInv, Instruction, ~BadOpcodes
  PROVE  PrefetchInv'
<1> USE DEF PrefetchInv
<1>1. TypeOK' /\ at' = "cycles"
  BY InstructionType, InstructionEffect
<1>2. prefetched' \/ stopped' \/ pending' # {}
  <2> USE DEF Complete, Abort
  <2>1. ASSUME NEW f \in SUBSET Faults, Ordinary(f) PROVE prefetched'
    BY <2>1 DEF Ordinary
  <2>2. ASSUME NEW f \in SUBSET Faults, StoppedNop(f) PROVE prefetched'
    BY <2>2 DEF StoppedNop
  <2>3. ASSUME NEW f \in SUBSET Faults, NEW v \in Raised,
             RaiseException(v, f)
      PROVE  pending' # {}
    BY <2>3 DEF RaiseException
  <2>4. ASSUME NEW f \in SUBSET Faults, NEW new \in SRValues,
             LoadSR(new, f)
     
        PROVE  prefetched' \/ pending' # {}
    BY <2>4 DEF LoadSR
  <2>5. ASSUME NEW f \in SUBSET Faults, NEW new \in SRValues,
             StopInstr(new, f)
     
        PROVE  stopped' \/ pending' # {}
    BY <2>5 DEF StopInstr
  <2>6. ASSUME NEW f \in SUBSET Faults, MfpAccess(f) PROVE prefetched'
    BY <2>6 DEF MfpAccess
  <2>7. ASSUME NEW f \in SUBSET Faults, NEW l \in Lines,
             ChipAccess(l, f)
      PROVE  prefetched'
    BY <2>7 DEF ChipAccess
  <2>8. QED
    BY <2>1, <2>2, <2>3, <2>4, <2>5, <2>6, <2>7 DEF Instruction, Execute
<1>3. QED
  BY <1>1, <1>2

\* Every step of the loop keeps that.
LEMMA PrefetchStep ==
  ASSUME PrefetchInv, [Next]_vars, ~BadOpcodes
  PROVE  PrefetchInv'
<1> USE DEF PrefetchInv
<1>0. TypeOK'
  BY TypePreserved
<1>1. CASE Instruction
  BY <1>1, PrefetchInstruction
<1>2. CASE DoCycles
  BY <1>0, <1>2 DEF DoCycles
<1>3. CASE CheckPending
  <2>1. at = "check" /\ at' = "scan" /\ scan' = 0
    BY <1>3 DEF CheckPending
  <2>2. UNCHANGED <<stopped, prefetched>> /\ pending \subseteq pending'
    BY <1>3 DEF CheckPending, CheckInterrupts
  <2>3. QED
    BY <1>0, <2>1, <2>2
<1>4. CASE TakeFault \/ TakeNext
  <2>1. prefetched'
    BY <1>4 DEF TakeFault, TakeNext, DoException, Enter, LeavePending
  <2>2. QED
    BY <1>0, <2>1
<1>5. CASE EndScan
  <2>1. /\ at = "scan" /\ UNCHANGED <<pending, prefetched, stopped>>
        /\ at' = "loop"
        /\ scan = 0 => pending \cap FullStacked = {}
        /\ \A v \in pending : Rank(v) <= scan
    BY <1>5 DEF EndScan, cpuVars, Faulted
  <2>2. scan = 0 => pending = {}
    BY <2>1, RankFacts, RankType DEF TypeOK, CpuTypeOK
  <2>3. QED
    BY <1>0, <2>1, <2>2
<1>6. CASE NextRound
  BY <1>0, <1>6 DEF NextRound, CpuReset, cpuVars
<1>7. CASE Sighup
  BY <1>0, <1>7 DEF Sighup, cpuVars
<1>8. CASE UNCHANGED vars
  BY <1>0, <1>8 DEF vars, loopVars, cpuVars
<1>9. QED
  BY <1>1, <1>2, <1>3, <1>4, <1>5, <1>6, <1>7, <1>8 DEF Next, Step

\* fetch_instr's assertion (cpu.c:84) holds for every guest that runs
\* implemented opcodes only.
THEOREM PrefetchCorrect == ~BadOpcodes /\ Spec => []PrefetchReady
<1> SUFFICES ASSUME ~BadOpcodes PROVE Spec => []PrefetchReady
  OBVIOUS
<1>1. Init => PrefetchInv
  <2> SUFFICES ASSUME Init PROVE PrefetchInv
    OBVIOUS
  <2>1. prefetched
    BY DEF Init, CpuInit
  <2>2. QED
    BY <2>1, InitType DEF PrefetchInv
<1>2. PrefetchInv /\ [Next]_vars => PrefetchInv'
  BY PrefetchStep
<1>3. PrefetchInv => PrefetchReady
  BY DEF PrefetchInv, PrefetchReady
<1>4. QED
  BY <1>1, <1>2, <1>3, PTL DEF Spec

-----------------------------------------------------------------------------
(* The hand-over when no access faults: one pass, one request, one entry *)

\* The MFP's exception lives only within the scan that follows the pass, at a
\* level below 6 and before rank 25, with its source enabled and unmasked.
HandoverInv ==
  /\ TypeOK
  /\ pending \cap FullStacked = {}
  /\ MFP \in pending => /\ at = "scan" /\ scan < 25 /\ sr.ipl < 6
                        /\ vector \in ier \cap imr
                        /\ sei => owed = {vector}
  /\ MFP \notin pending => owed = {}
  /\ at = "scan" => \A v \in pending : Rank(v) <= scan => Masked(v)
  /\ at = "loop" => \A v \in pending : Masked(v)

\* The MFP's exception comes first in the scan of the interrupts.
LEMMA RankMfp ==
  /\ Rank(MFP) = 25
  /\ \A v \in Vectors : Rank(v) < 25 /\ v \notin FullStacked => v \notin Interrupts
BY DEF Rank, Vectors, ProgramVectors

\* Without faults an instruction starts with no request handed over and leaves none.
LEMMA HandoverInstruction ==
  ASSUME HandoverInv, Instruction, Faults = {}
  PROVE  HandoverInv'
<1> USE DEF HandoverInv
<1>1. TypeOK'
  BY InstructionType
<1>2. CASE BadOpcode
  BY <1>1, <1>2 DEF BadOpcode, mfpVars, loopVars, Masked
<1>3. CASE at' = "cycles"
  <2>1. at = "instr" /\ UNCHANGED <<vector, scan, owed>>
    BY InstructionEffect
  <2>2. MFP \notin pending' /\ owed' = {}
    BY <2>1, InstructionEffect
  <2>3. pending' \cap FullStacked = {}
    <3>1. Raised \cap FullStacked = {}
      BY MachineAssumption DEF ProgramVectors
    <3>2. Traced \cap FullStacked = {}
      BY DEF Traced
    <3>3. QED
      BY <3>1, <3>2 DEF Instruction, Execute, Ordinary, RaiseException,
           LoadSR, StopInstr, MfpAccess, ChipAccess, BadOpcode, StoppedNop,
           Complete, Abort
  <2>4. QED
    BY <1>1, <1>3, <2>2, <2>3
<1>4. QED
  BY <1>2, <1>3, InstructionEffect

\* A pass hands over at a level below 6, and the vector is of a source enabled and
\* unmasked; without automatic end of interrupt it is the only one.
LEMMA HandoverCheckPending ==
  ASSUME HandoverInv, CheckPending
  PROVE  HandoverInv'
<1> USE DEF HandoverInv
<1>1. PICK expired \in SUBSET Timers, falling \in SUBSET Lines :
        LET served == Served(SetPending(ipr, expired), sr.ipl)
        IN  /\ InterruptPass(expired, falling, sr.ipl)
            /\ CheckInterrupts(served, LastServed(served))
            /\ owed' = owed \cup served
  BY DEF CheckPending
<1> DEFINE pend == SetPending(ipr, expired)
           served == Served(pend, sr.ipl)
<1>2. pend \subseteq Sources /\ served \subseteq Sources
  BY LineSourcePending, ServedOpen DEF TypeOK, MfpTypeOK
<1>3. /\ at = "check" /\ at' = "scan" /\ scan' = 0 /\ owed = {}
      /\ MFP \notin pending
  BY DEF CheckPending
<1>4. /\ pending' \cap FullStacked = {}
      /\ MFP \in pending' <=> served # {}
      /\ served # {} => vector' = LastServed(served)
      /\ UNCHANGED <<sr, ier, imr, sei>> /\ owed' = served
  BY <1>1, <1>3 DEF CheckInterrupts, InterruptPass
<1>5. ASSUME served # {}
      PROVE  /\ sr'.ipl < 6 /\ vector' \in ier' \cap imr'
             /\ sei' => owed' = {vector'}
  <2>1. vector' \in served
    BY <1>2, <1>4, <1>5, LeastServed
  <2>2. vector' \in ier \cap imr /\ ~(sr.ipl >= 6)
    BY <2>1, ServedOpen
  <2>3. sei => served = {vector'}
    BY <1>2, <2>1, ServedOnce
  <2>4. QED
    BY <1>4, <2>2, <2>3 DEF TypeOK, CpuTypeOK, StatusRegister
<1>6. TypeOK' /\ pending' \subseteq Vectors
  BY CheckPendingType DEF TypeOK, CpuTypeOK
<1>7. \A v \in pending' : ~(Rank(v) <= scan')
  BY <1>3, <1>4, <1>6, RankFacts, RankType
<1>8. QED
  BY <1>3, <1>4, <1>5, <1>6, <1>7

\* The scan enters the handed-over request before any other interrupt.
LEMMA HandoverTakeNext ==
  ASSUME HandoverInv, TakeNext, Faults = {}
  PROVE  HandoverInv'
<1> USE DEF HandoverInv
<1>0. TypeOK' /\ at = "scan" /\ at' = "scan"
  BY TypePreserved DEF Next, Step, TakeNext
<1>1. PICK v \in Vectors, sf \in SUBSET Faults, pf \in SUBSET Faults :
        NextInScan(v, scan) /\ DoException(v, sf, pf) /\ scan' = Rank(v)
  BY DEF TakeNext
<1>2. /\ v \in pending /\ sf = {} /\ pf = {}
      /\ pending \subseteq Vectors /\ v \notin FullStacked
  BY <1>1 DEF NextInScan, TypeOK, CpuTypeOK
<1>3. \A w \in pending : w # v /\ Rank(w) <= Rank(v) => Masked(w)
  <2> SUFFICES ASSUME NEW w \in pending, w # v, Rank(w) <= Rank(v)
               PROVE  Rank(w) <= scan
    BY <1>0
  <2>1. Rank(w) # Rank(v)
    BY <1>2, RankFacts
  <2>2. Rank(w) \in 0 .. 31 /\ Rank(v) \in 0 .. 31 /\ scan \in 0 .. 31
    BY <1>2, RankType DEF TypeOK
  <2>3. QED
    BY <1>1, <2>1, <2>2 DEF NextInScan
<1>4. CASE Masked(v)
  <2>1. UNCHANGED <<pending, vector, sr, ier, imr, sei, owed>>
    BY <1>1, <1>2, <1>4 DEF DoException, LeavePending, mfpVars
  <2>2. v # MFP
    <3>1. sr.ipl \in 0 .. 7
      BY DEF TypeOK, CpuTypeOK, StatusRegister
    <3>2. QED
      BY <1>2, <1>4, <3>1 DEF Masked
  <2>3. MFP \in pending => Rank(v) < 25
    <3>1. MFP \in pending => Rank(v) <= Rank(MFP) /\ Rank(v) # Rank(MFP)
      BY <1>0, <1>1, <1>2, <2>2, RankMfp, RankFacts DEF NextInScan
    <3>2. QED
      BY <3>1, RankMfp, RankType
  <2>4. QED
    BY <1>0, <1>1, <1>2, <1>3, <1>4, <2>1, <2>3 DEF Masked
<1>5. CASE ~Masked(v)
  <2>1. Enter(v, {}, {}) /\ Tick /\ owed' = IF v = MFP THEN {} ELSE owed
    BY <1>1, <1>2, <1>5 DEF DoException
  <2>2. pending' = pending \ {v}
    BY <2>1 DEF Enter
  <2>3. \A w \in pending' : Rank(w) <= scan' => Masked(w)'
    <3> SUFFICES ASSUME NEW w \in pending', Rank(w) <= scan'
                 PROVE  Masked(w)'
      OBVIOUS
    <3>1. Masked(w) /\ w \in Interrupts
      BY <1>1, <1>3, <2>2 DEF Masked
    <3>2. sr'.ipl = IF v \in Interrupts THEN Level(v) ELSE sr.ipl
      BY <2>1 DEF Enter
    <3>3. sr.ipl \in 0 .. 7
      BY DEF TypeOK, CpuTypeOK, StatusRegister
    <3>4. QED
      BY <1>5, <3>1, <3>2, <3>3 DEF Masked
  <2>4. CASE v = MFP
    BY <1>0, <2>1, <2>2, <2>3, <2>4
  <2>5. CASE v # MFP
    <3>1. MFP \in pending => Rank(v) < 25
      <4>1. MFP \in pending => Rank(v) <= Rank(MFP) /\ Rank(v) # Rank(MFP)
        BY <1>0, <1>1, <1>2, <2>5, RankMfp, RankFacts DEF NextInScan
      <4>2. QED
        BY <4>1, RankMfp, RankType
    <3>2. MFP \in pending => sr'.ipl = sr.ipl
      BY <1>2, <2>1, <3>1, RankMfp DEF Enter
    <3>3. UNCHANGED <<vector, ier, imr, sei, owed>>
      BY <2>1, <2>5, TickEffect DEF Enter
    <3>4. scan' = Rank(v)
      BY <1>1
    <3>5. MFP \in pending' <=> MFP \in pending
      BY <2>2, <2>5
    <3>6. /\ pending' \cap FullStacked = {}
          /\ MFP \notin pending' => owed' = {}
      BY <2>2, <3>3, <3>5
    <3>7. MFP \in pending' => /\ scan' < 25 /\ sr'.ipl < 6
                              /\ vector' \in ier' \cap imr'
                              /\ sei' => owed' = {vector'}
      BY <3>1, <3>2, <3>3, <3>4, <3>5
    <3>8. QED
      BY <1>0, <2>3, <3>6, <3>7
  <2>6. QED
    BY <2>4, <2>5
<1>6. QED
  BY <1>4, <1>5

\* Every step of the loop keeps it.
LEMMA HandoverStep ==
  ASSUME HandoverInv, [Next]_vars, Faults = {}
  PROVE  HandoverInv'
<1> USE DEF HandoverInv
<1>0. TypeOK'
  BY TypePreserved
<1>1. CASE Instruction
  BY <1>1, HandoverInstruction
<1>2. CASE DoCycles
  <2>1. UNCHANGED <<pending, owed>> /\ at = "cycles" /\ at' = "check"
    BY <1>2 DEF DoCycles
  <2>2. QED
    BY <1>0, <2>1
<1>3. CASE CheckPending
  BY <1>3, HandoverCheckPending
<1>4. CASE TakeFault
  BY <1>4 DEF TakeFault
<1>5. CASE TakeNext
  BY <1>5, HandoverTakeNext
<1>6. CASE EndScan
  <2>1. /\ at = "scan" /\ at' = "loop"
        /\ \A v \in pending : Rank(v) <= scan
        /\ UNCHANGED <<pending, sr, owed>>
    BY <1>6 DEF EndScan, cpuVars
  <2>2. MFP \notin pending
    BY <2>1, RankMfp DEF TypeOK
  <2>3. QED
    BY <1>0, <2>1, <2>2 DEF Masked
<1>7. CASE NextRound
  <2>1. at = "loop" /\ at' = "instr"
    BY <1>7 DEF NextRound
  <2>2. \/ pending' = {} /\ owed' = {}
        \/ UNCHANGED <<pending, owed>>
    BY <1>7 DEF NextRound, CpuReset, cpuVars
  <2>3. QED
    BY <1>0, <2>1, <2>2
<1>8. CASE Sighup \/ UNCHANGED vars
  <2>1. UNCHANGED <<at, scan, sr, pending, vector, ier, imr, sei, owed>>
    BY <1>8 DEF Sighup, vars, loopVars, mfpVars, cpuVars
  <2>2. QED
    BY <1>0, <2>1 DEF Masked
<1>9. QED
  BY <1>1, <1>2, <1>3, <1>4, <1>5, <1>6, <1>7, <1>8 DEF Next, Step

\* It holds in every reachable state.
LEMMA HandoverInvariant == Faults = {} /\ Spec => []HandoverInv
<1> SUFFICES ASSUME Faults = {} PROVE Spec => []HandoverInv
  OBVIOUS
<1>1. Init => HandoverInv
  <2> SUFFICES ASSUME Init PROVE HandoverInv
    OBVIOUS
  <2>1. pending = {} /\ owed = {} /\ at = "instr"
    BY DEF Init, CpuInit
  <2>2. QED
    BY <2>1, InitType DEF HandoverInv
<1>2. HandoverInv /\ [Next]_vars => HandoverInv'
  BY HandoverStep
<1>3. QED
  BY <1>1, <1>2, PTL DEF Spec

\* Without faults cpu_set_interrupt overwrites no request of a guest that ends
\* its interrupts itself (cpu.c:402).
THEOREM NoRequestLostCorrect == Faults = {} /\ Spec => []NoRequestLost
<1>1. HandoverInv => NoRequestLost
  BY DEF HandoverInv, NoRequestLost
<1>2. QED
  BY <1>1, HandoverInvariant, PTL

\* Without faults the source the CPU enters is enabled and unmasked (mfp.c:458-467).
THEOREM RequestStillWantedCorrect == Faults = {} /\ Spec => []RequestStillWanted
<1>1. HandoverInv => RequestStillWanted
  BY DEF HandoverInv, RequestStillWanted
<1>2. QED
  BY <1>1, HandoverInvariant, PTL

\* Without faults a round leaves only masked interrupts pending (cpu.c:252-280).
THEOREM ScanLeavesOnlyMaskedCorrect == Faults = {} /\ Spec => []ScanLeavesOnlyMasked
<1>1. HandoverInv => ScanLeavesOnlyMasked
  BY DEF HandoverInv, ScanLeavesOnlyMasked
<1>2. QED
  BY <1>1, HandoverInvariant, PTL
=============================================================================
