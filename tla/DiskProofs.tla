----------------------------- MODULE DiskProofs -----------------------------
(* Theorems about DiskGuest, for every geometry, every guest and every value *)
(* of the other constants.                                                   *)
EXTENDS DiskGuest, TLAPS

-----------------------------------------------------------------------------
(* Transfers stay in their image *)

\* An image has a whole number of blocks.
LEMMA SizeNat == Size \in Nat
BY FloppyAssumption DEF Size

\* A transfer copies no more than asked and never leaves the image
\* (floppy_st.c:25), wherever head, side and sector register point.
LEMMA ReachableInImage ==
  ASSUME NEW p \in Int, NEW n \in Nat
  PROVE  /\ Reachable(p, n) \in 0 .. n
         /\ \A x \in p .. p + Reachable(p, n) - 1 : x \in Disk
BY SizeNat DEF Reachable, InImage, Disk

\* Copying blocks that are there into memory leaves it a memory.
LEMMA CopyInType ==
  ASSUME NEW D, NEW from \in [D -> Contents], NEW p \in Int, NEW b \in Int, NEW n \in Int,
         memory \in [Ram -> Contents], \A x \in p .. p + n - 1 : x \in D
  PROVE  CopyIn(from, p, b, n) \in [Ram -> Contents]
<1>1. ASSUME NEW x \in Ram, x \in b .. b + n - 1 PROVE from[p + x - b] \in Contents
  <2>1. p + x - b \in p .. p + n - 1
    BY <1>1 DEF Ram
  <2>2. QED
    BY <2>1
<1>2. QED
  BY <1>1 DEF CopyIn

\* Copying memory over a disk leaves it a disk of the same size.
LEMMA CopyOutType ==
  ASSUME NEW D, NEW to \in [D -> Contents], NEW p \in Int, NEW b \in Int, NEW n \in Int,
         memory \in [Ram -> Contents]
  PROVE  CopyOut(to, p, b, n) \in [D -> Contents]
BY FloppyAssumption DEF CopyOut, Fetch

\* The position of a sector is a number, before the image included.
LEMMA PositionInt ==
  ASSUME FloppyTypeOK, active \in Drives, NEW s \in Int
  PROVE  Position(s) \in Int
<1>1. head[active] \in Int /\ side \in Int
  BY FloppyAssumption DEF FloppyTypeOK
<1>2. Sides \in Int /\ Sectors \in Int
  BY FloppyAssumption
<1>3. head[active] * Sides * Sectors \in Int /\ side * Sectors \in Int
  BY <1>1, <1>2
<1>4. QED
  BY <1>3 DEF Position

\* Reading sectors keeps memory and images in their types.
LEMMA ReadType ==
  ASSUME FloppyTypeOK, NEW b \in Int, NEW n \in Nat, ReadSectors(b, n)
  PROVE  memory' \in [Ram -> Contents] /\ image' = image
<1>1. CASE Ready
  <2>1. active \in Drives /\ sector[active] \in Int
    BY <1>1, FloppyAssumption DEF Ready, Drives, FloppyTypeOK
  <2>2. image[active] \in [Disk -> Contents]
    BY <1>1 DEF Ready, FloppyTypeOK
  <2> DEFINE p == Position(sector[active])
  <2>3. p \in Int
    BY <2>1, PositionInt
  <2>4. memory' = CopyIn(image[active], p, b, Reachable(p, n))
    BY <1>1 DEF ReadSectors, ReadCount
  <2>5. memory \in [Ram -> Contents]
    BY DEF FloppyTypeOK
  <2>6. /\ Reachable(p, n) \in Int
        /\ \A x \in p .. p + Reachable(p, n) - 1 : x \in Disk
    BY <2>3, ReachableInImage
  <2> HIDE DEF p
  <2>7. CopyIn(image[active], p, b, Reachable(p, n)) \in [Ram -> Contents]
    BY <2>2, <2>3, <2>5, <2>6, CopyInType
  <2>8. QED
    BY <2>4, <2>7 DEF ReadSectors
<1>2. CASE ~Ready
  BY <1>2 DEF ReadSectors, FloppyTypeOK
<1>3. QED
  BY <1>1, <1>2

\* Writing sectors does too.
LEMMA WriteType ==
  ASSUME FloppyTypeOK, NEW b \in Int, NEW n \in Nat, WriteSectors(b, n)
  PROVE  image' \in [Inserted -> [Disk -> Contents]] /\ memory' = memory
<1>1. CASE Ready
  <2>1. active \in Drives /\ sector[active] \in Int
    BY <1>1, FloppyAssumption DEF Ready, Drives, FloppyTypeOK
  <2>2. image[active] \in [Disk -> Contents]
    BY <1>1 DEF Ready, FloppyTypeOK
  <2>3. WriteFrom \in Int
    BY <2>1, PositionInt DEF WriteFrom
  <2>4. WriteCount(n) \in Int
    BY <1>1, <2>3, ReachableInImage DEF WriteCount
  <2>5. CopyOut(image[active], WriteFrom, b, WriteCount(n)) \in [Disk -> Contents]
    BY <2>2, <2>3, <2>4, CopyOutType DEF FloppyTypeOK
  <2>6. QED
    BY <1>1, <2>5 DEF WriteSectors, FloppyTypeOK
<1>2. CASE ~Ready
  BY <1>2 DEF WriteSectors, FloppyTypeOK
<1>3. QED
  BY <1>1, <1>2

-----------------------------------------------------------------------------
(* Each access keeps the registers in their ranges *)

\* The line, the pass and the register writes keep the MFP's registers sets of
\* sources and of lines (mfp.c:346).
LEMMA MfpType ==
  ASSUME MfpTypeOK,
         \/ SetGPIP(5) \/ Strobe
         \/ \E ipl \in Levels : InterruptPass({}, Ends, ipl)
         \/ \E new \in GpipData : WriteGPIP(new)
         \/ \E new \in Edges : WriteAER(new)
         \/ \E new \in Masks :
              WriteIER(RegB, new) \/ WriteIPR(RegB, new) \/ WriteIMR(RegB, new)
  PROVE  MfpTypeOK'
<1> USE DEF MfpTypeOK
<1>1. 5 \in Lines /\ 7 \in Sources
  BY DiskAssumption
<1>2. CASE SetGPIP(5)
  BY <1>1, <1>2 DEF SetGPIP, SetPending, LineSource
<1>3. CASE Strobe
  BY <1>1, <1>3 DEF Strobe, SetPending
<1>4. ASSUME NEW ipl \in Levels, InterruptPass({}, Ends, ipl) PROVE MfpTypeOK'
  BY <1>1, <1>4 DEF InterruptPass, Ends, SetPending, FallPending, LineSource, Served, Open
<1>5. ASSUME NEW new \in GpipData, WriteGPIP(new) PROVE MfpTypeOK'
  BY <1>5, GuestAssumption DEF WriteGPIP
<1>6. ASSUME NEW new \in Edges, WriteAER(new) PROVE MfpTypeOK'
  BY <1>6, GuestAssumption DEF WriteAER
<1>7. ASSUME NEW new \in Masks,
             WriteIER(RegB, new) \/ WriteIPR(RegB, new) \/ WriteIMR(RegB, new)
      PROVE  MfpTypeOK'
  BY <1>7, GuestAssumption DEF WriteIER, WriteIPR, WriteIMR, Splice
<1>8. QED
  BY <1>2, <1>3, <1>4, <1>5, <1>6, <1>7

\* The address counts up within the address space (dma.c:71).
LEMMA WithinSpace == ASSUME NEW x \in Int PROVE x % AddressSpace \in 0 .. AddressSpace - 1
<1>1. AddressSpace = 32768
  BY DEF AddressSpace
<1>2. x % 32768 \in 0 .. 32767
  BY SMTT(30)
<1>3. QED
  BY <1>1, <1>2

\* A byte of the address replaces its part and leaves a 24-bit address (dma.c:150).
LEMMA AddressBytes ==
  ASSUME NEW a \in 0 .. AddressSpace - 1, NEW b \in 0 .. 255
  PROVE  /\ ((b % 64) * 128) + (a % 128) \in 0 .. AddressSpace - 1
         /\ ((a \div 128) * 128) + (b \div 2) \in 0 .. AddressSpace - 1
<1>1. b % 64 \in 0 .. 63 /\ a % 128 \in 0 .. 127 /\ b \div 2 \in 0 .. 127
  OBVIOUS
<1>2. a \div 128 \in 0 .. 255
  <2>1. a \in 0 .. 32767
    BY DEF AddressSpace
  <2>2. QED
    BY <2>1
<1>3. ASSUME NEW x \in 0 .. 255, NEW y \in 0 .. 127
      PROVE  (x * 128) + y \in 0 .. AddressSpace - 1
  <2>1. AddressSpace = 32768
    BY DEF AddressSpace
  <2>2. (x * 128) + y \in Int /\ 0 <= (x * 128) + y /\ (x * 128) + y <= 32767
    BY SMTT(30)
  <2>3. QED
    BY <2>1, <2>2, SMTT(30)
<1>4. b % 64 \in 0 .. 255
  BY <1>1
<1>5. ((b % 64) * 128) + (a % 128) \in 0 .. AddressSpace - 1
  BY <1>1, <1>3, <1>4, Zenon
<1>6. ((a \div 128) * 128) + (b \div 2) \in 0 .. AddressSpace - 1
  BY <1>1, <1>2, <1>3, Zenon
<1>7. QED
  BY <1>5, <1>6

\* Registers of the DMA chip (dma.c:73, dma.c:186).
LEMMA DmaAccessType == TypeOK /\ DmaAccess => TypeOK'
<1> SUFFICES ASSUME TypeOK, DmaAccess PROVE TypeOK'
  OBVIOUS
<1> USE DEF TypeOK, DiskTypeOK, DmaTypeOK
<1>1. at' \in {"guest", "poll"} /\ ran' = ran /\ driver' = driver
  BY DEF DmaAccess, Access, historyVars
<1>2. ASSUME NEW m \in Modes, NEW d \in Directions, SetMode(m, d) PROVE TypeOK'
  <2>1. DmaTypeOK'
    BY <1>2, GuestAssumption DEF SetMode
  <2>2. QED
    BY <1>1, <1>2, <2>1 DEF SetMode, floppyVars, mfpVars, fdcVars, hdcVars,
       FloppyTypeOK, MfpTypeOK, FdcTypeOK, HdcTypeOK
<1>3. ASSUME NEW n \in Counts, SetCount(n) PROVE TypeOK'
  BY <1>1, <1>3, GuestAssumption DEF SetCount, floppyVars, mfpVars, fdcVars, hdcVars,
     FloppyTypeOK, MfpTypeOK, FdcTypeOK, HdcTypeOK
<1>4. ASSUME NEW b \in 0 .. 255, SetHigh(b) PROVE TypeOK'
  <2>1. address' \in 0 .. AddressSpace - 1
    BY <1>4, AddressBytes DEF SetHigh
  <2>2. UNCHANGED <<mode, count, direction, noError, fdcVars, hdcVars, floppyVars, mfpVars>>
    BY <1>4 DEF SetHigh
  <2>3. QED
    BY <1>1, <2>1, <2>2 DEF floppyVars, mfpVars, fdcVars, hdcVars,
       FloppyTypeOK, MfpTypeOK, FdcTypeOK, HdcTypeOK
<1>5. ASSUME NEW b \in 0 .. 255, SetMed(b) PROVE TypeOK'
  <2>1. address' \in 0 .. AddressSpace - 1
    BY <1>5, AddressBytes DEF SetMed
  <2>2. UNCHANGED <<mode, count, direction, noError, fdcVars, hdcVars, floppyVars, mfpVars>>
    BY <1>5 DEF SetMed
  <2>3. QED
    BY <1>1, <2>1, <2>2 DEF floppyVars, mfpVars, fdcVars, hdcVars,
       FloppyTypeOK, MfpTypeOK, FdcTypeOK, HdcTypeOK
<1>6. QED
  BY <1>2, <1>3, <1>4, <1>5, GuestAssumption DEF DmaAccess

\* Registers of the FDC other than a command (fdc.c:202, fdc.c:68).
LEMMA FdcAccessType == TypeOK /\ FdcAccess => TypeOK'
<1> SUFFICES ASSUME TypeOK, FdcAccess PROVE TypeOK'
  OBVIOUS
<1> USE DEF TypeOK, DiskTypeOK, FdcTypeOK
<1>1. at' \in {"guest", "poll"} /\ ran' = ran /\ driver' = driver
  BY DEF FdcAccess, Access, historyVars
<1>2. ASSUME NEW b \in RegisterBytes, SetRegister(b) PROVE TypeOK'
  <2>1. b \in 0 .. 255
    BY GuestAssumption
  <2>2. sector' \in [Drives -> 0 .. 255] /\ FdcTypeOK'
    BY <1>2, <2>1 DEF SetRegister, SelectSector, FloppyTypeOK
  <2>3. QED
    BY <1>1, <1>2, <2>2 DEF SetRegister, dmaVars, mfpVars, hdcVars,
       FloppyTypeOK, MfpTypeOK, DmaTypeOK, HdcTypeOK
<1>3. CASE ReadStatus
  BY <1>1, <1>3 DEF ReadStatus, floppyVars, dmaVars, mfpVars, hdcVars,
     FloppyTypeOK, MfpTypeOK, DmaTypeOK, HdcTypeOK
<1>4. QED
  BY <1>2, <1>3 DEF FdcAccess

\* Where a seek or a step may leave the head (floppy.c:62, floppy.c:79).
LEMMA HeadTargets ==
  ASSUME TypeOK
  PROVE  /\ Seek(0).to \in 0 .. MaxHead /\ Seek(data).to \in 0 .. MaxHead
         /\ Ready => \A direction1 \in {-1, 1} : Step(direction1).to \in 0 .. MaxHead
<1>1. Seek(0).to \in 0 .. MaxHead /\ Seek(data).to \in 0 .. MaxHead
  BY FloppyAssumption DEF Seek, TypeOK, DiskTypeOK, FdcTypeOK
<1>2. ASSUME Ready, NEW d \in {-1, 1} PROVE Step(d).to \in 0 .. MaxHead
  <2>1. head[active] \in 0 .. MaxHead
    BY <1>2, FloppyAssumption DEF Ready, Drives, TypeOK, DiskTypeOK, FloppyTypeOK
  <2>2. QED
    BY <1>2, <2>1, FloppyAssumption DEF Step
<1>3. QED
  BY <1>1, <1>2

\* A command of the FDC starts in a legal state whatever it finds (fdc.c:87).
LEMMA FdcCommandType == TypeOK /\ FdcCommand => TypeOK'
<1> SUFFICES ASSUME TypeOK, NEW c \in Commands, Command(c), FdcCommand PROVE TypeOK'
  BY DEF FdcCommand
<1>1. at' \in {"guest", "poll"} /\ ran' \in Nat /\ driver' \in LineDrivers
  <2>1. at' = "poll" /\ (UNCHANGED historyVars \/ (ran' = 0 /\ driver' = "fdc"))
    BY DEF FdcCommand, Access
  <2>2. ran' \in Nat
    BY <2>1 DEF historyVars, TypeOK
  <2>3. driver' \in LineDrivers
    BY <2>1 DEF historyVars, TypeOK, LineDrivers
  <2>4. QED
    BY <2>1, <2>2, <2>3
<1>2. FloppyTypeOK /\ MfpTypeOK /\ DmaTypeOK /\ FdcTypeOK /\ HdcTypeOK
  BY DEF TypeOK, DiskTypeOK
<1>3. ASSUME Begin
      PROVE  /\ MfpTypeOK' /\ HdcTypeOK'
             /\ busy' \in BOOLEAN /\ timer' \in Int /\ timer' <= PendingTime /\ data' \in 0 .. 255
  <2>1. MfpTypeOK'
    BY <1>2, <1>3, MfpType DEF Begin
  <2>2. HdcTypeOK'
    BY <1>2, <1>3 DEF Begin, hdcVars, HdcTypeOK
  <2>3. QED
    BY <1>2, <1>3, <2>1, <2>2, DiskAssumption DEF Begin, FdcTypeOK
<1>4. ASSUME NEW result, NEW dir \in BOOLEAN, HeadCommand(result, dir),
             Ready => result.to \in 0 .. MaxHead
      PROVE  TypeOK'
  <2>1. Begin
    BY <1>4 DEF HeadCommand
  <2>2. FdcTypeOK'
    BY <1>2, <1>3, <1>4, <2>1, FloppyAssumption DEF HeadCommand, FdcTypeOK
  <2>3. head' \in [Drives -> 0 .. MaxHead]
    BY <1>2, <1>4 DEF HeadCommand, MoveHead, FloppyTypeOK
  <2>4. FloppyTypeOK' /\ DmaTypeOK'
    BY <1>2, <1>4, <2>3 DEF HeadCommand, FloppyTypeOK, DmaTypeOK, dmaVars
  <2>5. QED
    BY <1>1, <1>3, <2>1, <2>2, <2>4 DEF TypeOK, DiskTypeOK
<1>5. CASE Moves(c)
  <2>1. inward \in BOOLEAN
    BY <1>2 DEF FdcTypeOK
  <2>2. Toward(inward) \in {-1, 1}
    BY DEF Toward
  <2>3. CASE HeadCommand(Seek(0), inward) \/ HeadCommand(Seek(data), inward)
    BY <1>4, <2>1, <2>3, HeadTargets
  <2>4. CASE HeadCommand(Step(Toward(inward)), inward)
    BY <1>4, <2>1, <2>2, <2>4, HeadTargets
  <2>5. CASE HeadCommand(Step(1), TRUE) \/ HeadCommand(Step(-1), FALSE)
    BY <1>4, <2>5, HeadTargets
  <2>6. QED
    BY <1>5, <2>3, <2>4, <2>5 DEF Moves
<1>6. ASSUME DataCommand, image' \in [Inserted -> [Disk -> Contents]], memory' \in [Ram -> Contents],
             noError' \in BOOLEAN, address' \in 0 .. AddressSpace - 1
      PROVE  TypeOK'
  <2>1. Begin
    BY <1>6 DEF DataCommand
  <2>2. FloppyTypeOK' /\ FdcTypeOK' /\ DmaTypeOK'
    BY <1>2, <1>3, <1>6, <2>1 DEF DataCommand, FloppyTypeOK, FdcTypeOK, DmaTypeOK
  <2>3. QED
    BY <1>1, <1>3, <2>1, <2>2 DEF TypeOK, DiskTypeOK
<1>7. address \in Int /\ count \in Nat /\ address \in 0 .. AddressSpace - 1
  BY <1>2 DEF DmaTypeOK
<1>8. ASSUME NEW multiple \in BOOLEAN, NEW moved, Finish(multiple, moved)
      PROVE  noError' \in BOOLEAN /\ address' \in 0 .. AddressSpace - 1
  <2>1. noError' \in BOOLEAN
    BY <1>8 DEF Finish, TransferOk, Ready
  <2>2. ASSUME NEW n \in Nat, Advance(n) PROVE address' \in 0 .. AddressSpace - 1
    <3>1. address + n \in Int
      BY <1>7
    <3>2. address' = (address + n) % AddressSpace
      BY <2>2, Zenon DEF Advance
    <3>3. QED
      BY <3>1, <3>2, WithinSpace, Zenon
  <2>3. CASE TransferOk(moved, count)
    <3>1. PICK n \in {count, 1} : Advance(n)
      BY <1>8, <2>3, Zenon DEF Finish
    <3>2. n \in Nat
      BY <1>7, <3>1
    <3>3. QED
      BY <2>1, <2>2, <3>1, <3>2, Zenon
  <2>4. CASE ~TransferOk(moved, count)
    <3>1. address' = address
      BY <1>8, <2>4, Zenon DEF Finish
    <3>2. QED
      BY <1>7, <2>1, <3>1, Zenon
  <2>5. QED
    BY <2>3, <2>4
<1>9. CASE Transfers(c)
  <2>1. CASE DataCommand /\ ReadSectors(address, count) /\ Finish(c = "readsecs", ReadCount(count))
    <3>1. memory' \in [Ram -> Contents] /\ image' = image
      BY <1>2, <1>7, <2>1, ReadType
    <3>2. QED
      BY <1>2, <1>6, <1>8, <2>1, <3>1 DEF FloppyTypeOK
  <2>2. CASE DataCommand /\ WriteSectors(address, count) /\ Finish(c = "writesecs", WriteCount(count))
    <3>1. image' \in [Inserted -> [Disk -> Contents]] /\ memory' = memory
      BY <1>2, <1>7, <2>2, WriteType
    <3>2. QED
      BY <1>2, <1>6, <1>8, <2>2, <3>1 DEF FloppyTypeOK
  <2>3. CASE DataCommand /\ ReadAddress(address) /\ noError' = TRUE /\ UNCHANGED address
    <3>1. memory' \in [Ram -> Contents] /\ image' = image
      BY <1>2, <2>3, FloppyAssumption DEF ReadAddress, FloppyTypeOK
    <3>2. QED
      BY <1>2, <1>6, <1>7, <2>3, <3>1 DEF FloppyTypeOK
  <2>4. CASE DataCommand /\ noError' = FALSE /\ UNCHANGED <<address, image, memory>>
    BY <1>2, <1>6, <1>7, <2>4 DEF FloppyTypeOK
  <2>5. QED
    BY <1>9, <2>1, <2>2, <2>3, <2>4 DEF Transfers
<1>10. CASE UNCHANGED <<dmaVars, fdcVars, hdcVars, floppyVars, mfpVars>>
  BY <1>1, <1>2, <1>10 DEF TypeOK, DiskTypeOK, dmaVars, fdcVars, hdcVars, floppyVars, mfpVars,
     FloppyTypeOK, MfpTypeOK, DmaTypeOK, FdcTypeOK, HdcTypeOK
<1>11. QED
  BY <1>5, <1>9, <1>10 DEF Command

-----------------------------------------------------------------------------
(* The hard disk *)

\* A parameter keeps the command block a block of five bytes (hdc.c:97).
LEMMA StoredType ==
  ASSUME HdcTypeOK, NEW b \in 0 .. 255
  PROVE  Stored(b) \in [0 .. 4 -> 0 .. 255]
BY DEF HdcTypeOK, Stored

\* No sequence of command and parameter bytes writes beside the command block.
LEMMA HdcAccessType == TypeOK /\ HdcAccess => TypeOK'
<1> SUFFICES ASSUME TypeOK, HdcAccess PROVE TypeOK'
  OBVIOUS
<1> USE DEF TypeOK, DiskTypeOK
<1>1. at' \in {"guest", "poll"} /\ ran' = ran /\ driver' = driver
  BY DEF HdcAccess, Access, historyVars
<1>2. ASSUME NEW c \in HardCommands, SetHardCommand(c.ctrl, c.op) PROVE TypeOK'
  <2>1. cmd' \in [ctrl : 0 .. 7, op : Operations]
    BY <1>2, GuestAssumption DEF SetHardCommand
  <2>2. QED
    BY <1>1, <1>2, <2>1 DEF SetHardCommand, HdcTypeOK, dmaVars, fdcVars, floppyVars, mfpVars,
       FloppyTypeOK, MfpTypeOK, DmaTypeOK, FdcTypeOK
<1>3. ASSUME NEW b \in Parameters, NextParameter(b) PROVE TypeOK'
  <2>1. params' \in [0 .. 4 -> 0 .. 255]
    BY <1>3, StoredType, GuestAssumption DEF NextParameter
  <2>2. QED
    BY <1>1, <1>3, <2>1 DEF NextParameter, HdcTypeOK, dmaVars, fdcVars, floppyVars, mfpVars,
       FloppyTypeOK, MfpTypeOK, DmaTypeOK, FdcTypeOK
<1>4. QED
  BY <1>2, <1>3 DEF HdcAccess

\* The hard disk's transfers stay within its file (hdc.c:31, hdc.c:50).
LEMMA HdcCommandType == TypeOK /\ HdcCommand => TypeOK'
<1> SUFFICES ASSUME TypeOK, HdcCommand, NEW b \in Parameters, LastParameter(b) PROVE TypeOK'
  BY DEF HdcCommand
<1>1. at' \in {"guest", "poll"} /\ ran' = ran /\ driver' \in LineDrivers
  BY DEF HdcCommand, Access, TypeOK, LineDrivers
<1>2. FloppyTypeOK /\ MfpTypeOK /\ DmaTypeOK /\ FdcTypeOK /\ HdcTypeOK
  BY DEF TypeOK, DiskTypeOK
<1> DEFINE p == Stored(b)
<1>3. p \in [0 .. 4 -> 0 .. 255]
  BY <1>2, StoredType, GuestAssumption
<1>4. Block(p) \in Nat /\ p[3] \in Nat
  <2> HIDE DEF p
  <2>1. p[0] \in Nat /\ p[1] \in Nat /\ p[2] \in Nat /\ p[3] \in Nat
    BY <1>3
  <2>2. p[0] % 128 \in Nat
    BY <2>1
  <2>3. QED
    BY <2>1, <2>2 DEF Block
<1>5. address \in Int
  BY <1>2 DEF DmaTypeOK
<1>6. Cleared \in [0 .. 4 -> 0 .. 255]
  BY DEF Cleared
<1>7. /\ cmd' = cmd /\ foreign' \in BOOLEAN /\ params' \in [0 .. 4 -> 0 .. 255] /\ position' \in 0 .. 4
      /\ DmaTypeOK' /\ FdcTypeOK'
      /\ UNCHANGED <<active, head, sector, side, image>>
  BY <1>2, <1>6 DEF LastParameter, Forget, dmaVars, fdcVars, DmaTypeOK, FdcTypeOK
<1>8. CASE Strobe /\ (HardRead(p) \/ HardWrite(p)) /\ UNCHANGED code
  <2>1. MfpTypeOK'
    BY <1>2, <1>8, MfpType
  <2>2. CASE HardRead(p)
    <3>1. Within(p) => CopyIn(hard, Block(p), address, p[3]) \in [Ram -> Contents]
      <4> HIDE DEF p
      <4>1. SUFFICES ASSUME Within(p) PROVE CopyIn(hard, Block(p), address, p[3]) \in [Ram -> Contents]
        OBVIOUS
      <4>2. \A x \in Block(p) .. Block(p) + p[3] - 1 : x \in 0 .. HardBlocks - 1
        BY <1>4, <4>1, DiskAssumption DEF Within
      <4>3. hard \in [0 .. HardBlocks - 1 -> Contents] /\ memory \in [Ram -> Contents]
        BY <1>2 DEF HdcTypeOK, FloppyTypeOK
      <4>4. Block(p) \in Int /\ p[3] \in Int
        BY <1>4
      <4>5. QED
        BY <1>5, <4>2, <4>3, <4>4, CopyInType
    <3> HIDE DEF p
    <3>2. memory' \in [Ram -> Contents] /\ file' \in BOOLEAN /\ hard' = hard
      BY <1>2, <2>2, <3>1 DEF HardRead, Within, FloppyTypeOK, HdcTypeOK
    <3>3. QED
      BY <1>1, <1>2, <1>7, <1>8, <2>1, <3>2 DEF TypeOK, DiskTypeOK, FloppyTypeOK, HdcTypeOK
  <2>3. CASE HardWrite(p)
    <3> HIDE DEF p
    <3>1. Block(p) \in Int /\ p[3] \in Int
      BY <1>4
    <3>2. CopyOut(hard, Block(p), address, p[3]) \in [0 .. HardBlocks - 1 -> Contents]
      BY <1>2, <1>5, <3>1, CopyOutType DEF HdcTypeOK, FloppyTypeOK
    <3>3. hard' \in [0 .. HardBlocks - 1 -> Contents] /\ memory' = memory /\ file' = file
      BY <1>2, <2>3, <3>2 DEF HardWrite, HdcTypeOK
    <3>4. QED
      BY <1>1, <1>2, <1>7, <1>8, <2>1, <3>3 DEF TypeOK, DiskTypeOK, FloppyTypeOK, HdcTypeOK
  <2>4. QED
    BY <1>8, <2>2, <2>3
<1>9. CASE UNCHANGED <<file, hard, memory, mfpVars>> /\ code' \in {"ok", "error", "nocmd"}
  BY <1>1, <1>2, <1>7, <1>9 DEF TypeOK, DiskTypeOK, FloppyTypeOK, HdcTypeOK, MfpTypeOK, mfpVars
<1>10. QED
  <2>1. ASSUME code' = CASE cmd.ctrl # 0 \/ ~Connected -> code
                         [] cmd.op = "inquire" -> "nocmd"
                         [] cmd.op = "ready"   -> "ok"
                         [] OTHER              -> "error"
        PROVE  code' \in {"ok", "error", "nocmd"}
    BY <1>2, <2>1 DEF HdcTypeOK
  <2> HIDE DEF p
  <2>2. QED
    BY <1>8, <1>9, <2>1 DEF LastParameter, p

-----------------------------------------------------------------------------
(* The other accesses, the polls, and the theorems *)

\* The port has two drives and no drive to select (psg.c:181, floppy.c:32).
LEMMA PortType == TypeOK /\ Port => TypeOK'
<1> SUFFICES ASSUME TypeOK, Port, NEW l \in SelectLines, SelectPort(l[1], l[2]) PROVE TypeOK'
  BY DEF Port
<1>1. l[1] \in {0, 1}
  BY GuestAssumption
<1>2. active' \in Drives \cup {"off"} /\ side' \in {0, 1}
  BY <1>1 DEF SelectPort, SelectDrive, Selected, Drives
<1>3. FloppyTypeOK'
  BY <1>2 DEF SelectPort, SelectDrive, TypeOK, DiskTypeOK, FloppyTypeOK
<1>4. QED
  BY <1>3 DEF Port, Access, SelectPort, historyVars, mfpVars, dmaVars, fdcVars, hdcVars,
     TypeOK, DiskTypeOK, MfpTypeOK, DmaTypeOK, FdcTypeOK, HdcTypeOK

\* The guest's writes to the MFP.
LEMMA MfpAccessType == TypeOK /\ MfpAccess => TypeOK'
<1> SUFFICES ASSUME TypeOK, MfpAccess PROVE TypeOK'
  OBVIOUS
<1>1. MfpTypeOK'
  BY MfpType DEF MfpAccess, TypeOK, DiskTypeOK
<1>2. at' = "poll" /\ ran' = ran /\ driver' \in LineDrivers
  BY DEF MfpAccess, Access, TypeOK, LineDrivers
<1>3. UNCHANGED <<floppyVars, dmaVars, fdcVars, hdcVars>>
  BY DEF MfpAccess
<1>4. FloppyTypeOK' /\ DmaTypeOK' /\ FdcTypeOK' /\ HdcTypeOK'
  <2>1. FloppyTypeOK'
    BY <1>3 DEF floppyVars, TypeOK, DiskTypeOK, FloppyTypeOK
  <2>2. DmaTypeOK'
    BY <1>3 DEF dmaVars, TypeOK, DiskTypeOK, DmaTypeOK
  <2>3. FdcTypeOK'
    BY <1>3 DEF fdcVars, TypeOK, DiskTypeOK, FdcTypeOK
  <2>4. HdcTypeOK'
    BY <1>3 DEF hdcVars, TypeOK, DiskTypeOK, HdcTypeOK
  <2>5. QED
    BY <2>1, <2>2, <2>3, <2>4
<1>5. QED
  BY <1>1, <1>2, <1>4 DEF TypeOK, DiskTypeOK

\* A poll counts the timer down and ends a command (fdc.c:241).
LEMMA PollType ==
  ASSUME TypeOK, NEW c \in Cycles, NEW ipl \in Levels, PollRound(c, ipl)
  PROVE  TypeOK'
<1>1. MfpTypeOK'
  BY MfpType DEF PollRound, Poll, TypeOK, DiskTypeOK
<1>2. c \in Nat /\ ran \in Nat /\ busy \in BOOLEAN /\ timer \in Int /\ timer <= PendingTime
      /\ PendingTime \in Nat
  BY DiskAssumption DEF TypeOK, DiskTypeOK, FdcTypeOK
<1>3. ran' \in Nat /\ at' = "guest"
  BY <1>2 DEF PollRound
<1>4. busy' \in BOOLEAN /\ timer' \in Int /\ timer' <= PendingTime
  BY <1>2 DEF PollRound, Poll, Count
<1>5. UNCHANGED <<track, data, inward, typeI, seekError, dmaVars, hdcVars, floppyVars>>
  BY DEF PollRound, Poll
<1>6. FloppyTypeOK' /\ DmaTypeOK' /\ HdcTypeOK'
  BY <1>5 DEF floppyVars, dmaVars, hdcVars, TypeOK, DiskTypeOK, FloppyTypeOK, DmaTypeOK, HdcTypeOK
<1>7. FdcTypeOK'
  BY <1>4, <1>5 DEF TypeOK, DiskTypeOK, FdcTypeOK
<1>8. driver' \in LineDrivers
  BY DEF PollRound, TypeOK, LineDrivers
<1>9. QED
  BY <1>1, <1>3, <1>6, <1>7, <1>8 DEF TypeOK, DiskTypeOK

\* Whatever a guest writes to the disk system, every register keeps its range
\* and no transfer leaves its image or its file.
THEOREM TypeCorrect == Spec => []TypeOK
<1>1. Init => TypeOK
  <2> SUFFICES ASSUME Init PROVE TypeOK
    OBVIOUS
  <2>1. FloppyTypeOK
    BY FloppyAssumption DEF Init, FloppyInit, FloppyTypeOK
  <2>2. MfpTypeOK
    BY DEF Init, MfpInit, MfpTypeOK
  <2>3. DmaTypeOK /\ FdcTypeOK
    <3>1. /\ noError \in BOOLEAN /\ busy \in BOOLEAN /\ inward \in BOOLEAN
          /\ typeI \in BOOLEAN /\ seekError \in BOOLEAN
      BY Zenon DEF Init, DmaInit, FdcInit
    <3>2. QED
      BY <3>1, DiskAssumption DEF Init, DmaInit, FdcInit, DmaTypeOK, FdcTypeOK, Targets, AddressSpace
  <2>4. HdcTypeOK
    <3>1. foreign \in BOOLEAN /\ file \in BOOLEAN
      BY DiskAssumption, Zenon DEF Init, HdcInit
    <3>2. QED
      BY <3>1, DiskAssumption DEF Init, HdcInit, HdcTypeOK, Cleared, Operations
  <2>5. at \in {"guest", "poll"} /\ ran \in Nat /\ driver \in LineDrivers
    BY DEF Init, LineDrivers
  <2>6. QED
    BY <2>1, <2>2, <2>3, <2>4, <2>5 DEF TypeOK, DiskTypeOK
<1>2. TypeOK /\ UNCHANGED vars => TypeOK'
  BY DEF vars, floppyVars, mfpVars, dmaVars, fdcVars, hdcVars, historyVars,
     TypeOK, DiskTypeOK, FloppyTypeOK, MfpTypeOK, DmaTypeOK, FdcTypeOK, HdcTypeOK
<1>3. TypeOK /\ Next => TypeOK'
  BY DmaAccessType, FdcAccessType, FdcCommandType, HdcAccessType, HdcCommandType, PortType,
     MfpAccessType, PollType DEF Next
<1>4. QED
  BY <1>1, <1>2, <1>3, PTL DEF Spec

-----------------------------------------------------------------------------
(* One line for two controllers *)

\* Accesses that neither run a command nor write to GPIP leave line and FDC alone.
LineUntouched == gpip' = gpip /\ busy' = busy /\ driver' = driver

\* Accesses that give neither controller a command, and stutters, are such.
LEMMA QuietAccesses ==
  ASSUME DmaAccess \/ FdcAccess \/ HdcAccess \/ Port \/ UNCHANGED vars
  PROVE  LineUntouched
<1> USE DEF LineUntouched, historyVars, mfpVars, fdcVars
<1>1. CASE DmaAccess
  BY <1>1 DEF DmaAccess, SetMode, SetCount, SetHigh, SetMed
<1>2. CASE FdcAccess
  BY <1>2 DEF FdcAccess, SetRegister, ReadStatus
<1>3. CASE HdcAccess
  BY <1>3 DEF HdcAccess, SetHardCommand, NextParameter
<1>4. CASE Port
  BY <1>4 DEF Port, SelectPort
<1>5. CASE UNCHANGED vars
  BY <1>5 DEF vars
<1>6. QED
  BY <1>1, <1>2, <1>3, <1>4, <1>5

\* Every step keeps line and command in agreement.
LEMMA LineStep == TypeOK /\ LineFollowsCommand /\ [Next]_vars => LineFollowsCommand'
<1> SUFFICES ASSUME TypeOK, LineFollowsCommand, [Next]_vars PROVE LineFollowsCommand'
  OBVIOUS
<1> USE DEF LineFollowsCommand
<1>1. CASE DmaAccess \/ FdcAccess \/ HdcAccess \/ Port \/ UNCHANGED vars
  BY <1>1, QuietAccesses DEF LineUntouched
<1>2. CASE FdcCommand
  <2>1. PICK c \in Commands : Command(c)
    BY <1>2 DEF FdcCommand
  <2>2. CASE Begin
    BY <2>2 DEF Begin, SetGPIP
  <2>3. CASE busy /\ UNCHANGED <<dmaVars, fdcVars, hdcVars, floppyVars, mfpVars>>
    BY <1>2, <2>3 DEF FdcCommand, historyVars, fdcVars, mfpVars
  <2>4. QED
    BY <2>1, <2>2, <2>3 DEF Command, Moves, Transfers, HeadCommand, DataCommand
<1>3. CASE HdcCommand
  <2>1. busy' = busy
    BY <1>3 DEF HdcCommand, LastParameter, fdcVars
  <2>2. CASE Transferring
    <3>1. driver' = "hdc"
      BY <1>3, <2>2 DEF HdcCommand
    <3>2. 5 \notin gpip'
      BY <1>3, <2>2 DEF HdcCommand, LastParameter, Strobe
    <3>3. QED
      BY <3>1, <3>2
  <2>3. CASE ~Transferring
    <3>1. driver' = driver /\ gpip' = gpip
      BY <1>3, <2>3 DEF HdcCommand, LastParameter, mfpVars
    <3>2. QED
      BY <2>1, <3>1
  <2>4. QED
    BY <2>2, <2>3
<1>4. CASE MfpAccess
  <2>1. busy' = busy
    BY <1>4 DEF MfpAccess, fdcVars
  <2>2. ASSUME NEW new \in GpipData, WriteGPIP(new),
               driver' = IF 5 \in new <=> 5 \in gpip THEN driver ELSE "guest"
        PROVE  LineFollowsCommand'
    <3>1. gpip' = new
      BY <2>2 DEF WriteGPIP
    <3>2. QED
      BY <2>1, <2>2, <3>1
  <2>3. CASE gpip' = gpip /\ driver' = driver
    BY <2>1, <2>3
  <2>4. QED
    BY <1>4, <2>2, <2>3 DEF MfpAccess, WriteAER, WriteIER, WriteIPR, WriteIMR
<1>5. ASSUME NEW c \in Cycles, NEW ipl \in Levels, PollRound(c, ipl) PROVE LineFollowsCommand'
  <2>1. timer \in Int
    BY DEF TypeOK, DiskTypeOK, FdcTypeOK
  <2>2. /\ gpip' = gpip \ Ends /\ busy' = (busy /\ timer > 0)
        /\ driver' = IF Ends = {} THEN driver ELSE "fdc"
    BY <1>5 DEF PollRound, Poll, Count, InterruptPass
  <2>3. CASE timer > 0
    <3>1. Ends = {}
      BY <2>1, <2>3 DEF Ends
    <3>2. busy' <=> busy
      BY <2>2, <2>3, Zenon
    <3>3. QED
      BY <2>2, <3>1, <3>2, Zenon
  <2>4. CASE ~(timer > 0)
    <3>1. ~busy'
      BY <2>2, <2>4, Zenon
    <3>2. timer <= 0
      BY <2>1, <2>4
    <3>3. CASE busy
      <4>1. Ends = {5}
        BY <3>2, <3>3 DEF Ends
      <4>2. 5 \notin gpip'
        BY <2>2, <4>1
      <4>3. QED
        BY <3>1, <4>2, Zenon
    <3>4. CASE ~busy
      <4>1. gpip' = gpip /\ driver' = driver
        BY <2>2, <3>4 DEF Ends
      <4>2. QED
        BY <3>1, <3>4, <4>1
    <3>5. QED
      BY <3>3, <3>4
  <2>5. QED
    BY <2>3, <2>4
<1>6. QED
  BY <1>1, <1>2, <1>3, <1>4, <1>5 DEF Next

\* GPIP 5 tells a polling guest that a command runs, and falls with its end,
\* although two controllers drive it, until the guest itself writes another level
\* to it (fdc.c:91, fdc.c:258, hdc.c:106, mfp.c:187).
THEOREM LineCorrect == Spec => []LineFollowsCommand
<1>1. Init => LineFollowsCommand
  BY DEF Init, MfpInit, FdcInit, LineFollowsCommand
<1>2. QED
  BY <1>1, TypeCorrect, LineStep, PTL DEF Spec

\* The end of a command requests its interrupt (fdc.c:258, mfp.c:377).
THEOREM EndsRequest == Spec => EndRequests
<1>1. TypeOK /\ LineFollowsCommand /\ [Next]_vars
        => (busy /\ ~busy' /\ driver = "fdc" /\ 7 \in ier /\ 5 \notin aer => 7 \in ipr')
  <2> SUFFICES ASSUME TypeOK, LineFollowsCommand, [Next]_vars,
                      busy, ~busy', driver = "fdc", 7 \in ier, 5 \notin aer
               PROVE  7 \in ipr'
    OBVIOUS
  <2>1. PICK c \in Cycles, ipl \in Levels : PollRound(c, ipl)
    <3>1. ~LineUntouched
      BY DEF LineUntouched
    <3>2. ~FdcCommand
      BY DEF FdcCommand, Command, Moves, Transfers, HeadCommand, DataCommand, Begin, fdcVars
    <3>3. ~HdcCommand /\ ~MfpAccess
      BY DEF HdcCommand, LastParameter, MfpAccess, fdcVars
    <3>4. QED
      BY <3>1, <3>2, <3>3, QuietAccesses DEF Next
  <2>2. 5 \in gpip /\ timer \in Int
    BY DEF LineFollowsCommand, TypeOK, DiskTypeOK, FdcTypeOK
  <2>3. ~(timer > 0)
    BY <2>1 DEF PollRound, Poll, Count
  <2>4. Ends = {5}
    BY <2>2, <2>3 DEF Ends
  <2>5. QED
    BY <2>1, <2>2, <2>4 DEF PollRound, Poll, InterruptPass, FallPending, SetPending, LineSource
<1>2. QED
  BY <1>1, TypeCorrect, LineCorrect, PTL DEF Spec, EndRequests

-----------------------------------------------------------------------------
(* How long a command takes *)

\* The timer tells how long a command has run, and has passed zero by less than a round.
WindowInv == busy => ran + timer = PendingTime /\ timer + MaxCycles > 0

\* The longest round is at least as long as any.
LEMMA Longest == MaxCycles \in Nat \ {0} /\ \A c \in Cycles : c \in Nat \ {0} /\ c <= MaxCycles
BY DiskAssumption DEF MaxCycles

\* Only a poll changes the timer of a running command.
LEMMA OtherSteps ==
  ASSUME TypeOK,
         DmaAccess \/ FdcAccess \/ FdcCommand \/ HdcAccess \/ HdcCommand
           \/ Port \/ MfpAccess \/ UNCHANGED vars
  PROVE  \/ busy' = busy /\ timer' = timer /\ ran' = ran
         \/ ~busy /\ busy' /\ timer' = PendingTime /\ ran' = 0
<1> USE DEF historyVars, fdcVars
<1>1. CASE DmaAccess
  BY <1>1 DEF DmaAccess, SetMode, SetCount, SetHigh, SetMed
<1>2. CASE FdcAccess
  BY <1>2 DEF FdcAccess, SetRegister, ReadStatus
<1>3. CASE HdcAccess
  BY <1>3 DEF HdcAccess, SetHardCommand, NextParameter
<1>4. CASE Port
  BY <1>4 DEF Port, SelectPort
<1>5. CASE UNCHANGED vars
  BY <1>5 DEF vars
<1>6. CASE HdcCommand
  BY <1>6 DEF HdcCommand, LastParameter
<1>7. CASE MfpAccess
  BY <1>7 DEF MfpAccess
<1>8. CASE FdcCommand
  <2>1. PICK c \in Commands : Command(c)
    BY <1>8 DEF FdcCommand
  <2>2. CASE Begin
    BY <1>8, <2>2 DEF Begin, FdcCommand
  <2>3. CASE busy /\ UNCHANGED <<dmaVars, fdcVars, hdcVars, floppyVars, mfpVars>>
    BY <1>8, <2>3 DEF FdcCommand
  <2>4. QED
    BY <2>1, <2>2, <2>3 DEF Command, Moves, Transfers, HeadCommand, DataCommand
<1>9. QED
  BY <1>1, <1>2, <1>3, <1>4, <1>5, <1>6, <1>7, <1>8

\* What a poll does to a running command.
LEMMA PollSteps ==
  ASSUME TypeOK, NEW c \in Cycles, NEW ipl \in Levels, PollRound(c, ipl)
  PROVE  /\ busy' => busy /\ timer > 0 /\ timer' = timer - c
         /\ busy => ran' = ran + c
         /\ busy /\ ~busy' => timer <= 0
<1>1. timer \in Int
  BY DEF TypeOK, DiskTypeOK, FdcTypeOK
<1>2. /\ timer' = IF timer > 0 THEN timer - c ELSE IF busy THEN 0 ELSE timer
      /\ busy' <=> (busy /\ timer > 0)
      /\ busy => ran' = ran + c
  BY Zenon DEF PollRound, Poll, Count
<1>3. QED
  BY <1>1, <1>2

\* A command ends after its time and within two rounds of it (fdc.c:241).
THEOREM WindowCorrect == Spec => EndsInWindow
<1> DEFINE InWindow == ran' \in PendingTime + 1 .. PendingTime + 2 * MaxCycles
<1>1. Init => WindowInv
  BY DEF Init, FdcInit, WindowInv
<1>2. TypeOK /\ WindowInv /\ [Next]_vars => WindowInv' /\ (busy /\ ~busy' => InWindow)
  <2> SUFFICES ASSUME TypeOK, WindowInv, [Next]_vars
               PROVE  WindowInv' /\ (busy /\ ~busy' => InWindow)
    OBVIOUS
  <2>1. /\ timer \in Int /\ ran \in Nat /\ PendingTime \in Nat \ {0}
        /\ MaxCycles \in Nat \ {0} /\ MaxCycles' = MaxCycles
    BY Longest, DiskAssumption DEF TypeOK, DiskTypeOK, FdcTypeOK, MaxCycles
  <2>2. CASE busy' = busy /\ timer' = timer /\ ran' = ran
    BY <2>1, <2>2 DEF WindowInv
  <2>3. CASE ~busy /\ busy' /\ timer' = PendingTime /\ ran' = 0
    BY <2>1, <2>3 DEF WindowInv
  <2>4. ASSUME NEW c \in Cycles, NEW ipl \in Levels, PollRound(c, ipl)
        PROVE  WindowInv' /\ (busy /\ ~busy' => InWindow)
    <3>1. c \in Nat \ {0} /\ c <= MaxCycles
      BY Longest
    <3>2. QED
      BY <2>1, <2>4, <3>1, PollSteps DEF WindowInv
  <2>5. QED
    BY <2>2, <2>3, <2>4, OtherSteps DEF Next
<1>3. QED
  BY <1>1, <1>2, TypeCorrect, PTL DEF Spec, EndsInWindow
=============================================================================
