-------------------------------- MODULE Disk --------------------------------
(***************************************************************************)
(* The floppy controller, the hard disk controller and the DMA chip both   *)
(* are reached through (fdc.c, hdc.c, dma.c), over the drives and the MFP  *)
(* input that both controllers drive (GPIP 5).                             *)
(*                                                                         *)
(* A round of the emulator is one access of the guest and the polls that   *)
(* follow it.  Sectors move at once when the command is written; what      *)
(* takes time is the end of the command.                                   *)
(***************************************************************************)
EXTENDS Floppy, Mfp

CONSTANTS
  PendingTime,   \* FDC_PENDING_TIME
  Cycles,        \* cycles a round may take
  HardBlocks,    \* blocks of the hard disk's file
  Connected      \* TRUE when a hard disk's file was given and could be opened

ASSUME DiskAssumption ==
  /\ 7 \in Sources /\ 5 \in Lines
  /\ PendingTime \in Nat \ {0}
  /\ Cycles \subseteq Nat \ {0}
  /\ \E longest \in Cycles : \A c \in Cycles : c <= longest
  /\ HardBlocks \in Nat \ {0}
  /\ Connected \in BOOLEAN

VARIABLES
  (* DMA *)
  address,       \* dma_addr_high, _med and _low: number of a block
  mode,          \* what an access to 0xff8604 reaches
  count,         \* dma_sector_reg
  direction,     \* dma_direction
  noError,       \* bit 0 of dma_status
  (* FDC *)
  busy,          \* fdc_busy, and the motor with it
  timer,         \* pending_timer
  track,         \* fdc_reg[FDC_REG_TRACK]
  data,          \* fdc_reg[FDC_REG_DATA]
  inward,        \* step_direction
  typeI,         \* cmd_class is CMD_TYPE_I
  seekError,
  (* HDC *)
  cmd,           \* controller and operation of the command byte
  params,        \* cmddata
  position,      \* cmddata_pos
  foreign,       \* last_ctrl is not zero
  code,          \* return_code
  file,          \* TRUE while fp is open
  hard           \* the contents of the file

dmaVars == <<address, mode, count, direction, noError>>
fdcVars == <<busy, timer, track, data, inward, typeI, seekError>>
hdcVars == <<cmd, params, position, foreign, code, file, hard>>

\* What dma_mode selects: a register of the FDC, the sector count, or the HDC
\* with its command or parameter register.
Targets == {"control", "track", "sector", "data", "count", "command", "parameter"}
Operations == {"read", "write", "inquire", "ready", "other"}
FdcCommands ==
  {"restore", "seek", "step", "stepin", "stepout", "readsec", "readsecs",
   "writesec", "writesecs", "readaddr", "readtrack"}

AddressSpace == 32768    \* blocks of a 24-bit address

DmaTypeOK ==
  /\ address \in 0 .. AddressSpace - 1
  /\ mode \in Targets
  /\ count \in 0 .. 255
  /\ direction \in {"read", "write"}
  /\ noError \in BOOLEAN

FdcTypeOK ==
  /\ busy \in BOOLEAN
  /\ timer \in Int /\ timer <= PendingTime
  /\ track \in 0 .. 255 /\ data \in 0 .. 255
  /\ inward \in BOOLEAN /\ typeI \in BOOLEAN /\ seekError \in BOOLEAN

HdcTypeOK ==
  /\ cmd \in [ctrl : 0 .. 7, op : Operations]
  /\ params \in [0 .. 4 -> 0 .. 255]
  /\ position \in 0 .. 4
  /\ foreign \in BOOLEAN
  /\ code \in {"ok", "error", "nocmd"}
  /\ file \in BOOLEAN
  /\ hard \in [0 .. HardBlocks - 1 -> Contents]

DiskTypeOK == FloppyTypeOK /\ MfpTypeOK /\ DmaTypeOK /\ FdcTypeOK /\ HdcTypeOK

Cleared == [i \in 0 .. 4 |-> 0]

DmaInit ==
  /\ address = 0 /\ mode = "control" /\ count = 0
  /\ direction = "read" /\ noError = TRUE

FdcInit ==
  /\ busy = FALSE /\ timer = 0
  /\ track = 0 /\ data = 0
  /\ inward = TRUE /\ typeI = FALSE /\ seekError = FALSE

HdcInit ==
  /\ cmd = [ctrl |-> 0, op |-> "ready"]
  /\ params = Cleared /\ position = 0
  /\ foreign = FALSE /\ code = "ok"
  /\ file = Connected

-----------------------------------------------------------------------------
(* Registers of the DMA chip *)

\* A direction the chip was not set to resets it.
SetMode(target, dir) ==
  /\ mode' = target
  /\ direction' = dir
  /\ count' = IF dir # direction THEN 0 ELSE count
  /\ noError' = (dir # direction \/ noError)
  /\ UNCHANGED <<address, fdcVars, hdcVars, floppyVars, mfpVars>>

\* The bytes of the address; the top two bits are dropped.
SetHigh(byte) ==
  /\ address' = ((byte % 64) * 128) + (address % 128)
  /\ UNCHANGED <<mode, count, direction, noError, fdcVars, hdcVars, floppyVars, mfpVars>>

SetMed(byte) ==
  /\ address' = ((address \div 128) * 128) + (byte \div 2)
  /\ UNCHANGED <<mode, count, direction, noError, fdcVars, hdcVars, floppyVars, mfpVars>>

SetCount(n) ==
  /\ mode = "count"
  /\ count' = n
  /\ UNCHANGED <<address, mode, direction, noError, fdcVars, hdcVars, floppyVars, mfpVars>>

\* dma_inc_address
Advance(n) == address' = (address + n) % AddressSpace

-----------------------------------------------------------------------------
(* FDC registers *)

SetRegister(value) ==
  /\ mode \in {"track", "sector", "data"}
  /\ IF busy
     THEN UNCHANGED <<track, data, sector>>
     ELSE /\ track' = IF mode = "track" THEN value ELSE track
          /\ data' = IF mode = "data" THEN value ELSE data
          /\ IF mode = "sector" THEN SelectSector(value) ELSE UNCHANGED sector
  /\ UNCHANGED <<busy, timer, inward, typeI, seekError>>
  /\ UNCHANGED <<active, head, side, image, memory, dmaVars, hdcVars, mfpVars>>

\* Reading the status register forgets a seek error of an older command.
ReadStatus ==
  /\ mode = "control"
  /\ seekError' = (typeI /\ seekError)
  /\ UNCHANGED <<busy, timer, track, data, inward, typeI>>
  /\ UNCHANGED <<floppyVars, dmaVars, hdcVars, mfpVars>>

TrackZero == typeI /\ CurrentTrack = 0

\* Mutant: a command is accepted while another one runs.
MutBegin ==
  /\ mode = "control"
  /\ busy' = TRUE
  /\ timer' = PendingTime
  /\ SetGPIP(5)
  /\ UNCHANGED <<data, hdcVars>>

\* Every accepted command raises the line and starts the timer.
Begin ==
  /\ mode = "control"
  /\ ~busy
  /\ busy' = TRUE
  /\ timer' = PendingTime
  /\ SetGPIP(5)
  /\ UNCHANGED <<data, hdcVars>>

\* The commands that move the head set the track register from it.
HeadCommand(result, dir) ==
  /\ Begin
  /\ typeI' = TRUE
  /\ inward' = dir
  /\ seekError' = ~(Ready /\ result.ok)
  /\ IF Ready THEN MoveHead(result.to) ELSE UNCHANGED head
  /\ track' = IF Ready /\ result.ok THEN result.to ELSE track
  /\ UNCHANGED <<active, sector, side, image, memory, dmaVars>>

Toward(dir) == IF dir THEN 1 ELSE -1

Moves(c) ==
  \/ c = "restore" /\ HeadCommand(Seek(0), inward)
  \/ c = "seek"    /\ HeadCommand(Seek(data), inward)
  \/ c = "step"    /\ HeadCommand(Step(Toward(inward)), inward)
  \/ c = "stepin"  /\ HeadCommand(Step(1), TRUE)
  \/ c = "stepout" /\ HeadCommand(Step(-1), FALSE)

DataCommand ==
  /\ Begin
  /\ typeI' = FALSE
  /\ seekError' = FALSE
  /\ UNCHANGED <<track, inward, active, head, sector, side>>
  /\ UNCHANGED <<mode, count, direction>>

\* The whole count is transferred by either form of the command, and only
\* the multiple form moves the address by as much.
Finish(multiple, moved) ==
  /\ noError' = TransferOk(moved, count)
  /\ IF TransferOk(moved, count)
     THEN Advance(IF multiple THEN count ELSE 1)
     ELSE UNCHANGED address

Transfers(c) ==
  \/ /\ c \in {"readsec", "readsecs"}
     /\ DataCommand
     /\ ReadSectors(address, count)
     /\ Finish(c = "readsecs", ReadCount(count))
  \/ /\ c \in {"writesec", "writesecs"}
     /\ DataCommand
     /\ WriteSectors(address, count)
     /\ Finish(c = "writesecs", WriteCount(count))
  \/ /\ c = "readaddr"
     /\ DataCommand
     /\ ReadAddress(address)
     /\ noError' = TRUE
     /\ UNCHANGED address
  \/ /\ c = "readtrack"        \* not implemented for raw images
     /\ DataCommand
     /\ noError' = FALSE
     /\ UNCHANGED <<address, image, memory>>

\* A command written while another one runs is dropped.
Command(c) ==
  \/ Moves(c)
  \/ Transfers(c)
  \/ /\ busy /\ mode = "control"
     /\ UNCHANGED <<dmaVars, fdcVars, hdcVars, floppyVars, mfpVars>>

SelectPort(line0, lines) ==
  /\ SelectDrive(line0, lines)
  /\ UNCHANGED <<dmaVars, fdcVars, hdcVars, mfpVars>>

-----------------------------------------------------------------------------
(* The hard disk *)

\* A new command byte does not restart the count of the parameters.
SetHardCommand(ctrl, op) ==
  /\ mode = "command"
  /\ cmd' = [ctrl |-> ctrl, op |-> op]
  /\ code' = "ok"
  /\ UNCHANGED <<params, position, foreign, file, hard, dmaVars, fdcVars, floppyVars, mfpVars>>

\* hdc_get_status
HardStatus == IF foreign \/ ~Connected THEN "error" ELSE code

\* A parameter is stored unless the last command was another controller's.
Stored(byte) == IF foreign THEN params ELSE [params EXCEPT ![position] = byte]

NextParameter(byte) ==
  /\ mode = "parameter"
  /\ position < 4
  /\ params' = Stored(byte)
  /\ position' = position + 1
  /\ UNCHANGED <<cmd, foreign, code, file, hard, dmaVars, fdcVars, floppyVars, mfpVars>>

\* The block number, 24 bits of which 23 are left in the 32-bit byte offset.
Block(p) == (p[0] % 128) * 65536 + p[1] * 256 + p[2]

\* Nothing is missing from the file, of no block at all in particular.
Within(p) == p[3] = 0 \/ Block(p) + p[3] <= HardBlocks

\* Mutant: the line is raised for the transfer and left so.
MutStrobe == SetGPIP(5)

\* The line goes up and comes down within the access, whatever the FDC does.
Strobe ==
  /\ ipr' = IF 5 \in gpip \cap aer THEN ipr ELSE SetPending(ipr, {7})
  /\ gpip' = gpip \ {5}
  /\ UNCHANGED <<aer, ier, isr, imr, sei>>

\* A read beyond the end of the file, of one block or more, closes it, for good and silently.
HardRead(p) ==
  /\ memory' = IF file /\ Within(p) THEN CopyIn(hard, Block(p), address, p[3]) ELSE memory
  /\ file' = (file /\ Within(p))
  /\ UNCHANGED hard

\* A write beyond the end extends the file; Within keeps the model's file as it is.
HardWrite(p) ==
  /\ file => Within(p)
  /\ hard' = IF file THEN CopyOut(hard, Block(p), address, p[3]) ELSE hard
  /\ UNCHANGED <<memory, file>>

\* Mutant: the parameters of a command are left for the next one.
MutForget(byte) == params' = Stored(byte) /\ position' = 0

\* clr_cmddata
Forget(byte) == params' = Cleared /\ position' = 0

\* The command is for this controller, which is there, and moves blocks.
Transferring == cmd.ctrl = 0 /\ Connected /\ cmd.op \in {"read", "write"}

\* The fifth parameter runs the command if it is for this controller.
LastParameter(byte) ==
  /\ mode = "parameter"
  /\ position = 4
  /\ foreign' = (cmd.ctrl # 0)
  /\ Forget(byte)
  /\ \/ /\ Transferring
        /\ Strobe
        /\ IF cmd.op = "read" THEN HardRead(Stored(byte)) ELSE HardWrite(Stored(byte))
        /\ UNCHANGED code
     \/ /\ ~Transferring
        /\ code' = CASE cmd.ctrl # 0 \/ ~Connected -> code
                     [] cmd.op = "inquire" -> "nocmd"
                     [] cmd.op = "ready"   -> "ok"
                     [] OTHER              -> "error"
        /\ UNCHANGED <<file, hard, memory, mfpVars>>
  /\ UNCHANGED <<cmd, dmaVars, fdcVars, active, head, sector, side, image>>

-----------------------------------------------------------------------------
(* The polls that follow every instruction *)

\* Mutant: a timer that has passed zero does not lower the line.
MutEnds == IF timer = 0 /\ busy THEN {5} ELSE {}

\* The line falls when the FDC's command ends.
Ends == IF timer <= 0 /\ busy THEN {5} ELSE {}

\* fdc_do_interrupts: the timer is looked at before it is counted down, so a
\* command ends one poll after its timer has run out.
Count(c) ==
  /\ timer' = IF timer > 0 THEN timer - c ELSE IF busy THEN 0 ELSE timer
  /\ busy' = (busy /\ timer > 0)

\* The MFP is polled before the FDC.
Poll(c, ipl) ==
  /\ Count(c)
  /\ InterruptPass({}, Ends, ipl)
  /\ UNCHANGED <<track, data, inward, typeI, seekError, dmaVars, hdcVars, floppyVars>>
=============================================================================
