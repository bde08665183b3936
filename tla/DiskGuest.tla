----------------------------- MODULE DiskGuest ------------------------------
(***************************************************************************)
(* The disk system under any guest: before every poll the guest accesses   *)
(* one register of the sound chip's port, the DMA chip, the controllers or *)
(* the MFP, in any order and whatever the controllers are doing.           *)
(***************************************************************************)
EXTENDS Disk

CONSTANTS
  Modes, Directions, Counts, HighBytes, MedBytes, RegisterBytes, Commands,
  HardCommands, Parameters,    \* what the guest writes to the DMA chip
  SelectLines,                 \* what it writes to port A
  GpipData, Edges, Masks,      \* what it writes to GPIP, AER, IERB and IPRB
  Levels                       \* the CPU's levels at a poll

ASSUME GuestAssumption ==
  /\ Modes \subseteq Targets
  /\ Directions \subseteq {"read", "write"}
  /\ Counts \subseteq 0 .. 255
  /\ HighBytes \subseteq 0 .. 255 /\ MedBytes \subseteq 0 .. 255
  /\ RegisterBytes \subseteq 0 .. 255
  /\ Commands \subseteq FdcCommands
  /\ HardCommands \subseteq [ctrl : 0 .. 7, op : Operations]
  /\ Parameters \subseteq 0 .. 255
  /\ SelectLines \subseteq {0, 1} \X (0 .. 3)
  /\ GpipData \subseteq SUBSET Lines /\ Edges \subseteq SUBSET Lines
  /\ Masks \subseteq SUBSET Sources
  /\ Levels \subseteq 0 .. 7

VARIABLES
  at,      \* "guest" or "poll"
  ran,     \* history: cycles of the FDC's command so far
  driver   \* history: who gave GPIP 5 its level, the FDC at the start

LineDrivers == {"fdc", "hdc", "guest"}

historyVars == <<ran, driver>>
vars == <<floppyVars, mfpVars, dmaVars, fdcVars, hdcVars, at, historyVars>>

\* Every register of the disk system keeps its range, the head stays on the
\* drive and a transfer never reads or writes beside an image (floppy.c:79,
\* floppy_st.c:25, hdc.c:97), for any sequence of accesses.
TypeOK ==
  /\ DiskTypeOK
  /\ at \in {"guest", "poll"}
  /\ ran \in Nat
  /\ driver \in LineDrivers

Init ==
  /\ FloppyInit
  /\ image \in [Inserted -> [Disk -> Contents]]
  /\ memory \in [Ram -> Contents]
  /\ hard \in [0 .. HardBlocks - 1 -> Contents]
  /\ MfpInit /\ DmaInit /\ FdcInit /\ HdcInit
  /\ at = "guest" /\ ran = 0 /\ driver = "fdc"

-----------------------------------------------------------------------------
Access == at = "guest" /\ at' = "poll"

DmaAccess ==
  /\ Access
  /\ \/ \E m \in Modes, d \in Directions : SetMode(m, d)
     \/ \E n \in Counts : SetCount(n)
     \/ \E b \in HighBytes : SetHigh(b)
     \/ \E b \in MedBytes : SetMed(b)
  /\ UNCHANGED historyVars

FdcAccess ==
  /\ Access
  /\ \/ \E b \in RegisterBytes : SetRegister(b)
     \/ ReadStatus
  /\ UNCHANGED historyVars

\* A command that is accepted raises the line.
FdcCommand ==
  /\ Access
  /\ \E c \in Commands : Command(c)
  /\ IF busy THEN UNCHANGED historyVars ELSE ran' = 0 /\ driver' = "fdc"

HdcAccess ==
  /\ Access
  /\ \/ \E c \in HardCommands : SetHardCommand(c.ctrl, c.op)
     \/ \E b \in Parameters : NextParameter(b)
  /\ UNCHANGED historyVars

\* Only a transfer strobes the line.
HdcCommand ==
  /\ Access
  /\ \E b \in Parameters : LastParameter(b)
  /\ driver' = IF Transferring THEN "hdc" ELSE driver
  /\ UNCHANGED ran

Port ==
  /\ Access
  /\ \E lines \in SelectLines : SelectPort(lines[1], lines[2])
  /\ UNCHANGED historyVars

MfpAccess ==
  /\ Access
  /\ \/ \E new \in GpipData :
          /\ WriteGPIP(new)
          /\ driver' = IF 5 \in new <=> 5 \in gpip THEN driver ELSE "guest"
     \/ /\ UNCHANGED driver
        /\ \/ \E new \in Edges : WriteAER(new)
           \/ \E new \in Masks :
                \/ WriteIER(RegB, new) \/ WriteIPR(RegB, new) \/ WriteIMR(RegB, new)
  /\ UNCHANGED <<ran, floppyVars, dmaVars, fdcVars, hdcVars>>

PollRound(c, ipl) ==
  /\ at = "poll" /\ at' = "guest"
  /\ Poll(c, ipl)
  /\ ran' = IF busy THEN ran + c ELSE 0
  /\ driver' = IF Ends = {} THEN driver ELSE "fdc"

Next ==
  \/ DmaAccess \/ FdcAccess \/ FdcCommand \/ HdcAccess \/ HdcCommand
  \/ Port \/ MfpAccess
  \/ \E c \in Cycles, ipl \in Levels : PollRound(c, ipl)

Spec == Init /\ [][Next]_vars

\* The emulator's loop never stops, and the guest always has a next access.
FairSpec == Spec /\ WF_vars(Next)

-----------------------------------------------------------------------------
(* Properties *)

\* GPIP 5 is high only while a command runs, unless the guest itself raised it,
\* and it is high all that time unless the hard disk or the guest has driven it
\* since: the line is one, the controllers are two, and a write to GPIP is stored
\* over whatever they left there (fdc.c:91, hdc.c:106, mfp.c:187).
LineFollowsCommand ==
  /\ 5 \in gpip => busy \/ driver = "guest"
  /\ busy /\ driver = "fdc" => 5 \in gpip

MaxCycles == CHOOSE c \in Cycles : \A k \in Cycles : k <= c

\* A command ends no sooner than its time, no later than two rounds after it,
\* whatever is written to the registers meanwhile (fdc.c:241).
EndsInWindow ==
  [][busy /\ ~busy' => ran' \in PendingTime + 1 .. PendingTime + 2 * MaxCycles]_vars

\* The end of a command requests its interrupt, if it is enabled, the edge is
\* the falling one and the level of the line is the FDC's (fdc.c:258, mfp.c:377).
EndRequests ==
  [][busy /\ ~busy' /\ driver = "fdc" /\ 7 \in ier /\ 5 \notin aer => 7 \in ipr']_vars

\* A guest that polls GPIP 5 for the end of a command does not wait forever: its
\* next access after the end finds the line low, whatever it has done to either
\* controller and to GPIP itself meanwhile (fdc.c:258, dma.c:73, mfp.c:187).
LineFalls == busy ~> ~busy /\ at = "guest" /\ 5 \notin gpip
=============================================================================
