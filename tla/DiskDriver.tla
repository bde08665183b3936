---------------------------- MODULE DiskDriver -----------------------------
(***************************************************************************)
(* A driver over the disk system.  It serves one request at a time, with   *)
(* one register access before each poll: select the drive, seek, reset the *)
(* DMA chip by changing its direction, set count and address, select the   *)
(* sector, write the command, wait for GPIP 5 to fall and read the status. *)
(* The hard disk takes a command byte and five parameters.  While the      *)
(* driver waits, an interrupt handler deselects the drives and writes to   *)
(* the registers of the busy controller.                                   *)
(*                                                                         *)
(* The driver is guest code, modelled from how the chips are meant to be   *)
(* used; requests at once on both units are its lock's business.           *)
(***************************************************************************)
EXTENDS Disk, Sequences

CONSTANTS
  Requests,      \* what the driver may be asked for
  MaxRequests,   \* bound on the requests of a behaviour
  Meddling,      \* bytes the interrupt handler writes to the FDC
  None

\* A request names sectors and blocks that exist on some disk, and a buffer in
\* memory that the low address bytes can point at.
ASSUME DriverAssumption ==
  /\ None \notin Requests
  /\ \A r \in Requests :
       /\ r.unit \in {"floppy", "hard"} /\ r.op \in {"read", "write"}
       /\ r.n \in 1 .. 255 /\ r.at \in 0 .. 127 /\ r.at + r.n <= RamBlocks
       /\ r.unit = "floppy" =>
            /\ r.drive \in Drives /\ r.track \in 0 .. 255
            /\ r.side \in 0 .. Sides - 1 /\ r.sector \in 1 .. Sectors
       /\ r.unit = "hard" => r.ctrl \in 0 .. 7 /\ r.block \in 0 .. 255

VARIABLES
  request,       \* the request being served, or None
  todo,          \* accesses left, the next one first
  answer,        \* history: what became of the request
  told,          \* what the driver's caller was told last
  requests,      \* how many there were
  at             \* "guest" or "poll"

chipVars == <<floppyVars, mfpVars, dmaVars, fdcVars, hdcVars>>
vars == <<chipVars, request, todo, answer, told, requests, at>>

\* Every block differs from every other at the start.
Init ==
  /\ FloppyInit
  /\ image = [d \in Inserted |-> [b \in Disk |-> <<d, b>>]]
  /\ memory = [b \in Ram |-> <<"ram", b>>]
  /\ hard = [b \in 0 .. HardBlocks - 1 |-> <<"hard", b>>]
  /\ MfpInit /\ DmaInit /\ FdcInit /\ HdcInit
  /\ request = None /\ todo = <<>> /\ answer = "none" /\ told = FALSE
  /\ requests = 0
  /\ at = "guest"

-----------------------------------------------------------------------------
(* What the driver does for a request, access by access *)

W(reg, value) == [reg |-> reg, value |-> value]

Select(r) == W("port", <<1 - r.side, IF r.drive = "A" THEN 2 ELSE 1>>)

Opposite(op) == IF op = "read" THEN "write" ELSE "read"

FloppyProgram(r) ==
  <<Select(r), W("mode", "data"), W("register", r.track), W("mode", "control"),
    W("fdc", "seek"), W("wait", 0), W("mode", "control"), W("seeked", 0), W("track", 0),
    Select(r), W("toggle", Opposite(r.op)), W("toggle", r.op), W("count", r.n),
    W("high", 0), W("med", 2 * r.at),
    W("mode", "sector"), W("register", r.sector), W("mode", "control"),
    W("fdc", IF r.op = "read" THEN "readsecs" ELSE "writesecs"),
    W("wait", 0), W("status", 0)>>

HardProgram(r) ==
  <<W("high", 0), W("med", 2 * r.at), W("mode", "command"), W("hdc", r),
    W("mode", "parameter"), W("byte", 0), W("byte", 0), W("byte", r.block),
    W("byte", r.n), W("byte", 0), W("wait", 0), W("status", 0)>>

Turn == at = "guest" /\ at' = "poll"

Ask ==
  /\ Turn
  /\ request = None /\ requests < MaxRequests
  /\ request' \in Requests
  /\ requests' = requests + 1
  /\ todo' = IF request'.unit = "hard" THEN HardProgram(request') ELSE FloppyProgram(request')
  /\ UNCHANGED <<chipVars, answer, told>>

-----------------------------------------------------------------------------
Reg == todo[1].reg
Value == todo[1].value

Go == Turn /\ request # None /\ todo' = Tail(todo) /\ UNCHANGED <<request, told, requests>>

\* The accesses that change a register, in the program's order.
Prepare ==
  /\ Go
  /\ \/ Reg = "port"     /\ SelectPort(Value[1], Value[2])
     \/ Reg = "mode"     /\ SetMode(Value, direction)
     \/ Reg = "toggle"   /\ SetMode("count", Value)
     \/ Reg = "count"    /\ SetCount(Value)
     \/ Reg = "high"     /\ SetHigh(Value)
     \/ Reg = "med"      /\ SetMed(Value)
     \/ Reg = "register" /\ SetRegister(Value)
     \/ Reg = "fdc"      /\ Value = "seek" /\ Command(Value)
     \/ Reg = "hdc"      /\ SetHardCommand(Value.ctrl, Value.op)
     \/ Reg = "byte"     /\ NextParameter(Value)
  /\ UNCHANGED answer

\* The command that moves sectors.
Move ==
  /\ Go
  /\ Reg = "fdc" /\ Value # "seek"
  /\ Command(Value)
  /\ answer' = IF noError' THEN "moved" ELSE "failed"

\* The parameter that runs the hard disk's command.
HardMove ==
  /\ Go
  /\ Reg = "byte"
  /\ LastParameter(Value)
  /\ answer' = IF cmd.ctrl = 0 /\ Connected /\ ~foreign /\ file /\ Within(Stored(Value))
               THEN "moved" ELSE "blank"

\* Waiting for the line to fall: one look at GPIP in each round.
Wait ==
  /\ Turn
  /\ request # None /\ Reg = "wait"
  /\ todo' = IF 5 \in gpip THEN todo ELSE Tail(todo)
  /\ UNCHANGED <<chipVars, request, answer, told, requests>>

\* Something else runs while the driver waits for the FDC.
Meddle ==
  /\ Turn
  /\ request # None /\ Reg = "wait" /\ 5 \in gpip
  /\ \/ SelectPort(0, 3)
     \/ \E m \in {"control", "sector", "data"} : SetMode(m, direction)
     \/ \E b \in Meddling : SetRegister(b)
     \/ Command("restore")
  /\ UNCHANGED <<request, todo, answer, told, requests>>

\* A seek that failed, or that led elsewhere, ends the request.
Verify ==
  /\ Turn
  /\ request # None /\ Reg \in {"seeked", "track"}
  /\ IF Reg = "seeked" THEN ReadStatus ELSE UNCHANGED chipVars
  /\ IF (IF Reg = "seeked" THEN seekError ELSE track # request.track)
     THEN answer' = "failed" /\ todo' = <<W("status", 0)>>
     ELSE answer' = answer /\ todo' = Tail(todo)
  /\ UNCHANGED <<request, told, requests>>

\* What the driver tells its caller.
Told ==
  IF request.unit = "hard" THEN HardStatus = "ok"
  ELSE ~seekError /\ track = request.track /\ noError

\* The status ends the request.
Status ==
  /\ Turn
  /\ request # None /\ Reg = "status"
  /\ request' = None /\ todo' = <<>> /\ answer' = "none"
  /\ told' = Told
  /\ UNCHANGED <<chipVars, requests>>

PollRound(c) ==
  /\ at = "poll" /\ at' = "guest"
  /\ Poll(c, 0)
  /\ UNCHANGED <<request, todo, answer, told, requests>>

Next ==
  \/ Ask \/ Prepare \/ Move \/ HardMove \/ Wait \/ Meddle \/ Verify \/ Status
  \/ \E c \in Cycles : PollRound(c)

Spec == Init /\ [][Next]_vars

\* The loop runs, and the guest's main program goes on while it can.
FairSpec == Spec /\ WF_vars(Next)
               /\ WF_vars(Prepare \/ Move \/ HardMove \/ Wait \/ Verify \/ Status)

-----------------------------------------------------------------------------
(* Properties *)

\* Sectors in the order of their addresses.
Sector(d, a) == image[d][(a[1] * Sides + a[2]) * Sectors + a[3] - 1]

Store == INSTANCE BlockStore WITH
  disks <- [d \in Inserted |->
              [a \in (0 .. Tracks - 1) \X (0 .. Sides - 1) \X (1 .. Sectors) |-> Sector(d, a)]]

\* The registers, counters and waits between a request and its answer move
\* the sectors asked for and no others, to and from where they were asked for,
\* whatever happens during the waits; and a floppy request is told to have
\* succeeded only if all of it was moved (fdc.c:202, floppy_st.c:25, hdc.c:94).
StoreSpec == Store!Spec

\* Every request is answered (fdc.c:241).
RequestsEnd == request # None ~> request = None
=============================================================================
