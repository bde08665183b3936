------------------------------ MODULE Keyboard ------------------------------
(***************************************************************************)
(* From a key press to the guest's read: the keyboard processor, the ACIA  *)
(* and the MFP source it interrupts through (GPIP 4, source 6).  A round   *)
(* of the emulator's loop is one instruction of the guest or a host event, *)
(* the pass of the MFP, and the poll that moves a byte from the keyboard's *)
(* queue to the ACIA (mmu_do_interrupts calls them in this order).         *)
(*                                                                         *)
(* Spec lets the guest access the chips in any order.  DriverSpec is a     *)
(* guest that enables everything and then reads the keyboard only from its *)
(* interrupt handler.                                                      *)
(***************************************************************************)
EXTENDS Ikbd, Acia

CONSTANTS
  HostEvents,     \* kinds of host events, among "key", "motion", "stick"
  Commands,       \* bytes the guest sends to the keyboard
  Masks,          \* data the guest writes to IERB, IPRB, ISRB and IMRB
  EoiModes,       \* values of VR bit 3 the guest writes
  Rising          \* TRUE when the guest may select the rising edge in AER

ASSUME KeyboardAssumption ==
  /\ 6 \in Sources /\ 4 \in Lines
  /\ HostEvents \subseteq {"key", "motion", "stick"}
  /\ Commands \subseteq 0 .. 255
  /\ Masks \subseteq SUBSET Sources
  /\ EoiModes \subseteq BOOLEAN
  /\ Rising \in BOOLEAN

VARIABLES
  at,         \* the next call of the loop
  handler,    \* where the guest's interrupt handler is
  got,        \* the byte the guest read last
  quiet       \* history: GPIP 4 is as the ACIA last drove it

vars == <<ikbdVars, aciaVars, mfpVars, at, handler, got, quiet>>

Points == {"guest", "pass", "poll"}
HandlerPoints == {"main", "read", "ack", "rte"}

Init ==
  /\ IkbdInit /\ AciaInit
  /\ at = "guest"
  /\ handler = "main"
  /\ got = Nothing
  /\ quiet = TRUE

-----------------------------------------------------------------------------
(* The guest's accesses *)

\* The bytes of a host event enter the queue between two instructions.
HostEvent ==
  /\ at = "guest"
  /\ \/ "key" \in HostEvents /\ Key
     \/ "motion" \in HostEvents /\ Motion
     \/ "stick" \in HostEvents /\ Stick
  /\ UNCHANGED <<aciaVars, mfpVars, at, handler, got, quiet>>

Access == at = "guest" /\ at' = "pass"

Read ==
  /\ Access
  /\ ReadData
  /\ got' = rxData
  /\ quiet' = TRUE
  /\ UNCHANGED ikbdVars

Control ==
  /\ Access
  /\ \/ AciaReset /\ quiet' = TRUE
     \/ \E enable \in BOOLEAN : WriteControl(enable) /\ UNCHANGED quiet
  /\ UNCHANGED <<ikbdVars, got>>

Write ==
  /\ Access
  /\ \E b \in Commands : WriteByte(b)
  /\ UNCHANGED <<aciaVars, mfpVars, got, quiet>>

\* GPIP takes whatever is written to it, the level of the input included.
DriveLine ==
  \E levels \in SUBSET Lines :
    /\ WriteGPIP(levels)
    /\ quiet' = (quiet /\ (4 \in levels <=> 4 \in gpip))

MfpWrite ==
  /\ Access
  /\ \/ DriveLine
     \/ /\ \/ \E data \in Masks :
                \/ WriteIER(RegB, data) \/ WriteIPR(RegB, data)
                \/ WriteISR(RegB, data) \/ WriteIMR(RegB, data)
           \/ \E eoi \in EoiModes : WriteVR(eoi)
           \/ Rising /\ \E edge \in {{}, {4}} : WriteAER(edge)
        /\ UNCHANGED quiet
  /\ UNCHANGED <<ikbdVars, aciaVars, got>>

Other == Access /\ UNCHANGED <<ikbdVars, aciaVars, mfpVars, got, quiet>>

-----------------------------------------------------------------------------
(* The emulator's side of a round *)

Level == IF handler = "main" THEN 0 ELSE 6

\* The MFP's pass; a request it serves enters the guest's handler.
Pass ==
  /\ at = "pass"
  /\ at' = "poll"
  /\ InterruptPass({}, {}, Level)
  /\ handler' = IF 6 \in Served(ipr, Level) THEN "read" ELSE handler
  /\ UNCHANGED <<ikbdVars, aciaVars, got, quiet>>

\* ikbd_do_interrupt: not every pass is late enough for a poll.
Poll ==
  /\ at = "poll"
  /\ at' = "guest"
  /\ \/ /\ fifo # <<>> /\ ~full
        /\ RxData(Head(fifo))
        /\ Pop
        /\ quiet' = TRUE
     \/ UNCHANGED <<ikbdVars, aciaVars, mfpVars, quiet>>
  /\ UNCHANGED <<handler, got>>

\* A poll that is late enough, with a byte to deliver.
Deliver == Poll /\ fifo' # fifo

Free == (Read \/ Control \/ Write \/ MfpWrite \/ Other) /\ UNCHANGED handler

\* The free guest leaves its handler whenever it likes.
Leave == handler # "main" /\ handler' = "main"
         /\ UNCHANGED <<ikbdVars, aciaVars, mfpVars, at, got, quiet>>

Next == HostEvent \/ Free \/ Leave \/ Pass \/ Poll

Spec == Init /\ [][Next]_vars

-----------------------------------------------------------------------------
(* A guest driven by interrupts *)

DriverInit ==
  /\ IkbdInit
  /\ ie = TRUE /\ full = FALSE /\ rxData = Nothing
  /\ gpip = {4} /\ aer = {}
  /\ ier = {6} /\ imr = {6} /\ ipr = {} /\ isr = {}
  /\ sei \in EoiModes
  /\ at = "guest" /\ handler = "main" /\ got = Nothing /\ quiet = TRUE

\* The handler reads one byte, ends the interrupt and returns.
Handle ==
  \/ handler = "read" /\ Read /\ handler' = "ack"
  \/ /\ handler = "ack" /\ Access /\ WriteISR(RegB, {}) /\ handler' = "rte"
     /\ UNCHANGED <<ikbdVars, aciaVars, got, quiet>>
  \/ handler = "rte" /\ Other /\ handler' = "main"

Main == handler = "main" /\ (Other \/ Write) /\ UNCHANGED handler

DriverNext == HostEvent \/ Handle \/ Main \/ Pass \/ Poll

\* The process keeps running.  A poll comes every 10000 cycles, and a byte
\* that finds the register empty then finds it empty at the next poll too, for
\* only a poll fills it: so no byte is put off for ever.
DriverSpec ==
  /\ DriverInit /\ [][DriverNext]_vars
  /\ WF_vars(Handle \/ Main \/ Pass \/ Poll)
  /\ SF_vars(Deliver)

-----------------------------------------------------------------------------
(* Properties *)

\* No byte arrives on a line that the ACIA has left low, where it would make no
\* edge and so no interrupt (acia.c:60, mfp.c:374): unless the guest has changed
\* the level itself since the ACIA last drove it (mfp.c:187), the line is low
\* only while the byte that lowered it has not been read.
LowLineIsFull == 4 \notin gpip /\ quiet => full

\* The path from the keyboard to the guest is a channel that keeps its order
\* and loses bytes only when FifoSize of them wait, or by a reset (ikbd.c:224-250).
Channel == INSTANCE LossyChannel WITH
  Messages <- {Packet(k) : k \in DOMAIN PacketLength},
  Capacity <- FifoSize,
  Acks     <- {<<>>, Packet("ack")},
  chan     <- (IF full THEN <<rxData>> ELSE <<>>) \o fifo,
  got      <- got

ChannelSpec == Channel!Spec

\* An interrupt-driven guest never enters its handler for nothing: every edge
\* of the line stands for one byte, also when the next byte arrives while the
\* handler runs (acia.c:47-54, mfp.c:371-388).
HandlerFindsByte == handler = "read" => full

\* And it is never left with a byte it is not told of: while bytes wait it
\* goes on reading, whatever the order of edges, service and end of interrupt.
BytesAreRead ==
  full \/ fifo # <<>> ~> handler = "ack" \/ (~full /\ fifo = <<>>)
=============================================================================
