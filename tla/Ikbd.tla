-------------------------------- MODULE Ikbd --------------------------------
(***************************************************************************)
(* The keyboard processor, as ikbd.c emulates it: a queue of bytes for the *)
(* guest and a parser for the guest's commands.  A byte for the guest is   *)
(* named by its packet and its position in it; key codes, coordinates and  *)
(* the time of day are left out.                                           *)
(***************************************************************************)
EXTENDS Integers, Sequences

CONSTANT FifoSize      \* IKBDFIFO, 32 in the code

ASSUME IkbdAssumption == FifoSize \in Nat \ {0}

VARIABLES
  fifo,       \* ikbd_fifo[0 .. ikbd_fifocnt - 1]
  cmd,        \* the command whose parameters are awaited (ikbd_cmdfn)
  cmdcnt,     \* ikbd_cmdcnt, parameters still to come
  mouse,      \* ikbd_mouse_enabled
  joystick    \* ikbd_joystick_enabled

ikbdVars == <<fifo, cmd, cmdcnt, mouse, joystick>>

\* Bytes of the packets the keyboard sends.
PacketLength == [key |-> 1, motion |-> 3, stick |-> 2, report |-> 6,
                 clock |-> 7, ack |-> 1]
Packet(kind) == [n \in 1 .. PacketLength[kind] |-> <<kind, n>>]
Byte == UNION {{<<k, n>> : n \in 1 .. PacketLength[k]} : k \in DOMAIN PacketLength}

\* The command bytes the switch of ikbd_set_cmd names.
MouseAction   == 7
MouseRelative == 8
MouseAbsolute == 9
Threshold     == 11
Scale         == 12
MouseReport   == 13
LoadPosition  == 14
MouseOff      == 18
StickEvents   == 20
StickOff      == 26
SetClock      == 27
GetClock      == 28
Reset         == 128
ResetKey      == 1

\* Parameters a command waits for; every other byte is complete by itself.
Parameters(b) ==
  CASE b \in {MouseAction, Reset} -> 1
    [] b \in {Threshold, Scale}   -> 2
    [] b = MouseAbsolute          -> 4
    [] b = LoadPosition           -> 5
    [] b = SetClock               -> 6
    [] OTHER                      -> 0

\* ikbd_do_reset is only run by the reset command.
IkbdInit ==
  /\ fifo = <<>>
  /\ cmd = 0 /\ cmdcnt = 0
  /\ mouse = FALSE /\ joystick = FALSE

\* Mutant: a packet that does not fit takes the place of the oldest bytes.
MutQueue(queue, bytes) ==
  LET all == queue \o bytes
  IN  IF Len(all) <= FifoSize THEN all
      ELSE SubSeq(all, Len(all) - FifoSize + 1, Len(all))

\* ikbd_queue_fifo for each byte of a packet: those that find no room are lost.
Queue(queue, bytes) ==
  LET room == FifoSize - Len(queue)
  IN  queue \o SubSeq(bytes, 1, IF Len(bytes) < room THEN Len(bytes) ELSE room)

Send(kind) ==
  /\ fifo' = Queue(fifo, Packet(kind))
  /\ UNCHANGED <<cmd, cmdcnt, mouse, joystick>>

\* Events of the host: a key, the mouse or its buttons, a joystick.
Key == Send("key")
Motion == IF mouse THEN Send("motion") ELSE UNCHANGED ikbdVars
Stick == IF joystick THEN Send("stick") ELSE UNCHANGED ikbdVars

\* ikbd_set_cmd.
Command(b) ==
  /\ cmdcnt' = Parameters(b)
  /\ cmd' = IF Parameters(b) > 0 THEN b ELSE cmd
  /\ mouse' = CASE b = MouseRelative -> TRUE
                [] b = MouseOff      -> FALSE
                [] OTHER             -> mouse
  /\ joystick' = CASE b = StickEvents -> TRUE
                   [] b = StickOff    -> FALSE
                   [] OTHER           -> joystick
  /\ fifo' = CASE b = MouseReport -> Queue(fifo, Packet("report"))
               [] b = GetClock    -> Queue(fifo, Packet("clock"))
               [] OTHER           -> fifo

\* A parameter; the last one runs the command.
Parameter(b) ==
  /\ cmdcnt' = cmdcnt - 1
  /\ cmd' = cmd
  /\ mouse' = IF cmdcnt > 1 THEN mouse
              ELSE CASE cmd = MouseAbsolute -> FALSE
                     [] cmd = Reset         -> TRUE
                     [] OTHER               -> mouse
  /\ joystick' = (joystick /\ ~(cmdcnt = 1 /\ cmd = Reset))
  /\ fifo' = IF cmdcnt = 1 /\ cmd = Reset
             THEN IF b = ResetKey THEN Packet("ack") ELSE <<>>
             ELSE fifo

\* ikbd_write_byte.
WriteByte(b) == IF cmdcnt = 0 THEN Command(b) ELSE Parameter(b)

\* ikbd_pop_fifo.
Pop ==
  /\ fifo' = Tail(fifo)
  /\ UNCHANGED <<cmd, cmdcnt, mouse, joystick>>
=============================================================================
