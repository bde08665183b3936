--------------------------- MODULE KeyboardProofs ---------------------------
(* Theorems about Keyboard, for every value of its constants.              *)
EXTENDS Keyboard, SequenceTheorems, TLAPS

\* Only set_status moves the line, and it leaves it low only with a byte.
LEMMA LineStatus ==
  ASSUME NEW irq \in BOOLEAN, NEW enable, SetStatus(irq, enable)
  PROVE  /\ full' = irq
         /\ 4 \notin gpip' => enable /\ irq
BY DEF SetStatus, SetGPIP, ClrGPIP

\* No access, pass or poll lowers the line without a byte (acia.c:42), but for
\* the guest's own write to it, which the history records (mfp.c:187).
LEMMA LineStep == LowLineIsFull /\ [Next]_vars => LowLineIsFull'
<1> SUFFICES ASSUME LowLineIsFull, [Next]_vars PROVE LowLineIsFull'
  OBVIOUS
<1> USE DEF LowLineIsFull
<1>1. CASE HostEvent \/ Leave \/ UNCHANGED vars
  <2>1. UNCHANGED <<aciaVars, mfpVars, quiet>>
    <3>1. CASE HostEvent
      BY <3>1 DEF HostEvent
    <3>2. CASE Leave
      BY <3>2 DEF Leave
    <3>3. CASE UNCHANGED vars
      BY <3>3 DEF vars
    <3>4. QED
      BY <1>1, <3>1, <3>2, <3>3
  <2>2. QED
    BY <2>1 DEF aciaVars, mfpVars
<1>2. CASE Free
  <2>1. CASE Read
    BY <2>1, LineStatus DEF Read, ReadData
  <2>2. CASE Control
    <3>1. CASE AciaReset
      BY <3>1, LineStatus DEF AciaReset
    <3>2. CASE \E enable \in BOOLEAN : WriteControl(enable) /\ UNCHANGED quiet
      BY <3>2 DEF WriteControl, mfpVars
    <3>3. QED
      BY <2>2, <3>1, <3>2 DEF Control
  <2>3. CASE Write \/ Other
    BY <2>3 DEF Write, Other, aciaVars, mfpVars
  <2>4. CASE MfpWrite
    <3>1. full' = full
      BY <2>4 DEF MfpWrite, aciaVars
    <3>2. CASE DriveLine
      <4>1. quiet' => quiet /\ (4 \in gpip' <=> 4 \in gpip)
        BY <3>2 DEF DriveLine, WriteGPIP
      <4>2. QED
        BY <3>1, <4>1
    <3>3. CASE gpip' = gpip /\ quiet' = quiet
      BY <3>1, <3>3
    <3>4. QED
      BY <2>4, <3>2, <3>3 DEF MfpWrite, WriteIER, WriteIPR, WriteISR, WriteIMR, WriteVR,
                              WriteAER
  <2>5. QED
    BY <1>2, <2>1, <2>2, <2>3, <2>4 DEF Free
<1>3. CASE Pass
  BY <1>3 DEF Pass, InterruptPass, aciaVars
<1>4. CASE Poll
  <2>1. CASE RxData(Head(fifo))
    BY <2>1, LineStatus DEF RxData
  <2>2. CASE UNCHANGED <<ikbdVars, aciaVars, mfpVars, quiet>>
    BY <2>2 DEF aciaVars, mfpVars
  <2>3. QED
    BY <1>4, <2>1, <2>2 DEF Poll
<1>5. QED
  BY <1>1, <1>2, <1>3, <1>4 DEF Next

\* No byte arrives on a line the ACIA has left low (acia.c:47-61): every byte
\* makes an edge, whatever the guest writes to the ACIA and the MFP, GPIP
\* included, as long as the level of the input is the one the ACIA gave it.
THEOREM LowLineCorrect == Spec => []LowLineIsFull
<1>1. Init => LowLineIsFull
  BY DEF Init, AciaInit, LowLineIsFull
<1>2. QED
  BY <1>1, LineStep, PTL DEF Spec

-----------------------------------------------------------------------------
(* The interrupt-driven guest *)

\* A pending request stands for the byte in the register, and the handler
\* that is about to read it has no second request.
DriverInv ==
  /\ ie = TRUE /\ aer = {} /\ full \in BOOLEAN
  /\ 4 \notin gpip => full
  /\ 6 \in ipr => full /\ handler # "read"
  /\ handler = "read" => full

\* A rising line sets no pending bit while AER asks for falling edges (mfp.c:346).
LEMMA RiseRaisesNothing ==
  ASSUME aer = {}, SetGPIP(4)
  PROVE  ipr' = ipr /\ aer' = aer
BY DEF SetGPIP, SetPending

\* The handler's read, end of interrupt and return keep the driver's invariant.
LEMMA DriverRead == DriverInv /\ Handle => DriverInv'
<1> SUFFICES ASSUME DriverInv, Handle PROVE DriverInv'
  OBVIOUS
<1> USE DEF DriverInv
<1>1. CASE handler = "read" /\ Read /\ handler' = "ack"
  <2>1. /\ full' = FALSE /\ UNCHANGED ie /\ SetGPIP(4)
    BY <1>1 DEF Read, ReadData, SetStatus
  <2>2. 6 \notin ipr' /\ aer' = {}
    BY <1>1, <2>1, RiseRaisesNothing
  <2>3. 4 \in gpip'
    BY <2>1 DEF SetGPIP
  <2>4. QED
    BY <1>1, <2>1, <2>2, <2>3
<1>2. CASE /\ handler = "ack" /\ WriteISR(RegB, {}) /\ handler' = "rte"
           /\ UNCHANGED <<ikbdVars, aciaVars, got>>
  BY <1>2 DEF WriteISR, aciaVars
<1>3. CASE handler = "rte" /\ Other /\ handler' = "main"
  BY <1>3 DEF Other, aciaVars, mfpVars
<1>4. QED
  BY <1>1, <1>2, <1>3 DEF Handle

\* So does every step of guest and emulator.
LEMMA DriverStep == DriverInv /\ [DriverNext]_vars => DriverInv'
<1> SUFFICES ASSUME DriverInv, [DriverNext]_vars PROVE DriverInv'
  OBVIOUS
<1> USE DEF DriverInv
<1>1. CASE HostEvent \/ UNCHANGED vars
  BY <1>1 DEF HostEvent, vars, aciaVars, mfpVars
<1>2. CASE Handle
  BY <1>2, DriverRead
<1>3. CASE Main
  BY <1>3 DEF Main, Other, Write, aciaVars, mfpVars
<1>4. CASE Pass
  <2>1. /\ UNCHANGED <<ie, full, aer>>
        /\ gpip' = gpip
        /\ ipr' = (ipr \cap ier) \ Served(ipr, Level)
    BY <1>4 DEF Pass, InterruptPass, FallPending, SetPending, aciaVars
  <2>2. handler' = IF 6 \in Served(ipr, Level) THEN "read" ELSE handler
    BY <1>4 DEF Pass
  <2>3. Served(ipr, Level) \subseteq ipr
    BY DEF Served, Open
  <2>4. QED
    BY <2>1, <2>2, <2>3
<1>5. CASE Poll
  <2>1. CASE ~full /\ RxData(Head(fifo)) /\ UNCHANGED handler
    BY <2>1 DEF RxData, SetStatus, ClrGPIP
  <2>2. CASE UNCHANGED <<ikbdVars, aciaVars, mfpVars>> /\ UNCHANGED handler
    BY <2>2 DEF aciaVars, mfpVars
  <2>3. QED
    BY <1>5, <2>1, <2>2 DEF Poll
<1>6. QED
  BY <1>1, <1>2, <1>3, <1>4, <1>5 DEF DriverNext

\* The interrupt-driven guest's handler always finds a byte (mfp.c:371-388,
\* acia.c:47-54).
THEOREM HandlerCorrect == DriverSpec => []HandlerFindsByte
<1>1. DriverInit => DriverInv
  BY DEF DriverInit, DriverInv
<1>2. DriverInv => HandlerFindsByte
  BY DEF DriverInv, HandlerFindsByte
<1>3. QED
  BY <1>1, <1>2, DriverStep, PTL DEF DriverSpec

-----------------------------------------------------------------------------
(* The path from key to guest is a lossy channel *)

\* What the registers and the queue hold.
Item == Byte \cup {Nothing}

\* The bytes under way, as ChannelSpec sees them.
Arrived == IF full THEN <<rxData>> ELSE <<>>
Chan == Arrived \o fifo

\* The queue never holds more than it has room for, and an empty receive register
\* shows what was read last, or nothing since a reset.
PathInv ==
  /\ fifo \in Seq(Item) /\ Len(fifo) <= FifoSize
  /\ full \in BOOLEAN /\ rxData \in Item
  /\ ~full => rxData \in {got, Nothing}

\* A packet is a sequence of bytes.
LEMMA PacketType ==
  ASSUME NEW kind \in DOMAIN PacketLength
  PROVE  Packet(kind) \in Seq(Item) /\ Len(Packet(kind)) = PacketLength[kind]
<1>1. PacketLength[kind] \in Nat
  BY DEF PacketLength
<1>2. \A n \in 1 .. PacketLength[kind] : <<kind, n>> \in Item
  BY DEF Byte, Item
<1>3. Packet(kind) = [n \in 1 .. PacketLength[kind] |-> <<kind, n>>]
  BY DEF Packet
<1>4. QED
  BY <1>1, <1>2, <1>3, IsASeq

\* An empty queue is within its size.
LEMMA NoBytes == <<>> \in Seq(Item) /\ Len(<<>>) <= FifoSize
<1>1. <<>> \in Seq(Item) /\ Len(<<>>) = 0
  OBVIOUS
<1>2. QED
  BY <1>1, IkbdAssumption

\* The kinds of packets.
LEMMA Kinds == DOMAIN PacketLength = {"key", "motion", "stick", "report", "clock", "ack"}
BY DEF PacketLength

\* Queueing cuts a packet off only where the queue is full (ikbd.c:242).
LEMMA QueueFacts ==
  ASSUME NEW q \in Seq(Item), Len(q) <= FifoSize, NEW m \in Seq(Item)
  PROVE  \E k \in 0 .. Len(m) :
           /\ Queue(q, m) = q \o SubSeq(m, 1, k)
           /\ SubSeq(m, 1, k) \in Seq(Item)
           /\ Queue(q, m) \in Seq(Item)
           /\ Len(Queue(q, m)) <= FifoSize
           /\ k < Len(m) => Len(Queue(q, m)) = FifoSize
<1> DEFINE room == FifoSize - Len(q)
           k == IF Len(m) < room THEN Len(m) ELSE room
<1>1. room \in Nat /\ Len(m) \in Nat /\ Len(q) \in Nat /\ FifoSize \in Nat
  BY IkbdAssumption
<1>2. k \in 0 .. Len(m) /\ k <= room /\ (k < Len(m) => k = room)
  BY <1>1
<1>3. Queue(q, m) = q \o SubSeq(m, 1, k)
  BY DEF Queue
<1> HIDE DEF k
<1>4. SubSeq(m, 1, k) \in Seq(Item) /\ Len(SubSeq(m, 1, k)) = k
  <2>1. \A i \in 1 .. k : m[i] \in Item
    BY <1>1, <1>2, ElementOfSeq
  <2>2. QED
    BY <1>2, <2>1, SubSeqProperties
<1>5. q \o SubSeq(m, 1, k) \in Seq(Item) /\ Len(q \o SubSeq(m, 1, k)) = Len(q) + k
  BY <1>4, ConcatProperties
<1>6. Len(Queue(q, m)) <= FifoSize /\ (k < Len(m) => Len(Queue(q, m)) = FifoSize)
  BY <1>1, <1>2, <1>3, <1>5
<1>7. QED
  BY <1>2, <1>3, <1>4, <1>5, <1>6

\* The byte that has arrived stays ahead of the others.
LEMMA ChanType ==
  ASSUME PathInv
  PROVE  /\ Arrived \in Seq(Item) /\ Chan \in Seq(Item)
         /\ Len(Arrived) = (IF full THEN 1 ELSE 0)
         /\ Len(Chan) = Len(Arrived) + Len(fifo)
         /\ SubSeq(Chan, 1, Len(Arrived)) = Arrived
         /\ full => Head(Chan) = rxData /\ Tail(Chan) = fifo /\ Chan # <<>>
         /\ ~full => Chan = fifo
<1>1. Arrived \in Seq(Item) /\ Len(Arrived) = (IF full THEN 1 ELSE 0)
  BY DEF PathInv, Arrived
<1>2. Chan \in Seq(Item) /\ Len(Chan) = Len(Arrived) + Len(fifo)
  BY <1>1, ConcatProperties DEF PathInv, Chan
<1>3. ~full => Chan = fifo /\ SubSeq(Chan, 1, 0) = <<>>
  BY <1>2, ConcatEmptySeq, SubSeqEmpty DEF Arrived, Chan, PathInv
<1>4. CASE full
  <2>1. Arrived = <<rxData>>
    BY <1>4 DEF Arrived
  <2>2. Chan[1] = rxData /\ \A i \in 1 .. Len(fifo) : Chan[i + 1] = fifo[i]
    BY <1>4, <2>1, ConcatProperties DEF Chan, PathInv
  <2>3. Chan # <<>>
    BY <1>1, <1>2, <1>4 DEF PathInv
  <2>4. Tail(Chan) = fifo
    <3>1. /\ Tail(Chan) \in Seq(Item) /\ Len(Tail(Chan)) = Len(fifo)
          /\ \A i \in 1 .. Len(Tail(Chan)) : Tail(Chan)[i] = Chan[i + 1]
      BY <1>1, <1>2, <1>4, <2>3, HeadTailProperties DEF PathInv
    <3>2. QED
      BY <2>2, <3>1, SeqEqual DEF PathInv
  <2>5. SubSeq(Chan, 1, 1) = Arrived
    <3>1. 1 \in 1 .. Len(Arrived) /\ fifo \in Seq(Item)
      BY <1>1, <1>4 DEF PathInv
    <3>2. SubSeq(Arrived \o fifo, 1, 1) = SubSeq(Arrived, 1, 1)
      BY <1>1, <3>1, SubSeqOfConcat1, Zenon
    <3>3. SubSeq(Chan, 1, 1) = SubSeq(Arrived, 1, 1)
      BY <3>2 DEF Chan
    <3>4. QED
      BY <1>1, <1>4, <3>3, SubSeqFull
  <2>6. QED
    BY <1>1, <1>2, <1>4, <2>1, <2>2, <2>3, <2>4, <2>5
<1>5. QED
  BY <1>1, <1>2, <1>3, <1>4 DEF PathInv, Arrived

\* A packet put into the queue is sent over the channel.
LEMMA Sends ==
  ASSUME PathInv, NEW kind \in DOMAIN PacketLength,
         fifo' = Queue(fifo, Packet(kind)), UNCHANGED <<aciaVars, got>>
  PROVE  PathInv' /\ Channel!Next
<1> DEFINE m == Packet(kind)
<1>1. m \in Seq(Item)
  BY PacketType
<1>2. PICK k \in 0 .. Len(m) :
        /\ fifo' = fifo \o SubSeq(m, 1, k)
        /\ SubSeq(m, 1, k) \in Seq(Item)
        /\ fifo' \in Seq(Item) /\ Len(fifo') <= FifoSize
        /\ k < Len(m) => Len(fifo') = FifoSize
  BY <1>1, QueueFacts DEF PathInv
<1>3. PathInv' /\ Arrived' = Arrived
  BY <1>2 DEF PathInv, Arrived, aciaVars
<1>4. Chan' = Chan \o SubSeq(m, 1, k)
  <2>1. Arrived \in Seq(Item) /\ fifo \in Seq(Item)
    BY ChanType DEF PathInv
  <2>2. \A a, b, c \in Seq(Item) : (a \o b) \o c = a \o (b \o c)
    BY ConcatAssociative
  <2>3. Chan' = Arrived' \o fifo'
    BY DEF Chan
  <2>4. Chan' = Arrived \o (fifo \o SubSeq(m, 1, k))
    BY <1>2, <1>3, <2>3
  <2>5. QED
    BY <1>2, <2>1, <2>2, <2>4 DEF Chan
<1>5. k < Len(m) => Len(Chan') >= FifoSize
  <2>1. Len(Chan') = Len(Arrived') + Len(fifo') /\ Len(Arrived') \in Nat
    BY <1>2, <1>3, ChanType, ConcatProperties DEF Chan, PathInv
  <2>2. QED
    BY <1>2, <2>1, IkbdAssumption
<1>6. Channel!Send(m)
  BY <1>2, <1>4, <1>5 DEF Channel!Send, Chan, Arrived, aciaVars
<1>7. QED
  BY <1>3, <1>6 DEF Channel!Next

\* Nothing happens to the channel while registers and queue stay as they are.
LEMMA Stutters ==
  ASSUME PathInv, UNCHANGED <<fifo, full, rxData, got>>
  PROVE  PathInv' /\ UNCHANGED <<Chan, got>>
BY DEF PathInv, Chan, Arrived

\* A read takes the byte that has arrived, or repeats the one before.
LEMMA Reads ==
  ASSUME PathInv, Read
  PROVE  PathInv' /\ Channel!Next
<1>1. /\ full' = FALSE /\ rxData' = rxData /\ fifo' = fifo /\ got' = rxData
  BY DEF Read, ReadData, SetStatus, ikbdVars
<1>2. PathInv'
  BY <1>1 DEF PathInv
<1>3. Chan' = fifo
  BY <1>1, <1>2, ConcatEmptySeq DEF Chan, Arrived, PathInv
<1>4. CASE full
  <2>1. Channel!Receive
    BY <1>1, <1>3, <1>4, ChanType DEF Channel!Receive, Chan, Arrived
  <2>2. QED
    BY <1>2, <2>1 DEF Channel!Next
<1>5. CASE ~full
  <2>1. Channel!Reread
    BY <1>1, <1>3, <1>5, ChanType DEF Channel!Reread, Chan, Arrived, PathInv
  <2>2. QED
    BY <1>2, <2>1 DEF Channel!Next
<1>6. QED
  BY <1>4, <1>5 DEF PathInv

\* The reset command empties the queue, but not the receive register.
LEMMA Restarts ==
  ASSUME PathInv, NEW ack \in {<<>>, Packet("ack")}, fifo' = ack,
         UNCHANGED <<aciaVars, got>>
  PROVE  PathInv' /\ Channel!Next
<1>1. ack \in Seq(Item) /\ Len(ack) <= FifoSize
  <2>1. Packet("ack") \in Seq(Item) /\ Len(Packet("ack")) = 1
    BY PacketType, Kinds DEF PacketLength
  <2>2. 1 <= FifoSize
    BY IkbdAssumption
  <2>3. QED
    BY <2>1, <2>2, NoBytes
<1>2. PathInv' /\ Arrived' = Arrived
  BY <1>1 DEF PathInv, Arrived, aciaVars
<1>3. Chan' = SubSeq(Chan, 1, Len(Arrived)) \o ack
  BY <1>2, ChanType DEF Chan
<1>4. Len(Arrived) \in 0 .. 1 /\ Len(Arrived) <= Len(Chan)
  BY ChanType DEF PathInv
<1>5. Channel!SenderReset(ack)
  BY <1>3, <1>4 DEF Channel!SenderReset, Chan, Arrived, aciaVars
<1>6. QED
  BY <1>2, <1>5 DEF Channel!Next

\* A byte for the keyboard sends at most one packet, or restarts the sender.
LEMMA Writes ==
  ASSUME PathInv, NEW b, WriteByte(b), UNCHANGED <<aciaVars, got>>
  PROVE  PathInv' /\ [Channel!Next]_<<Chan, got>>
<1>1. CASE fifo' = fifo
  BY <1>1, Stutters DEF aciaVars
<1>2. CASE fifo' = Queue(fifo, Packet("report")) \/ fifo' = Queue(fifo, Packet("clock"))
  BY <1>2, Sends, Kinds
<1>3. CASE fifo' = Packet("ack") \/ fifo' = <<>>
  BY <1>3, Restarts
<1>4. CASE Command(b)
  BY <1>1, <1>2, <1>4 DEF Command
<1>5. CASE Parameter(b)
  BY <1>1, <1>3, <1>5 DEF Parameter
<1>6. QED
  BY <1>4, <1>5 DEF WriteByte

\* A reset of the ACIA drops the byte that has arrived.
LEMMA Resets ==
  ASSUME PathInv, AciaReset, UNCHANGED <<fifo, got>>
  PROVE  PathInv' /\ Channel!Next
<1>1. full' = FALSE /\ rxData' = Nothing
  BY DEF AciaReset, SetStatus
<1>2. PathInv' /\ Chan' = fifo
  <2>1. PathInv'
    BY <1>1 DEF PathInv, Item
  <2>2. QED
    BY <1>1, <2>1, ConcatEmptySeq DEF Chan, Arrived, PathInv
<1>3. Chan' \in {Chan} \cup (IF Chan = <<>> THEN {} ELSE {Tail(Chan)})
  BY <1>2, ChanType DEF PathInv
<1>4. Channel!ReceiverReset
  BY <1>3 DEF Channel!ReceiverReset, Chan, Arrived
<1>5. QED
  BY <1>2, <1>4 DEF Channel!Next

\* A poll moves the first byte of the queue into the empty register: it stays the
\* first of those under way.
LEMMA Polls ==
  ASSUME PathInv, fifo # <<>>, ~full, RxData(Head(fifo)), Pop, UNCHANGED got
  PROVE  PathInv' /\ UNCHANGED <<Chan, got>>
<1>1. full' = TRUE /\ rxData' = Head(fifo) /\ fifo' = Tail(fifo)
  BY DEF RxData, SetStatus, Pop
<1>2. /\ Head(fifo) \in Item /\ Tail(fifo) \in Seq(Item)
      /\ Len(Tail(fifo)) = Len(fifo) - 1
  BY HeadTailProperties DEF PathInv
<1>3. PathInv'
  BY <1>1, <1>2, IkbdAssumption DEF PathInv
<1>4. Chan' = <<Head(fifo)>> \o Tail(fifo)
  BY <1>1 DEF Chan, Arrived
<1>5. <<Head(fifo)>> \o Tail(fifo) = fifo
  <2>1. fifo \in Seq(Item) /\ Len(fifo) \in Nat /\ Len(fifo) >= 1
    BY DEF PathInv
  <2>2. <<fifo[1]>> \o SubSeq(fifo, 2, Len(fifo)) = fifo
    BY <2>1, SubSeqRecursiveFirst, SubSeqFull
  <2>3. Head(fifo) = fifo[1] /\ Tail(fifo) = SubSeq(fifo, 2, Len(fifo))
    BY <2>1, TailIsSubSeq
  <2>4. QED
    BY <2>2, <2>3
<1>6. Chan = fifo
  BY ChanType
<1>7. QED
  BY <1>3, <1>4, <1>5, <1>6

\* Every step of guest, host and emulator is a step of the channel, or none.
LEMMA ChannelStep == PathInv /\ [Next]_vars => PathInv' /\ [Channel!Next]_<<Chan, got>>
<1> SUFFICES ASSUME PathInv, [Next]_vars
             PROVE  PathInv' /\ [Channel!Next]_<<Chan, got>>
  OBVIOUS
<1>1. CASE HostEvent
  <2>1. CASE UNCHANGED ikbdVars
    BY <1>1, <2>1, Stutters DEF HostEvent, ikbdVars, aciaVars
  <2>2. ASSUME NEW kind \in {"key", "motion", "stick"}, Send(kind)
        PROVE  PathInv' /\ [Channel!Next]_<<Chan, got>>
    BY <1>1, <2>2, Sends, Kinds DEF HostEvent, Send
  <2>3. QED
    BY <1>1, <2>1, <2>2 DEF HostEvent, Key, Motion, Stick
<1>2. CASE Free
  <2>1. CASE Read
    BY <2>1, Reads
  <2>2. CASE Control
    <3>1. CASE AciaReset
      BY <2>2, <3>1, Resets DEF Control, ikbdVars
    <3>2. CASE \E enable \in BOOLEAN : WriteControl(enable)
      BY <2>2, <3>2, Stutters DEF Control, WriteControl, ikbdVars
    <3>3. QED
      BY <2>2, <3>1, <3>2 DEF Control
  <2>3. CASE Write
    BY <2>3, Writes DEF Write
  <2>4. CASE MfpWrite \/ Other
    BY <2>4, Stutters DEF MfpWrite, Other, ikbdVars, aciaVars
  <2>5. QED
    BY <1>2, <2>1, <2>2, <2>3, <2>4 DEF Free
<1>3. CASE Leave \/ Pass \/ UNCHANGED vars
  BY <1>3, Stutters DEF Leave, Pass, vars, ikbdVars, aciaVars
<1>4. CASE Poll
  <2>1. CASE UNCHANGED <<ikbdVars, aciaVars, mfpVars>>
    BY <1>4, <2>1, Stutters DEF Poll, ikbdVars, aciaVars
  <2>2. CASE fifo # <<>> /\ ~full /\ RxData(Head(fifo)) /\ Pop
    BY <1>4, <2>2, Polls DEF Poll
  <2>3. QED
    BY <1>4, <2>1, <2>2 DEF Poll
<1>5. QED
  BY <1>1, <1>2, <1>3, <1>4 DEF Next

\* The bytes reach the guest in order, each once, and are lost only when the queue
\* is full or by a reset (ikbd.c:224-250, acia.c:42-61), whatever the guest writes
\* to the ACIA and the MFP and whatever commands it sends.
THEOREM ChannelCorrect == Spec => ChannelSpec
<1>1. Init => PathInv /\ Channel!Init
  <2> SUFFICES ASSUME Init PROVE PathInv /\ Channel!Init
    OBVIOUS
  <2>1. fifo = <<>> /\ full = FALSE /\ rxData = Nothing /\ got = Nothing
    BY DEF Init, IkbdInit, AciaInit
  <2>2. PathInv
    BY <2>1, NoBytes DEF PathInv, Item
  <2>3. QED
    BY <2>1, <2>2, ChanType DEF Channel!Init, Chan, Arrived
<1>2. PathInv /\ [Next]_vars
        => PathInv' /\ [Channel!Next]_<<(IF full THEN <<rxData>> ELSE <<>>) \o fifo, got>>
  BY ChannelStep DEF Chan, Arrived
<1>3. QED
  BY <1>1, <1>2, PTL DEF Spec, ChannelSpec, Channel!Spec
=============================================================================
