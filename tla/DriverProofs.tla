---------------------------- MODULE DriverProofs ----------------------------
(* The registers, counters and waits of the disk system implement the store *)
(* of module BlockStore, for every geometry, every hard disk, every set of  *)
(* requests and every interrupt handler.                                    *)
EXTENDS DiskDriver, SequenceTheorems, WellFoundedInduction, TLAPS

-----------------------------------------------------------------------------
(* The inductive invariant: what each access leaves for the ones after it *)

Program(r) == IF r.unit = "hard" THEN HardProgram(r) ELSE FloppyProgram(r)
Length(r) == IF r.unit = "hard" THEN 12 ELSE 21

\* What is left when the access at place p comes next.
Left(r, p) == SubSeq(Program(r), p, Length(r))

\* Where a seek to the request's track leaves the head.
Target(r) == IF r.track >= Tracks THEN Tracks - 1 ELSE r.track

\* A seek that reports no error.
Found(r) == r.drive \in Inserted /\ r.track <= Tracks

\* The seek, its wait and the two looks at its result.
SeekAt(r, p) ==
  /\ p \in 2 .. 5 \cup 11 .. 19 => active = r.drive /\ side = r.side
  /\ p = 3 => mode = "data"
  /\ p = 5 => mode = "control"
  /\ p \in 4 .. 5 => data = r.track
  /\ p = 8 => mode = "control"
  /\ p \in 6 .. 9 => /\ typeI /\ (seekError <=> ~Found(r))
                     /\ ~seekError => head[r.drive] = Target(r) /\ track = Target(r)
  /\ p = 9 => ~seekError
  /\ p \in 10 .. 20 => r.drive \in Inserted /\ r.track < Tracks /\ track = r.track

\* What the command that moves sectors finds in the registers.
TransferAt(r, p) ==
  /\ p \in 10 .. 19 => head[r.drive] = r.track
  /\ p = 13 => mode = "count"
  /\ p \in 14 .. 19 => count = r.n
  /\ p = 15 => address < 128
  /\ p \in 16 .. 19 => address = r.at
  /\ p = 17 => mode = "sector"
  /\ p \in 18 .. 19 => sector[r.drive] = r.sector
  /\ p = 19 => mode = "control"

\* The line is up in the two waits only; the registers tell how it went.
OutcomeAt(r, p) ==
  /\ busy => p \in {6, 20}
  /\ p \in 1 .. 19 => answer = "none"
  /\ p \in 20 .. 21 => /\ answer \in {"moved", "failed"}
                       /\ (~seekError /\ track = r.track /\ noError) <=> answer = "moved"
  /\ p = 20 => ~seekError

FloppyAt(r, p) == SeekAt(r, p) /\ TransferAt(r, p) /\ OutcomeAt(r, p)

\* The command byte and the parameters of a hard disk request.
HardAt(r, p) ==
  /\ ~busy
  /\ p \in 1 .. 10 => answer = "none"
  /\ p \in 11 .. 12 => answer \in {"moved", "blank"}
  /\ p \in 1 .. 5 \cup 11 .. 12 => position = 0 /\ params = Cleared
  /\ p = 2 => address < 128
  /\ p \in 3 .. 10 => address = r.at
  /\ p = 4 => mode = "command"
  /\ p \in 5 .. 10 => cmd.ctrl = r.ctrl /\ cmd.op = r.op
  /\ p \in 6 .. 10 =>
       /\ mode = "parameter" /\ position = p - 6
       /\ DOMAIN params = 0 .. 4
       /\ params[0] = 0 /\ params[1] = 0
       /\ params[2] = IF foreign \/ p < 9 THEN 0 ELSE r.block
       /\ params[3] = IF foreign \/ p < 10 THEN 0 ELSE r.n

\* Blocks, drives and the address are what the transfers take them for.
ShapeInv ==
  /\ memory = [b \in Ram |-> memory[b]]
  /\ hard = [b \in 0 .. HardBlocks - 1 |-> hard[b]]
  /\ image = [d \in Inserted |-> [b \in Disk |-> image[d][b]]]
  /\ head \in [Drives -> Int] /\ sector \in [Drives -> Int]
  /\ address \in Nat
  /\ timer \in Int

LineInv == 5 \in gpip <=> busy

RequestInv ==
  IF request = None
  THEN ~busy /\ answer = "none" /\ position = 0 /\ params = Cleared
  ELSE /\ request \in Requests
       /\ \E p \in 1 .. Length(request) :
            /\ todo = Left(request, p)
            /\ IF request.unit = "hard" THEN HardAt(request, p)
               ELSE FloppyAt(request, p) /\ position = 0 /\ params = Cleared

DriverInv == ShapeInv /\ LineInv /\ RequestInv

-----------------------------------------------------------------------------
(* The programs *)

\* The accesses of a program are a sequence.
LEMMA ProgramType ==
  ASSUME NEW r
  PROVE  \E S : /\ Program(r) \in Seq(S)
                /\ Len(Program(r)) = Length(r)
<1>1. CASE r.unit = "hard"
  <2> DEFINE S == {HardProgram(r)[i] : i \in 1 .. 12}
  <2>1. HardProgram(r) \in Seq(S) /\ Len(HardProgram(r)) = 12
    BY DEF HardProgram
  <2>2. QED
    BY <1>1, <2>1 DEF Program, Length
<1>2. CASE r.unit # "hard"
  <2> DEFINE S == {FloppyProgram(r)[i] : i \in 1 .. 21}
  <2>1. FloppyProgram(r) \in Seq(S) /\ Len(FloppyProgram(r)) = 21
    BY DEF FloppyProgram
  <2>2. QED
    BY <1>2, <2>1 DEF Program, Length
<1>3. QED
  BY <1>1, <1>2

\* The access at place p comes next, and the ones after it are left.
LEMMA LeftFacts ==
  ASSUME NEW r, NEW p \in 1 .. Length(r), todo = Left(r, p)
  PROVE  /\ todo[1] = Program(r)[p]
         /\ Tail(todo) = Left(r, p + 1)
<1>1. Length(r) \in Nat
  BY DEF Length
<1>2. PICK S : Program(r) \in Seq(S) /\ Len(Program(r)) = Length(r)
  BY ProgramType
<1>3. \A i \in p .. Length(r) : Program(r)[i] \in S
  BY <1>1, <1>2
<1>4. todo[1] = Program(r)[p]
  <2>1. 1 \in 1 .. Length(r) - p + 1 /\ p + 1 - 1 = p /\ p \in Int /\ Length(r) \in Int
    BY <1>1
  <2>2. SubSeq(Program(r), p, Length(r))[1] = Program(r)[p + 1 - 1]
    BY <1>3, <2>1, SubSeqProperties
  <2>3. QED
    BY <2>1, <2>2 DEF Left
<1>5. Tail(todo) = Left(r, p + 1)
  BY <1>1, <1>2, HeadTailOfSubSeq DEF Left
<1>6. QED
  BY <1>4, <1>5

\* The program begins at its first place.
LEMMA LeftAll == ASSUME NEW r PROVE Program(r) = Left(r, 1)
<1>1. PICK S : Program(r) \in Seq(S) /\ Len(Program(r)) = Length(r)
  BY ProgramType
<1>2. QED
  BY <1>1, SubSeqFull DEF Left

\* From the last place on, a sequence has one element.
LEMMA OneLeft ==
  ASSUME NEW S, NEW s \in Seq(S), NEW n \in Nat \ {0}, Len(s) = n
  PROVE  SubSeq(s, n, n) = <<s[n]>>
<1>1. \A i \in n .. n : s[i] \in S
  BY ElementOfSeq
<1> DEFINE t == SubSeq(s, n, n)
<1>2. /\ t \in Seq(S) /\ Len(t) = IF n <= n THEN n - n + 1 ELSE 0
      /\ \A i \in 1 .. n - n + 1 : t[i] = s[n + i - 1]
  BY <1>1, SubSeqProperties
<1> HIDE DEF t
<1>3. Len(t) = 1 /\ t[1] = s[n]
  BY <1>2
<1>4. <<s[n]>> \in Seq(S) /\ Len(<<s[n]>>) = 1 /\ <<s[n]>>[1] = s[n]
  BY <1>1
<1>5. t = <<s[n]>>
  BY <1>2, <1>3, <1>4, SeqEqual
<1>6. QED
  BY <1>5 DEF t

\* Reading the status is all that is left of a seek that failed.
LEMMA LeftStatus ==
  ASSUME NEW r, r.unit # "hard"
  PROVE  <<W("status", 0)>> = Left(r, 21)
<1>1. PICK S : Program(r) \in Seq(S) /\ Len(Program(r)) = 21
  BY ProgramType DEF Length
<1>2. Program(r)[21] = W("status", 0)
  BY DEF Program, FloppyProgram
<1>3. \A n \in Nat \ {0} : Len(Program(r)) = n => SubSeq(Program(r), n, n) = <<Program(r)[n]>>
  BY <1>1, OneLeft
<1>5. SubSeq(Program(r), 21, 21) = <<Program(r)[21]>>
  BY <1>1, <1>3, SMT
<1>4. QED
  BY <1>2, <1>5 DEF Left, Length

\* The byte written to the port for a request.
PortValue(r) == <<1 - r.side, IF r.drive = "A" THEN 2 ELSE 1>>

\* What a floppy request writes where.
LEMMA FloppyAccesses ==
  ASSUME NEW r, NEW p \in 1 .. Length(r), todo = Left(r, p), r.unit # "hard"
  PROVE  /\ p = 1 => Reg = "port" /\ Value = PortValue(r)
         /\ p = 2 => Reg = "mode" /\ Value = "data"
         /\ p = 3 => Reg = "register" /\ Value = r.track
         /\ p = 4 => Reg = "mode" /\ Value = "control"
         /\ p = 5 => Reg = "fdc" /\ Value = "seek"
         /\ p = 6 => Reg = "wait" /\ Value = 0
         /\ p = 7 => Reg = "mode" /\ Value = "control"
         /\ p = 8 => Reg = "seeked" /\ Value = 0
         /\ p = 9 => Reg = "track" /\ Value = 0
         /\ p = 10 => Reg = "port" /\ Value = PortValue(r)
         /\ p = 11 => Reg = "toggle" /\ Value = Opposite(r.op)
         /\ p = 12 => Reg = "toggle" /\ Value = r.op
         /\ p = 13 => Reg = "count" /\ Value = r.n
         /\ p = 14 => Reg = "high" /\ Value = 0
         /\ p = 15 => Reg = "med" /\ Value = 2 * r.at
         /\ p = 16 => Reg = "mode" /\ Value = "sector"
         /\ p = 17 => Reg = "register" /\ Value = r.sector
         /\ p = 18 => Reg = "mode" /\ Value = "control"
         /\ p = 19 => Reg = "fdc" /\ Value = (IF r.op = "read" THEN "readsecs" ELSE "writesecs")
         /\ p = 20 => Reg = "wait" /\ Value = 0
         /\ p = 21 => Reg = "status" /\ Value = 0
<1>1. todo[1] = Program(r)[p]
  BY LeftFacts
<1>2. Program(r) = FloppyProgram(r)
  BY DEF Program
<1>3. p = 1 => Reg = "port" /\ Value = PortValue(r)
  BY <1>1, <1>2 DEF FloppyProgram, W, Reg, Value, Select, PortValue
<1>4. p = 2 => Reg = "mode" /\ Value = "data"
  BY <1>1, <1>2 DEF FloppyProgram, W, Reg, Value
<1>5. p = 3 => Reg = "register" /\ Value = r.track
  BY <1>1, <1>2 DEF FloppyProgram, W, Reg, Value
<1>6. p = 4 => Reg = "mode" /\ Value = "control"
  BY <1>1, <1>2 DEF FloppyProgram, W, Reg, Value
<1>7. p = 5 => Reg = "fdc" /\ Value = "seek"
  BY <1>1, <1>2 DEF FloppyProgram, W, Reg, Value
<1>8. p = 6 => Reg = "wait" /\ Value = 0
  BY <1>1, <1>2 DEF FloppyProgram, W, Reg, Value
<1>9. p = 7 => Reg = "mode" /\ Value = "control"
  BY <1>1, <1>2 DEF FloppyProgram, W, Reg, Value
<1>10. p = 8 => Reg = "seeked" /\ Value = 0
  BY <1>1, <1>2 DEF FloppyProgram, W, Reg, Value
<1>11. p = 9 => Reg = "track" /\ Value = 0
  BY <1>1, <1>2 DEF FloppyProgram, W, Reg, Value
<1>12. p = 10 => Reg = "port" /\ Value = PortValue(r)
  BY <1>1, <1>2 DEF FloppyProgram, W, Reg, Value, Select, PortValue
<1>13. p = 11 => Reg = "toggle" /\ Value = Opposite(r.op)
  BY <1>1, <1>2 DEF FloppyProgram, W, Reg, Value
<1>14. p = 12 => Reg = "toggle" /\ Value = r.op
  BY <1>1, <1>2 DEF FloppyProgram, W, Reg, Value
<1>15. p = 13 => Reg = "count" /\ Value = r.n
  BY <1>1, <1>2 DEF FloppyProgram, W, Reg, Value
<1>16. p = 14 => Reg = "high" /\ Value = 0
  BY <1>1, <1>2 DEF FloppyProgram, W, Reg, Value
<1>17. p = 15 => Reg = "med" /\ Value = 2 * r.at
  BY <1>1, <1>2 DEF FloppyProgram, W, Reg, Value
<1>18. p = 16 => Reg = "mode" /\ Value = "sector"
  BY <1>1, <1>2 DEF FloppyProgram, W, Reg, Value
<1>19. p = 17 => Reg = "register" /\ Value = r.sector
  BY <1>1, <1>2 DEF FloppyProgram, W, Reg, Value
<1>20. p = 18 => Reg = "mode" /\ Value = "control"
  BY <1>1, <1>2 DEF FloppyProgram, W, Reg, Value
<1>21. p = 19 => Reg = "fdc" /\ Value = (IF r.op = "read" THEN "readsecs" ELSE "writesecs")
  BY <1>1, <1>2 DEF FloppyProgram, W, Reg, Value
<1>22. p = 20 => Reg = "wait" /\ Value = 0
  BY <1>1, <1>2 DEF FloppyProgram, W, Reg, Value
<1>23. p = 21 => Reg = "status" /\ Value = 0
  BY <1>1, <1>2 DEF FloppyProgram, W, Reg, Value
<1>24. QED
  BY <1>3, <1>4, <1>5, <1>6, <1>7, <1>8, <1>9, <1>10, <1>11, <1>12, <1>13, <1>14, <1>15, <1>16, <1>17, <1>18, <1>19, <1>20, <1>21, <1>22, <1>23

\* What a hard disk request writes where.
LEMMA HardAccesses ==
  ASSUME NEW r, NEW p \in 1 .. Length(r), todo = Left(r, p), r.unit = "hard"
  PROVE  /\ p = 1 => Reg = "high" /\ Value = 0
         /\ p = 2 => Reg = "med" /\ Value = 2 * r.at
         /\ p = 3 => Reg = "mode" /\ Value = "command"
         /\ p = 4 => Reg = "hdc" /\ Value = r
         /\ p = 5 => Reg = "mode" /\ Value = "parameter"
         /\ p = 6 => Reg = "byte" /\ Value = 0
         /\ p = 7 => Reg = "byte" /\ Value = 0
         /\ p = 8 => Reg = "byte" /\ Value = r.block
         /\ p = 9 => Reg = "byte" /\ Value = r.n
         /\ p = 10 => Reg = "byte" /\ Value = 0
         /\ p = 11 => Reg = "wait" /\ Value = 0
         /\ p = 12 => Reg = "status" /\ Value = 0
<1>1. todo[1] = Program(r)[p]
  BY LeftFacts
<1>2. Program(r) = HardProgram(r)
  BY DEF Program
<1>3. p = 1 => Reg = "high" /\ Value = 0
  BY <1>1, <1>2 DEF HardProgram, W, Reg, Value
<1>4. p = 2 => Reg = "med" /\ Value = 2 * r.at
  BY <1>1, <1>2 DEF HardProgram, W, Reg, Value
<1>5. p = 3 => Reg = "mode" /\ Value = "command"
  BY <1>1, <1>2 DEF HardProgram, W, Reg, Value
<1>6. p = 4 => Reg = "hdc" /\ Value = r
  BY <1>1, <1>2 DEF HardProgram, W, Reg, Value
<1>7. p = 5 => Reg = "mode" /\ Value = "parameter"
  BY <1>1, <1>2 DEF HardProgram, W, Reg, Value
<1>8. p = 6 => Reg = "byte" /\ Value = 0
  BY <1>1, <1>2 DEF HardProgram, W, Reg, Value
<1>9. p = 7 => Reg = "byte" /\ Value = 0
  BY <1>1, <1>2 DEF HardProgram, W, Reg, Value
<1>10. p = 8 => Reg = "byte" /\ Value = r.block
  BY <1>1, <1>2 DEF HardProgram, W, Reg, Value
<1>11. p = 9 => Reg = "byte" /\ Value = r.n
  BY <1>1, <1>2 DEF HardProgram, W, Reg, Value
<1>12. p = 10 => Reg = "byte" /\ Value = 0
  BY <1>1, <1>2 DEF HardProgram, W, Reg, Value
<1>13. p = 11 => Reg = "wait" /\ Value = 0
  BY <1>1, <1>2 DEF HardProgram, W, Reg, Value
<1>14. p = 12 => Reg = "status" /\ Value = 0
  BY <1>1, <1>2 DEF HardProgram, W, Reg, Value
<1>15. QED
  BY <1>3, <1>4, <1>5, <1>6, <1>7, <1>8, <1>9, <1>10, <1>11, <1>12, <1>13, <1>14

-----------------------------------------------------------------------------
(* The accesses of a floppy request *)

\* A floppy request being served, with the access at place p next.
Floppy(r, p) ==
  /\ request = r /\ r \in Requests /\ r.unit = "floppy"
  /\ p \in 1 .. 21
  /\ todo = Left(r, p)
  /\ FloppyAt(r, p)

\* What the constants and the request's fields are.
LEMMA FloppyFields ==
  ASSUME NEW r, NEW p, Floppy(r, p)
  PROVE  /\ r.unit # "hard" /\ r # None /\ Length(r) = 21
         /\ r.drive \in Drives /\ r.side \in {0, 1} /\ r.track \in Nat /\ r.sector \in Nat
         /\ r.sector > 0 /\ r.sector <= Sectors /\ r.side < Sides
         /\ r.at \in 0 .. 127 /\ r.n \in Nat \ {0} /\ r.at + r.n <= RamBlocks
         /\ r.op \in {"read", "write"}
BY DriverAssumption, FloppyAssumption DEF Floppy, Length

\* Which access an action of the driver makes at each place.
LEMMA FloppyPrepares ==
  ASSUME NEW r, NEW p, Floppy(r, p), Prepare
  PROVE  /\ todo' = Left(r, p + 1) /\ request' = request /\ answer' = answer /\ told' = told
         /\ \/ p \in {1, 10} /\ SelectPort(Value[1], Value[2]) /\ Value = PortValue(r)
            \/ p = 2 /\ SetMode(Value, direction) /\ Value = "data"
            \/ p = 3 /\ SetRegister(Value) /\ Value = r.track
            \/ p \in {4, 7, 18} /\ SetMode(Value, direction) /\ Value = "control"
            \/ p = 5 /\ Command(Value) /\ Value = "seek"
            \/ p = 11 /\ SetMode("count", Value)
            \/ p = 12 /\ SetMode("count", Value)
            \/ p = 13 /\ SetCount(Value) /\ Value = r.n
            \/ p = 14 /\ SetHigh(Value) /\ Value = 0
            \/ p = 15 /\ SetMed(Value) /\ Value = 2 * r.at
            \/ p = 16 /\ SetMode(Value, direction) /\ Value = "sector"
            \/ p = 17 /\ SetRegister(Value) /\ Value = r.sector
<1>1. Tail(todo) = Left(r, p + 1)
  BY LeftFacts, FloppyFields DEF Floppy
<1>2. p \in 1 .. 21 /\ r.unit # "hard"
  BY FloppyFields DEF Floppy
<1>3. todo' = Left(r, p + 1) /\ request' = request /\ answer' = answer /\ told' = told
  BY <1>1 DEF Prepare, Go
<1>4. QED
  BY <1>2, <1>3, FloppyAccesses DEF Prepare, Floppy, Length

\* What all accesses but the two that move blocks leave alone.
Still == UNCHANGED <<image, memory, hard>>

\* Selecting drive and side (psg.c:181).
LEMMA AtPort ==
  ASSUME NEW r, NEW p, Floppy(r, p), p \in {1, 10}, ShapeInv, LineInv, answer' = answer,
         SelectPort(Value[1], Value[2]), Value = PortValue(r)
  PROVE  ShapeInv' /\ LineInv' /\ FloppyAt(r, p + 1)' /\ Still
<1>1. active' = r.drive /\ side' = r.side
  <2>1. Value[1] = 1 - r.side /\ Value[2] = IF r.drive = "A" THEN 2 ELSE 1
    BY DEF PortValue
  <2>2. r.drive \in {"A", "B"} /\ r.side \in Int
    BY FloppyFields DEF Drives
  <2>3. QED
    BY <2>1, <2>2 DEF SelectPort, SelectDrive, Selected
<1>2. UNCHANGED <<head, sector, image, memory, dmaVars, fdcVars, hdcVars, mfpVars>>
  BY DEF SelectPort, SelectDrive
<1>3. ShapeInv' /\ LineInv' /\ Still
  BY <1>2 DEF ShapeInv, LineInv, Still, dmaVars, fdcVars, hdcVars, mfpVars
<1>4. FloppyAt(r, p + 1)'
  BY <1>1, <1>2 DEF Floppy, FloppyAt, SeekAt, TransferAt, OutcomeAt, dmaVars, fdcVars
<1>5. QED
  BY <1>3, <1>4

\* The register to be reached next (dma.c:186).
LEMMA AtMode ==
  ASSUME NEW r, NEW p, Floppy(r, p), ShapeInv, LineInv, answer' = answer,
         \/ p = 2 /\ SetMode(Value, direction) /\ Value = "data"
         \/ p \in {4, 7, 18} /\ SetMode(Value, direction) /\ Value = "control"
         \/ p = 11 /\ SetMode("count", Value)
         \/ p = 12 /\ SetMode("count", Value)
         \/ p = 16 /\ SetMode(Value, direction) /\ Value = "sector"
  PROVE  ShapeInv' /\ LineInv' /\ FloppyAt(r, p + 1)' /\ Still
<1>1. UNCHANGED <<address, fdcVars, hdcVars, floppyVars, mfpVars>>
  BY DEF SetMode
<1>2. ShapeInv' /\ LineInv' /\ Still
  BY <1>1 DEF ShapeInv, LineInv, Still, fdcVars, hdcVars, floppyVars, mfpVars
<1>3. /\ p = 2 => mode' = "data"
      /\ p \in {4, 7, 18} => mode' = "control"
      /\ p \in {11, 12} => mode' = "count"
      /\ p = 16 => mode' = "sector"
      /\ p \notin {11, 12} => count' = count
  BY DEF SetMode
<1>4. p \in {2, 4, 7, 11, 12, 16, 18}
  OBVIOUS
<1>5. FloppyAt(r, p + 1)'
  BY <1>1, <1>3, <1>4 DEF Floppy, FloppyAt, SeekAt, TransferAt, OutcomeAt, fdcVars, floppyVars
<1>6. QED
  BY <1>2, <1>5

\* A byte of the address keeps the other part of it (dma.c:150).
LEMMA AddressHigh == ASSUME NEW a \in Nat PROVE ((0 % 64) * 128) + (a % 128) \in 0 .. 127
<1>1. 0 % 64 = 0 /\ a % 128 \in 0 .. 127
  OBVIOUS
<1>2. QED
  BY <1>1

\* The middle byte of the address sets the block and leaves nothing of the old one.
LEMMA AddressLow ==
  ASSUME NEW a \in 0 .. 127, NEW b \in 0 .. 127
  PROVE  ((a \div 128) * 128) + ((2 * b) \div 2) = b
<1>1. a \div 128 = 0 /\ (2 * b) \div 2 = b
  OBVIOUS
<1>2. QED
  BY <1>1

\* Count and address (dma.c:73).
LEMMA AtDma ==
  ASSUME NEW r, NEW p, Floppy(r, p), ShapeInv, LineInv, answer' = answer,
         \/ p = 13 /\ SetCount(Value) /\ Value = r.n
         \/ p = 14 /\ SetHigh(Value) /\ Value = 0
         \/ p = 15 /\ SetMed(Value) /\ Value = 2 * r.at
  PROVE  ShapeInv' /\ LineInv' /\ FloppyAt(r, p + 1)' /\ Still
<1>1. UNCHANGED <<mode, direction, noError, fdcVars, hdcVars, floppyVars, mfpVars>>
  BY DEF SetCount, SetHigh, SetMed
<1>2. /\ p = 13 => count' = r.n /\ address' = address
      /\ p = 14 => count' = count /\ address' \in 0 .. 127
      /\ p = 15 => count' = count /\ address' = r.at
  <2>1. CASE p = 13
    BY <2>1 DEF SetCount
  <2>2. CASE p = 14
    BY <2>2, AddressHigh DEF SetHigh, ShapeInv
  <2>3. CASE p = 15
    <3>1. address \in 0 .. 127 /\ r.at \in 0 .. 127
      <4>1. address \in Nat
        BY DEF ShapeInv
      <4>2. address < 128
        BY <2>3 DEF Floppy, FloppyAt, TransferAt
      <4>3. QED
        BY <4>1, <4>2, FloppyFields
    <3>2. QED
      BY <2>3, <3>1, AddressLow DEF SetMed
  <2>4. QED
    BY <2>1, <2>2, <2>3
<1>3. p \in {13, 14, 15} /\ r.at \in Nat
  BY FloppyFields
<1>6. address' \in Nat
  <2>1. address \in Nat /\ 0 .. 127 \subseteq Nat
    BY DEF ShapeInv
  <2>2. address' \in {address, r.at} \cup 0 .. 127
    BY <1>2, <1>3
  <2>3. QED
    BY <1>3, <2>1, <2>2
<1>4. ShapeInv' /\ LineInv' /\ Still
  BY <1>1, <1>6 DEF ShapeInv, LineInv, Still, fdcVars, hdcVars, floppyVars, mfpVars
<1>5. p = 14 => address' < 128
  BY <1>2
<1>7. TransferAt(r, p + 1)'
  BY <1>1, <1>2, <1>3, <1>5 DEF Floppy, FloppyAt, TransferAt, floppyVars
<1>8. SeekAt(r, p + 1)' /\ OutcomeAt(r, p + 1)'
  BY <1>1, <1>3 DEF Floppy, FloppyAt, SeekAt, OutcomeAt, fdcVars, floppyVars
<1>9. QED
  BY <1>4, <1>7, <1>8 DEF FloppyAt

\* Track and sector registers of an idle controller (fdc.c:202).
LEMMA AtRegister ==
  ASSUME NEW r, NEW p, Floppy(r, p), ShapeInv, LineInv, answer' = answer,
         \/ p = 3 /\ SetRegister(Value) /\ Value = r.track
         \/ p = 17 /\ SetRegister(Value) /\ Value = r.sector
  PROVE  ShapeInv' /\ LineInv' /\ FloppyAt(r, p + 1)' /\ Still
<1>1. /\ UNCHANGED <<busy, timer, inward, typeI, seekError>>
      /\ UNCHANGED <<active, head, side, image, memory, dmaVars, hdcVars, mfpVars>>
  BY DEF SetRegister
<1>2. ~busy /\ r.sector \in Int /\ r.drive \in Drives
  BY FloppyFields DEF Floppy, FloppyAt, OutcomeAt
<1>3. /\ p = 3 => data' = r.track /\ UNCHANGED <<track, sector>>
      /\ p = 17 => /\ UNCHANGED <<track, data>>
                   /\ sector' = [sector EXCEPT ![r.drive] = r.sector]
  BY <1>2 DEF SetRegister, SelectSector, Ready, Floppy, FloppyAt, SeekAt, TransferAt
<1>4. p \in {3, 17}
  OBVIOUS
<1>5. sector' \in [Drives -> Int] /\ (p = 17 => sector'[r.drive] = r.sector)
  BY <1>2, <1>3, <1>4 DEF ShapeInv
<1>6. ShapeInv' /\ LineInv' /\ Still
  BY <1>1, <1>5 DEF ShapeInv, LineInv, Still, dmaVars, hdcVars, mfpVars
<1>7. FloppyAt(r, p + 1)'
  BY <1>1, <1>2, <1>3, <1>4, <1>5
     DEF Floppy, FloppyAt, SeekAt, TransferAt, OutcomeAt, dmaVars
<1>8. QED
  BY <1>6, <1>7

\* A seek starts from the drive and the data register the driver has set (floppy.c:62).
LEMMA AtSeek ==
  ASSUME NEW r, NEW p, Floppy(r, p), ShapeInv, LineInv, answer' = answer,
         p = 5, Command(Value), Value = "seek"
  PROVE  ShapeInv' /\ LineInv' /\ FloppyAt(r, p + 1)' /\ Still
<1>1. ~busy /\ active = r.drive /\ data = r.track /\ answer = "none"
  BY DEF Floppy, FloppyAt, SeekAt, OutcomeAt
<1>2. HeadCommand(Seek(data), inward)
  BY <1>1 DEF Command, Moves, Transfers
<1>3. /\ busy' = TRUE /\ timer' = PendingTime /\ gpip' = gpip \cup {5} /\ typeI' = TRUE
      /\ UNCHANGED <<active, sector, side, image, memory, dmaVars, hdcVars>>
  BY <1>2 DEF HeadCommand, Begin, SetGPIP
<1>4. Seek(data).to = Target(r) /\ (Seek(data).ok <=> r.track <= Tracks) /\ Target(r) \in Int
  <2>1. r.track \in Int /\ Tracks \in Int
    BY FloppyFields, FloppyAssumption
  <2>2. Seek(data).to = Target(r) /\ Target(r) \in Int
    BY <1>1, <2>1 DEF Seek, Target
  <2>3. Seek(data).ok = (r.track <= Tracks)
    BY <1>1 DEF Seek
  <2>4. QED
    BY <2>2, <2>3
<1>5. Ready <=> r.drive \in Inserted
  BY <1>1 DEF Ready
<1>6. seekError' <=> ~Found(r)
  BY <1>2, <1>4, <1>5 DEF HeadCommand, Found
<1>7. head' = IF r.drive \in Inserted THEN [head EXCEPT ![r.drive] = Target(r)] ELSE head
  BY <1>1, <1>2, <1>4, <1>5 DEF HeadCommand, MoveHead
<1>8. Found(r) => track' = Target(r)
  BY <1>2, <1>4, <1>5 DEF HeadCommand, Found
<1>9. head' \in [Drives -> Int] /\ (Found(r) => head'[r.drive] = Target(r))
  BY <1>4, <1>7, FloppyFields DEF ShapeInv, Found
<1>10. ShapeInv' /\ LineInv' /\ Still
  BY <1>3, <1>9, DiskAssumption DEF ShapeInv, LineInv, Still, dmaVars, hdcVars
<1>11. FloppyAt(r, p + 1)'
  <2>1. p + 1 = 6 /\ typeI' /\ (seekError' <=> ~Found(r)) /\ answer' = "none"
    BY <1>1, <1>3, <1>6
  <2>2. SeekAt(r, 6)'
    BY <1>8, <1>9, <2>1 DEF SeekAt
  <2>3. TransferAt(r, 6)' /\ OutcomeAt(r, 6)'
    BY <2>1 DEF TransferAt, OutcomeAt
  <2>4. QED
    BY <2>1, <2>2, <2>3 DEF FloppyAt
<1>12. QED
  BY <1>10, <1>11

\* An access before the transfer leads on to the next.
LEMMA FloppyPrepared ==
  ASSUME NEW r, NEW p, Floppy(r, p), ShapeInv, LineInv, Prepare
  PROVE  /\ ShapeInv' /\ LineInv' /\ Floppy(r, p + 1)' /\ Still
         /\ UNCHANGED <<request, answer, told>>
<1>1. p + 1 \in 1 .. 21
  BY FloppyPrepares DEF Floppy
<1>2. ShapeInv' /\ LineInv' /\ FloppyAt(r, p + 1)' /\ Still
  BY FloppyPrepares, AtPort, AtMode, AtDma, AtRegister, AtSeek
<1>3. QED
  BY <1>1, <1>2, FloppyPrepares DEF Floppy, Left

-----------------------------------------------------------------------------
(* Waits, looks at the results, and what goes on meanwhile *)

\* A poll ends commands and changes no register (fdc.c:241).
LEMMA PollKeeps ==
  ASSUME NEW c \in Cycles, PollRound(c), ShapeInv, LineInv
  PROVE  /\ ShapeInv' /\ LineInv' /\ (busy' => busy)
         /\ UNCHANGED <<track, data, inward, typeI, seekError, dmaVars, hdcVars, floppyVars>>
         /\ UNCHANGED <<request, todo, answer, told>>
<1>1. UNCHANGED <<track, data, inward, typeI, seekError, dmaVars, hdcVars, floppyVars>>
  BY DEF PollRound, Poll
<1>2. UNCHANGED <<request, todo, answer, told>>
  BY DEF PollRound
<1>3. timer' \in Int
  BY DiskAssumption DEF PollRound, Poll, Count, ShapeInv
<1>4. ShapeInv'
  BY <1>1, <1>3 DEF ShapeInv, dmaVars, hdcVars, floppyVars
<1>5. busy' <=> (busy /\ timer > 0)
  BY Zenon DEF PollRound, Poll, Count
<1>6. gpip' = gpip \ Ends
  BY DEF PollRound, Poll, InterruptPass
<1>7. LineInv'
  <2>1. timer \in Int
    BY DEF ShapeInv
  <2>2. CASE timer > 0
    <3>1. Ends = {}
      BY <2>1, <2>2 DEF Ends
    <3>2. QED
      BY <1>5, <1>6, <2>2, <3>1 DEF LineInv
  <2>3. CASE ~(timer > 0)
    <3>1. busy => Ends = {5}
      BY <2>1, <2>3 DEF Ends
    <3>2. 5 \notin gpip'
      BY <1>6, <3>1 DEF LineInv
    <3>3. ~busy'
      BY <1>5, <2>3
    <3>4. QED
      BY <3>2, <3>3 DEF LineInv
  <2>4. QED
    BY <2>2, <2>3
<1>8. QED
  BY <1>1, <1>2, <1>4, <1>5, <1>7

\* Where the driver waits, looks at a result or moves sectors.
LEMMA FloppyPlaces ==
  ASSUME NEW r, NEW p, Floppy(r, p)
  PROVE  /\ Reg = "wait" => p \in {6, 20}
         /\ Reg = "seeked" => p = 8
         /\ Reg = "track" => p = 9
         /\ Reg = "status" => p = 21
         /\ Reg = "fdc" => p \in {5, 19}
         /\ p = 5 => Value = "seek"
         /\ p = 19 => Value = IF r.op = "read" THEN "readsecs" ELSE "writesecs"
         /\ Reg \notin {"hdc", "byte"}
         /\ Tail(todo) = Left(r, p + 1)
<1>1. p \in 1 .. 21 /\ Length(r) = 21 /\ r.unit # "hard" /\ todo = Left(r, p)
  BY FloppyFields DEF Floppy
<1>2. Tail(todo) = Left(r, p + 1)
  BY <1>1, LeftFacts
<1>3. /\ p \in {1, 10} => Reg = "port"
      /\ p \in {2, 4, 7, 16, 18} => Reg = "mode"
      /\ p \in {3, 17} => Reg = "register"
  BY <1>1, FloppyAccesses
<1>4. /\ p = 5 => Reg = "fdc" /\ Value = "seek"
      /\ p = 8 => Reg = "seeked"
      /\ p = 9 => Reg = "track"
      /\ p \in {11, 12} => Reg = "toggle"
  BY <1>1, FloppyAccesses
<1>5. /\ p = 13 => Reg = "count"
      /\ p = 14 => Reg = "high"
      /\ p = 15 => Reg = "med"
      /\ p \in {6, 20} => Reg = "wait"
  BY <1>1, FloppyAccesses
<1>6. /\ p = 19 => Reg = "fdc" /\ Value = (IF r.op = "read" THEN "readsecs" ELSE "writesecs")
      /\ p = 21 => Reg = "status"
  BY <1>1, FloppyAccesses
<1>7. \/ p \in {1, 10} \/ p \in {2, 4, 7, 16, 18} \/ p \in {3, 17} \/ p = 5 \/ p = 8
      \/ p = 9 \/ p \in {11, 12} \/ p = 13 \/ p = 14 \/ p = 15 \/ p \in {6, 20}
      \/ p = 19 \/ p = 21
  BY <1>1
<1>8. QED
  BY <1>2, <1>3, <1>4, <1>5, <1>6, <1>7

\* A request does not move on while the registers and what it has left stay.
LEMMA FloppyRests ==
  ASSUME NEW r, NEW p, Floppy(r, p), p \in {6, 20} \/ ~busy', busy' => busy,
         UNCHANGED <<todo, request, answer, track, data, typeI, seekError, dmaVars, floppyVars>>
  PROVE  Floppy(r, p)'
BY DEF Floppy, FloppyAt, SeekAt, TransferAt, OutcomeAt, dmaVars, floppyVars, Left

\* Looking at the line (fdc.c:258).
LEMMA FloppyWaits ==
  ASSUME NEW r, NEW p, Floppy(r, p), ShapeInv, LineInv, Wait
  PROVE  ShapeInv' /\ LineInv' /\ (Floppy(r, p)' \/ Floppy(r, p + 1)') /\ Still
<1>1. UNCHANGED <<chipVars, request, answer, told>> /\ p \in {6, 20}
  BY FloppyPlaces DEF Wait
<1>2. ShapeInv' /\ LineInv' /\ Still
  BY <1>1 DEF ShapeInv, LineInv, Still, chipVars, floppyVars, fdcVars, dmaVars, hdcVars, mfpVars
<1>3. CASE 5 \in gpip
  <2>1. todo' = todo /\ UNCHANGED <<busy, track, data, typeI, seekError, dmaVars, floppyVars>>
    BY <1>1, <1>3 DEF Wait, chipVars, fdcVars
  <2>2. Floppy(r, p)'
    BY <1>1, <2>1, FloppyRests
  <2>3. QED
    BY <1>2, <2>2
<1>4. CASE 5 \notin gpip
  <2>1. ~busy /\ todo' = Left(r, p + 1)
    BY <1>4, FloppyPlaces DEF LineInv, Wait
  <2>2. FloppyAt(r, p + 1)'
    BY <1>1, <2>1 DEF Floppy, FloppyAt, SeekAt, TransferAt, OutcomeAt,
       chipVars, dmaVars, fdcVars, floppyVars
  <2>3. QED
    BY <1>1, <1>2, <2>1, <2>2 DEF Floppy, Left
<1>5. QED
  BY <1>2, <1>3, <1>4

\* What runs meanwhile changes drive, side and mode only (fdc.c:202).
LEMMA MeddleKeeps ==
  ASSUME ShapeInv, LineInv, Meddle
  PROVE  /\ ShapeInv' /\ LineInv' /\ Still /\ busy
         /\ UNCHANGED <<address, count, fdcVars, hdcVars, head, sector>> /\ (noError' <=> noError)
         /\ UNCHANGED <<request, todo, answer, told>>
<1>1. busy /\ UNCHANGED <<request, todo, answer, told>>
  BY DEF Meddle, LineInv
<1> DEFINE Rest == /\ UNCHANGED <<address, count, fdcVars, hdcVars, head, sector, image, memory, mfpVars>>
                   /\ noError' <=> noError
<1>2. Rest
  <2>1. CASE SelectPort(0, 3)
    BY <2>1 DEF SelectPort, SelectDrive, dmaVars
  <2>2. ASSUME NEW m, SetMode(m, direction) PROVE Rest
    BY <2>2 DEF SetMode, floppyVars
  <2>3. ASSUME NEW b \in Meddling, SetRegister(b) PROVE Rest
    BY <1>1, <2>3 DEF SetRegister, dmaVars, fdcVars
  <2>4. CASE Command("restore")
    BY <1>1, <2>4 DEF Command, Moves, Transfers, HeadCommand, DataCommand, Begin, dmaVars, floppyVars
  <2>5. QED
    BY <2>1, <2>2, <2>3, <2>4 DEF Meddle
<1>3. ShapeInv' /\ LineInv' /\ Still
  BY <1>2 DEF ShapeInv, LineInv, Still, fdcVars, hdcVars, mfpVars
<1>4. QED
  BY <1>1, <1>2, <1>3

\* The interrupt handler runs only while the driver waits, and what the driver relies on
\* then is written again or out of its reach: the controller is busy (fdc.c:202).
LEMMA FloppyMeddled ==
  ASSUME NEW r, NEW p, Floppy(r, p), ShapeInv, LineInv, Meddle
  PROVE  ShapeInv' /\ LineInv' /\ Floppy(r, p)' /\ Still
<1>1. p \in {6, 20}
  BY FloppyPlaces DEF Meddle
<1>2. FloppyAt(r, p)'
  BY <1>1, MeddleKeeps DEF Floppy, FloppyAt, SeekAt, TransferAt, OutcomeAt, fdcVars
<1>3. QED
  BY <1>2, MeddleKeeps DEF Floppy, Left

\* Looking at the seek: on to the transfer, or to the status (floppy.c:62).
LEMMA FloppyVerifies ==
  ASSUME NEW r, NEW p, Floppy(r, p), ShapeInv, LineInv, Verify
  PROVE  /\ ShapeInv' /\ LineInv' /\ Still /\ UNCHANGED <<request, told>>
         /\ \/ Floppy(r, p + 1)' /\ answer' = answer
            \/ /\ Floppy(r, 21)' /\ answer = "none" /\ answer' = "failed"
               /\ r.drive \notin Inserted \/ r.track >= Tracks
<1>1. p \in {8, 9} /\ (Reg = "seeked" <=> p = 8)
  BY FloppyPlaces DEF Verify
<1>2. UNCHANGED <<request, told>>
  BY DEF Verify
<1>3. /\ UNCHANGED <<busy, timer, track, data, inward, typeI, dmaVars, hdcVars, floppyVars, mfpVars>>
      /\ seekError' <=> seekError
  <2>1. CASE Reg = "seeked"
    <3>1. typeI
      BY <1>1 DEF Floppy, FloppyAt, SeekAt
    <3>2. ReadStatus
      BY <2>1 DEF Verify
    <3>3. seekError' <=> seekError
      BY <3>1, <3>2, Zenon DEF ReadStatus
    <3>4. QED
      BY <3>2, <3>3 DEF ReadStatus
  <2>2. CASE Reg # "seeked"
    BY <2>2 DEF Verify, chipVars, fdcVars
  <2>3. QED
    BY <2>1, <2>2
<1>4. ShapeInv' /\ LineInv' /\ Still
  BY <1>3 DEF ShapeInv, LineInv, Still, floppyVars, dmaVars, hdcVars, mfpVars
<1>5. /\ ~busy /\ answer = "none" /\ (seekError <=> ~Found(r))
      /\ ~seekError => head[r.drive] = Target(r) /\ track = Target(r)
      /\ p = 9 => ~seekError
  BY <1>1 DEF Floppy, FloppyAt, SeekAt, OutcomeAt
<1>6. Tracks \in Nat \ {0} /\ r.track \in Nat
  BY FloppyFields, FloppyAssumption
<1>7. CASE IF Reg = "seeked" THEN seekError ELSE track # r.track
  <2>1. answer' = "failed" /\ todo' = <<W("status", 0)>>
    BY <1>7 DEF Verify, Floppy
  <2>2. r.drive \notin Inserted \/ r.track >= Tracks
    BY <1>1, <1>5, <1>6, <1>7 DEF Found, Target
  <2>3. ~(~seekError' /\ track' = r.track)
    BY <1>1, <1>3, <1>7
  <2>4. FloppyAt(r, 21)'
    BY <1>3, <1>5, <2>1, <2>3 DEF FloppyAt, SeekAt, TransferAt, OutcomeAt
  <2>5. Floppy(r, 21)'
    BY <1>2, <2>1, <2>4, FloppyFields, LeftStatus DEF Floppy, Left
  <2>6. QED
    BY <1>2, <1>4, <1>5, <2>1, <2>2, <2>5
<1>8. CASE ~(IF Reg = "seeked" THEN seekError ELSE track # r.track)
  <2>1. answer' = answer /\ todo' = Left(r, p + 1)
    BY <1>8, FloppyPlaces DEF Verify, Floppy
  <2>2. ~seekError' /\ Found(r) /\ head'[r.drive] = Target(r) /\ track' = Target(r)
    BY <1>1, <1>3, <1>5, <1>8 DEF floppyVars
  <2>3. p = 9 => Target(r) = r.track /\ r.track < Tracks
    BY <1>1, <1>3, <1>6, <1>8, <2>2 DEF Target
  <2>4. FloppyAt(r, p + 1)'
    BY <1>1, <1>3, <1>5, <2>1, <2>2, <2>3
       DEF Floppy, FloppyAt, SeekAt, TransferAt, OutcomeAt, Found, dmaVars
  <2>5. Floppy(r, p + 1)'
    BY <1>1, <1>2, <2>1, <2>4 DEF Floppy, Left
  <2>6. QED
    BY <1>2, <1>4, <2>1, <2>5
<1>9. QED
  BY <1>7, <1>8

-----------------------------------------------------------------------------
(* Sector addresses and blocks of an image *)

\* The block of an image that holds a sector.
Linear(a) == (a[1] * Sides + a[2]) * Sectors + a[3] - 1

\* Sector addresses, of tracks beyond the disk as well.
Wide == Nat \X (0 .. Sides - 1) \X (1 .. Sectors)

\* Rows of k blocks follow one another.
LEMMA Rows ==
  ASSUME NEW k \in Nat
  PROVE  /\ \A x \in Nat : x * k \in Nat /\ (x + 1) * k = x * k + k
         /\ \A x, y \in Nat : x < y => x * k + k <= y * k
<1>1. \A x \in Nat : x * k \in Nat /\ (x + 1) * k = x * k + k
  OBVIOUS
<1>2. ASSUME NEW x \in Nat, NEW y \in Nat, x < y PROVE x * k + k <= y * k
  <2> DEFINE d == y - x - 1
  <2>1. d \in Nat
    BY <1>2
  <2>2. y = x + 1 + d
    OBVIOUS
  <2>3. d * k \in Nat
    BY <1>1, <2>1
  <2> HIDE DEF d
  <2>4. (x + 1 + d) * k = x * k + k + d * k
    BY <2>1
  <2>5. QED
    BY <1>1, <2>2, <2>3, <2>4
<1>3. QED
  BY <1>1, <1>2

\* Row and place in the row of an address.
LEMMA LinearRow ==
  ASSUME NEW a \in Wide
  PROVE  /\ a[1] \in Nat /\ a[2] \in 0 .. Sides - 1 /\ a[3] \in 1 .. Sectors
         /\ a[1] * Sides + a[2] \in Nat
         /\ Linear(a) = (a[1] * Sides + a[2]) * Sectors + a[3] - 1
         /\ Linear(a) \in Nat
<1>1. a[1] \in Nat /\ a[2] \in 0 .. Sides - 1 /\ a[3] \in 1 .. Sectors
  BY DEF Wide
<1>2. Sides \in {1, 2} /\ Sectors \in Nat
  BY FloppyAssumption
<1>3. a[1] * Sides + a[2] \in Nat
  BY <1>1, <1>2
<1>4. (a[1] * Sides + a[2]) * Sectors \in Nat
  BY <1>2, <1>3, Rows
<1>5. QED
  BY <1>1, <1>3, <1>4 DEF Linear

\* Sectors that follow one another lie in blocks that do (floppy_st.c:12).
LEMMA AfterLinear ==
  ASSUME NEW a \in Wide
  PROVE  Store!After(a) \in Wide /\ Linear(Store!After(a)) = Linear(a) + 1
<1>1. /\ a[1] \in Nat /\ a[2] \in 0 .. Sides - 1 /\ a[3] \in 1 .. Sectors
      /\ a[1] * Sides + a[2] \in Nat
  BY LinearRow
<1>2. Sides \in {1, 2} /\ Sectors \in Nat \ {0}
  BY FloppyAssumption
<1> DEFINE x == a[1] * Sides + a[2]
<1>3. x * Sectors \in Nat /\ (x + 1) * Sectors = x * Sectors + Sectors
  BY <1>1, <1>2, Rows
<1>4. CASE a[3] < Sectors
  <2>1. Store!After(a) = <<a[1], a[2], a[3] + 1>>
    BY <1>4 DEF Store!After
  <2>2. QED
    BY <1>1, <1>2, <1>3, <1>4, <2>1 DEF Wide, Linear
<1>5. CASE ~(a[3] < Sectors) /\ a[2] < Sides - 1
  <2>1. Store!After(a) = <<a[1], a[2] + 1, 1>> /\ a[3] = Sectors
    BY <1>1, <1>2, <1>5 DEF Store!After
  <2>2. a[1] * Sides + (a[2] + 1) = x + 1
    BY <1>1, <1>2
  <2>3. QED
    BY <1>1, <1>2, <1>3, <1>5, <2>1, <2>2 DEF Wide, Linear
<1>6. CASE ~(a[3] < Sectors) /\ ~(a[2] < Sides - 1)
  <2>1. Store!After(a) = <<a[1] + 1, 0, 1>> /\ a[3] = Sectors /\ a[2] = Sides - 1
    BY <1>1, <1>2, <1>6 DEF Store!After
  <2>2. (a[1] + 1) * Sides + 0 = x + 1
    BY <1>1, <1>2, <2>1
  <2>3. QED
    BY <1>1, <1>2, <1>3, <2>1, <2>2 DEF Wide, Linear
<1>7. QED
  BY <1>4, <1>5, <1>6

\* A block holds one sector.
LEMMA LinearInjective ==
  ASSUME NEW a \in Wide, NEW b \in Wide, Linear(a) = Linear(b)
  PROVE  a = b
<1> DEFINE x == a[1] * Sides + a[2]
           y == b[1] * Sides + b[2]
<1>1. /\ x \in Nat /\ y \in Nat /\ Sectors \in Nat /\ Sides \in {1, 2}
      /\ a[3] \in 1 .. Sectors /\ b[3] \in 1 .. Sectors
      /\ x * Sectors \in Nat /\ y * Sectors \in Nat
      /\ x * Sectors + a[3] - 1 = y * Sectors + b[3] - 1
  BY LinearRow, FloppyAssumption, Rows
<1>2. /\ x < y => x * Sectors + Sectors <= y * Sectors
      /\ y < x => y * Sectors + Sectors <= x * Sectors
  BY <1>1, Rows
<1>3. x = y /\ a[3] = b[3]
  <2> DEFINE u == x * Sectors
             v == y * Sectors
  <2>1. /\ u \in Nat /\ v \in Nat /\ u + a[3] - 1 = v + b[3] - 1
        /\ x < y => u + Sectors <= v
        /\ y < x => v + Sectors <= u
        /\ x = y => u = v
    BY <1>1, <1>2
  <2> HIDE DEF u, v, x, y
  <2>2. ~(x < y) /\ ~(y < x)
    BY <1>1, <2>1
  <2>3. x = y
    BY <1>1, <2>2
  <2>4. QED
    BY <1>1, <2>1, <2>3
<1>4. a[1] = b[1] /\ a[2] = b[2]
  <2>1. /\ a[1] \in Nat /\ a[2] \in 0 .. Sides - 1 /\ b[1] \in Nat /\ b[2] \in 0 .. Sides - 1
    BY LinearRow
  <2>2. a[1] * Sides + a[2] = b[1] * Sides + b[2]
    BY <1>3
  <2>3. CASE Sides = 1
    BY <2>1, <2>2, <2>3
  <2>4. CASE Sides = 2
    BY <2>1, <2>2, <2>4
  <2>5. QED
    BY <1>1, <2>3, <2>4
<1>5. QED
  BY <1>3, <1>4 DEF Wide

\* The addresses of a disk are those of its blocks; the last block is not served.
LEMMA LinearInside ==
  ASSUME NEW a \in Wide
  PROVE  /\ a \in Store!Addresses => Linear(a) \in Disk
         /\ a \in Store!Addresses \ {Store!Last} <=> Linear(a) \in 0 .. Size - 2
<1> DEFINE x == a[1] * Sides + a[2]
           n == Tracks * Sides
<1>1. /\ Sides \in {1, 2} /\ Sectors \in Nat \ {0} /\ Tracks \in Nat \ {0}
      /\ a[1] \in Nat /\ a[2] \in 0 .. Sides - 1 /\ a[3] \in 1 .. Sectors
      /\ x \in Nat /\ Linear(a) = x * Sectors + a[3] - 1 /\ Linear(a) \in Nat
  BY LinearRow, FloppyAssumption
<1>2. n \in Nat \ {0} /\ (x < n <=> a[1] < Tracks)
  BY <1>1
<1>3. Size = n * Sectors /\ x * Sectors \in Nat /\ n * Sectors \in Nat
  BY <1>1, <1>2, Rows DEF Size
<1>4. /\ x < n => x * Sectors + Sectors <= n * Sectors
      /\ n < x => n * Sectors + Sectors <= x * Sectors
  BY <1>1, <1>2, Rows
<1>5. a \in Store!Addresses <=> a[1] < Tracks
  BY <1>1 DEF Store!Addresses, Wide
<1>6. a \in Store!Addresses <=> Linear(a) <= Size - 1
  <2> HIDE DEF x, n
  <2>1. x < n => Linear(a) <= Size - 1
    BY <1>1, <1>2, <1>3, <1>4
  <2>2. ~(x < n) => Linear(a) > Size - 1
    BY <1>1, <1>2, <1>3, <1>4
  <2>3. Linear(a) \in Int /\ Size \in Int
    BY <1>1, <1>3
  <2>4. QED
    BY <1>2, <1>5, <2>1, <2>2, <2>3
<1>7. Store!Last \in Wide /\ Linear(Store!Last) = Size - 1
  <2>1. Store!Last = <<Tracks - 1, Sides - 1, Sectors>>
    BY DEF Store!Last
  <2>2. (Tracks - 1) * Sides + (Sides - 1) = n - 1 /\ n - 1 \in Nat
    BY <1>1, <1>2
  <2>3. (n - 1) * Sectors + Sectors = n * Sectors /\ (n - 1) * Sectors \in Nat
    <3>1. \A z \in Nat : z * Sectors \in Nat /\ (z + 1) * Sectors = z * Sectors + Sectors
      BY <1>1, Rows
    <3>2. (n - 1) + 1 = n
      BY <1>2
    <3> HIDE DEF n
    <3>3. QED
      BY <2>2, <3>1, <3>2
  <2>4. Store!Last \in Wide
    BY <1>1, <2>1 DEF Wide
  <2>5. Linear(Store!Last) = (n - 1) * Sectors + Sectors - 1
    BY <2>1, <2>2 DEF Linear
  <2>6. QED
    BY <1>1, <1>3, <2>3, <2>4, <2>5
<1>8. a = Store!Last <=> Linear(a) = Size - 1
  BY <1>7, LinearInjective
<1>9. Size \in Int
  BY <1>3
<1>10. QED
  BY <1>1, <1>6, <1>8, <1>9 DEF Disk

-----------------------------------------------------------------------------
(* Runs of sectors *)

\* A set of numbers has a least one.
LEMMA LeastBelow ==
  ASSUME NEW R, IsWellFoundedOn(R, Nat), \A x, y \in Nat : <<y, x>> \in R <=> y < x,
         NEW T \in SUBSET Nat, T # {}
  PROVE  \E x \in T : \A y \in T : x <= y
<1>1. PICK x \in T : \A y \in T : ~ (<<y, x>> \in R)
  BY WFMin, Zenon
<1>2. \A y \in T : ~ (y < x)
  BY <1>1
<1>3. QED
  BY <1>2

\* The least element of a set of numbers, by which a run of sectors is followed to where
\* it first goes wrong.
LEMMA LeastNumber ==
  ASSUME NEW T \in SUBSET Nat, T # {}
  PROVE  \E x \in T : \A y \in T : x <= y
<1>1. IsWellFoundedOn(OpToRel(<, Nat), Nat)
  BY NatLessThanWellFounded
<1>2. \A x, y \in Nat : <<y, x>> \in OpToRel(<, Nat) <=> y < x
  BY DEF OpToRel
<1>3. QED
  BY <1>1, <1>2, LeastBelow, Zenon

\* The sectors of a run of n + 1, the first at a.
Run(f, a, n) == f = [i \in 0 .. n |-> IF i = 0 THEN a ELSE Store!After(f[i - 1])]

\* There are runs of every length.
LEMMA RunExists ==
  ASSUME NEW a, NEW n \in Nat
  PROVE  \E f : Run(f, a, n)
<1> DEFINE T == {m \in Nat : ~\E f : Run(f, a, m)}
<1>1. SUFFICES ASSUME T # {} PROVE FALSE
  BY <1>1
<1>2. PICK m \in T : \A k \in T : m <= k
  BY <1>1, LeastNumber
<1>3. CASE m = 0
  <2> DEFINE f == [i \in 0 .. 0 |-> a]
  <2>1. Run(f, a, 0)
    BY DEF Run
  <2>2. QED
    BY <1>2, <1>3, <2>1
<1>4. CASE m # 0
  <2>1. m - 1 \in Nat /\ m - 1 \notin T
    BY <1>2, <1>4
  <2>2. PICK f : Run(f, a, m - 1)
    BY <2>1
  <2> DEFINE g == [i \in 0 .. m |-> IF i = m THEN Store!After(f[m - 1]) ELSE f[i]]
  <2>3. ASSUME NEW i \in 0 .. m PROVE g[i] = IF i = 0 THEN a ELSE Store!After(g[i - 1])
    <3>1. CASE i = m
      <4>1. i # 0 /\ i - 1 \in 0 .. m /\ i - 1 # m
        BY <1>2, <1>4, <3>1
      <4>2. g[i - 1] = f[m - 1]
        BY <3>1, <4>1
      <4>3. QED
        BY <3>1, <4>1, <4>2
    <3>2. CASE i # m
      <4>1. i \in 0 .. m - 1 /\ g[i] = f[i]
        BY <1>2, <3>2
      <4>2. f[i] = IF i = 0 THEN a ELSE Store!After(f[i - 1])
        BY <2>2, <4>1 DEF Run
      <4>3. i # 0 => i - 1 \in 0 .. m /\ i - 1 # m
        BY <1>2, <4>1
      <4>4. i # 0 => g[i - 1] = f[i - 1]
        BY <4>3
      <4>5. QED
        BY <4>1, <4>2, <4>4
    <3>3. QED
      BY <3>1, <3>2
  <2>4. Run(g, a, m)
    BY <2>3 DEF Run
  <2>5. QED
    BY <1>2, <2>4
<1>5. QED
  BY <1>3, <1>4

\* The store's run of sectors is one.
LEMMA AlongRun ==
  ASSUME NEW a, NEW n \in Nat
  PROVE  Run(Store!Along(a, n), a, n)
<1>1. Store!Along(a, n) = CHOOSE f : Run(f, a, n)
  BY DEF Store!Along, Run
<1>2. QED
  BY <1>1, RunExists

\* The sectors of a run lie in successive blocks.
LEMMA RunLinear ==
  ASSUME NEW a \in Wide, NEW n \in Nat, NEW f, Run(f, a, n), NEW i \in 0 .. n
  PROVE  f[i] \in Wide /\ Linear(f[i]) = Linear(a) + i
<1> DEFINE T == {k \in 0 .. n : ~(f[k] \in Wide /\ Linear(f[k]) = Linear(a) + k)}
<1>1. SUFFICES ASSUME T # {} PROVE FALSE
  BY <1>1
<1>2. PICK m \in T : \A k \in T : m <= k
  <2>1. T \in SUBSET Nat
    OBVIOUS
  <2>2. QED
    BY <1>1, <2>1, LeastNumber
<1>3. m \in 0 .. n /\ f[m] = IF m = 0 THEN a ELSE Store!After(f[m - 1])
  BY DEF Run
<1>4. Linear(a) \in Nat
  BY LinearRow
<1>5. CASE m = 0
  BY <1>2, <1>3, <1>4, <1>5
<1>6. CASE m # 0
  <2>1. m - 1 \in 0 .. n /\ m - 1 \notin T
    BY <1>2, <1>3, <1>6
  <2>2. f[m - 1] \in Wide /\ Linear(f[m - 1]) = Linear(a) + (m - 1)
    BY <2>1
  <2>3. f[m] \in Wide /\ Linear(f[m]) = Linear(a) + (m - 1) + 1
    BY <1>3, <1>6, <2>2, AfterLinear
  <2>4. QED
    BY <1>2, <1>3, <1>4, <2>3
<1>7. QED
  BY <1>5, <1>6

\* A request starts at a sector address.
LEMMA StartWide ==
  ASSUME NEW r, NEW p, Floppy(r, p)
  PROVE  Store!Start(r) \in Wide /\ Linear(Store!Start(r)) \in Nat
<1>1. Store!Start(r) \in Wide
  BY FloppyFields, FloppyAssumption DEF Store!Start, Wide
<1>2. QED
  BY <1>1, LinearRow

\* What the store moves is what the code reaches: up to the last sector of
\* the image and not into it (floppy_st.c:25).
LEMMA MovedReachable ==
  ASSUME NEW r, NEW p, Floppy(r, p), r.drive \in Inserted
  PROVE  Store!Moved(r) = 0 .. Reachable(Linear(Store!Start(r)), r.n) - 1
<1> DEFINE b == Linear(Store!Start(r))
<1>1. r.n \in Nat \ {0} /\ b \in Nat /\ Store!Start(r) \in Wide
  BY FloppyFields, StartWide
<1>2. Size \in Nat
  BY FloppyAssumption DEF Size
<1>3. ASSUME NEW i \in 0 .. r.n - 1 PROVE Store!Served(r, i) <=> b + i <= Size - 2
  <2> DEFINE f == Store!Along(Store!Start(r), i)
  <2>1. i \in Nat
    BY <1>1
  <2>2. ASSUME NEW j \in 0 .. i PROVE f[j] \in Wide /\ Linear(f[j]) = b + j
    BY <1>1, <2>1, AlongRun, RunLinear
  <2>3. ASSUME NEW j \in 0 .. i
        PROVE  f[j] \in Store!Addresses \ {Store!Last} <=> b + j \in 0 .. Size - 2
    BY <2>2, LinearInside
  <2>4. Store!Served(r, i) <=> \A j \in 0 .. i : b + j \in 0 .. Size - 2
    <3>1. Store!Served(r, i) <=> \A j \in 0 .. i : f[j] \in Store!Addresses \ {Store!Last}
      BY DEF Store!Served
    <3> HIDE DEF f, b
    <3>2. QED
      BY <2>3, <3>1
  <2> HIDE DEF b, f
  <2>5. QED
    BY <1>1, <1>2, <2>1, <2>4
<1>4. Store!Moved(r) = {i \in 0 .. r.n - 1 : b + i <= Size - 2}
  BY <1>3 DEF Store!Moved
<1> HIDE DEF b
<1>5. Reachable(b, r.n) = IF b > Size - 2 THEN 0 ELSE IF b + r.n <= Size - 1 THEN r.n ELSE Size - 1 - b
  BY <1>1, <1>2 DEF Reachable, InImage
<1>6. ASSUME NEW i \in Int
      PROVE  i \in 0 .. r.n - 1 /\ b + i <= Size - 2 <=> i \in 0 .. Reachable(b, r.n) - 1
  BY <1>1, <1>2, <1>5
<1>7. Store!Moved(r) = 0 .. Reachable(b, r.n) - 1
  BY <1>4, <1>6
<1>8. QED
  BY <1>7 DEF b

\* Nothing is moved if the drive is empty or the track is beyond the disk.
LEMMA MovedNothing ==
  ASSUME NEW r, NEW p, Floppy(r, p), r.drive \notin Inserted \/ r.track >= Tracks
  PROVE  Store!Moved(r) = {} /\ Store!Moved(r) # 0 .. r.n - 1
<1>1. r.n \in Nat \ {0} /\ r.track \in Nat /\ Tracks \in Nat
  BY FloppyFields, FloppyAssumption
<1>5. 0 \in 0 .. r.n - 1
  BY <1>1
<1>2. CASE r.drive \notin Inserted
  <2>1. \A i : ~Store!Served(r, i)
    BY <1>2 DEF Store!Served
  <2>2. QED
    BY <1>5, <2>1 DEF Store!Moved
<1>3. CASE r.track >= Tracks
  <2>1. Store!Start(r) \notin Store!Addresses
    BY <1>1, <1>3 DEF Store!Start, Store!Addresses
  <2>2. ASSUME NEW i \in 0 .. r.n - 1 PROVE ~Store!Served(r, i)
    <3>1. i \in Nat /\ 0 \in 0 .. i
      BY <1>1
    <3>2. Store!Along(Store!Start(r), i)[0] = Store!Start(r)
      BY <3>1, AlongRun DEF Run
    <3>3. QED
      BY <2>1, <3>1, <3>2 DEF Store!Served
  <2>3. QED
    BY <1>5, <2>2 DEF Store!Moved
<1>4. QED
  BY <1>2, <1>3

\* The sectors that are moved are those of the blocks the code copies.
LEMMA MovedSectors ==
  ASSUME NEW r, NEW p, Floppy(r, p), r.drive \in Inserted, NEW i \in Store!Moved(r)
  PROVE  LET a == Store!Along(Store!Start(r), r.n)[i]
         IN  /\ a \in Store!Addresses /\ a \in Wide
             /\ Linear(a) = Linear(Store!Start(r)) + i
<1> DEFINE a == Store!Along(Store!Start(r), r.n)[i]
<1>1. r.n \in Nat /\ i \in 0 .. r.n - 1 /\ Store!Served(r, i)
  BY FloppyFields DEF Store!Moved
<1>2. i \in 0 .. r.n /\ i \in 0 .. i /\ i \in Nat
  BY <1>1
<1>3. a \in Wide /\ Linear(a) = Linear(Store!Start(r)) + i
  BY <1>1, <1>2, StartWide, AlongRun, RunLinear
<1> DEFINE c == Store!Along(Store!Start(r), i)[i]
<1>4. c \in Wide /\ Linear(c) = Linear(Store!Start(r)) + i
  BY <1>2, StartWide, AlongRun, RunLinear
<1>5. a = c
  BY <1>3, <1>4, LinearInjective
<1>6. c \in Store!Addresses
  BY <1>1, <1>2 DEF Store!Served
<1>7. QED
  BY <1>3, <1>5, <1>6

-----------------------------------------------------------------------------
(* The command that moves sectors *)

\* What the store's disks are.
Disks ==
  [d \in Inserted |->
     [a \in (0 .. Tracks - 1) \X (0 .. Sides - 1) \X (1 .. Sectors) |-> Sector(d, a)]]

\* Store addresses are sector addresses, and Sector looks up their blocks.
LEMMA DiskBlocks ==
  /\ Store!Addresses = (0 .. Tracks - 1) \X (0 .. Sides - 1) \X (1 .. Sectors)
  /\ \A a \in Store!Addresses : a \in Wide /\ Linear(a) \in Disk
  /\ \A d, a : Sector(d, a) = image[d][Linear(a)]
<1>1. \A a \in Store!Addresses : a \in Wide
  BY FloppyAssumption DEF Store!Addresses, Wide
<1>2. QED
  BY <1>1, LinearInside DEF Store!Addresses, Sector, Linear

\* The registers when the command is written.
LEMMA AtTransfer ==
  ASSUME NEW r, NEW p, Floppy(r, p), p = 19
  PROVE  /\ ~busy /\ answer = "none" /\ active = r.drive /\ r.drive \in Inserted /\ Ready
         /\ count = r.n /\ address = r.at /\ mode = "control" /\ track = r.track
         /\ sector[active] = r.sector
         /\ Position(r.sector) = Linear(Store!Start(r))
<1>1. /\ ~busy /\ answer = "none" /\ active = r.drive /\ r.drive \in Inserted /\ side = r.side
      /\ count = r.n /\ address = r.at /\ mode = "control" /\ track = r.track
      /\ sector[active] = r.sector /\ head[active] = r.track
  BY DEF Floppy, FloppyAt, SeekAt, TransferAt, OutcomeAt
<1>2. /\ r.track \in Nat /\ r.side \in Nat /\ r.sector \in Nat
      /\ Sides \in Nat /\ Sectors \in Nat
  BY FloppyFields, FloppyAssumption
<1>3. ASSUME NEW t \in Nat, NEW d \in Nat, NEW s \in Nat, NEW k \in Nat
      PROVE  (t * s + d) * k = t * s * k + d * k
  OBVIOUS
<1>4. (r.track * Sides + r.side) * Sectors = r.track * Sides * Sectors + r.side * Sectors
  BY <1>2, <1>3
<1>5. r.track * Sides * Sectors \in Nat /\ r.side * Sectors \in Nat
  BY <1>2
<1>6. Position(r.sector) = r.track * Sides * Sectors + r.side * Sectors + (r.sector - 1)
  BY <1>1 DEF Position
<1>7. Linear(Store!Start(r)) = (r.track * Sides + r.side) * Sectors + r.sector - 1
  BY DEF Linear, Store!Start
<1>8. Position(r.sector) = Linear(Store!Start(r))
  BY <1>2, <1>4, <1>5, <1>6, <1>7
<1>9. QED
  BY <1>1, <1>8 DEF Ready

\* How much a transfer moves, and whether it reports success.
LEMMA TransferCount ==
  ASSUME NEW r, NEW p, Floppy(r, p), p = 19
  PROVE  LET m == Reachable(Linear(Store!Start(r)), r.n)
         IN  /\ ReadCount(count) = m /\ WriteCount(count) = m
             /\ WriteFrom = Linear(Store!Start(r))
             /\ m \in 0 .. r.n
             /\ TransferOk(m, count) <=> Store!Moved(r) = 0 .. r.n - 1
<1> DEFINE b == Linear(Store!Start(r))
           m == Reachable(b, r.n)
<1>1. r.sector \in Nat /\ r.sector > 0 /\ r.n \in Nat \ {0} /\ b \in Nat
  BY FloppyFields, StartWide
<1>2. Size \in Nat
  BY FloppyAssumption DEF Size
<1>3. m \in 0 .. r.n
  <2> HIDE DEF b
  <2>1. QED
    BY <1>1, <1>2 DEF Reachable, InImage
<1>4. ReadCount(count) = m
  BY AtTransfer DEF ReadCount
<1>5. WriteFrom = b
  BY <1>1, AtTransfer DEF WriteFrom
<1>6. WriteCount(count) = m
  BY <1>5, AtTransfer DEF WriteCount
<1>7. TransferOk(m, count) <=> m = r.n
  BY AtTransfer DEF TransferOk
<1>8. Store!Moved(r) = 0 .. m - 1
  BY AtTransfer, MovedReachable
<1>9. 0 .. m - 1 = 0 .. r.n - 1 <=> m = r.n
  <2> HIDE DEF m
  <2>1. m # r.n => r.n - 1 \in 0 .. r.n - 1 /\ r.n - 1 \notin 0 .. m - 1
    BY <1>1, <1>3
  <2>2. QED
    BY <2>1
<1>10. QED
  BY <1>3, <1>4, <1>5, <1>6, <1>7, <1>8, <1>9

\* A read copies the sectors the store moves (floppy_st.c:20).
LEMMA ReadMoves ==
  ASSUME NEW r, NEW p, Floppy(r, p), p = 19, ReadSectors(address, count)
  PROVE  /\ memory' = [x \in Ram |->
              IF x - r.at \in Store!Moved(r)
              THEN Disks[r.drive][Store!Along(Store!Start(r), r.n)[x - r.at]]
              ELSE memory[x]]
         /\ image' = image
<1> DEFINE b == Linear(Store!Start(r))
           m == Reachable(b, r.n)
           f == Store!Along(Store!Start(r), r.n)
<1>1. r.at \in Nat /\ m \in Nat /\ b \in Nat /\ r.drive \in Inserted
  <2>1. r.n \in Nat /\ r.at \in 0 .. 127 /\ b \in Nat /\ r.drive \in Inserted
    BY FloppyFields, AtTransfer, StartWide
  <2>2. m \in 0 .. r.n
    BY TransferCount
  <2> HIDE DEF b, m
  <2>3. QED
    BY <2>1, <2>2
<1>2. memory' = CopyIn(image[r.drive], b, r.at, m) /\ image' = image
  BY AtTransfer, TransferCount DEF ReadSectors
<1>3. Store!Moved(r) = 0 .. m - 1
  BY <1>1, MovedReachable
<1>4. ASSUME NEW x \in Ram
      PROVE  (IF x \in r.at .. r.at + m - 1 THEN image[r.drive][b + x - r.at] ELSE memory[x])
               = IF x - r.at \in Store!Moved(r) THEN Disks[r.drive][f[x - r.at]] ELSE memory[x]
  <2>1. x \in Int
    BY DEF Ram
  <2>2. x \in r.at .. r.at + m - 1 <=> x - r.at \in Store!Moved(r)
    <3> HIDE DEF m
    <3>1. QED
      BY <1>1, <1>3, <2>1
  <2>3. ASSUME x - r.at \in Store!Moved(r)
        PROVE  Disks[r.drive][f[x - r.at]] = image[r.drive][b + x - r.at]
    <3>1. f[x - r.at] \in Store!Addresses /\ Linear(f[x - r.at]) = b + (x - r.at)
      BY <1>1, <2>3, MovedSectors
    <3>2. Disks[r.drive][f[x - r.at]] = image[r.drive][Linear(f[x - r.at])]
      BY <1>1, <3>1, DiskBlocks DEF Disks
    <3> HIDE DEF b, f
    <3>3. b + (x - r.at) = b + x - r.at
      BY <1>1, <2>1
    <3>4. QED
      BY <3>1, <3>2, <3>3
  <2>4. QED
    BY <2>2, <2>3
<1>5. CopyIn(image[r.drive], b, r.at, m)
        = [x \in Ram |-> IF x - r.at \in Store!Moved(r) THEN Disks[r.drive][f[x - r.at]] ELSE memory[x]]
  BY <1>4 DEF CopyIn
<1>6. QED
  BY <1>2, <1>5

\* A write copies the blocks of memory to the sectors the store moves (floppy_st.c:49).
LEMMA WriteMoves ==
  ASSUME NEW r, NEW p, Floppy(r, p), p = 19, ShapeInv, WriteSectors(address, count)
  PROVE  /\ Disks' = [d \in Inserted |-> [a \in Store!Addresses |->
              IF d = r.drive /\ \E i \in Store!Moved(r) : Store!Along(Store!Start(r), r.n)[i] = a
              THEN memory[r.at + (CHOOSE i \in Store!Moved(r) :
                                    Store!Along(Store!Start(r), r.n)[i] = a)]
              ELSE Disks[d][a]]]
         /\ memory' = memory
         /\ image' = [d \in Inserted |-> [b \in Disk |-> image'[d][b]]]
<1> DEFINE b == Linear(Store!Start(r))
           m == Reachable(b, r.n)
           f == Store!Along(Store!Start(r), r.n)
           M == Store!Moved(r)
           copy == CopyOut(image[r.drive], b, r.at, m)
<1>1. /\ r.at \in Nat /\ r.n \in Nat /\ m \in Nat /\ m <= r.n /\ b \in Nat
      /\ r.drive \in Inserted /\ r.at + r.n <= RamBlocks /\ RamBlocks \in Nat
  <2>1. /\ r.n \in Nat /\ r.at \in 0 .. 127 /\ b \in Nat /\ r.drive \in Inserted
        /\ r.at + r.n <= RamBlocks /\ RamBlocks \in Nat
    BY FloppyFields, AtTransfer, StartWide, FloppyAssumption
  <2>2. m \in 0 .. r.n
    BY TransferCount
  <2> HIDE DEF b, m
  <2>3. QED
    BY <2>1, <2>2
<1>2. image' = [image EXCEPT ![r.drive] = copy] /\ memory' = memory
  BY AtTransfer, TransferCount DEF WriteSectors
<1>3. image = [d \in Inserted |-> [x \in Disk |-> image[d][x]]]
  BY DEF ShapeInv
<1>4. copy = [x \in Disk |-> IF x \in b .. b + m - 1 THEN Fetch(r.at + x - b) ELSE image[r.drive][x]]
  <2>1. image[r.drive] = [x \in Disk |-> image[r.drive][x]]
    BY <1>1, <1>3
  <2>2. DOMAIN image[r.drive] = Disk
    BY <2>1
  <2>3. QED
    BY <2>2 DEF CopyOut
<1>5. image' = [d \in Inserted |-> [x \in Disk |-> image'[d][x]]]
  <2> HIDE DEF copy
  <2>1. DOMAIN image' = Inserted /\ image' = [d \in Inserted |-> image'[d]]
    BY <1>2, <1>3
  <2>2. ASSUME NEW d \in Inserted PROVE image'[d] = [x \in Disk |-> image'[d][x]]
    <3>1. CASE d = r.drive
      BY <1>2, <1>3, <1>4, <3>1
    <3>2. CASE d # r.drive
      BY <1>2, <1>3, <3>2
    <3>3. QED
      BY <3>1, <3>2
  <2>3. QED
    BY <2>1, <2>2
<1>6. M = 0 .. m - 1
  BY <1>1, MovedReachable
<1>7. \A i \in M : f[i] \in Wide /\ Linear(f[i]) = b + i
  BY <1>1, MovedSectors
<1>8. ASSUME NEW a \in Store!Addresses
      PROVE  copy[Linear(a)] = IF \E i \in M : f[i] = a
                               THEN memory[r.at + (CHOOSE i \in M : f[i] = a)]
                               ELSE image[r.drive][Linear(a)]
  <2>1. a \in Wide /\ Linear(a) \in Disk /\ Linear(a) \in Nat
    BY DiskBlocks, LinearRow
  <2>2. copy[Linear(a)] = IF Linear(a) \in b .. b + m - 1
                          THEN Fetch(r.at + Linear(a) - b) ELSE image[r.drive][Linear(a)]
    BY <1>4, <2>1
  <2> HIDE DEF b, m, f, M, copy
  <2>3. CASE \E i \in M : f[i] = a
    <3> DEFINE i == CHOOSE j \in M : f[j] = a
    <3>1. i \in M /\ f[i] = a
      BY <2>3
    <3> HIDE DEF i
    <3>2. Linear(a) = b + i /\ i \in 0 .. m - 1
      BY <1>6, <1>7, <3>1
    <3>3. Linear(a) \in b .. b + m - 1 /\ r.at + Linear(a) - b = r.at + i /\ r.at + i \in Ram
      BY <1>1, <3>2 DEF Ram
    <3>4. copy[Linear(a)] = memory[r.at + i]
      BY <2>2, <3>3 DEF Fetch
    <3>5. QED
      BY <2>3, <3>4 DEF i
  <2>4. CASE ~\E i \in M : f[i] = a
    <3>1. Linear(a) \notin b .. b + m - 1
      <4>1. SUFFICES ASSUME Linear(a) \in b .. b + m - 1 PROVE FALSE
        OBVIOUS
      <4> DEFINE i == Linear(a) - b
      <4>2. i \in 0 .. m - 1 /\ Linear(a) = b + i
        BY <1>1, <2>1, <4>1
      <4>3. i \in M /\ Linear(f[i]) = Linear(a) /\ f[i] \in Wide
        BY <1>6, <1>7, <4>2
      <4> HIDE DEF i
      <4>4. f[i] = a
        BY <2>1, <4>3, LinearInjective
      <4>5. QED
        BY <2>4, <4>3, <4>4
    <3>2. QED
      BY <2>2, <2>4, <3>1
  <2>5. QED
    BY <2>3, <2>4
<1>9. ASSUME NEW d \in Inserted, NEW a \in Store!Addresses
      PROVE  image'[d][Linear(a)] = IF d = r.drive /\ \E i \in M : f[i] = a
                                    THEN memory[r.at + (CHOOSE i \in M : f[i] = a)]
                                    ELSE Disks[d][a]
  <2> HIDE DEF copy, M, f
  <2>1. image'[d] = IF d = r.drive THEN copy ELSE image[d]
    BY <1>2, <1>3
  <2>2. Disks[d][a] = image[d][Linear(a)]
    BY DiskBlocks DEF Disks
  <2>3. QED
    BY <1>8, <2>1, <2>2
<1>10. Disks' = [d \in Inserted |-> [a \in Store!Addresses |-> image'[d][Linear(a)]]]
  BY DEF Disks, Sector, Store!Addresses, Linear
<1>11. Disks' = [d \in Inserted |-> [a \in Store!Addresses |->
                  IF d = r.drive /\ \E i \in M : f[i] = a
                  THEN memory[r.at + (CHOOSE i \in M : f[i] = a)]
                  ELSE Disks[d][a]]]
  <2> HIDE DEF M, f
  <2>1. QED
    BY <1>9, <1>10, Zenon
<1>12. QED
  BY <1>2, <1>5, <1>11, Zenon

\* A read or a write of sectors, and the end of it.
LEMMA TransferSteps ==
  ASSUME NEW r, NEW p, Floppy(r, p), Move
  PROVE  /\ p = 19 /\ Go
         /\ DataCommand
         /\ \/ r.op = "read" /\ ReadSectors(address, count)
            \/ r.op = "write" /\ WriteSectors(address, count)
         /\ noError' <=> Store!Moved(r) = 0 .. r.n - 1
         /\ address' \in {address, (address + count) % AddressSpace}
         /\ answer' = IF noError' THEN "moved" ELSE "failed"
<1>1. /\ p = 19 /\ Go /\ answer' = IF noError' THEN "moved" ELSE "failed"
      /\ Value = IF r.op = "read" THEN "readsecs" ELSE "writesecs"
      /\ Command(Value)
  BY FloppyPlaces DEF Move
<1>2. ~busy /\ r.op \in {"read", "write"}
  BY <1>1, AtTransfer, FloppyFields
<1> DEFINE ok == TransferOk(Reachable(Linear(Store!Start(r)), r.n), count)
<1>3. ok <=> Store!Moved(r) = 0 .. r.n - 1
  BY <1>1, TransferCount
<1>4. CASE r.op = "read"
  <2>1. DataCommand /\ ReadSectors(address, count) /\ Finish(Value = "readsecs", ReadCount(count))
    BY <1>1, <1>2, <1>4 DEF Command, Moves, Transfers
  <2>2. ReadCount(count) = Reachable(Linear(Store!Start(r)), r.n) /\ Value = "readsecs"
    BY <1>1, <1>4, TransferCount
  <2>3. noError' = ok /\ address' \in {address, (address + count) % AddressSpace}
    BY <2>1, <2>2 DEF Finish, Advance
  <2>4. QED
    BY <1>1, <1>3, <1>4, <2>1, <2>3
<1>5. CASE r.op = "write"
  <2>1. DataCommand /\ WriteSectors(address, count) /\ Finish(Value = "writesecs", WriteCount(count))
    BY <1>1, <1>2, <1>5 DEF Command, Moves, Transfers
  <2>2. WriteCount(count) = Reachable(Linear(Store!Start(r)), r.n) /\ Value = "writesecs"
    BY <1>1, <1>5, TransferCount
  <2>3. noError' = ok /\ address' \in {address, (address + count) % AddressSpace}
    BY <2>1, <2>2 DEF Finish, Advance
  <2>4. QED
    BY <1>1, <1>3, <1>5, <2>1, <2>3
<1>6. QED
  BY <1>2, <1>4, <1>5

\* The command moves what the store moves, in one step (fdc.c:202).
LEMMA FloppyMoves ==
  ASSUME NEW r, NEW p, Floppy(r, p), ShapeInv, LineInv, Move
  PROVE  ShapeInv' /\ LineInv' /\ Floppy(r, p + 1)' /\ Store!MoveFloppy
<1>1. /\ p = 19 /\ DataCommand
      /\ answer' = IF noError' THEN "moved" ELSE "failed"
      /\ todo' = Left(r, p + 1) /\ UNCHANGED <<request, told>>
  BY TransferSteps, FloppyPlaces DEF Go
<1>2. /\ busy' = TRUE /\ timer' = PendingTime /\ gpip' = gpip \cup {5}
      /\ typeI' = FALSE /\ seekError' = FALSE
      /\ UNCHANGED <<data, hdcVars, track, inward, active, head, sector, side, mode, count, direction>>
  BY <1>1 DEF DataCommand, Begin, SetGPIP
<1>3. answer = "none" /\ track = r.track /\ r.drive \in Inserted /\ count = r.n /\ r.track < Tracks
  BY <1>1, AtTransfer DEF Floppy, FloppyAt, SeekAt
<1>4. address' \in Nat
  <2>1. address \in Nat /\ count \in Nat
    BY <1>3, FloppyFields DEF ShapeInv
  <2>2. (address + count) % AddressSpace \in Nat
    BY <2>1 DEF AddressSpace
  <2>3. QED
    BY <2>1, <2>2, TransferSteps
<1>5. Floppy(r, p + 1)'
  <2>1. OutcomeAt(r, 20)'
    BY <1>1, <1>2, <1>3 DEF OutcomeAt
  <2>2. SeekAt(r, 20)' /\ TransferAt(r, 20)'
    BY <1>2, <1>3 DEF SeekAt, TransferAt
  <2>3. QED
    BY <1>1, <2>1, <2>2 DEF Floppy, FloppyAt, Left
<1>6. /\ memory' = [x \in Ram |-> memory'[x]]
      /\ image' = [d \in Inserted |-> [b \in Disk |-> image'[d][b]]]
  <2>1. CASE ReadSectors(address, count)
    BY <1>1, <2>1, ReadMoves DEF ShapeInv
  <2>2. CASE WriteSectors(address, count)
    BY <1>1, <2>2, WriteMoves DEF ShapeInv
  <2>3. QED
    BY <2>1, <2>2, TransferSteps
<1>7. ShapeInv' /\ LineInv'
  BY <1>2, <1>4, <1>6, DiskAssumption DEF ShapeInv, LineInv, hdcVars
<1>8. Store!MoveFloppy
  <2>1. request = r /\ r # None /\ r.unit = "floppy"
    BY FloppyFields DEF Floppy
  <2>2. answer' = IF r.drive \in Inserted /\ Store!Moved(r) = 0 .. r.n - 1 THEN "moved" ELSE "failed"
    BY <1>1, <1>3, TransferSteps
  <2>3. DOMAIN Disks = Inserted
    BY DEF Disks
  <2>4. UNCHANGED <<hard, request, told>>
    BY <1>1, <1>2 DEF hdcVars
  <2>5. CASE r.op = "read" /\ ReadSectors(address, count)
    <3>1. image' = image
      BY <1>1, <2>5, ReadMoves
    <3>2. Disks' = Disks
      BY <3>1 DEF Disks, Sector
    <3>3. memory' = [x \in Ram |->
              IF x - r.at \in Store!Moved(r)
              THEN Disks[r.drive][Store!Along(Store!Start(r), r.n)[x - r.at]]
              ELSE memory[x]]
      BY <1>1, <2>5, ReadMoves
    <3>4. QED
      BY <1>3, <2>1, <2>2, <2>3, <2>4, <2>5, <3>2, <3>3 DEF Store!MoveFloppy, Disks, Store!Ram, Ram
  <2>6. CASE r.op = "write" /\ WriteSectors(address, count)
    <3>1. /\ memory' = memory
          /\ Disks' = [d \in Inserted |-> [a \in Store!Addresses |->
              IF d = r.drive /\ \E i \in Store!Moved(r) : Store!Along(Store!Start(r), r.n)[i] = a
              THEN memory[r.at + (CHOOSE i \in Store!Moved(r) :
                                    Store!Along(Store!Start(r), r.n)[i] = a)]
              ELSE Disks[d][a]]]
      BY <1>1, <2>6, WriteMoves
    <3>2. QED
      BY <1>3, <2>1, <2>2, <2>3, <2>4, <2>6, <3>1 DEF Store!MoveFloppy, Disks
  <2>7. QED
    BY <2>5, <2>6, TransferSteps
<1>9. QED
  BY <1>5, <1>7, <1>8

-----------------------------------------------------------------------------
(* The accesses of a hard disk request *)

\* A hard disk request being served, with the access at place p next.
Hard(r, p) ==
  /\ request = r /\ r \in Requests /\ r.unit = "hard"
  /\ p \in 1 .. 12
  /\ todo = Left(r, p)
  /\ HardAt(r, p)

\* What the constants and the fields of a hard disk request are.
LEMMA HardFields ==
  ASSUME NEW r, NEW p, Hard(r, p)
  PROVE  /\ r.unit # "floppy" /\ r # None /\ Length(r) = 12
         /\ r.ctrl \in Nat /\ r.block \in Nat /\ r.op \in {"read", "write"}
         /\ r.at \in 0 .. 127 /\ r.n \in Nat \ {0} /\ r.at + r.n <= RamBlocks
BY DriverAssumption DEF Hard, Length

\* Which access an action of the driver makes at each place.
LEMMA HardPlaces ==
  ASSUME NEW r, NEW p, Hard(r, p)
  PROVE  /\ Reg = "wait" => p = 11
         /\ Reg = "status" => p = 12
         /\ Reg \notin {"port", "toggle", "count", "register", "fdc", "seeked", "track"}
         /\ Reg = "high" => p = 1 /\ Value = 0
         /\ Reg = "med" => p = 2 /\ Value = 2 * r.at
         /\ Reg = "mode" => (p = 3 /\ Value = "command") \/ (p = 5 /\ Value = "parameter")
         /\ Reg = "hdc" => p = 4 /\ Value = r
         /\ Reg = "byte" => \/ p \in {6, 7, 10} /\ Value = 0
                            \/ p = 8 /\ Value = r.block
                            \/ p = 9 /\ Value = r.n
         /\ Tail(todo) = Left(r, p + 1)
<1>1. p \in 1 .. 12 /\ Length(r) = 12 /\ r.unit = "hard" /\ todo = Left(r, p)
  BY HardFields DEF Hard
<1>2. Tail(todo) = Left(r, p + 1)
  BY <1>1, LeftFacts
<1>3. QED
  BY <1>1, <1>2, HardAccesses

\* Address and mode of the transfer (dma.c:150, dma.c:186).
LEMMA HardDma ==
  ASSUME NEW r, NEW p, Hard(r, p), ShapeInv, LineInv, answer' = answer,
         \/ p = 1 /\ SetHigh(Value) /\ Value = 0
         \/ p = 2 /\ SetMed(Value) /\ Value = 2 * r.at
         \/ p = 3 /\ SetMode(Value, direction) /\ Value = "command"
         \/ p = 5 /\ SetMode(Value, direction) /\ Value = "parameter"
  PROVE  ShapeInv' /\ LineInv' /\ HardAt(r, p + 1)' /\ Still
<1>1. UNCHANGED <<fdcVars, hdcVars, floppyVars, mfpVars>>
  BY DEF SetHigh, SetMed, SetMode
<1>2. /\ p = 1 => address' \in 0 .. 127
      /\ p = 2 => address' = r.at
      /\ p = 3 => address' = address /\ mode' = "command"
      /\ p = 5 => address' = address /\ mode' = "parameter"
  <2>1. CASE p = 1
    BY <2>1, AddressHigh DEF SetHigh, ShapeInv
  <2>2. CASE p = 2
    <3>1. address \in Nat
      BY DEF ShapeInv
    <3>2. address < 128
      BY <2>2 DEF Hard, HardAt
    <3>3. address \in 0 .. 127 /\ r.at \in 0 .. 127
      BY <3>1, <3>2, HardFields
    <3>4. QED
      BY <2>2, <3>3, AddressLow DEF SetMed
  <2>3. CASE p \in {3, 5}
    BY <2>3 DEF SetMode
  <2>4. QED
    BY <2>1, <2>2, <2>3
<1>3. p \in {1, 2, 3, 5} /\ r.at \in Nat /\ (p = 1 => address' < 128)
  BY <1>2, HardFields
<1>4. address' \in Nat
  <2>1. address \in Nat /\ 0 .. 127 \subseteq Nat
    BY DEF ShapeInv
  <2>2. address' \in {address, r.at} \cup 0 .. 127
    BY <1>2, <1>3
  <2>3. QED
    BY <1>3, <2>1, <2>2
<1>5. ShapeInv' /\ LineInv' /\ Still
  BY <1>1, <1>4 DEF ShapeInv, LineInv, Still, fdcVars, hdcVars, floppyVars, mfpVars
<1>6. HardAt(r, p + 1)'
  BY <1>1, <1>2, <1>3 DEF Hard, HardAt, fdcVars, hdcVars, Cleared
<1>7. QED
  BY <1>5, <1>6

\* The command byte and the parameters but the last (hdc.c:94).
LEMMA HardCommand ==
  ASSUME NEW r, NEW p, Hard(r, p), ShapeInv, LineInv, answer' = answer,
         p = 4, SetHardCommand(Value.ctrl, Value.op), Value = r
  PROVE  ShapeInv' /\ LineInv' /\ HardAt(r, p + 1)' /\ Still
<1>1. /\ UNCHANGED <<params, position, foreign, file, hard, dmaVars, fdcVars, floppyVars, mfpVars>>
      /\ cmd'.ctrl = r.ctrl /\ cmd'.op = r.op
  BY DEF SetHardCommand
<1>2. ShapeInv' /\ LineInv' /\ Still
  BY <1>1 DEF ShapeInv, LineInv, Still, dmaVars, fdcVars, floppyVars, mfpVars
<1>3. HardAt(r, p + 1)'
  BY <1>1 DEF Hard, HardAt, dmaVars, fdcVars, Cleared
<1>4. QED
  BY <1>2, <1>3

\* The parameters written so far, cleared ones included.
LEMMA HardParameters ==
  ASSUME NEW r, NEW p, Hard(r, p), p \in 6 .. 10
  PROVE  /\ DOMAIN params = 0 .. 4 /\ position = p - 6 /\ mode = "parameter"
         /\ params[0] = 0 /\ params[1] = 0
         /\ params[2] = IF foreign \/ p < 9 THEN 0 ELSE r.block
         /\ params[3] = IF foreign \/ p < 10 THEN 0 ELSE r.n
BY DEF Hard, HardAt

\* A byte that does not end the command is stored where it belongs.
LEMMA HardParameter ==
  ASSUME NEW r, NEW p, Hard(r, p), ShapeInv, LineInv, answer' = answer,
         NextParameter(Value),
         \/ p \in {6, 7, 10} /\ Value = 0
         \/ p = 8 /\ Value = r.block
         \/ p = 9 /\ Value = r.n
  PROVE  p < 10 /\ ShapeInv' /\ LineInv' /\ HardAt(r, p + 1)' /\ Still
<1>1. /\ UNCHANGED <<cmd, foreign, code, file, hard, dmaVars, fdcVars, floppyVars, mfpVars>>
      /\ position < 4 /\ position' = position + 1 /\ params' = Stored(Value)
  BY DEF NextParameter
<1>2. p \in 6 .. 9
  BY <1>1, HardParameters
<1>3. ShapeInv' /\ LineInv' /\ Still
  BY <1>1 DEF ShapeInv, LineInv, Still, dmaVars, fdcVars, floppyVars, mfpVars
<1>4. /\ DOMAIN params' = 0 .. 4
      /\ \A i \in 0 .. 4 : params'[i] = IF ~foreign /\ i = p - 6 THEN Value ELSE params[i]
  BY <1>1, <1>2, HardParameters DEF Stored
<1>5. /\ params'[0] = 0 /\ params'[1] = 0
      /\ params'[2] = IF foreign \/ p + 1 < 9 THEN 0 ELSE r.block
      /\ params'[3] = IF foreign \/ p + 1 < 10 THEN 0 ELSE r.n
  BY <1>2, <1>4, HardParameters
<1>6. position' = p + 1 - 6 /\ mode' = "parameter"
  BY <1>1, <1>2, HardParameters DEF dmaVars
<1>7. HardAt(r, p + 1)'
  BY <1>1, <1>2, <1>4, <1>5, <1>6 DEF Hard, HardAt, dmaVars, fdcVars
<1>8. QED
  BY <1>2, <1>3, <1>7

\* An access before the transfer leads on to the next.
LEMMA HardPrepared ==
  ASSUME NEW r, NEW p, Hard(r, p), ShapeInv, LineInv, Prepare
  PROVE  /\ ShapeInv' /\ LineInv' /\ Hard(r, p + 1)' /\ Still
         /\ UNCHANGED <<request, answer, told>>
<1>1. todo' = Left(r, p + 1) /\ UNCHANGED <<request, answer, told>>
  BY HardPlaces DEF Prepare, Go
<1>2. \/ p = 1 /\ SetHigh(Value) /\ Value = 0
      \/ p = 2 /\ SetMed(Value) /\ Value = 2 * r.at
      \/ p = 3 /\ SetMode(Value, direction) /\ Value = "command"
      \/ p = 5 /\ SetMode(Value, direction) /\ Value = "parameter"
      \/ p = 4 /\ SetHardCommand(Value.ctrl, Value.op) /\ Value = r
      \/ NextParameter(Value) /\ \/ p \in {6, 7, 10} /\ Value = 0
                                 \/ p = 8 /\ Value = r.block
                                 \/ p = 9 /\ Value = r.n
  BY HardPlaces DEF Prepare
<1>3. p < 12 /\ ShapeInv' /\ LineInv' /\ HardAt(r, p + 1)' /\ Still
  BY <1>1, <1>2, HardDma, HardCommand, HardParameter
<1>4. QED
  BY <1>1, <1>3 DEF Hard, Left

\* What the last parameter finds: the request, or nothing after a command for
\* another controller (hdc.c:86).
LEMMA HardFinds ==
  ASSUME NEW r, NEW p, Hard(r, p), HardMove
  PROVE  /\ p = 10 /\ Value = 0 /\ Go /\ LastParameter(Value)
         /\ cmd.ctrl = r.ctrl /\ cmd.op = r.op /\ address = r.at /\ ~busy /\ answer = "none"
         /\ Block(Stored(Value)) = IF foreign THEN 0 ELSE r.block
         /\ Stored(Value)[3] = IF foreign THEN 0 ELSE r.n
<1>1. /\ Go /\ LastParameter(Value) /\ position = 4
      /\ \/ p \in {6, 7, 10} /\ Value = 0
         \/ p = 8 /\ Value = r.block
         \/ p = 9 /\ Value = r.n
  BY HardPlaces DEF HardMove, LastParameter
<1>2. p = 10 /\ Value = 0
  BY <1>1, HardParameters
<1>3. cmd.ctrl = r.ctrl /\ cmd.op = r.op /\ address = r.at /\ ~busy /\ answer = "none"
  BY <1>2 DEF Hard, HardAt
<1>4. /\ DOMAIN params = 0 .. 4 /\ params[0] = 0 /\ params[1] = 0
      /\ params[2] = IF foreign THEN 0 ELSE r.block
      /\ params[3] = IF foreign THEN 0 ELSE r.n
  BY <1>2, HardParameters
<1> DEFINE s == Stored(Value)
<1>5. s[0] = params[0] /\ s[1] = params[1] /\ s[2] = params[2] /\ s[3] = params[3]
  BY <1>1, <1>4 DEF Stored
<1>6. Block(s) = IF foreign THEN 0 ELSE r.block
  <2>1. r.block \in Nat
    BY HardFields
  <2>2. Block(s) = (0 % 128) * 65536 + 0 * 256 + params[2]
    BY <1>4, <1>5 DEF Block
  <2>3. QED
    BY <1>4, <2>1, <2>2
<1>7. QED
  BY <1>1, <1>2, <1>3, <1>4, <1>5, <1>6

\* The last parameter moves what the store moves, or nothing (hdc.c:94).
LEMMA HardMoves ==
  ASSUME NEW r, NEW p, Hard(r, p), ShapeInv, LineInv, HardMove
  PROVE  ShapeInv' /\ LineInv' /\ Hard(r, p + 1)' /\ Store!MoveHard
<1> DEFINE s == Stored(Value)
           ok == cmd.ctrl = 0 /\ Connected /\ ~foreign /\ file /\ Within(s)
<1>1. /\ p = 10 /\ cmd.ctrl = r.ctrl /\ cmd.op = r.op /\ address = r.at
      /\ ~busy /\ answer = "none"
      /\ Block(s) = IF foreign THEN 0 ELSE r.block
      /\ s[3] = IF foreign THEN 0 ELSE r.n
  BY HardFinds
<1>2. /\ todo' = Left(r, p + 1) /\ UNCHANGED <<request, told>>
      /\ params' = Cleared /\ position' = 0
      /\ UNCHANGED <<dmaVars, fdcVars, active, head, sector, side, image>>
  BY HardFinds, HardPlaces DEF Go, LastParameter, Forget
<1>3. answer' = IF ok THEN "moved" ELSE "blank"
  BY DEF HardMove
<1>4. /\ HardBlocks \in Nat /\ RamBlocks \in Nat /\ r.block \in Nat
      /\ r.n \in Nat /\ r.at \in Nat /\ r.at + r.n <= RamBlocks /\ r.op \in {"read", "write"}
  BY HardFields, DiskAssumption, FloppyAssumption
<1>5. /\ memory = [x \in Ram |-> memory[x]]
      /\ hard = [x \in 0 .. HardBlocks - 1 |-> hard[x]]
  BY DEF ShapeInv
<1>6. \/ /\ cmd.ctrl = 0 /\ Connected /\ Strobe
         /\ IF r.op = "read" THEN HardRead(s) ELSE HardWrite(s)
      \/ ~ok /\ UNCHANGED <<hard, memory, mfpVars>>
  BY <1>1, <1>4, HardFinds DEF LastParameter, Transferring
<1>7. ASSUME ok
      PROVE  /\ r.ctrl = 0 /\ r.block + r.n <= HardBlocks
             /\ \/ /\ r.op = "read" /\ hard' = hard
                   /\ memory' = [x \in Ram |-> IF x - r.at \in 0 .. r.n - 1
                                               THEN hard[r.block + x - r.at] ELSE memory[x]]
                \/ /\ r.op = "write" /\ memory' = memory
                   /\ hard' = [x \in DOMAIN hard |-> IF x - r.block \in 0 .. r.n - 1
                                         THEN memory[r.at + x - r.block] ELSE hard[x]]
  <2>1. r.ctrl = 0 /\ ~foreign /\ file /\ Within(s) /\ Block(s) = r.block /\ s[3] = r.n
    BY <1>1, <1>7
  <2>2. r.block + r.n <= HardBlocks
    BY <2>1, HardFields DEF Within
  <2>3. CASE r.op = "read"
    <3>1. memory' = CopyIn(hard, r.block, r.at, r.n) /\ hard' = hard
      BY <1>1, <1>6, <1>7, <2>1, <2>3 DEF HardRead
    <3>2. ASSUME NEW x \in Ram
          PROVE  (IF x \in r.at .. r.at + r.n - 1 THEN hard[r.block + x - r.at] ELSE memory[x])
                   = IF x - r.at \in 0 .. r.n - 1 THEN hard[r.block + x - r.at] ELSE memory[x]
      BY <1>4 DEF Ram
    <3>3. memory' = [x \in Ram |-> IF x - r.at \in 0 .. r.n - 1
                                   THEN hard[r.block + x - r.at] ELSE memory[x]]
      BY <3>1, <3>2 DEF CopyIn
    <3>4. QED
      BY <2>1, <2>2, <2>3, <3>1, <3>3
  <2>4. CASE r.op = "write"
    <3>1. hard' = CopyOut(hard, r.block, r.at, r.n) /\ memory' = memory
      BY <1>1, <1>6, <1>7, <2>1, <2>4 DEF HardWrite
    <3>2. DOMAIN hard = 0 .. HardBlocks - 1
      BY <1>5
    <3>3. ASSUME NEW x \in 0 .. HardBlocks - 1
          PROVE  (IF x \in r.block .. r.block + r.n - 1 THEN Fetch(r.at + x - r.block) ELSE hard[x])
                   = IF x - r.block \in 0 .. r.n - 1 THEN memory[r.at + x - r.block] ELSE hard[x]
      BY <1>4 DEF Ram, Fetch
    <3>4. hard' = [x \in DOMAIN hard |-> IF x - r.block \in 0 .. r.n - 1
                                         THEN memory[r.at + x - r.block] ELSE hard[x]]
      BY <3>1, <3>2, <3>3 DEF CopyOut
    <3>5. QED
      BY <2>1, <2>2, <2>4, <3>1, <3>4
  <2>5. QED
    BY <1>4, <2>3, <2>4
<1>8. ASSUME ~ok PROVE memory' = memory /\ hard' = hard
  <2>1. CASE UNCHANGED <<hard, memory, mfpVars>>
    BY <2>1
  <2>2. CASE /\ cmd.ctrl = 0 /\ Connected
             /\ IF r.op = "read" THEN HardRead(s) ELSE HardWrite(s)
    <3>1. CASE file /\ Within(s)
      <4>1. foreign /\ Block(s) = 0 /\ s[3] = 0
        BY <1>1, <1>8, <2>2, <3>1
      <4>2. CopyIn(hard, 0, address, 0) = memory
        BY <1>1, <1>4, <1>5 DEF CopyIn
      <4>3. CopyOut(hard, 0, address, 0) = hard
        BY <1>1, <1>4, <1>5 DEF CopyOut
      <4>4. QED
        BY <2>2, <4>1, <4>2, <4>3 DEF HardRead, HardWrite
    <3>2. CASE ~(file /\ Within(s))
      BY <2>2, <3>2 DEF HardRead, HardWrite
    <3>3. QED
      BY <3>1, <3>2
  <2>3. QED
    BY <1>6, <1>8, <2>1, <2>2
<1>9. /\ memory' = [x \in Ram |-> memory'[x]]
      /\ hard' = [x \in 0 .. HardBlocks - 1 |-> hard'[x]]
  <2>1. DOMAIN hard = 0 .. HardBlocks - 1
    BY <1>5
  <2>2. CASE ok
    BY <1>5, <1>7, <2>1, <2>2
  <2>3. CASE ~ok
    BY <1>5, <1>8, <2>3
  <2>4. QED
    BY <2>2, <2>3
<1>10. ShapeInv'
  BY <1>2, <1>9 DEF ShapeInv, dmaVars, fdcVars
<1>11. LineInv'
  <2>1. 5 \notin gpip'
    BY <1>1, <1>6 DEF LineInv, Strobe, mfpVars
  <2>2. ~busy'
    BY <1>1, <1>2 DEF fdcVars
  <2>3. QED
    BY <2>1, <2>2 DEF LineInv
<1>12. Hard(r, p + 1)'
  <2>1. p + 1 = 11 /\ ~busy' /\ answer' \in {"moved", "blank"}
    BY <1>1, <1>2, <1>3 DEF fdcVars
  <2>2. HardAt(r, 11)'
    BY <1>2, <2>1 DEF HardAt, Cleared
  <2>3. QED
    BY <1>2, <2>1, <2>2 DEF Hard, Left
<1>13. Store!MoveHard
  <2>1. request = r /\ r # None /\ r.unit = "hard"
    BY HardFields DEF Hard
  <2>2. Disks' = Disks
    BY <1>2 DEF Disks, Sector
  <2>3. CASE ok
    BY <1>1, <1>2, <1>3, <1>7, <2>1, <2>2, <2>3 DEF Store!MoveHard, Disks, Store!Ram, Ram
  <2>4. CASE ~ok
    BY <1>1, <1>2, <1>3, <1>8, <2>1, <2>2, <2>4 DEF Store!MoveHard, Disks
  <2>5. QED
    BY <2>3, <2>4
<1>14. QED
  BY <1>10, <1>11, <1>12, <1>13

-----------------------------------------------------------------------------
(* Every step of the machine is a step of the store *)

\* What the store sees of the chips and the driver.
Seen == <<Disks, memory, hard, request, answer, told>>

\* A request is being served by its program.
LEMMA InService ==
  request # None =>
    (RequestInv <=> \/ \E p : Floppy(request, p) /\ position = 0 /\ params = Cleared
                    \/ \E p : Hard(request, p))
<1>1. \A r \in Requests : r # None /\ r.unit \in {"floppy", "hard"}
                          /\ Length(r) = IF r.unit = "hard" THEN 12 ELSE 21
  BY DriverAssumption DEF Length
<1>2. QED
  BY <1>1 DEF RequestInv, Floppy, Hard

\* A request at some place of its program satisfies the invariant.
LEMMA Serves ==
  /\ \A r, p : (Floppy(r, p) /\ position = 0 /\ params = Cleared)' => RequestInv'
  /\ \A r, p : Hard(r, p)' => RequestInv'
<1>1. \A r \in Requests : r # None /\ Length(r) = IF r.unit = "hard" THEN 12 ELSE 21
  BY DriverAssumption DEF Length
<1>2. QED
  BY <1>1 DEF RequestInv, Floppy, Hard, Left

\* A floppy request leaves the hard disk's controller alone.
LEMMA HdcRests ==
  ASSUME NEW r, NEW p, Floppy(r, p), Prepare \/ Move \/ Wait \/ Meddle \/ Verify
  PROVE  UNCHANGED <<params, position>>
<1> USE DEF hdcVars
<1>1. CASE Prepare
  <2>1. Reg \notin {"hdc", "byte"}
    BY FloppyPlaces
  <2>2. CASE Command(Value)
    BY <2>2 DEF Command, Moves, Transfers, HeadCommand, DataCommand, Begin
  <2>3. QED
    BY <1>1, <2>1, <2>2 DEF Prepare, SelectPort, SetMode, SetCount, SetHigh, SetMed, SetRegister
<1>2. CASE Move
  BY <1>2 DEF Move, Command, Moves, Transfers, HeadCommand, DataCommand, Begin
<1>3. CASE Wait
  BY <1>3 DEF Wait, chipVars
<1>4. CASE Meddle
  <2>1. CASE Command("restore")
    BY <2>1 DEF Command, Moves, Transfers, HeadCommand, DataCommand, Begin
  <2>2. QED
    BY <1>4, <2>1 DEF Meddle, SelectPort, SetMode, SetRegister
<1>5. CASE Verify
  BY <1>5 DEF Verify, ReadStatus, chipVars
<1>6. QED
  BY <1>1, <1>2, <1>3, <1>4, <1>5

\* Asking starts the program.
LEMMA AskStep ==
  ASSUME DriverInv, Ask
  PROVE  DriverInv' /\ Store!Ask
<1>1. /\ request = None /\ request' \in Requests /\ UNCHANGED <<chipVars, answer, told>>
      /\ todo' = Program(request')
  BY DEF Ask, Program
<1>2. ~busy /\ answer = "none" /\ position = 0 /\ params = Cleared
  BY <1>1 DEF DriverInv, RequestInv
<1>3. ShapeInv' /\ LineInv'
  BY <1>1 DEF DriverInv, ShapeInv, LineInv, chipVars, floppyVars, fdcVars, dmaVars, hdcVars, mfpVars
<1>4. RequestInv'
  <2>1. PICK r \in Requests : r = request'
    BY <1>1
  <2>2. r # None /\ r.unit \in {"floppy", "hard"} /\ 1 \in 1 .. Length(r)
    BY DriverAssumption DEF Length
  <2>3. todo' = Left(r, 1)
    BY <1>1, <2>1, LeftAll
  <2>4. ~busy' /\ answer' = "none" /\ position' = 0 /\ params' = Cleared
    BY <1>1, <1>2 DEF chipVars, fdcVars, hdcVars
  <2>5. HardAt(r, 1)' /\ FloppyAt(r, 1)'
    BY <2>4 DEF HardAt, FloppyAt, SeekAt, TransferAt, OutcomeAt, Cleared
  <2>6. CASE r.unit = "hard"
    <3>1. Hard(r, 1)'
      BY <2>1, <2>3, <2>5, <2>6 DEF Hard, Left
    <3>2. QED
      BY <3>1, Serves
  <2>7. CASE r.unit = "floppy"
    <3>1. (Floppy(r, 1) /\ position = 0 /\ params = Cleared)'
      BY <2>1, <2>3, <2>4, <2>5, <2>7 DEF Floppy, Left, Cleared
    <3>2. QED
      BY <3>1, Serves
  <2>8. QED
    BY <2>2, <2>6, <2>7
<1>5. Store!Ask
  <2>1. Disks' = Disks /\ memory' = memory /\ hard' = hard
    BY <1>1 DEF Disks, Sector, chipVars, floppyVars, hdcVars
  <2>2. QED
    BY <1>1, <1>2, <2>1 DEF Store!Ask, Disks
<1>6. QED
  BY <1>3, <1>4, <1>5 DEF DriverInv

\* The status tells the caller what became of the request (fdc.c:68, hdc.c:60).
LEMMA StatusStep ==
  ASSUME DriverInv, Status
  PROVE  DriverInv' /\ Store!Tell
<1>1. /\ request # None /\ Reg = "status" /\ request' = None /\ answer' = "none"
      /\ told' = Told /\ UNCHANGED chipVars
  BY DEF Status
<1>2. ShapeInv' /\ LineInv'
  BY <1>1 DEF DriverInv, ShapeInv, LineInv, chipVars, floppyVars, fdcVars, dmaVars, hdcVars, mfpVars
<1>3. Disks' = Disks /\ memory' = memory /\ hard' = hard
  BY <1>1 DEF Disks, Sector, chipVars, floppyVars, hdcVars
<1>4. ASSUME NEW p, Floppy(request, p), position = 0, params = Cleared
      PROVE  RequestInv' /\ Store!Tell
  <2>1. p = 21 /\ request.unit # "hard"
    BY <1>1, <1>4, FloppyPlaces, FloppyFields
  <2>2. /\ ~busy /\ answer \in {"moved", "failed"}
        /\ (~seekError /\ track = request.track /\ noError) <=> answer = "moved"
    BY <1>4, <2>1 DEF Floppy, FloppyAt, OutcomeAt
  <2>3. RequestInv'
    BY <1>1, <1>4, <2>2 DEF RequestInv, chipVars, fdcVars, hdcVars, Cleared
  <2>4. told' \in BOOLEAN /\ (told' <=> answer = "moved")
    BY <1>1, <2>1, <2>2 DEF Told
  <2>5. QED
    BY <1>1, <1>3, <2>2, <2>3, <2>4 DEF Store!Tell, Disks
<1>5. ASSUME NEW p, Hard(request, p)
      PROVE  RequestInv' /\ Store!Tell
  <2>1. p = 12 /\ request.unit = "hard"
    BY <1>1, <1>5, HardPlaces DEF Hard
  <2>2. ~busy /\ answer \in {"moved", "blank"} /\ position = 0 /\ params = Cleared
    BY <1>5, <2>1 DEF Hard, HardAt
  <2>3. RequestInv'
    BY <1>1, <2>2 DEF RequestInv, chipVars, fdcVars, hdcVars, Cleared
  <2>4. told' \in BOOLEAN
    BY <1>1, <2>1 DEF Told
  <2>5. QED
    BY <1>1, <1>3, <2>1, <2>2, <2>3, <2>4 DEF Store!Tell, Disks
<1>6. QED
  BY <1>1, <1>2, <1>4, <1>5, InService DEF DriverInv

\* A look at GPIP that finds the hard disk's line down goes on to the status.
LEMMA HardWaits ==
  ASSUME NEW r, NEW p, Hard(r, p), ShapeInv, LineInv, Wait
  PROVE  ShapeInv' /\ LineInv' /\ Hard(r, p + 1)' /\ Still
<1>1. p = 11 /\ Tail(todo) = Left(r, p + 1)
  BY HardPlaces DEF Wait
<1>2. ~busy /\ answer \in {"moved", "blank"} /\ position = 0 /\ params = Cleared
  BY <1>1 DEF Hard, HardAt
<1>3. todo' = Left(r, p + 1) /\ UNCHANGED <<chipVars, request, answer>>
  BY <1>1, <1>2 DEF Wait, LineInv
<1>4. /\ UNCHANGED <<busy, gpip, position, params, image, memory, hard, head, sector, address>>
      /\ timer' = timer
  BY <1>3 DEF chipVars, floppyVars, mfpVars, dmaVars, fdcVars, hdcVars
<1>5. ShapeInv' /\ LineInv' /\ Still
  BY <1>4 DEF ShapeInv, LineInv, Still
<1>6. HardAt(r, 12)'
  BY <1>2, <1>3, <1>4 DEF HardAt, Cleared
<1>7. QED
  BY <1>1, <1>3, <1>5, <1>6 DEF Hard, Left

\* What the store sees is kept by a step that keeps the blocks and the answer.
LEMMA Unseen ==
  ASSUME Still, UNCHANGED <<request, answer, told>>
  PROVE  UNCHANGED Seen
BY DEF Still, Seen, Disks, Sector

\* A floppy request whose drive or track does not exist fails in one step.
LEMMA FloppyFails ==
  ASSUME NEW r, NEW p, Floppy(r, p), ShapeInv, Still, UNCHANGED <<request, told>>,
         answer = "none", answer' = "failed", r.drive \notin Inserted \/ r.track >= Tracks
  PROVE  Store!MoveFloppy
<1>1. /\ request = r /\ r # None /\ r.unit = "floppy"
  BY FloppyFields DEF Floppy
<1>2. Store!Moved(r) = {} /\ Store!Moved(r) # 0 .. r.n - 1
  BY MovedNothing
<1>3. /\ Disks' = Disks /\ memory' = memory /\ hard' = hard
  BY DEF Still, Disks, Sector
<1>4. memory' = [b \in Store!Ram |->
                   IF b - r.at \in Store!Moved(r)
                   THEN Disks[r.drive][Store!Along(Store!Start(r), r.n)[b - r.at]]
                   ELSE memory[b]]
  BY <1>2, <1>3 DEF ShapeInv, Ram, Store!Ram
<1>5. DOMAIN Disks = Inserted
  BY DEF Disks
<1>6. \A d \in Inserted : Disks[d] = [a \in Store!Addresses |-> Disks[d][a]]
  BY DEF Disks, Store!Addresses
<1>7. Disks' = [d \in Inserted |-> [a \in Store!Addresses |->
                  IF d = r.drive /\ \E i \in Store!Moved(r) :
                                      Store!Along(Store!Start(r), r.n)[i] = a
                  THEN memory[r.at + (CHOOSE i \in Store!Moved(r) :
                                        Store!Along(Store!Start(r), r.n)[i] = a)]
                  ELSE Disks[d][a]]]
  <2>1. Disks = [d \in Inserted |-> Disks[d]]
    BY DEF Disks
  <2>2. QED
    BY <1>2, <1>3, <1>6, <2>1
<1>8. QED
  BY <1>1, <1>2, <1>3, <1>4, <1>5, <1>7 DEF Store!MoveFloppy, Disks

\* Every step in the service of a floppy request is one of the store's.
LEMMA FloppyStep ==
  ASSUME NEW r, NEW p, Floppy(r, p), position = 0, params = Cleared, DriverInv, Next
  PROVE  DriverInv' /\ [Store!Next]_Seen
<1>1. ShapeInv /\ LineInv /\ request = r /\ r # None
  BY FloppyFields DEF DriverInv, Floppy
<1> DEFINE Serving(q) == ShapeInv' /\ LineInv' /\ Floppy(r, q)' /\ UNCHANGED <<params, position>>
<1>2. ASSUME NEW q, Serving(q) PROVE DriverInv'
  <2>1. (Floppy(r, q) /\ position = 0 /\ params = Cleared)'
    BY <1>2 DEF Cleared
  <2>2. RequestInv'
    BY <2>1, Serves
  <2>3. QED
    BY <1>2, <2>2 DEF DriverInv
<1> HIDE DEF Serving
<1>3. ~Ask
  BY <1>1 DEF Ask
<1>4. CASE Prepare
  <2>1. Serving(p + 1) /\ Still /\ UNCHANGED <<request, answer, told>>
    BY <1>1, <1>4, FloppyPrepared, HdcRests DEF Serving
  <2>2. QED
    BY <1>2, <2>1, Unseen
<1>5. CASE Move
  <2>1. Serving(p + 1) /\ Store!MoveFloppy
    BY <1>1, <1>5, FloppyMoves, HdcRests DEF Serving
  <2>2. QED
    BY <1>2, <2>1 DEF Store!Next
<1>6. ~HardMove
  BY FloppyPlaces DEF HardMove
<1>7. CASE Wait
  <2>1. (Serving(p) \/ Serving(p + 1)) /\ Still /\ UNCHANGED <<request, answer, told>>
    BY <1>1, <1>7, FloppyWaits, HdcRests DEF Serving, Wait
  <2>2. QED
    BY <1>2, <2>1, Unseen
<1>8. CASE Meddle
  <2>1. Serving(p) /\ Still /\ UNCHANGED <<request, answer, told>>
    BY <1>1, <1>8, FloppyMeddled, HdcRests DEF Serving, Meddle
  <2>2. QED
    BY <1>2, <2>1, Unseen
<1>9. CASE Verify
  <2>1. /\ ShapeInv' /\ LineInv' /\ Still /\ UNCHANGED <<request, told, params, position>>
        /\ \/ Floppy(r, p + 1)' /\ answer' = answer
           \/ /\ Floppy(r, 21)' /\ answer = "none" /\ answer' = "failed"
              /\ r.drive \notin Inserted \/ r.track >= Tracks
    BY <1>1, <1>9, FloppyVerifies, HdcRests
  <2>2. CASE Floppy(r, p + 1)' /\ answer' = answer
    <3>1. Serving(p + 1)
      BY <2>1, <2>2 DEF Serving
    <3>2. QED
      BY <1>2, <2>1, <2>2, <3>1, Unseen
  <2>3. CASE /\ Floppy(r, 21)' /\ answer = "none" /\ answer' = "failed"
             /\ r.drive \notin Inserted \/ r.track >= Tracks
    <3>1. Serving(21)
      BY <2>1, <2>3 DEF Serving
    <3>2. Store!MoveFloppy
      BY <1>1, <2>1, <2>3, FloppyFails
    <3>3. QED
      BY <1>2, <3>1, <3>2 DEF Store!Next
  <2>4. QED
    BY <2>1, <2>2, <2>3
<1>10. CASE Status
  BY <1>10, StatusStep DEF Store!Next
<1>11. CASE \E c \in Cycles : PollRound(c)
  <2>1. PICK c \in Cycles : PollRound(c)
    BY <1>11
  <2>2. /\ ShapeInv' /\ LineInv' /\ (busy' => busy)
        /\ UNCHANGED <<track, data, inward, typeI, seekError, dmaVars, hdcVars, floppyVars>>
        /\ UNCHANGED <<request, todo, answer, told>>
    BY <1>1, <2>1, PollKeeps
  <2>3. p \in {6, 20} \/ ~busy
    BY DEF Floppy, FloppyAt, OutcomeAt
  <2>4. Floppy(r, p)'
    BY <2>2, <2>3, FloppyRests
  <2>5. Serving(p) /\ Still
    BY <2>2, <2>4 DEF Serving, Still, hdcVars, floppyVars
  <2>6. QED
    BY <1>2, <2>2, <2>5, Unseen
<1>12. QED
  BY <1>3, <1>4, <1>5, <1>6, <1>7, <1>8, <1>9, <1>10, <1>11 DEF Next

\* Every step in the service of a hard disk request is one of the store's.
LEMMA HardStep ==
  ASSUME NEW r, NEW p, Hard(r, p), DriverInv, Next
  PROVE  DriverInv' /\ [Store!Next]_Seen
<1>1. ShapeInv /\ LineInv /\ request = r /\ r # None /\ ~busy
  BY HardFields DEF DriverInv, Hard, HardAt
<1> DEFINE Serving(q) == ShapeInv' /\ LineInv' /\ Hard(r, q)'
<1>2. ASSUME NEW q, Serving(q) PROVE DriverInv'
  BY <1>2, Serves DEF DriverInv
<1> HIDE DEF Serving
<1>3. ~Ask
  BY <1>1 DEF Ask
<1>4. CASE Prepare
  <2>1. Serving(p + 1) /\ Still /\ UNCHANGED <<request, answer, told>>
    BY <1>1, <1>4, HardPrepared DEF Serving
  <2>2. QED
    BY <1>2, <2>1, Unseen
<1>5. ~Move /\ ~Verify
  BY HardPlaces DEF Move, Verify
<1>6. CASE HardMove
  <2>1. Serving(p + 1) /\ Store!MoveHard
    BY <1>1, <1>6, HardMoves DEF Serving
  <2>2. QED
    BY <1>2, <2>1 DEF Store!Next
<1>7. CASE Wait
  <2>1. Serving(p + 1) /\ Still /\ UNCHANGED <<request, answer, told>>
    BY <1>1, <1>7, HardWaits DEF Serving, Wait
  <2>2. QED
    BY <1>2, <2>1, Unseen
<1>8. ~Meddle
  BY <1>1 DEF Meddle, LineInv
<1>9. CASE Status
  BY <1>9, StatusStep DEF Store!Next
<1>10. CASE \E c \in Cycles : PollRound(c)
  <2>1. PICK c \in Cycles : PollRound(c)
    BY <1>10
  <2>2. /\ ShapeInv' /\ LineInv' /\ (busy' => busy)
        /\ UNCHANGED <<track, data, inward, typeI, seekError, dmaVars, hdcVars, floppyVars>>
        /\ UNCHANGED <<request, todo, answer, told>>
    BY <1>1, <2>1, PollKeeps
  <2>3. UNCHANGED <<address, mode, cmd, params, position, foreign, hard, image, memory>>
    BY <2>2 DEF dmaVars, hdcVars, floppyVars
  <2>4. HardAt(r, p)'
    BY <1>1, <2>2, <2>3 DEF Hard, HardAt, Cleared
  <2>5. Serving(p) /\ Still
    BY <2>2, <2>3, <2>4 DEF Serving, Still, Hard, Left
  <2>6. QED
    BY <1>2, <2>2, <2>5, Unseen
<1>11. QED
  BY <1>3, <1>4, <1>5, <1>6, <1>7, <1>8, <1>9, <1>10 DEF Next

\* Between two requests only polls happen, and the next request.
LEMMA IdleStep ==
  ASSUME DriverInv, Next, request = None
  PROVE  DriverInv' /\ [Store!Next]_Seen
<1>1. CASE Ask
  BY <1>1, AskStep DEF Store!Next
<1>2. CASE \E c \in Cycles : PollRound(c)
  <2>1. PICK c \in Cycles : PollRound(c)
    BY <1>2
  <2>2. /\ ShapeInv' /\ LineInv' /\ (busy' => busy)
        /\ UNCHANGED <<dmaVars, hdcVars, floppyVars, request, todo, answer, told>>
    BY <2>1, PollKeeps DEF DriverInv
  <2>3. RequestInv'
    BY <2>2 DEF DriverInv, RequestInv, hdcVars, Cleared
  <2>4. Still
    BY <2>2 DEF Still, hdcVars, floppyVars
  <2>5. QED
    BY <2>2, <2>3, <2>4, Unseen DEF DriverInv
<1>3. ~(Prepare \/ Move \/ HardMove \/ Wait \/ Meddle \/ Verify \/ Status)
  BY DEF Prepare, Move, HardMove, Go, Wait, Meddle, Verify, Status
<1>4. QED
  BY <1>1, <1>2, <1>3 DEF Next

\* The invariant is kept, and each step of the machine is one of the store's.
LEMMA DriverStep == DriverInv /\ [Next]_vars => DriverInv' /\ [Store!Next]_Seen
<1> SUFFICES ASSUME DriverInv, [Next]_vars PROVE DriverInv' /\ [Store!Next]_Seen
  OBVIOUS
<1>1. CASE UNCHANGED vars
  <2>1. UNCHANGED <<chipVars, request, todo, answer, told>>
    BY <1>1 DEF vars
  <2>2. ShapeInv' /\ LineInv'
    BY <2>1 DEF DriverInv, ShapeInv, LineInv, chipVars, floppyVars, fdcVars, dmaVars, hdcVars, mfpVars
  <2>3. Still
    BY <2>1 DEF Still, chipVars, floppyVars, hdcVars
  <2>4. RequestInv' <=> RequestInv
    BY <2>1 DEF RequestInv, HardAt, FloppyAt, SeekAt, TransferAt, OutcomeAt, Left, Cleared,
                chipVars, floppyVars, fdcVars, dmaVars, hdcVars
  <2>5. QED
    BY <2>1, <2>2, <2>3, <2>4, Unseen DEF DriverInv
<1>2. CASE Next /\ request = None
  BY <1>2, IdleStep
<1>3. CASE Next /\ request # None
  <2>1. PICK r : r = request
    OBVIOUS
  <2>2. \/ \E p : Floppy(r, p) /\ position = 0 /\ params = Cleared
        \/ \E p : Hard(r, p)
    BY <1>3, <2>1, InService DEF DriverInv
  <2>3. QED
    BY <1>3, <2>2, FloppyStep, HardStep
<1>4. QED
  BY <1>1, <1>2, <1>3

\* At the start nothing is asked for and the line is down.
LEMMA DriverStart == Init => DriverInv /\ Store!Init
<1> SUFFICES ASSUME Init PROVE DriverInv /\ Store!Init
  OBVIOUS
<1>1. /\ memory = [b \in Ram |-> memory[b]]
      /\ hard = [b \in 0 .. HardBlocks - 1 |-> hard[b]]
      /\ image = [d \in Inserted |-> [b \in Disk |-> image[d][b]]]
  BY DEF Init
<1>2. head \in [Drives -> Int] /\ sector \in [Drives -> Int] /\ address \in Nat /\ timer \in Int
  BY DEF Init, FloppyInit, DmaInit, FdcInit
<1>3. 5 \notin gpip /\ ~busy
  BY DEF Init, MfpInit, FdcInit
<1>4. RequestInv
  BY DEF Init, FdcInit, HdcInit, RequestInv
<1>5. Store!Init
  BY DEF Init, Store!Init
<1>6. QED
  BY <1>1, <1>2, <1>3, <1>4, <1>5 DEF DriverInv, ShapeInv, LineInv

\* The controllers, the DMA chip and the polls of the line do for a driver what
\* the store promises: each request moves the sectors asked for and no others,
\* at once and to or from where they were asked for, whatever an interrupt
\* handler does during the waits; and a floppy request is told to have
\* succeeded only if all of it was moved (fdc.c:202, floppy_st.c:25, hdc.c:94).
THEOREM StoreCorrect == Spec => StoreSpec
<1>1. DriverInv /\ [Next]_vars =>
        [Store!Next]_<<[d \in Inserted |->
                          [a \in (0 .. Tracks - 1) \X (0 .. Sides - 1) \X (1 .. Sectors) |->
                             Sector(d, a)]],
                       memory, hard, request, answer, told>>
  BY DriverStep DEF Seen, Disks
<1>2. QED
  BY <1>1, DriverStart, DriverStep, PTL DEF Spec, StoreSpec, Store!Spec, Store!vars
=============================================================================
