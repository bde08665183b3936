------------------------------- MODULE Guest -------------------------------
(* The instructions that branch, call, and move several registers, and the    *)
(* guest program as a whole.                                                  *)
EXTENDS Instr

CONSTANTS
  Tasks,    \* a task is [program, d, bytes]: a program, its data registers and first bytes
  Stack     \* size of the memory, where the stack starts

Push(v) ==
  /\ a' = [a EXCEPT ![7] = @ - 4]
  /\ mem' = Poke(mem, a[7] - 4, "l", v)

Jump(to) == pc' = to /\ UNCHANGED task

-----------------------------------------------------------------------------
(* Branches.  BRA is the condition "t".                                       *)
Bcc ==
  /\ Executing("bcc")
  /\ Jump(IF Condition(ccr)[I.cc] THEN I.to ELSE pc + 1)
  /\ UNCHANGED <<d, a, ccr, mem>>

Bsr ==
  /\ Executing("bsr")
  /\ Push(pc + 1)
  /\ Jump(I.to)
  /\ UNCHANGED <<d, ccr>>

\* The counter is the low word; the loop ends when it passes zero.
Dbcc ==
  /\ Executing("dbcc")
  /\ LET count == d[I.t.reg] % Word
     IN  IF Condition(ccr)[I.cc]
           THEN d' = d /\ Jump(pc + 1)
           ELSE /\ d' = [d EXCEPT ![I.t.reg] = Insert(@, "w", (count - 1) % Word)]
                /\ Jump(IF count # 0 THEN I.to ELSE pc + 1)
  /\ UNCHANGED <<a, ccr, mem>>

Scc ==
  /\ Executing("scc")
  /\ Store(I.t, "b", IF SetCondition(ccr)[I.cc] THEN 255 ELSE 0, a)
  /\ Continue /\ UNCHANGED ccr

Jmp == Executing("jmp") /\ Jump(Address(I.t, "l", a)) /\ UNCHANGED <<d, a, ccr, mem>>
Jsr == Executing("jsr") /\ Push(pc + 1) /\ Jump(Address(I.t, "l", a)) /\ UNCHANGED <<d, ccr>>

Rts ==
  /\ Executing("rts")
  /\ Jump(Peek(a[7], "l"))
  /\ a' = [a EXCEPT ![7] = @ + 4]
  /\ UNCHANGED <<d, ccr, mem>>

-----------------------------------------------------------------------------
(* The status register: its low byte is the condition codes; the program      *)
(* runs as supervisor at level 3 throughout.                                  *)
SystemByte == 35

CcrByte(f) == 16 * One(f.x) + 8 * One(f.n) + 4 * One(f.z) + 2 * One(f.v) + One(f.c)
ToFlags(v) ==
  [x |-> Bit(v, 4), n |-> Bit(v, 3), z |-> Bit(v, 2), v |-> Bit(v, 1), c |-> Bit(v, 0)]

MoveFromSr ==
  /\ Executing("movefromsr")
  /\ Store(I.t, "w", 256 * SystemByte + CcrByte(ccr), a)
  /\ Continue /\ UNCHANGED ccr

ToCcr(v) == ccr' = ToFlags(v) /\ a' = AfterSource /\ Continue /\ UNCHANGED <<d, mem>>

MoveToCcr == Executing("movetoccr") /\ ToCcr(Source)
AndiToCcr == Executing("anditoccr") /\ ToCcr(And(CcrByte(ccr), Source))
OriToCcr == Executing("oritoccr") /\ ToCcr(Or(CcrByte(ccr), Source))
EoriToCcr == Executing("eoritoccr") /\ ToCcr(Eor(CcrByte(ccr), Source))

Rtr ==
  /\ Executing("rtr")
  /\ ccr' = ToFlags(Peek(a[7], "w"))
  /\ Jump(Peek(a[7] + 2, "l"))
  /\ a' = [a EXCEPT ![7] = @ + 6]
  /\ UNCHANGED <<d, mem>>

-----------------------------------------------------------------------------
(* Addresses and stack frames.                                                *)
Lea ==
  /\ Executing("lea")
  /\ a' = [a EXCEPT ![I.t.reg] = Address(I.s, "l", a)]
  /\ Continue /\ UNCHANGED <<d, ccr, mem>>

Pea == Executing("pea") /\ Push(Address(I.s, "l", a)) /\ Continue /\ UNCHANGED <<d, ccr>>

Link ==
  /\ Executing("link")
  /\ mem' = Poke(mem, a[7] - 4, "l", IF I.t.reg = 7 THEN a[7] - 4 ELSE a[I.t.reg])
  /\ a' = [[a EXCEPT ![I.t.reg] = a[7] - 4] EXCEPT ![7] = a[7] - 4 + I.s.value]
  /\ Continue /\ UNCHANGED <<d, ccr>>

Unlk ==
  /\ Executing("unlk")
  /\ LET fp == a[I.t.reg]
         R == [[a EXCEPT ![7] = fp] EXCEPT ![I.t.reg] = Peek(fp, "l")]
     IN  a' = [R EXCEPT ![7] = @ + 4]
  /\ Continue /\ UNCHANGED <<d, ccr, mem>>

-----------------------------------------------------------------------------
(* MOVEM: list is a sequence of registers, D0 to A7.  Stored downwards the    *)
(* last register goes first, so that a list lies in memory in one order.      *)
RegisterValue(e) == Operand(e, I.sz, a)
ListBytes == Len(I.list) * Bytes[I.sz]
ListBase == IF I.t.mode = "dec" THEN a[I.t.reg] - ListBytes ELSE Address(I.t, I.sz, a)
Place(i) == ListBase + (i - 1) * Bytes[I.sz]

\* Byte i of the n bytes of v, the highest first.
ByteOf(v, i, n) == LET low == IF i > n - 2 THEN v % Word ELSE v \div Word
                   IN  IF i % 2 = 1 THEN low \div 256 ELSE low % 256

\* Memory with the registers of a list from x on.
Laid(x, list) ==
  LET n == Bytes[I.sz]
  IN  [y \in DOMAIN mem |->
        IF y - x \in 0 .. Len(list) * n - 1
        THEN ByteOf(RegisterValue(list[((y - x) \div n) + 1]), ((y - x) % n) + 1, n)
        ELSE mem[y]]

\* As if a list stored downwards began with its first register.
MovemStoreReversed ==
  /\ Executing("movemstore")
  /\ mem' = Laid(ListBase, [n \in DOMAIN I.list |-> I.list[Len(I.list) + 1 - n]])
  /\ a' = IF I.t.mode = "dec" THEN [a EXCEPT ![I.t.reg] = ListBase] ELSE a
  /\ Continue /\ UNCHANGED <<d, ccr>>

MovemStore ==
  /\ Executing("movemstore")
  /\ mem' = Laid(ListBase, I.list)
  /\ a' = IF I.t.mode = "dec" THEN [a EXCEPT ![I.t.reg] = ListBase] ELSE a
  /\ Continue /\ UNCHANGED <<d, ccr>>

\* Words are extended in both kinds of registers.  The address register is
\* moved past the list unless it was loaded itself.
MovemLoad ==
  /\ Executing("movemload")
  /\ LET Loaded(mode, R) ==
           [r \in DOMAIN R |->
             IF \E i \in DOMAIN I.list : I.list[i] = [mode |-> mode, reg |-> r]
               THEN SignExtend(I.sz, Peek(Place(CHOOSE i \in DOMAIN I.list :
                                                  I.list[i] = [mode |-> mode, reg |-> r]), I.sz))
               ELSE R[r]]
         moved == IF I.t.mode = "inc" THEN [a EXCEPT ![I.t.reg] = @ + ListBytes] ELSE a
     IN  d' = Loaded("d", d) /\ a' = Loaded("a", moved)
  /\ Continue /\ UNCHANGED <<ccr, mem>>

\* As if MOVEP used every address.
EveryAddress(x, n) == [i \in 1 .. n |-> x + i - 1]

\* MOVEP: the bytes of a register at every second address, the highest first.
EverySecond(x, n) == [i \in 1 .. n |-> x + 2 * (i - 1)]

MovepStore ==
  /\ Executing("movepstore")
  /\ LET n == Bytes[I.sz]
         at == EverySecond(Address(I.t, I.sz, a), n)
         v == Operand(I.s, I.sz, a)
     IN  mem' = [y \in DOMAIN mem |->
                  IF \E i \in 1 .. n : at[i] = y
                  THEN ByteOf(v, CHOOSE i \in 1 .. n : at[i] = y, n) ELSE mem[y]]
  /\ Continue /\ UNCHANGED <<d, a, ccr>>

MovepLoad ==
  /\ Executing("movepload")
  /\ LET at == EverySecond(Address(I.s, I.sz, a), Bytes[I.sz])
         WordAt(i) == 256 * mem[at[i]] + mem[at[i + 1]]
         v == IF I.sz = "w" THEN WordAt(1) ELSE Word * WordAt(1) + WordAt(3)
     IN  d' = [d EXCEPT ![I.t.reg] = Insert(@, I.sz, v)]
  /\ Continue /\ UNCHANGED <<a, ccr, mem>>

-----------------------------------------------------------------------------
Arithmetic ==
  \/ Add \/ Addi \/ Addq \/ Addx \/ Sub \/ Subi \/ Subq \/ Subx
  \/ Neg \/ Negx \/ Abcd \/ Sbcd \/ Cmp \/ Cmpi \/ Cmpm \/ Cmpa \/ Adda \/ Suba \/ Ext
  \/ Mulu \/ Muls \/ Divu \/ Divs \/ DivideByZero

Logic ==
  \/ AndBits \/ Andi \/ OrBits \/ Ori \/ EorBits \/ Eori \/ NotBits \/ Tst \/ Tas
  \/ Btst \/ Bset \/ Bclr \/ Bchg
  \/ Asl \/ Asr \/ Lsl \/ Lsr \/ Rol \/ Ror \/ Roxl \/ Roxr

Moving ==
  \/ Move \/ Movea \/ Moveq \/ Clr \/ Swap \/ Exg
  \/ MovemStore \/ MovemLoad \/ MovepStore \/ MovepLoad
  \/ MoveFromSr \/ MoveToCcr \/ AndiToCcr \/ OriToCcr \/ EoriToCcr

Control ==
  \/ Bcc \/ Bsr \/ Dbcc \/ Scc \/ Jmp \/ Jsr \/ Rts \/ Rtr
  \/ Lea \/ Pea \/ Link \/ Unlk

Init ==
  /\ task \in Tasks
  /\ d = [r \in 0 .. 3 |-> task.d[r + 1]]
  /\ a = [r \in {0, 1, 6, 7} |-> IF r = 7 THEN Stack ELSE 0]
  /\ mem = [x \in 0 .. Stack - 1 |-> IF x < Len(task.bytes) THEN task.bytes[x + 1] ELSE 0]
  /\ ccr = ToFlags(0)
  /\ pc = 1

Next == Arithmetic \/ Logic \/ Moving \/ Control
=============================================================================
