------------------------------- MODULE Instr -------------------------------
(* A guest program on the CPU: registers, memory, the effective addresses of  *)
(* cpu/ea.c and one action for each instruction file of cpu/ that moves,      *)
(* computes or branches.  Programs do not fault; Machine has the exceptions.  *)
(* An instruction is a record: op, the size sz, a source s and a target t     *)
(* (effective addresses), and what else the instruction names.  Addresses of  *)
(* instructions are their positions in the program.                           *)
EXTENDS Alu, Sequences

CONSTANT Code     \* the program of each task

VARIABLES
  task,     \* what the program was given
  d, a,     \* data and address registers
  ccr,      \* condition codes
  mem,      \* memory, by bytes
  pc        \* position of the next instruction, 0 in the handler of a zero divide

vars == <<task, d, a, ccr, mem, pc>>

\* A definition, which TLC evaluates once: the constant it would evaluate at
\* every use.
Listing == Code
I == Listing[task.program][pc]
Halted == pc \notin DOMAIN Listing[task.program]
Executing(op) == ~Halted /\ I.op = op

Bytes == [b |-> 1, w |-> 2, l |-> 4]
Modulus == [b |-> 256, w |-> Word, l |-> Long]

\* Replace the low part of a register.
Insert(r, sz, v) == r - (r % Modulus[sz]) + v
SignExtend(sz, v) == Extend(Modulus[sz], Long, v)

-----------------------------------------------------------------------------
(* Memory, big-endian.  A long is two words.                                  *)
PeekWord(x) == 256 * mem[x] + mem[x + 1]

Peek(x, sz) ==
  CASE sz = "b" -> mem[x]
    [] sz = "w" -> PeekWord(x)
    [] sz = "l" -> Word * PeekWord(x) + PeekWord(x + 2)

PokeWord(M, x, v) == [M EXCEPT ![x] = v \div 256, ![x + 1] = v % 256]

Poke(M, x, sz, v) ==
  CASE sz = "b" -> [M EXCEPT ![x] = v]
    [] sz = "w" -> PokeWord(M, x, v)
    [] sz = "l" -> PokeWord(PokeWord(M, x, v \div Word), x + 2, v % Word)

-----------------------------------------------------------------------------
(* Effective addresses.  A stands for the address registers as the earlier    *)
(* operand of the instruction left them.                                      *)
D(r) == [mode |-> "d", reg |-> r]
A(r) == [mode |-> "a", reg |-> r]
At(r) == [mode |-> "at", reg |-> r]
Inc(r) == [mode |-> "inc", reg |-> r]
Dec(r) == [mode |-> "dec", reg |-> r]
Off(r, o) == [mode |-> "off", reg |-> r, offset |-> o]
Index(r, x, xsz, o) == [mode |-> "index", reg |-> r, index |-> x, isz |-> xsz, offset |-> o]
Abs(x) == [mode |-> "abs", address |-> x]
Imm(v) == [mode |-> "imm", value |-> v]

\* The stack pointer stays even.
Stride(e, sz) == IF sz = "b" /\ e.reg = 7 THEN 2 ELSE Bytes[sz]

Address(e, sz, R) ==
  CASE e.mode \in {"at", "inc"} -> R[e.reg]
    [] e.mode = "dec" -> R[e.reg] - Stride(e, sz)
    [] e.mode = "off" -> R[e.reg] + e.offset
    [] e.mode = "index" -> R[e.reg] + Signed(Modulus[e.isz], d[e.index] % Modulus[e.isz]) + e.offset
    [] e.mode = "abs" -> e.address

\* The address registers after an access.
Bump(e, sz, R) ==
  CASE e.mode = "inc" -> [R EXCEPT ![e.reg] = @ + Stride(e, sz)]
    [] e.mode = "dec" -> [R EXCEPT ![e.reg] = @ - Stride(e, sz)]
    [] OTHER -> R

Operand(e, sz, R) ==
  CASE e.mode = "d" -> d[e.reg] % Modulus[sz]
    [] e.mode = "a" -> R[e.reg] % Modulus[sz]
    [] e.mode = "imm" -> e.value
    [] OTHER -> Peek(Address(e, sz, R), sz)

Store(e, sz, v, R) ==
  /\ d' = IF e.mode = "d" THEN [d EXCEPT ![e.reg] = Insert(@, sz, v)] ELSE d
  /\ mem' = IF e.mode = "d" THEN mem ELSE Poke(mem, Address(e, sz, R), sz, v)
  /\ a' = Bump(e, sz, R)

Continue == pc' = pc + 1 /\ UNCHANGED task

-----------------------------------------------------------------------------
(* Source and target.  A target that is read and written is bumped once.      *)
Source == Operand(I.s, I.sz, a)
AfterSource == Bump(I.s, I.sz, a)

Dyadic(Op(_, _, _, _)) ==
  LET res == Op(Modulus[I.sz], ccr, Source, Operand(I.t, I.sz, AfterSource))
  IN  Store(I.t, I.sz, res.r, AfterSource) /\ ccr' = res.f /\ Continue

Monadic(Op(_, _, _)) ==
  LET res == Op(Modulus[I.sz], ccr, Operand(I.t, I.sz, a))
  IN  Store(I.t, I.sz, res.r, a) /\ ccr' = res.f /\ Continue

Add == Executing("add") /\ Dyadic(AddOp)
Addi == Executing("addi") /\ Dyadic(AddOp)
Sub == Executing("sub") /\ Dyadic(SubOp)
Subi == Executing("subi") /\ Dyadic(SubOp)
Addx == Executing("addx") /\ Dyadic(AddxOp)
Subx == Executing("subx") /\ Dyadic(SubxOp)

AndOp(m, f, s, t) == MoveOp(m, f, And(s, t))
OrOp(m, f, s, t) == MoveOp(m, f, Or(s, t))
EorOp(m, f, s, t) == MoveOp(m, f, Eor(s, t))

AndBits == Executing("and") /\ Dyadic(AndOp)
Andi == Executing("andi") /\ Dyadic(AndOp)
OrBits == Executing("or") /\ Dyadic(OrOp)
Ori == Executing("ori") /\ Dyadic(OrOp)
EorBits == Executing("eor") /\ Dyadic(EorOp)
Eori == Executing("eori") /\ Dyadic(EorOp)

NotOp(m, f, v) == MoveOp(m, f, m - 1 - v)

Neg == Executing("neg") /\ Monadic(NegOp)
Negx == Executing("negx") /\ Monadic(NegxOp)
NotBits == Executing("not") /\ Monadic(NotOp)

\* The register form of the decimal instructions writes the source register.
DecimalTarget == IF I.t.mode = "d" THEN I.s ELSE I.t

DecimalOp(Op(_, _, _)) ==
  LET res == Op(ccr, Source, Operand(I.t, "b", AfterSource))
  IN  Store(DecimalTarget, "b", res.r, AfterSource) /\ ccr' = res.f /\ Continue

Abcd == Executing("abcd") /\ DecimalOp(AbcdOp)
Sbcd == Executing("sbcd") /\ DecimalOp(SbcdOp)

-----------------------------------------------------------------------------
(* Comparisons and moves.                                                     *)
Compare ==
  /\ ccr' = CmpOp(Modulus[I.sz], ccr, Source, Operand(I.t, I.sz, AfterSource)).f
  /\ a' = Bump(I.t, I.sz, AfterSource)
  /\ Continue /\ UNCHANGED <<d, mem>>

Cmp == Executing("cmp") /\ Compare
Cmpi == Executing("cmpi") /\ Compare
Cmpm == Executing("cmpm") /\ Compare

Tst ==
  /\ Executing("tst")
  /\ ccr' = MoveOp(Modulus[I.sz], ccr, Source).f
  /\ a' = AfterSource
  /\ Continue /\ UNCHANGED <<d, mem>>

Move ==
  /\ Executing("move")
  /\ Store(I.t, I.sz, Source, AfterSource)
  /\ ccr' = MoveOp(Modulus[I.sz], ccr, Source).f
  /\ Continue

Clr == Executing("clr") /\ Store(I.t, I.sz, 0, a) /\ ccr' = ClrOp(ccr).f /\ Continue

\* An address register takes words with their sign and leaves the flags.
ToAddress(v) ==
  /\ a' = [AfterSource EXCEPT ![I.t.reg] = v]
  /\ Continue /\ UNCHANGED <<d, ccr, mem>>

Movea == Executing("movea") /\ ToAddress(SignExtend(I.sz, Source))
Adda == Executing("adda") /\ ToAddress((AfterSource[I.t.reg] + SignExtend(I.sz, Source)) % Long)
Suba == Executing("suba") /\ ToAddress((AfterSource[I.t.reg] - SignExtend(I.sz, Source)) % Long)

\* ADDQ and SUBQ to an address register use all of it in every size.
Addq ==
  /\ Executing("addq")
  /\ IF I.t.mode = "a" THEN ToAddress((a[I.t.reg] + I.s.value) % Long) ELSE Dyadic(AddOp)

Subq ==
  /\ Executing("subq")
  /\ IF I.t.mode = "a" THEN ToAddress((a[I.t.reg] - I.s.value) % Long) ELSE Dyadic(SubOp)

Cmpa ==
  /\ Executing("cmpa")
  /\ ccr' = CmpOp(Long, ccr, SignExtend(I.sz, Source), a[I.t.reg]).f
  /\ a' = AfterSource
  /\ Continue /\ UNCHANGED <<d, mem>>

ToData(reg, v, f) ==
  /\ d' = [d EXCEPT ![reg] = v]
  /\ ccr' = f
  /\ Continue /\ UNCHANGED <<a, mem>>

Moveq ==
  /\ Executing("moveq")
  /\ ToData(I.t.reg, SignExtend("b", I.s.value), MoveOp(256, ccr, I.s.value).f)

\* EXT.W extends the byte within the word, EXT.L the word.
Ext ==
  /\ Executing("ext")
  /\ LET low == d[I.t.reg] % (IF I.sz = "w" THEN 256 ELSE Word)
         v == IF I.sz = "w" THEN Extend(256, Word, low) ELSE Extend(Word, Long, low)
     IN  ToData(I.t.reg, Insert(d[I.t.reg], I.sz, v), MoveOp(Modulus[I.sz], ccr, v).f)

Swap ==
  /\ Executing("swap")
  /\ LET v == (d[I.t.reg] % Word) * Word + d[I.t.reg] \div Word
     IN  ToData(I.t.reg, v, MoveOp(Long, ccr, v).f)

Exg ==
  /\ Executing("exg")
  /\ CASE I.s.mode = "d" /\ I.t.mode = "d" ->
            d' = [d EXCEPT ![I.s.reg] = d[I.t.reg], ![I.t.reg] = d[I.s.reg]] /\ a' = a
       [] I.s.mode = "a" /\ I.t.mode = "a" ->
            a' = [a EXCEPT ![I.s.reg] = a[I.t.reg], ![I.t.reg] = a[I.s.reg]] /\ d' = d
       [] OTHER ->
            d' = [d EXCEPT ![I.s.reg] = a[I.t.reg]] /\ a' = [a EXCEPT ![I.t.reg] = d[I.s.reg]]
  /\ Continue /\ UNCHANGED <<ccr, mem>>

-----------------------------------------------------------------------------
(* Multiplication and division by a word, from any source.                    *)
ByWord(Op(_, _, _), left) ==
  LET res == Op(ccr, Source, left)
  IN  /\ d' = [d EXCEPT ![I.t.reg] = res.r]
      /\ a' = AfterSource
      /\ ccr' = res.f
      /\ Continue /\ UNCHANGED mem

Mulu == Executing("mulu") /\ ByWord(MuluOp, d[I.t.reg] % Word)
Muls == Executing("muls") /\ ByWord(MulsOp, d[I.t.reg] % Word)
Divu == Executing("divu") /\ Source # 0 /\ ByWord(DivuOp, d[I.t.reg])
Divs == Executing("divs") /\ Source # 0 /\ ByWord(DivsOp, d[I.t.reg])

\* As if DIVS did not look at its divisor.
DivideByZeroUnsigned ==
  /\ Executing("divu") /\ Source = 0
  /\ ccr' = [ccr EXCEPT !.c = FALSE]
  /\ a' = AfterSource
  /\ pc' = 0
  /\ UNCHANGED <<task, d, mem>>

\* Exception 5; its handler does not come back to the program.
DivideByZero ==
  /\ (Executing("divu") \/ Executing("divs")) /\ Source = 0
  /\ ccr' = [ccr EXCEPT !.c = FALSE]
  /\ a' = AfterSource
  /\ pc' = 0
  /\ UNCHANGED <<task, d, mem>>

-----------------------------------------------------------------------------
(* Shifts of a data register by a count in a register or in the instruction,  *)
(* and of a word in memory by one.                                            *)
ShiftBy(Op(_, _, _, _)) ==
  /\ I.t.mode = "d"
  /\ LET count == Operand(I.s, "l", a) % 64
         res == Op(Modulus[I.sz], ccr, d[I.t.reg] % Modulus[I.sz], count)
     IN  ToData(I.t.reg, Insert(d[I.t.reg], I.sz, res.r), res.f)

InMemory(Op(_, _, _)) == I.t.mode # "d" /\ Monadic(Op)

RoxlMemoryOp(m, f, v) == RoxlOp(m, f, v, 1)
RoxrMemoryOp(m, f, v) == RoxrOp(m, f, v, 1)

Asl == Executing("asl") /\ (ShiftBy(AslOp) \/ InMemory(AslMemoryOp))
Asr == Executing("asr") /\ (ShiftBy(AsrOp) \/ InMemory(AsrMemoryOp))
Lsl == Executing("lsl") /\ (ShiftBy(LslOp) \/ InMemory(LslMemoryOp))
Lsr == Executing("lsr") /\ (ShiftBy(LsrOp) \/ InMemory(LsrMemoryOp))
Rol == Executing("rol") /\ (ShiftBy(RolOp) \/ InMemory(RolMemoryOp))
Ror == Executing("ror") /\ (ShiftBy(RorOp) \/ InMemory(RorMemoryOp))
Roxl == Executing("roxl") /\ (ShiftBy(RoxlOp) \/ InMemory(RoxlMemoryOp))
Roxr == Executing("roxr") /\ (ShiftBy(RoxrOp) \/ InMemory(RoxrMemoryOp))

-----------------------------------------------------------------------------
(* Single bits: of a register by a number below its width, of a byte in       *)
(* memory by the number modulo 8.  Z tells the bit as it was.                 *)
BitNumber ==
  LET b == Operand(I.s, "l", a) % Width(Long)
  IN  IF I.t.mode = "d" THEN b ELSE b % 8

BitSize == IF I.t.mode = "d" THEN "l" ELSE "b"

BitOp(set) ==
  LET v == Operand(I.t, BitSize, a)
      old == Bit(v, BitNumber)
  IN  /\ Store(I.t, BitSize, v + (One(set) - One(old)) * 2^BitNumber, a)
      /\ ccr' = [ccr EXCEPT !.z = ~old]
      /\ Continue

OldBit == Bit(Operand(I.t, BitSize, a), BitNumber)

Btst == Executing("btst") /\ BitOp(OldBit)
Bset == Executing("bset") /\ BitOp(TRUE)
Bclr == Executing("bclr") /\ BitOp(FALSE)
Bchg == Executing("bchg") /\ BitOp(~OldBit)

\* TAS sets the top bit of a byte whose value gives the flags.
Tas ==
  /\ Executing("tas")
  /\ LET v == Operand(I.t, "b", a)
     IN  Store(I.t, "b", Or(v, 128), a) /\ ccr' = MoveOp(256, ccr, v).f
  /\ Continue
=============================================================================
