------------------------------ MODULE Programs ------------------------------
(* Guest programs that a reference decides: arithmetic on several digits,     *)
(* comparisons under every condition, loops, calls, division, shifts and bit  *)
(* operations.  A task is a program with the registers and the memory it is   *)
(* started with; what it must have done when it stops is said in numbers.     *)
EXTENDS Guest

Ins(op, sz, s, t) == [op |-> op, sz |-> sz, s |-> s, t |-> t]
Branch(cc, to) == [op |-> "bcc", cc |-> cc, to |-> to]
Loop(cc, r, to) == [op |-> "dbcc", cc |-> cc, t |-> D(r), to |-> to]
SetIf(cc, e) == [op |-> "scc", cc |-> cc, t |-> e]
Lists(op, sz, e, list) == [op |-> op, sz |-> sz, t |-> e, list |-> list]
SetZ == Ins("movetoccr", "w", Imm(4), Imm(0))
SaveSr(x) == Ins("movefromsr", "w", Imm(0), Abs(x))

-----------------------------------------------------------------------------
(* Two digits in memory, the low one last: -(A0) and -(A1).                    *)
Chain(op, s) ==
  << Ins("lea", "l", Abs(2), A(0)), Ins("lea", "l", Abs(6), A(1)),
     Ins("moveq", "l", Imm(1), D(0)), SetZ,
     Ins(op, "b", s, Dec(1)), Loop("f", 0, 5) >>

\* Two digits in registers: D0, D1 and D2, D3, the low ones first.
Pair(op, opx, sz) ==
  << Ins(op, sz, D(0), D(2)), Ins(opx, sz, D(1), D(3)) >>

\* The same with the low digit k in the instruction.
PairWith(op, opx, sz, k) ==
  << Ins(op, sz, Imm(k), D(2)), Ins(opx, sz, D(1), D(3)) >>

\* Compare byte strings of two bytes.
Strings ==
  << Ins("lea", "l", Abs(0), A(0)), Ins("lea", "l", Abs(4), A(1)),
     Ins("moveq", "l", Imm(1), D(0)),
     Ins("cmpm", "b", Inc(0), Inc(1)), Loop("ne", 0, 4),
     SetIf("hi", D(1)), SetIf("cs", D(2)), SetIf("eq", D(3)) >>

\* D1 against D0, decided by Scc, DBcc and Bcc: D2 is 255, D3 not decremented
\* and D0 set to 85 if the condition holds.
Decide(op, sz, cc) ==
  << Ins("movea", "l", D(1), A(1)), Ins(op, sz, D(0), IF op = "cmpa" THEN A(1) ELSE D(1)),
     SetIf(cc, D(2)), Loop(cc, 3, 5), Branch(cc, 7),
     Ins("jmp", "l", Imm(0), Abs(8)), Ins("moveq", "l", Imm(85), D(0)) >>

\* Copy D0 + 1 words from A0 to A1.
CopyWords ==
  << Ins("lea", "l", Off(0, 8), A(1)), Ins("move", "w", Inc(0), Inc(1)), Loop("f", 0, 2) >>

\* Copy bytes up to address D0 to the place eight bytes on.
CopyUntil ==
  << Ins("movea", "l", A(0), A(1)), Ins("adda", "w", Imm(9), A(1)),
     Ins("subq", "w", Imm(5), A(1)), Ins("addq", "l", Imm(4), A(1)),
     Ins("move", "b", Inc(0), Inc(1)), Ins("cmpa", "w", D(0), A(0)), Branch("cs", 5),
     Ins("suba", "w", D(0), A(1)) >>

\* The sum of 1 to D0 in D1 by a recursive function at 4, which keeps D0 and D2.
Recursion ==
  << Ins("clr", "l", Imm(0), D(1)),
     Ins("pea", "l", Abs(17), Imm(0)), Ins("jmp", "l", Imm(0), Abs(4)),
     Ins("link", "w", Imm(-4), A(6)),
     Lists("movemstore", "l", Dec(7), <<D(0), D(2)>>),
     Ins("move", "w", D(0), Off(6, -2)), Ins("cmpi", "w", Imm(0), D(0)), Branch("eq", 13),
     Ins("add", "w", Off(6, -2), D(1)), Ins("subq", "w", Imm(1), D(0)),
     Ins("moveq", "l", Imm(255), D(2)), [op |-> "bsr", to |-> 4],
     Ins("tst", "w", Off(6, -2), Imm(0)),
     Lists("movemload", "l", Inc(7), <<D(0), D(2)>>),
     Ins("unlk", "l", Imm(0), A(6)), [op |-> "rts"] >>

\* Condition codes kept over a subroutine that changes them all.
KeepFlags ==
  << Ins("movetoccr", "w", D(0), Imm(0)),
     Ins("jsr", "l", Imm(0), Abs(5)), Ins("movefromsr", "w", Imm(0), D(1)),
     Ins("jmp", "l", Imm(0), Abs(10)),
     Ins("movefromsr", "w", Imm(0), Dec(7)), Ins("anditoccr", "b", D(2), Imm(0)),
     Ins("oritoccr", "b", D(3), Imm(0)), Ins("eoritoccr", "b", D(2), Imm(0)),
     [op |-> "rtr"] >>

\* Divide D0 by D1 into D2, and put the dividend together again; stop at 10 if
\* the quotient does not fit.  Two instructions bring the remainder to D3.
Divide(op, mul, first, second) ==
  << Ins("move", "l", D(0), D(2)), Ins(op, "w", D(1), D(2)), Branch("vs", 10),
     Ins("move", "l", D(2), D(3)), first, second,
     Ins(mul, "w", D(1), D(2)), Ins("add", "l", D(3), D(2)) >>

\* Shift D0 by D1, and D2 by one as many times; the flags go to 0 and 2.
Shift(op, sz) ==
  << Ins("move", "l", D(0), D(2)), SetZ,
     Ins(op, sz, D(1), D(0)), SaveSr(0),
     SetZ, Ins("jmp", "l", Imm(0), Abs(9)),
     Ins(op, sz, Imm(1), D(2)), SaveSr(2), Loop("f", 1, 7) >>

\* A rotation and its inverse.
Unrotate(op, back, sz) ==
  << Ins("movetoccr", "w", D(2), Imm(0)), Ins(op, sz, D(1), D(0)), Ins(back, sz, D(1), D(0)),
     SaveSr(0) >>

\* A long in memory, doubled or halved by words, and a word turned to and fro.
Doubled(op) == << Ins(op, "w", Imm(1), Abs(2)), Ins("roxl", "w", Imm(1), Abs(0)) >>
Halved(op) == << Ins(op, "w", Imm(1), Abs(0)), Ins("roxr", "w", Imm(1), Abs(2)) >>
Turned(op, back) == << Ins(op, "w", Imm(1), Abs(0)), Ins(back, "w", Imm(1), Abs(0)) >>

\* D0 through the bytes at every second address, and back into D1.
Peripheral(sz) ==
  << Ins("movepstore", sz, D(0), Off(0, 1)), Ins("movepload", sz, Off(0, 1), D(1)) >>

\* Exchange D0 and D1 in two ways.
ExchangeByEor ==
  << Ins("eor", "l", D(0), D(1)), Ins("eor", "l", D(1), D(0)), Ins("eor", "l", D(0), D(1)) >>
ExchangeByExg ==
  << Ins("movea", "l", D(1), A(0)), Ins("exg", "l", A(0), A(1)), Ins("exg", "l", D(0), A(1)),
     Ins("exg", "l", D(1), D(3)), Ins("exg", "l", D(1), A(1)) >>

\* D1 becomes D0 and D1, and D2 not (not D0 or not D1).
DeMorgan(sz) ==
  << Ins("move", sz, D(0), D(2)), Ins("move", sz, D(1), D(3)),
     Ins("not", sz, Imm(0), D(2)), Ins("not", sz, Imm(0), D(3)), Ins("or", sz, D(3), D(2)),
     Ins("not", sz, Imm(0), D(2)), Ins("and", sz, D(0), D(1)) >>

\* The bits of D0 under a mask k, kept, set and toggled.
Masked(sz, k) ==
  << Ins("move", sz, D(0), D(1)), Ins("move", sz, D(0), D(2)), Ins("move", sz, D(0), D(3)),
     Ins("andi", sz, Imm(k), D(1)), Ins("ori", sz, Imm(k), D(2)), Ins("eori", sz, Imm(k), D(3)) >>

\* Copy the bit D1 of D0 to e, look at it and toggle it; D3 tells what was seen.
CopyBit(e) ==
  << Ins("btst", "l", D(1), D(0)), Branch("eq", 5), Ins("bset", "l", D(1), e),
     Ins("jmp", "l", Imm(0), Abs(6)), Ins("bclr", "l", D(1), e),
     Ins("btst", "l", D(1), e), SetIf("ne", D(3)), Ins("bchg", "l", D(1), e) >>

\* The byte of D0 as a long.
Widen == << Ins("ext", "w", Imm(0), D(0)), Ins("ext", "l", Imm(0), D(0)) >>

\* Two attempts at a lock at address 3; D1 and D2 tell who found it free.
Lock == << Ins("tas", "b", Imm(0), Off(0, 3)), SetIf("pl", D(1)),
           Ins("tas", "b", Imm(0), Index(0, 3, "w", 5)), SetIf("pl", D(2)) >>

-----------------------------------------------------------------------------
(* The programs by name.                                                      *)
Sizes == {"b", "w", "l"}
Shifts == {"asl", "asr", "lsl", "lsr", "rol", "ror", "roxl", "roxr"}
Back(op) ==
  [rol |-> "ror", ror |-> "rol", roxl |-> "roxr", roxr |-> "roxl"][op]
Conditions == DOMAIN Condition([x |-> FALSE, n |-> FALSE, z |-> FALSE, v |-> FALSE, c |-> FALSE])

ImmediateNames ==
  UNION {{"with"} \X {"addi", "subi"} \X {sz} \X {1, Modulus[sz] \div 2, Modulus[sz] - 1} :
           sz \in {"b", "w"}}
MaskNames == UNION {{"mask"} \X {sz} \X {Modulus[sz] \div 3, Modulus[sz] \div 5} : sz \in Sizes}

SumNames ==
  ({"chain"} \X {"addx", "subx", "negx", "abcd", "sbcd"})
  \cup ({"pair"} \X {"add", "sub", "neg"} \X {"b", "w"})
  \cup ImmediateNames \cup ({"with"} \X {"addq", "subq"} \X {"b", "w"} \X {1, 8})
  \cup ({"divide"} \X {"divu", "divs"})

OrderNames ==
  ({"decide"} \X {"cmp", "sub"} \X Sizes \X Conditions)
  \cup ({"decide"} \X {"cmpa"} \X {"w", "l"} \X Conditions)
  \cup {<<"strings", "">>}

LoopNames == {"words", "until", "sum", "flags"} \X {""}

ShiftNames ==
  ({"shift"} \X Shifts \X Sizes)
  \cup ({"unrotate"} \X {"rol", "ror", "roxl", "roxr"} \X Sizes)
  \cup ({"doubled"} \X {"asl", "lsl"}) \cup ({"halved"} \X {"asr", "lsr"})
  \cup ({"turned"} \X {"rol", "ror"})

BitNames ==
  MaskNames \cup ({"peripheral"} \X {"w", "l"})
  \cup ({"exchange"} \X {"eor", "exg"})
  \cup ({"demorgan"} \X Sizes) \cup ({"copybit"} \X {"d", "abs"})
  \cup ({"widen", "lock"} \X {""})

ProgramNames == SumNames \cup OrderNames \cup LoopNames \cup ShiftNames \cup BitNames

Program(p) ==
  CASE p[1] = "chain" -> Chain(p[2], Dec(0))
    [] p[1] = "pair" -> Pair(p[2], [add |-> "addx", sub |-> "subx", neg |-> "negx"][p[2]], p[3])
    [] p[1] = "with" -> PairWith(p[2], IF p[2] \in {"addi", "addq"} THEN "addx" ELSE "subx", p[3], p[4])
    [] p[1] = "mask" -> Masked(p[2], p[3])
    [] p[1] = "decide" -> Decide(p[2], p[3], p[4])
    [] p = <<"divide", "divu">> ->
         Divide("divu", "mulu", Ins("clr", "w", Imm(0), D(3)), Ins("swap", "l", Imm(0), D(3)))
    [] p = <<"divide", "divs">> ->
         Divide("divs", "muls", Ins("swap", "l", Imm(0), D(3)), Ins("ext", "l", Imm(0), D(3)))
    [] p[1] = "shift" -> Shift(p[2], p[3])
    [] p[1] = "unrotate" -> Unrotate(p[2], Back(p[2]), p[3])
    [] p[1] = "doubled" -> Doubled(p[2])
    [] p[1] = "halved" -> Halved(p[2])
    [] p[1] = "turned" -> Turned(p[2], Back(p[2]))
    [] p[1] = "peripheral" -> Peripheral(p[2])
    [] p = <<"exchange", "eor">> -> ExchangeByEor
    [] p = <<"exchange", "exg">> -> ExchangeByExg
    [] p[1] = "demorgan" -> DeMorgan(p[2])
    [] p[1] = "copybit" -> CopyBit(IF p[2] = "d" THEN D(2) ELSE Abs(1))
    [] p[1] = "strings" -> Strings
    [] p[1] = "words" -> CopyWords
    [] p[1] = "until" -> CopyUntil
    [] p[1] = "sum" -> Recursion
    [] p[1] = "flags" -> KeepFlags
    [] p[1] = "widen" -> Widen
    [] p[1] = "lock" -> Lock
=============================================================================
