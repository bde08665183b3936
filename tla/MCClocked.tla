----------------------------- MODULE MCClocked -----------------------------
(* Programs for the clocked core: every instruction it has a handler for,     *)
(* with every kind of operand in every size, and programs of Results in which *)
(* clocked and whole instructions follow each other.                          *)
EXTENDS Equivalence, Programs, TLC

\* A0 is 40 and D1 is small wherever an operand names them.
FarAbs(x) == [mode |-> "abs", address |-> x, far |-> TRUE]
OperandAt(m) ==
  CASE m = "d"      -> D(1)               [] m = "a"      -> A(0)
    [] m = "at"     -> At(0)              [] m = "inc"    -> Inc(0)
    [] m = "dec"    -> Dec(0)             [] m = "off"    -> Off(0, -4)
    [] m = "index"  -> Index(0, 1, "w", -6) [] m = "indexl" -> Index(0, 1, "l", 2)
    [] m = "abs"    -> Abs(36)            [] m = "far"    -> FarAbs(44)
    [] m = "imm"    -> Imm(5)            [] m = "same"   -> D(2)

Memories == {"at", "inc", "dec", "off", "index", "indexl", "abs", "far"}
Setup == Ins("lea", "l", Abs(40), A(0))

Branching(cc, to, wide) ==
  IF wide THEN [op |-> "bcc", cc |-> cc, to |-> to, wide |-> TRUE] ELSE Branch(cc, to)
Calling(to, wide) ==
  IF wide THEN [op |-> "bsr", to |-> to, wide |-> TRUE] ELSE [op |-> "bsr", to |-> to]

\* A branch over an instruction, a subroutine, and registers stored and loaded.
Over(cc, wide) ==
  << Ins("cmp", "w", D(0), D(1)), Branching(cc, 4, wide),
     Ins("moveq", "l", Imm(85), D(2)), Ins("exg", "l", D(2), D(3)) >>
Through(wide) ==
  << Calling(3, wide), Branching("t", 5, wide), Ins("neg", "w", Imm(0), D(0)), [op |-> "rts"] >>
ListOf(l) ==
  CASE l = "some" -> <<D(0), D(3), A(1)>>
    [] l = "base" -> <<D(2), A(0), A(7)>>
Saved(sz, m, n, l) ==
  << Setup, Lists("movemstore", sz, OperandAt(m), ListOf(l)),
     Lists("movemload", sz, OperandAt(n), ListOf(l)) >>

ClockedNames ==
  ({"from"} \X {"add", "sub", "cmp"} \X Sizes \X (Memories \cup {"d", "imm", "same"}))
  \cup ({"from"} \X {"add", "sub", "cmp"} \X {"w", "l"} \X {"a"})
  \cup ({"to"} \X {"add", "sub"} \X Sizes \X Memories)
  \cup ({"one"} \X {"neg", "negx", "clr"} \X Sizes \X (Memories \cup {"d"}))
  \cup ({"complement"} \X {"not"} \X Sizes \X (Memories \cup {"d"}))
  \cup ({"lea"} \X (Memories \ {"inc", "dec"}))
  \cup ({"over"} \X (Conditions \ {"f"}) \X BOOLEAN)
  \cup ({"through"} \X BOOLEAN)
  \cup ({"saved"} \X {"w", "l"} \X (Memories \ {"inc"}) \X (Memories \ {"dec"}) \X {"some", "base"})

ClockedProgram(p) ==
  CASE p[1] = "from" -> << Setup, Ins(p[2], p[3], OperandAt(p[4]), D(2)) >>
    [] p[1] = "to"   -> << Setup, Ins(p[2], p[3], D(2), OperandAt(p[4])) >>
    [] p[1] \in {"one", "complement"} -> << Setup, Ins(p[2], p[3], Imm(0), OperandAt(p[4])) >>
    [] p[1] = "lea"  -> << Setup, Ins("lea", "l", OperandAt(p[2]), A(1)) >>
    [] p[1] = "over" -> Over(p[2], p[3])
    [] p[1] = "through" -> Through(p[2])
    [] p[1] = "saved" -> Saved(p[2], p[3], p[4], p[5])
    [] p[1] = "sum" -> Recursion
    [] p[1] = "exchange" -> ExchangeByExg
    [] p[1] = "chain" -> Chain("negx", Dec(0))
    [] p[1] = "decide" -> Decide("sub", "l", "lt")
    [] p[1] = "pair" -> Pair("neg", "negx", "w")

MixedNames ==
  {<<"sum">>, <<"exchange">>, <<"chain">>, <<"decide">>, <<"pair">>}

ClockedCode == [p \in ClockedNames \cup MixedNames |-> ClockedProgram(p)] @@ <<>>

Task(p, regs, bytes) == [program |-> p, d |-> regs, bytes |-> bytes]
Named(kinds) == {p \in ClockedNames : p[1] \in kinds}

\* Bytes 32 to 47 are what the operands lie in; a word has a high byte of seven bits.
Field(x, y) == [n \in 1 .. 48 |-> IF n <= 32 THEN 0 ELSE IF n % 2 = 1 THEN x ELSE y]
Contents == {0, 1, Word + 7, Long \div 2 - 1, Long \div 2, Long - 1}

EqualTasks ==
  {Task(p, <<0, 4, v, 1>>, Field(x[1], x[2])) :
     p \in Named({"from", "to", "one", "complement"}), v \in Contents, x \in {<<0, 0>>, <<127, 255>>, <<64, 1>>}}
  \cup {Task(p, <<v, 4, v, 9>>, Field(1, 2)) : p \in Named({"lea"}), v \in {0}}
  \cup {Task(p, <<v, w, 7, 1>>, <<>>) : p \in Named({"over"}), v, w \in {0, 1, Word - 1}}
  \cup {Task(p, <<v, 4, Long - v, 9>>, Field(65, 2)) :
          p \in Named({"through", "saved"}), v \in {1, Word + 5}}
  \cup {Task(<<"sum">>, <<3, 0, 5, 0>>, <<>>),
        Task(<<"exchange">>, <<3, Long - 1, 5, 0>>, <<>>),
        Task(<<"chain">>, <<0, 0, 0, 0>>, <<0, 0, 0, 0, 1, 2>>),
        Task(<<"decide">>, <<7, Long - 1, 0, 0>>, <<>>),
        Task(<<"pair">>, <<3, 4, 5, 0>>, <<>>)}
=============================================================================
