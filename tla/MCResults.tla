----------------------------- MODULE MCResults -----------------------------
(* The tasks TLC runs: operands at the boundaries of each size.  A word has   *)
(* fifteen bits, so that a long of two words fits the integers of TLC; the    *)
(* high byte of a word in memory has seven.                                   *)
EXTENDS Results, TLC

\* The programs as a table: @@ makes TLC put each program together once.
ProgramCode == [p \in ProgramNames |-> Program(p)] @@ <<>>

Task(p, regs, bytes) == [program |-> p, d |-> regs, bytes |-> bytes]
Named(kinds) == {p \in ProgramNames : p[1] \in kinds}

ByteValues == {1, 127, 128, 255}
Edges(m) == {0, 1, m \div 2 - 1, m \div 2, m - 1}
Decimals == {0, 9, 80, 153}
Upper == 5 * Word      \* something above the low word

ChainTasks ==
  {Task(<<"chain", op>>, <<0, 0, 0, 0>>, <<v, w, 0, 0, x, y>>) :
     op \in {"addx", "subx"}, v, w, x, y \in ByteValues}
  \cup {Task(<<"chain", "negx">>, <<0, 0, 0, 0>>, <<0, 0, 0, 0, x, y>>) : x, y \in ByteValues}
  \cup {Task(<<"chain", op>>, <<0, 0, 0, 0>>, <<v, w, 0, 0, x, y>>) :
     op \in {"abcd", "sbcd"}, v, w, x, y \in Decimals}

PairTasks ==
  UNION {{Task(p, <<Upper + v, Upper + w, Upper + x, Upper + y>>, <<>>) :
            v, x \in {0, 1, Modulus[p[3]] - 1}, w, y \in Edges(Modulus[p[3]])} : p \in Named({"pair"})}

WithTasks ==
  UNION {{Task(p, <<0, Upper + w, Upper + x, Upper + y>>, <<>>) :
            x \in {1, Modulus[p[3]] - 1}, w, y \in Edges(Modulus[p[3]])} : p \in Named({"with"})}

DecideTasks ==
  UNION {{Task(p, <<v, w, Upper, Upper + (IF v = w THEN 0 ELSE 5)>>, <<>>) :
            v \in Edges(Modulus[p[3]]),
            w \in Edges(IF p[2] = "cmpa" THEN Long ELSE Modulus[p[3]])} : p \in Named({"decide"})}

StringTasks ==
  {Task(<<"strings", "">>, <<0, 0, 0, 0>>, <<v, w, 0, 0, x, y>>) : v, w, x, y \in {0, 127, 128, 255}}

CopyTasks ==
  {Task(<<"words", "">>, <<Upper + n, 0, 0, 0>>, <<1, 255, 2, 254, 3, 253, 4, 252>>) : n \in 0 .. 3}
  \cup {Task(<<"until", "">>, <<n, 0, 0, 0>>, <<1, 255, 2, 254, 3, 253, 4, 252>>) : n \in 1 .. 8}

CallTasks ==
  {Task(<<"sum", "">>, <<Upper + n, 0, 7 * Word + 9, 0>>, <<>>) : n \in 0 .. 3}
  \cup {Task(<<"flags", "">>, <<f, 0, keep, set>>, <<>>) :
          f \in 0 .. 31, keep \in {0, 21, 31}, set \in {0, 10, 31}}

\* Without the smallest long by -1, which stops the emulator itself.
DivideTasks ==
  {t \in {Task(p, <<v, Upper + w, 0, 0>>, <<>>) :
           p \in Named({"divide"}),
           v \in Edges(Long) \cup Edges(Word) \cup {7, Word, Word + 5, Long - 7, (Word \div 2) * (Word \div 2)},
           w \in Edges(Word) \cup {2, 3, Word - 3}} :
     ~(t.program[2] = "divs" /\ t.d[1] = Long \div 2 /\ t.d[2] % Word = Word - 1)}

Patterns(m) == Edges(m) \cup {m \div 3, m - m \div 5}

ShiftTasks ==
  UNION {{Task(p, <<v, n, 0, 0>>, <<>>) :
            v \in Patterns(Modulus[p[3]]) \cup {Upper + Modulus["b"] - 2},
            n \in {0, 1, 3, IF p[2] = "asl" THEN 7 ELSE 8}} : p \in Named({"shift"})}
  \cup UNION {{Task(p, <<v, n, x, 0>>, <<>>) :
            v \in Edges(Modulus[p[3]]), n \in {0, 5, 8}, x \in {0, 16}} : p \in Named({"unrotate"})}
  \cup {Task(p, <<0, 0, 0, 0>>, <<v, w, x, y>>) :
          p \in Named({"doubled", "halved", "turned"}), v, x \in {0, 1, 63, 64, 127}, w, y \in {0, 1, 255}}

BitTasks ==
  UNION {{Task(p, <<v, Upper, 0, 0>>, <<9, 9, 9, 9, 9, 9, 9, 9>>) : v \in Patterns(Modulus[p[2]])} :
           p \in Named({"peripheral"})}
  \cup {Task(p, <<v, w, 0, 0>>, <<>>) : p \in Named({"exchange"}), v, w \in Patterns(Long)}
  \cup UNION {{Task(p, <<v, w, 0, 0>>, <<>>) : v, w \in Patterns(Modulus[p[2]])} : p \in Named({"demorgan"})}
  \cup UNION {{Task(p, <<v, 0, 0, 0>>, <<>>) : v \in Patterns(Modulus[p[2]])} : p \in Named({"mask"})}
  \cup {Task(p, <<v, n, w, 0>>, <<9, w % 256, 9>>) :
          p \in Named({"copybit"}), v, w \in {0, Long \div 3, Long - 1}, n \in {0, 1, 7, 8, 15, 29, 31}}
  \cup {Task(<<"widen", "">>, <<Upper + v, 0, 0, 0>>, <<>>) : v \in ByteValues}
  \cup {Task(<<"lock", "">>, <<0, 0, 0, Upper + Word - 2>>, <<0, 0, 0, v>>) : v \in ByteValues}

AllTasks ==
  UNION {ChainTasks, PairTasks, WithTasks, DecideTasks, StringTasks, CopyTasks, CallTasks,
         DivideTasks, ShiftTasks, BitTasks}
=============================================================================
