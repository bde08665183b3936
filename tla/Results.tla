------------------------------ MODULE Results ------------------------------
(* What each program must have done when it stops, in numbers.                *)
EXTENDS Programs

\* The programs are those of Programs, started with any registers and bytes.
ASSUME TaskAssumption ==
  /\ Stack \in Nat /\ Stack >= 8
  /\ \A p \in ProgramNames : p \in DOMAIN Code /\ Code[p] = Program(p)
  /\ \A t \in Tasks : /\ t.program \in ProgramNames
                      /\ t.d \in [1 .. 4 -> Values(Long)]
                      /\ t.bytes \in Seq(Values(256))

Spec == Init /\ [][Next]_vars /\ WF_vars(Next)

-----------------------------------------------------------------------------
Kind == task.program[1]
Done(kinds) == Halted /\ Kind \in kinds
Given(x) == IF x < Len(task.bytes) THEN task.bytes[x + 1] ELSE 0
GivenD(r) == task.d[r + 1]
GivenWord(x) == 256 * Given(x) + Given(x + 1)
Low(r, m) == d[r] % m

\* Only these registers changed, and of them only the low part of size m.
Changed(regs, m) ==
  \A r \in DOMAIN d : IF r \in regs THEN d[r] \div m = GivenD(r) \div m ELSE d[r] = GivenD(r)

-----------------------------------------------------------------------------
(* Arithmetic on two digits of size m: s to or from t gives r.                *)
Sum(op, t, s) ==
  CASE op \in {"add", "addi", "addq", "addx"} -> t + s
    [] op \in {"sub", "subi", "subq", "subx"} -> t - s
    [] op \in {"neg", "negx"} -> 0 - t

TwoDigits(op, m, t, s, r) ==
  LET mm == m * m
      exact == Sum(op, t, s)
      sgn == Sum(op, Signed(mm, t), Signed(mm, s))
  IN  /\ r = exact % mm
      /\ ccr.x = (exact \notin 0 .. mm - 1) /\ ccr.c = ccr.x
      /\ ccr.z = (r = 0)
      /\ ccr.v = (sgn \notin -(mm \div 2) .. mm \div 2 - 1)
      /\ (ccr.n # ccr.v) = (sgn < 0)

\* A byte of two decimal digits.
DecimalByte(b) == b \in 0 .. 255 /\ b % 16 < 10 /\ b \div 16 < 10

TwoDecimals(op, t, s, r) ==
  LET Value(w) == 100 * Decimal(w \div 256) + Decimal(w % 256)
      \* SBCD is right where no byte borrows from the next.
      borrows == op = "sbcd" /\ \/ Decimal(s % 256) > Decimal(t % 256)
                                \/ Decimal(s \div 256) > Decimal(t \div 256)
      exact == IF op = "abcd" THEN Value(t) + Value(s) ELSE Value(t) - Value(s)
      decimals == \A w \in {s, t} : DecimalByte(w \div 256) /\ DecimalByte(w % 256)
  IN  decimals /\ ~borrows =>
        Value(r) = exact % 10000 /\ ccr.x = (exact < 0 \/ exact >= 10000) /\ ccr.c = ccr.x

\* Sums, differences and negations of two digits, chained by X, are exact; X and
\* C are the carry out of both, Z is set exactly if both digits are zero, V if
\* the signed result does not fit, and N differs from V exactly if it is
\* negative (add.c, addx.c, sub.c, subx.c, neg.c, negx.c, abcd.c, sbcd.c).
SumsExact ==
  /\ Done({"chain"}) =>
       LET op == task.program[2]
           r == 256 * mem[4] + mem[5]
       IN  IF op \in {"abcd", "sbcd"}
             THEN TwoDecimals(op, GivenWord(4), GivenWord(0), r)
             ELSE TwoDigits(op, 256, GivenWord(4), GivenWord(0), r)
  /\ Done({"pair", "with"}) =>
       LET m == Modulus[task.program[3]]
           Both(lo, hi) == (GivenD(hi) % m) * m + (lo % m)
           low == IF Kind = "with" THEN task.program[4] ELSE GivenD(0)
       IN  /\ TwoDigits(task.program[2], m, Both(GivenD(2), 3), Both(low, 1),
                        Low(3, m) * m + Low(2, m))
           /\ Changed({2, 3}, m)

\* Division puts out the quotient rounded to zero and the remainder with the
\* sign of the dividend, or V and an unchanged register if the quotient does
\* not fit a word; by zero it raises its exception (divu.c, divs.c, mulu.c, muls.c).
QuotientsExact ==
  Done({"divide"}) =>
    LET signed == task.program[2] = "divs"
        num == IF signed THEN Signed(Long, GivenD(0)) ELSE GivenD(0)
        den == IF signed THEN Signed(Word, GivenD(1) % Word) ELSE GivenD(1) % Word
        rem == IF signed THEN Signed(Long, d[3]) ELSE d[3]
        Size(v) == IF v < 0 THEN -v ELSE v
        q == Size(num) \div Size(den)
        negative == (num < 0) # (den < 0)
        fits == IF signed THEN q <= (IF negative THEN Word \div 2 ELSE Word \div 2 - 1)
                ELSE q < Word
    IN  IF den = 0 THEN pc = 0
        ELSE /\ pc # 0
             /\ (pc = 10) = ~fits
             /\ d[2] = GivenD(0)
             /\ fits => Size(rem) < Size(den) /\ (rem # 0 => (rem < 0) = (num < 0))

\* Sums and quotients of programs are exact at every boundary of their sizes
\* (cpu.h:245-400).
ArithmeticExact == SumsExact /\ QuotientsExact

-----------------------------------------------------------------------------
\* A relation of t to s, operands of size m, by its condition.
Related(cc, m, s, t) ==
  LET st == Signed(m, t)
      ss == Signed(m, s)
      fits == st - ss \in -(m \div 2) .. m \div 2 - 1
  IN  CASE cc = "t" -> TRUE   [] cc = "f" -> FALSE
        [] cc = "hi" -> t > s [] cc = "ls" -> t <= s [] cc = "cc" -> t >= s [] cc = "cs" -> t < s
        [] cc = "ne" -> t # s [] cc = "eq" -> t = s
        [] cc = "vc" -> fits  [] cc = "vs" -> ~fits
        [] cc = "pl" -> ~Top(m, (t - s) % m) [] cc = "mi" -> Top(m, (t - s) % m)
        [] cc = "ge" -> st >= ss [] cc = "lt" -> st < ss
        [] cc = "gt" -> st > ss  [] cc = "le" -> st <= ss

\* What a task decides: D1 against D0.
TaskHolds ==
  LET sz == task.program[3]
      s == GivenD(0) % Modulus[sz]
  IN  IF task.program[2] = "cmpa" THEN Related(task.program[4], Long, SignExtend(sz, s), GivenD(1))
      ELSE Related(task.program[4], Modulus[sz], s, GivenD(1) % Modulus[sz])

\* One less in the low word.
CountedDown(v) == Insert(v, "w", ((v % Word) - 1) % Word)

Decided ==
  /\ d[0] = IF TaskHolds THEN 85 ELSE GivenD(0)
  /\ d[3] = IF TaskHolds THEN GivenD(3) ELSE CountedDown(GivenD(3))
  /\ task.program[4] # "lt" => Low(2, 256) = IF TaskHolds THEN 255 ELSE 0

StringsDecided ==
  LET s == GivenWord(0)
      t == GivenWord(4)
  IN  /\ Low(1, 256) = IF t > s THEN 255 ELSE 0
      /\ Low(2, 256) = IF t < s THEN 255 ELSE 0
      /\ Low(3, 256) = IF t = s THEN 255 ELSE 0

\* A comparison decides every branch and loop by the relation of the operands
\* as numbers with and without sign; strings are compared up to the first
\* difference.  Of the conditions of Scc "lt" is left out, which never holds
\* (bcc.c, dbcc.c, scc.c, cpu.h:255).
OrderDecided == (Done({"decide"}) => Decided) /\ (Done({"strings"}) => StringsDecided)

-----------------------------------------------------------------------------
\* Copied: n bytes from 0 to 8, and memory otherwise as it was given.
Copied(n) ==
  \A x \in DOMAIN mem : mem[x] = IF x - 8 \in 0 .. n - 1 THEN Given(x - 8) ELSE Given(x)

\* Copy loops counted by DBcc and bounded by an address move exactly what they
\* are given, and the address registers end behind it (dbcc.c, move.c, ea.c).
CopiesExact ==
  /\ Done({"words"}) =>
       LET n == (GivenD(0) % Word) + 1
       IN  Copied(2 * n) /\ a[0] = 2 * n /\ a[1] = 8 + 2 * n /\ Low(0, Word) = Word - 1
           /\ Changed({0}, Word)
  /\ Done({"until"}) => Copied(GivenD(0)) /\ a[0] = GivenD(0) /\ a[1] = 8

\* Recursive calls with frames, saved registers and arguments come back to their
\* callers: the function's value is right, everything it saved is restored and
\* the stack is empty; the condition codes come through a subroutine that
\* changes them all (bsr.c, rts.c, rtr.c, link.c, unlk.c, movem.c).
CallsReturn ==
  /\ Done({"sum"}) =>
       LET n == GivenD(0) % Word
       IN  d[1] = (n * (n + 1)) \div 2 /\ Changed({1}, Long)
           /\ a = [r \in DOMAIN a |-> IF r = 7 THEN Stack ELSE 0]
  /\ Done({"flags"}) =>
       Low(1, 32) = GivenD(0) % 32 /\ a[7] = Stack /\ CcrByte(ccr) = GivenD(0) % 32

\* Loops and nested calls end with what they were given, in its place, and with
\* every register and the stack as their callers left them (dbcc.c, movem.c).
LoopsAndCalls == CopiesExact /\ CallsReturn

-----------------------------------------------------------------------------
\* The saved condition codes but for V.
SavedCodes(x) == [ToFlags(mem[x + 1]) EXCEPT !.v = FALSE]

\* A shift by a count is that many shifts by one, in the value and in X, N, Z
\* and C, with C clear for a count of zero and V of ASL.B telling whether the
\* sign ever changed; a rotation is undone by its inverse, X included; shifts of
\* words chained through X double and halve a long (asl.c, asr.c, lsl.c, lsr.c,
\* rol.c, ror.c, roxl.c, roxr.c).
ShiftsAgree ==
  /\ Done({"shift"}) =>
       LET m == Modulus[task.program[3]]
           count == GivenD(1)
           fits == Signed(m, GivenD(0) % m) * 2^count \in -(m \div 2) .. m \div 2 - 1
       IN  /\ d[0] = d[2] /\ d[0] \div m = GivenD(0) \div m
           /\ IF count = 0 THEN ~SavedCodes(0).x /\ ~SavedCodes(0).c
              ELSE SavedCodes(0) = SavedCodes(2)
           /\ task.program[2] = "asl" /\ m = 256 => ToFlags(mem[1]).v = ~fits
  /\ Done({"unrotate"}) =>
       d[0] = GivenD(0) /\ (task.program[2] \in {"roxl", "roxr"} => ccr.x = Bit(GivenD(2), 4))
  /\ Done({"doubled"}) =>
       LET v == Word * GivenWord(0) + GivenWord(2)
       IN  Peek(0, "l") = (2 * v) % Long /\ ccr.x = Top(Long, v)
  /\ Done({"halved"}) =>
       LET v == Word * GivenWord(0) + GivenWord(2)
       IN  Peek(0, "l") = (IF task.program[2] = "asr" THEN (Signed(Long, v) \div 2) % Long
                           ELSE v \div 2)
           /\ ccr.x = (v % 2 = 1)
  /\ Done({"turned"}) => PeekWord(0) = GivenWord(0)

\* Bits and bytes arrive where they are meant to and nothing else changes:
\* MOVEP round trips and leaves the bytes between, EOR and EXG exchange
\* registers, De Morgan's law holds, a mask keeps, sets and
\* toggles its bits, a bit is copied under its number modulo
\* the operand's width, a byte is widened with its sign, and of two attempts at
\* a TAS lock one at most succeeds (movep.c, eor.c, exg.c, and.c, or.c, not.c,
\* btst.c, bset.c, bclr.c, bchg.c, ext.c, tas.c).
BitsAndBytes ==
  /\ Done({"peripheral"}) =>
       LET m == Modulus[task.program[2]]
       IN  Low(1, m) = Low(0, m) /\ Changed({1}, m)
           /\ \A x \in DOMAIN mem : x % 2 = 0 => mem[x] = Given(x)
  /\ Done({"exchange"}) => d[0] = GivenD(1) /\ d[1] = GivenD(0)
  /\ Done({"demorgan"}) =>
       LET m == Modulus[task.program[2]]
       IN  /\ Low(1, m) = Low(2, m) /\ Changed({1, 2, 3}, m)
           /\ \A i \in 0 .. Width(m) - 1 : Bit(d[1], i) = (Bit(GivenD(0), i) /\ Bit(GivenD(1), i))
  /\ Done({"mask"}) =>
       LET m == Modulus[task.program[2]]
           k == task.program[3]
           v == GivenD(0) % m
       IN  /\ Low(1, m) + Low(2, m) = v + k /\ Low(3, m) = Low(2, m) - Low(1, m)
           /\ \A i \in 0 .. Width(m) - 1 : Bit(d[1], i) = (Bit(v, i) /\ Bit(k, i))
           /\ Changed({1, 2, 3}, m)
  /\ Done({"copybit"}) =>
       LET register == task.program[2] = "d"
           n == GivenD(1) % Width(Long)
           i == IF register THEN n ELSE n % 8
           was == IF register THEN GivenD(2) ELSE Given(1)
           now == IF register THEN d[2] ELSE mem[1]
           source == Bit(GivenD(0), n)
       IN  /\ now = was + (One(~source) - One(Bit(was, i))) * 2^i
           /\ Low(3, 256) = IF source THEN 255 ELSE 0
           /\ Changed({IF register THEN 2 ELSE 3, 3}, IF register THEN Long ELSE 256)
           /\ \A x \in DOMAIN mem : (register \/ x # 1) => mem[x] = Given(x)
  /\ Done({"widen"}) => d[0] = Extend(256, Long, GivenD(0) % 256)
  /\ Done({"lock"}) =>
       /\ Low(1, 256) = IF Given(3) < 128 THEN 255 ELSE 0
       /\ Low(2, 256) = 0
       /\ mem[3] = IF Given(3) < 128 THEN Given(3) + 128 ELSE Given(3)

\* Every program comes to its end: its loops and calls finish, no instruction
\* leads out of it (dbcc.c, bcc.c, rts.c).
ProgramsStop == <>Halted
=============================================================================
