-------------------------------- MODULE Alu --------------------------------
(* The arithmetic of the instruction set: the flag functions of cpu.h and,   *)
(* of each file of cpu/ that computes, the result and the flags it leaves.   *)
(* An operand is the number its bits stand for without sign, and m is the    *)
(* number of values of its size, 2^8, 2^16 or 2^32.  The code repeats each    *)
(* computation for the three sizes; here it is stated once.  f is the        *)
(* condition codes before the instruction, a record of X, N, Z, V and C.      *)
EXTENDS Integers

CONSTANT WordBits    \* the bits of a word: 16, and fewer where integers are short

ASSUME WordAssumption == WordBits \in 9 .. 16

Word == 2^WordBits
Long == Word * Word
Width(m) == IF m = 256 THEN 8 ELSE IF m = Word THEN WordBits ELSE 2 * WordBits

Flags == [x : BOOLEAN, n : BOOLEAN, z : BOOLEAN, v : BOOLEAN, c : BOOLEAN]
Values(m) == 0 .. m - 1

\* The top bit of an operand, the number it stands for with a sign, and back.
Top(m, r) == r >= m \div 2
Signed(m, r) == IF Top(m, r) THEN r - m ELSE r
Extend(m, big, r) == IF Top(m, r) THEN big - m + r ELSE r
Bit(r, i) == (r \div 2^i) % 2 = 1

\* The number with the given bits, and logic bit by bit.
OfBits(bits) ==
  LET sum[n \in 0 .. 2 * WordBits] ==
        IF n = 0 THEN 0 ELSE sum[n - 1] + (IF bits[n - 1] THEN 2^(n - 1) ELSE 0)
  IN  sum[2 * WordBits]

And(s, d) == OfBits([i \in 0 .. 2 * WordBits - 1 |-> Bit(s, i) /\ Bit(d, i)])
Or(s, d) == OfBits([i \in 0 .. 2 * WordBits - 1 |-> Bit(s, i) \/ Bit(d, i)])
Eor(s, d) == OfBits([i \in 0 .. 2 * WordBits - 1 |-> Bit(s, i) # Bit(d, i)])

-----------------------------------------------------------------------------
(* Condition codes: s, d and r are the top bits of source, destination and   *)
(* result.                                                                    *)
BorrowOut(s, d, r) == (s /\ ~d) \/ (r /\ ~d) \/ (s /\ r)
CarryOut(s, d, r) == (s /\ d) \/ (~r /\ d) \/ (s /\ ~r)
SubOverflow(s, d, r) == (~s /\ d /\ ~r) \/ (s /\ ~d /\ r)
AddOverflow(s, d, r) == (s /\ d /\ ~r) \/ (~s /\ ~d /\ r)

SetSub(s, d, n, r) ==
  LET c == BorrowOut(s, d, n)
  IN  [x |-> c, n |-> n, z |-> r = 0, v |-> SubOverflow(s, d, n), c |-> c]

SetCmp(f, s, d, n, r) ==
  [x |-> f.x, n |-> n, z |-> r = 0, v |-> SubOverflow(s, d, n), c |-> BorrowOut(s, d, n)]

SetAdd(s, d, n, r) ==
  LET c == CarryOut(s, d, n)
  IN  [x |-> c, n |-> n, z |-> r = 0, v |-> AddOverflow(s, d, n), c |-> c]

SetMove(f, n, r) == [x |-> f.x, n |-> n, z |-> r = 0, v |-> FALSE, c |-> FALSE]

SetNeg(d, n, r) ==
  [x |-> d \/ n, n |-> n, z |-> r = 0, v |-> d /\ n, c |-> d \/ n]

SetClr(f) == [x |-> f.x, n |-> FALSE, z |-> TRUE, v |-> FALSE, c |-> FALSE]

\* As if ADDX set Z by its own digit.
SetAddxOneDigit(f, s, d, n, r) == SetAdd(s, d, n, r)

SetAddx(f, s, d, n, r) ==
  LET c == CarryOut(s, d, n)
  IN  [x |-> c, n |-> n, z |-> f.z /\ r = 0, v |-> AddOverflow(s, d, n), c |-> c]

SetSubx(f, s, d, n, r) ==
  LET c == BorrowOut(s, d, n)
  IN  [x |-> c, n |-> n, z |-> f.z /\ r = 0, v |-> SubOverflow(s, d, n), c |-> c]

SetNegx(f, d, n, r) ==
  [x |-> d \/ n, n |-> n, z |-> f.z /\ r = 0, v |-> d /\ n, c |-> d \/ n]

\* Shifts: X and C are the last bit that left, C is clear and X kept if none did.
SetShift(f, n, r, count, out) ==
  [x |-> IF count = 0 THEN f.x ELSE out, n |-> n, z |-> r = 0, v |-> FALSE,
   c |-> count > 0 /\ out]

SetRotate(f, n, r, count, out) ==
  [x |-> f.x, n |-> n, z |-> r = 0, v |-> FALSE, c |-> count > 0 /\ out]

SetAsl(f, n, r, count, out, v) ==
  [SetShift(f, n, r, count, out) EXCEPT !.v = count > 0 /\ v]

SetRoxl(out, n, r) == [x |-> out, n |-> n, z |-> r = 0, v |-> FALSE, c |-> out]

SetDivu(f, n, r, overflow) == [x |-> f.x, n |-> n, z |-> r = 0, v |-> overflow, c |-> FALSE]

SetDivs(f, r, overflow) == [x |-> f.x, n |-> r < 0, z |-> r = 0, v |-> overflow, c |-> FALSE]

-----------------------------------------------------------------------------
(* Operations: the result r and the condition codes f after it.  AddX and     *)
(* the rest take the source first, as the assembler does.                     *)
AddOp(m, f, s, d) ==
  LET r == (d + s) % m
  IN  [r |-> r, f |-> SetAdd(Top(m, s), Top(m, d), Top(m, r), r)]

SubOp(m, f, s, d) ==
  LET r == (d - s) % m
  IN  [r |-> r, f |-> SetSub(Top(m, s), Top(m, d), Top(m, r), r)]

\* As if a comparison subtracted the other way round.
CmpOpSwapped(m, f, s, d) ==
  LET r == (s - d) % m
  IN  [r |-> d, f |-> SetCmp(f, Top(m, d), Top(m, s), Top(m, r), r)]

\* CMP, CMPI, CMPM, CMPA leave the destination as it was.
CmpOp(m, f, s, d) ==
  LET r == (d - s) % m
  IN  [r |-> d, f |-> SetCmp(f, Top(m, s), Top(m, d), Top(m, r), r)]

One(flag) == IF flag THEN 1 ELSE 0

AddxOp(m, f, s, d) ==
  LET r == (s + d + One(f.x)) % m
  IN  [r |-> r, f |-> SetAddx(f, Top(m, s), Top(m, d), Top(m, r), r)]

SubxOp(m, f, s, d) ==
  LET r == (d - s - One(f.x)) % m
  IN  [r |-> r, f |-> SetSubx(f, Top(m, s), Top(m, d), Top(m, r), r)]

NegOp(m, f, d) ==
  LET r == (0 - d) % m
  IN  [r |-> r, f |-> SetNeg(Top(m, d), Top(m, r), r)]

NegxOp(m, f, d) ==
  LET r == (0 - d - One(f.x)) % m
  IN  [r |-> r, f |-> SetNegx(f, Top(m, d), Top(m, r), r)]

\* MOVE, TST, AND, OR, EOR, NOT, EXT, SWAP: the codes of a result r.
MoveOp(m, f, r) == [r |-> r, f |-> SetMove(f, Top(m, r), r)]

ClrOp(f) == [r |-> 0, f |-> SetClr(f)]

-----------------------------------------------------------------------------
(* Decimal digits: two in a byte.  abcd.c and sbcd.c compute with C's         *)
(* division, which rounds to zero, and set Z where they find a result that    *)
(* is not zero; a negative difference is not brought back to 0..99.           *)
Decimal(b) == 10 * (b \div 16) + (b % 16)
\* C's division and remainder by a positive number.
Quot(r, k) == IF r < 0 THEN -((-r) \div k) ELSE r \div k
Rem(r, k) == r - k * Quot(r, k)

Packed(r) ==
  LET low == Rem(r, 10)
      high == Rem(Quot(r, 10), 10)
  IN  IF low < 0 THEN 240 + (low % 16) ELSE ((16 * high) % 256) + low

SetDecimal(f, r, carry) ==
  [x |-> carry, n |-> f.n, z |-> f.z \/ r % 256 # 0, v |-> f.v, c |-> carry]

AbcdOp(f, s, d) ==
  LET r == Decimal(s) + Decimal(d) + One(f.x)
  IN  [r |-> Packed(r), f |-> SetDecimal(f, r, r >= 100)]

SbcdOp(f, s, d) ==
  LET r == Decimal(d) - Decimal(s) - One(f.x)
  IN  [r |-> Packed(r), f |-> SetDecimal(f, r, r < 0)]

-----------------------------------------------------------------------------
(* Shifts and rotates by at most the operand's width; C leaves the shift of   *)
(* an int by 32 or more, which larger counts lead to, undefined.              *)
Shl(m, v, count) == IF 2^count >= m THEN 0 ELSE (v % (m \div 2^count)) * 2^count
Shr(v, count) == v \div 2^count
\* The last bit that leaves on the left and on the right.
LastLeft(m, v, count) == count > 0 /\ Top(m, Shl(m, v, count - 1))
\* As if it were the bit above the last that leaves.
LastRightAbove(v, count) == count > 0 /\ Bit(v, count)

LastRight(v, count) == count > 0 /\ Bit(v, count - 1)

LslOp(m, f, v, count) ==
  LET r == Shl(m, v, count)
  IN  [r |-> r, f |-> SetShift(f, Top(m, r), r, count, LastLeft(m, v, count))]

LsrOp(m, f, v, count) ==
  LET r == Shr(v, count)
  IN  [r |-> r, f |-> SetShift(f, Top(m, r), r, count, LastRight(v, count))]

\* The mask of the sign is the bits above the shifted ones.
AsrOp(m, f, v, count) ==
  LET r == IF Top(m, v) THEN Shr(v, count) + (m - m \div 2^count) ELSE Shr(v, count)
  IN  [r |-> r, f |-> SetShift(f, Top(m, r), r, count, LastRight(v, count))]

\* V looks at the bits from 7 - count up to the one below the sign, in every
\* size, which is right for bytes only.  Past seven C leaves the shift that makes
\* this mask undefined; processors take its count modulo 32.
AslOp(m, f, v, count) ==
  LET r == Shl(m, v, count)
      changes == \E i \in (7 - count) % 32 .. Width(m) - 2 : Bit(v, i) # Top(m, v)
  IN  [r |-> r, f |-> SetAsl(f, Top(m, r), r, count, LastLeft(m, v, count), changes)]

RolOp(m, f, v, count) ==
  LET r == Shl(m, v, count) + v \div (m \div 2^count)
  IN  [r |-> r, f |-> SetRotate(f, Top(m, r), r, count, LastLeft(m, v, count))]

RorOp(m, f, v, count) ==
  LET r == Shr(v, count) + (v % 2^count) * (m \div 2^count)
  IN  [r |-> r, f |-> SetRotate(f, Top(m, r), r, count, LastRight(v, count))]

\* The forms that shift a word in memory by one take Z from the shifted value
\* before it is cut to a word (left) or before the bit that comes in is set
\* (right), and N before that bit is set.
AslMemoryOp(m, f, v) ==
  LET r == Shl(m, v, 1)
  IN  [r |-> r, f |-> SetAsl(f, Top(m, r), 2 * v, 1, Top(m, v), Top(m, r) # Top(m, v))]

LslMemoryOp(m, f, v) ==
  LET r == Shl(m, v, 1)
  IN  [r |-> r, f |-> SetShift(f, Top(m, r), 2 * v, 1, Top(m, v))]

AsrMemoryOp(m, f, v) ==
  [r |-> AsrOp(m, f, v, 1).r, f |-> SetShift(f, FALSE, v \div 2, 1, v % 2 = 1)]

LsrMemoryOp(m, f, v) == LsrOp(m, f, v, 1)

RolMemoryOp(m, f, v) ==
  [r |-> RolOp(m, f, v, 1).r, f |-> SetRotate(f, Top(m, Shl(m, v, 1)), 2 * v, 1, Top(m, v))]

RorMemoryOp(m, f, v) ==
  [r |-> RorOp(m, f, v, 1).r, f |-> SetRotate(f, FALSE, v \div 2, 1, v % 2 = 1)]

\* N is taken with the decimal masks 80, 8000 and 80000000.
RoxN(m, r) ==
  LET mask == IF m = 256 THEN {4, 6}
              ELSE IF m = Word THEN {6} \cup 8 .. 12
              ELSE {10, 12, 13, 15, 18, 22, 23, 26}
  IN  \E i \in mask : Bit(r, i)

\* A rotation through X goes through one bit more than the operand has.
RoxlOp(m, f, v, count) ==
  LET k == count % (Width(m) + 1)
      r == IF k = 0 THEN v
           ELSE Shl(m, v, k) + One(f.x) * 2^(k - 1) + Shr(v, Width(m) + 1 - k)
  IN  [r |-> r, f |-> SetRoxl(IF k = 0 THEN f.x ELSE Bit(v, Width(m) - k), RoxN(m, r), r)]

RoxrOp(m, f, v, count) ==
  LET k == count % (Width(m) + 1)
      r == IF k = 0 THEN v
           ELSE Shr(v, k) + One(f.x) * 2^(Width(m) - k) + Shl(m, v, Width(m) + 1 - k)
  IN  [r |-> r, f |-> SetRoxl(IF k = 0 THEN f.x ELSE Bit(v, k - 1), RoxN(m, r), r)]

-----------------------------------------------------------------------------
(* Multiplication of two words, and division of a long by a word that is not *)
(* zero: remainder and quotient in the two words of the result.               *)
MuluOp(f, s, d) == MoveOp(Long, f, s * d)

MulsOp(f, s, d) == MoveOp(Long, f, (Signed(Word, s) * Signed(Word, d)) % Long)

DivuOp(f, s, d) ==
  LET q == d \div s
  IN  [r |-> IF q >= Word THEN d ELSE (d % s) * Word + q,
       f |-> SetDivu(f, Top(Long, q), q, q >= Word)]

DivsOp(f, s, d) ==
  LET num == Signed(Long, d)
      den == Signed(Word, s)
      q == IF den < 0 THEN -Quot(num, -den) ELSE Quot(num, den)
      overflow == q \notin -(Word \div 2) .. (Word \div 2) - 1
  IN  [r |-> IF overflow THEN d ELSE ((num - q * den) % Word) * Word + (q % Word),
       f |-> SetDivs(f, q, overflow)]

-----------------------------------------------------------------------------
(* The sixteen conditions of Bcc and DBcc by name, and those of Scc, where    *)
(* "lt" combines the flags' masks with & and never holds.                     *)
Condition(f) ==
  [t |-> TRUE, f |-> FALSE,
   hi |-> ~f.c /\ ~f.z, ls |-> f.c \/ f.z, cc |-> ~f.c, cs |-> f.c,
   ne |-> ~f.z, eq |-> f.z, vc |-> ~f.v, vs |-> f.v, pl |-> ~f.n, mi |-> f.n,
   ge |-> (f.n /\ f.v) \/ (~f.n /\ ~f.v),
   lt |-> (f.n /\ ~f.v) \/ (~f.n /\ f.v),
   gt |-> (f.n /\ f.v /\ ~f.z) \/ (~f.n /\ ~f.v /\ ~f.z),
   le |-> f.z \/ (f.n /\ ~f.v) \/ (~f.n /\ f.v)]

SetCondition(f) == [Condition(f) EXCEPT !.lt = FALSE]
=============================================================================
