----------------------------- MODULE CoreProofs -----------------------------
(* Theorems about the instruction set: its arithmetic, for operands of every  *)
(* even number of values, so for bytes, words and longs alike; the time and   *)
(* the accesses of the clocked core; what programs decide by comparisons; the *)
(* sums of digits and the quotients that programs put out.                    *)
EXTENDS Clocked, Results, SequenceTheorems, TLAPS

\* C's unsigned results: a number within the size is itself.
LEMMA ModBelow ==
  ASSUME NEW m \in Nat, m > 0, NEW x \in 0 .. m - 1
  PROVE  x % m = x
BY SMT

\* A difference that is negative wraps once.
LEMMA ModMinus ==
  ASSUME NEW m \in Nat, m > 0, NEW x \in -m .. -1
  PROVE  x % m = x + m
BY SMT

\* A sum past the size wraps once.
LEMMA ModAbove ==
  ASSUME NEW m \in Nat, m > 0, NEW x \in m .. 2 * m - 1
  PROVE  x % m = x - m
BY SMT

\* Half of an even number.
LEMMA Half ==
  ASSUME NEW h \in Nat
  PROVE  (2 * h) \div 2 = h
BY SMT

\* The top bit is the upper half of the values (masks 0x80, 0x8000, 0x80000000).
LEMMA TopHalf ==
  ASSUME NEW h \in Nat, NEW m, m = 2 * h, NEW r \in Int
  PROVE  /\ Top(m, r) <=> r >= h
         /\ Signed(m, r) = IF r >= h THEN r - m ELSE r
BY Half DEF Top, Signed

\* After a comparison of t with s the conditions of Bcc and DBcc tell the order
\* of the operands, as numbers with and without sign (cpu.h cpu_set_flags_cmp,
\* bcc.c, dbcc.c).
THEOREM ComparisonDecides ==
  ASSUME NEW h \in Nat, h > 0, NEW m, m = 2 * h,
         NEW s \in Values(m), NEW t \in Values(m), NEW f,
         NEW c, c = Condition(CmpOp(m, f, s, t).f)
  PROVE  /\ (c.hi <=> t > s) /\ (c.ls <=> t <= s) /\ (c.cc <=> t >= s) /\ (c.cs <=> t < s)
         /\ (c.eq <=> t = s) /\ (c.ne <=> t # s)
         /\ c.ge <=> Signed(m, t) >= Signed(m, s)
         /\ c.lt <=> Signed(m, t) < Signed(m, s)
         /\ c.gt <=> Signed(m, t) > Signed(m, s)
         /\ c.le <=> Signed(m, t) <= Signed(m, s)
<1> DEFINE r == (t - s) % m
           g == CmpOp(m, f, s, t).f
<1>1. /\ s \in Int /\ t \in Int /\ m \in Nat /\ m > 0
      /\ 0 <= s /\ s < m /\ 0 <= t /\ t < m
  BY DEF Values
<1>2. r = IF t >= s THEN t - s ELSE t - s + m
  <2>1. CASE t >= s
    BY <1>1, <2>1, ModBelow
  <2>2. CASE t < s
    BY <1>1, <2>2, ModMinus
  <2>3. QED
    BY <1>1, <2>1, <2>2
<1>3. r \in Int
  BY <1>1, <1>2
<1> HIDE DEF r
<1>4. /\ Top(m, s) <=> s >= h
      /\ Top(m, t) <=> t >= h
      /\ Top(m, r) <=> r >= h
      /\ Signed(m, s) = IF s >= h THEN s - m ELSE s
      /\ Signed(m, t) = IF t >= h THEN t - m ELSE t
  BY <1>1, <1>3, TopHalf
<1>5. /\ (g.n <=> Top(m, r)) /\ (g.z <=> r = 0)
      /\ g.v <=> SubOverflow(Top(m, s), Top(m, t), Top(m, r))
      /\ g.c <=> BorrowOut(Top(m, s), Top(m, t), Top(m, r))
  BY Zenon DEF CmpOp, SetCmp, r
<1>6. /\ g.n <=> r >= h
      /\ g.z <=> t = s
      /\ g.c <=> t < s
      /\ g.v <=> (s < h /\ t >= h /\ r < h) \/ (s >= h /\ t < h /\ r >= h)
  <2>1. g.n <=> r >= h
    BY <1>4, <1>5
  <2>2. g.z <=> t = s
    BY <1>1, <1>2, <1>5
  <2>3. g.v <=> (s < h /\ t >= h /\ r < h) \/ (s >= h /\ t < h /\ r >= h)
    BY <1>1, <1>3, <1>4, <1>5 DEF SubOverflow
  <2>4. g.c <=> (s >= h /\ t < h) \/ (r >= h /\ t < h) \/ (s >= h /\ r >= h)
    BY <1>1, <1>3, <1>4, <1>5 DEF BorrowOut
  <2>5. g.c <=> t < s
    BY <1>1, <1>2, <2>4
  <2>6. QED
    BY <2>1, <2>2, <2>3, <2>5
<1>7. (g.n <=> g.v) <=> Signed(m, t) >= Signed(m, s)
  BY <1>1, <1>2, <1>4, <1>6
<1>8. Signed(m, t) = Signed(m, s) <=> t = s
  BY <1>1, <1>4
<1>9. /\ (c.hi <=> ~g.c /\ ~g.z) /\ (c.ls <=> g.c \/ g.z) /\ (c.cc <=> ~g.c) /\ (c.cs <=> g.c)
      /\ (c.ne <=> ~g.z) /\ (c.eq <=> g.z)
      /\ c.ge <=> (g.n /\ g.v) \/ (~g.n /\ ~g.v)
      /\ c.lt <=> (g.n /\ ~g.v) \/ (~g.n /\ g.v)
      /\ c.gt <=> (g.n /\ g.v /\ ~g.z) \/ (~g.n /\ ~g.v /\ ~g.z)
      /\ c.le <=> g.z \/ (g.n /\ ~g.v) \/ (~g.n /\ g.v)
  BY Zenon DEF Condition
<1>10. (c.hi <=> t > s) /\ (c.ls <=> t <= s) /\ (c.cc <=> t >= s) /\ (c.cs <=> t < s)
       /\ (c.eq <=> t = s) /\ (c.ne <=> t # s)
  BY <1>1, <1>6, <1>9
<1>11. Signed(m, t) \in Int /\ Signed(m, s) \in Int
  BY <1>1, <1>4
<1>12. QED
  BY <1>7, <1>8, <1>9, <1>10, <1>11, <1>6

\* C's truth values.
LEMMA OneType == ASSUME NEW b PROVE One(b) \in {0, 1} /\ (One(b) = 1 <=> b)
BY DEF One

\* ADDX with the X of the digit before is exact: result and carry together are
\* the sum, Z stays set only while every digit is zero, V tells that the signed
\* sum does not fit and N differs from V exactly if it is negative (addx.c,
\* cpu.h cpu_set_flags_addx).
THEOREM AddxExact ==
  ASSUME NEW h \in Nat, h > 0, NEW m, m = 2 * h,
         NEW s \in Values(m), NEW t \in Values(m), NEW f,
         NEW p, p = AddxOp(m, f, s, t)
  PROVE  /\ p.r \in Values(m)
         /\ p.r + m * One(p.f.x) = t + s + One(f.x)
         /\ p.f.c <=> p.f.x
         /\ p.f.z <=> f.z /\ p.r = 0
         /\ p.f.v <=> Signed(m, t) + Signed(m, s) + One(f.x) \notin -h .. h - 1
         /\ ~(p.f.n <=> p.f.v) <=> Signed(m, t) + Signed(m, s) + One(f.x) < 0
<1> DEFINE sum == s + t + One(f.x)
           r == p.r
           g == p.f
<1>1. /\ s \in Int /\ t \in Int /\ m \in Nat /\ m > 0
      /\ 0 <= s /\ s < m /\ 0 <= t /\ t < m
  BY DEF Values
<1>2. One(f.x) \in {0, 1}
  BY OneType
<1>3. r = sum % m
  BY DEF AddxOp
<1>4. r = IF sum < m THEN sum ELSE sum - m
  <2>1. sum \in Int /\ 0 <= sum /\ sum <= 2 * m - 1
    BY <1>1, <1>2
  <2>2. CASE sum < m
    BY <1>1, <1>3, <2>1, <2>2, ModBelow
  <2>3. CASE sum >= m
    BY <1>1, <1>3, <2>1, <2>3, ModAbove
  <2>4. QED
    BY <1>1, <2>1, <2>2, <2>3
<1>5. r \in Int /\ 0 <= r /\ r < m
  BY <1>1, <1>2, <1>4
<1>6. /\ Top(m, s) <=> s >= h
      /\ Top(m, t) <=> t >= h
      /\ Top(m, r) <=> r >= h
      /\ Signed(m, s) = IF s >= h THEN s - m ELSE s
      /\ Signed(m, t) = IF t >= h THEN t - m ELSE t
  BY <1>1, <1>5, TopHalf
<1>7. /\ g.n <=> Top(m, r)
      /\ g.z <=> f.z /\ r = 0
      /\ g.v <=> AddOverflow(Top(m, s), Top(m, t), Top(m, r))
      /\ g.c <=> CarryOut(Top(m, s), Top(m, t), Top(m, r))
      /\ g.x <=> g.c
  BY Zenon DEF AddxOp, SetAddx
<1>8. g.c <=> (s >= h /\ t >= h) \/ (r < h /\ t >= h) \/ (s >= h /\ r < h)
  BY <1>1, <1>5, <1>6, <1>7 DEF CarryOut
<1>9. g.c <=> sum >= m
  BY <1>1, <1>2, <1>4, <1>8
<1>10. g.v <=> (s >= h /\ t >= h /\ r < h) \/ (s < h /\ t < h /\ r >= h)
  BY <1>1, <1>5, <1>6, <1>7 DEF AddOverflow
<1>11. r + m * One(g.x) = t + s + One(f.x)
  <2>1. (One(g.x) = 1 <=> sum >= m) /\ One(g.x) \in {0, 1}
    BY <1>7, <1>9, OneType
  <2>2. QED
    BY <1>1, <1>2, <1>4, <2>1
<1>12. g.v <=> Signed(m, t) + Signed(m, s) + One(f.x) \notin -h .. h - 1
  BY <1>1, <1>2, <1>4, <1>6, <1>10
<1>13. ~(g.n <=> g.v) <=> Signed(m, t) + Signed(m, s) + One(f.x) < 0
  BY <1>1, <1>2, <1>4, <1>6, <1>7, <1>10
<1>14. QED
  BY <1>1, <1>5, <1>7, <1>11, <1>12, <1>13 DEF Values

\* Two digits added with ADDX make one sum: the X of the low digit is the carry
\* into the high one, and Z is kept only if both are zero.
THEOREM AddxChains ==
  ASSUME NEW h \in Nat, h > 0, NEW m, m = 2 * h,
         NEW sl \in Values(m), NEW dl \in Values(m), NEW f,
         NEW sh \in Values(m), NEW dh \in Values(m),
         NEW low, low = AddxOp(m, f, sl, dl), NEW high, high = AddxOp(m, low.f, sh, dh)
  PROVE  /\ m * high.r + low.r + (m * m) * One(high.f.x)
              = (m * dh + dl) + (m * sh + sl) + One(f.x)
         /\ high.f.z <=> f.z /\ low.r = 0 /\ high.r = 0
<1>1. /\ low.r + m * One(low.f.x) = dl + sl + One(f.x)
      /\ low.f.z <=> f.z /\ low.r = 0
      /\ low.r \in Values(m)
  BY ONLY AddxExact, h \in Nat, h > 0, m = 2 * h, sl \in Values(m), dl \in Values(m),
     low = AddxOp(m, f, sl, dl)
<1>2. /\ high.r + m * One(high.f.x) = dh + sh + One(low.f.x)
      /\ high.f.z <=> low.f.z /\ high.r = 0
      /\ high.r \in Values(m)
  BY AddxExact
<1>3. /\ One(f.x) \in Int /\ One(low.f.x) \in Int /\ One(high.f.x) \in Int
      /\ low.r \in Int /\ high.r \in Int /\ m \in Int
      /\ sl \in Int /\ dl \in Int /\ sh \in Int /\ dh \in Int
  BY <1>1, <1>2, OneType DEF Values
<1>4. m * (high.r + m * One(high.f.x)) = m * (dh + sh + One(low.f.x))
  BY <1>2
<1>5. m * high.r + (m * m) * One(high.f.x) = m * dh + m * sh + m * One(low.f.x)
  BY <1>3, <1>4
<1>6. QED
  BY <1>1, <1>2, <1>3, <1>5

\* The same of SUBX, whose X is the borrow (subx.c, cpu.h cpu_set_flags_subx).
THEOREM SubxExact ==
  ASSUME NEW h \in Nat, h > 0, NEW m, m = 2 * h,
         NEW s \in Values(m), NEW t \in Values(m), NEW f,
         NEW p, p = SubxOp(m, f, s, t)
  PROVE  /\ p.r \in Values(m)
         /\ p.r - m * One(p.f.x) = t - s - One(f.x)
         /\ p.f.c <=> p.f.x
         /\ p.f.z <=> f.z /\ p.r = 0
         /\ p.f.v <=> Signed(m, t) - Signed(m, s) - One(f.x) \notin -h .. h - 1
         /\ ~(p.f.n <=> p.f.v) <=> Signed(m, t) - Signed(m, s) - One(f.x) < 0
<1> DEFINE diff == t - s - One(f.x)
           r == p.r
           g == p.f
<1>1. /\ s \in Int /\ t \in Int /\ m \in Nat /\ m > 0
      /\ 0 <= s /\ s < m /\ 0 <= t /\ t < m
  BY DEF Values
<1>2. One(f.x) \in {0, 1}
  BY OneType
<1>3. r = diff % m
  BY DEF SubxOp
<1>4. r = IF diff >= 0 THEN diff ELSE diff + m
  <2>1. diff \in Int /\ -m <= diff /\ diff < m
    BY <1>1, <1>2
  <2>2. CASE diff >= 0
    BY <1>1, <1>3, <2>1, <2>2, ModBelow
  <2>3. CASE diff < 0
    BY <1>1, <1>3, <2>1, <2>3, ModMinus
  <2>4. QED
    BY <1>1, <2>1, <2>2, <2>3
<1>5. r \in Int /\ 0 <= r /\ r < m
  BY <1>1, <1>2, <1>4
<1>6. /\ Top(m, s) <=> s >= h
      /\ Top(m, t) <=> t >= h
      /\ Top(m, r) <=> r >= h
      /\ Signed(m, s) = IF s >= h THEN s - m ELSE s
      /\ Signed(m, t) = IF t >= h THEN t - m ELSE t
  BY <1>1, <1>5, TopHalf
<1>7. /\ g.n <=> Top(m, r)
      /\ g.z <=> f.z /\ r = 0
      /\ g.v <=> SubOverflow(Top(m, s), Top(m, t), Top(m, r))
      /\ g.c <=> BorrowOut(Top(m, s), Top(m, t), Top(m, r))
      /\ g.x <=> g.c
  BY Zenon DEF SubxOp, SetSubx
<1>8. g.c <=> (s >= h /\ t < h) \/ (r >= h /\ t < h) \/ (s >= h /\ r >= h)
  BY <1>1, <1>5, <1>6, <1>7 DEF BorrowOut
<1>9. g.c <=> diff < 0
  BY <1>1, <1>2, <1>4, <1>8
<1>10. g.v <=> (s < h /\ t >= h /\ r < h) \/ (s >= h /\ t < h /\ r >= h)
  BY <1>1, <1>5, <1>6, <1>7 DEF SubOverflow
<1>11. r - m * One(g.x) = t - s - One(f.x)
  <2>1. (One(g.x) = 1 <=> diff < 0) /\ One(g.x) \in {0, 1}
    BY <1>7, <1>9, OneType
  <2>2. QED
    BY <1>1, <1>2, <1>4, <2>1
<1>12. g.v <=> Signed(m, t) - Signed(m, s) - One(f.x) \notin -h .. h - 1
  BY <1>1, <1>2, <1>4, <1>6, <1>10
<1>13. ~(g.n <=> g.v) <=> Signed(m, t) - Signed(m, s) - One(f.x) < 0
  BY <1>1, <1>2, <1>4, <1>6, <1>7, <1>10
<1>14. QED
  BY <1>1, <1>5, <1>7, <1>11, <1>12, <1>13 DEF Values

\* NEGX is SUBX from zero, in the result and in every condition code (negx.c,
\* cpu.h cpu_set_flags_negx).
THEOREM NegxIsSubxFromZero ==
  ASSUME NEW h \in Nat, h > 0, NEW m, m = 2 * h, NEW t \in Values(m), NEW f,
         NEW p, p = NegxOp(m, f, t), NEW q, q = SubxOp(m, f, t, 0)
  PROVE  /\ p.r = q.r
         /\ (p.f.x <=> q.f.x) /\ (p.f.n <=> q.f.n) /\ (p.f.z <=> q.f.z)
         /\ (p.f.v <=> q.f.v) /\ (p.f.c <=> q.f.c)
<1>1. p.r = q.r
  BY DEF NegxOp, SubxOp
<1>2. ~Top(m, 0)
  BY TopHalf
<1>3. /\ p.f.x <=> Top(m, t) \/ Top(m, p.r)
      /\ p.f.c <=> Top(m, t) \/ Top(m, p.r)
      /\ p.f.v <=> Top(m, t) /\ Top(m, p.r)
      /\ p.f.n <=> Top(m, p.r)
      /\ p.f.z <=> f.z /\ p.r = 0
  BY Zenon DEF NegxOp, SetNegx
<1>4. /\ q.f.x <=> BorrowOut(Top(m, t), Top(m, 0), Top(m, q.r))
      /\ q.f.c <=> BorrowOut(Top(m, t), Top(m, 0), Top(m, q.r))
      /\ q.f.v <=> SubOverflow(Top(m, t), Top(m, 0), Top(m, q.r))
      /\ q.f.n <=> Top(m, q.r)
      /\ q.f.z <=> f.z /\ q.r = 0
  BY Zenon DEF SubxOp, SetSubx
<1>5. QED
  BY <1>1, <1>2, <1>3, <1>4 DEF BorrowOut, SubOverflow

-----------------------------------------------------------------------------
\* A sum of two decimal bytes and X, packed, is a decimal byte again (abcd.c).
LEMMA PackedExact ==
  ASSUME NEW v \in 0 .. 199
  PROVE  /\ DecimalByte(Packed(v))
         /\ Decimal(Packed(v)) = v % 100
<1>1. Rem(v, 10) = v % 10 /\ Rem(Quot(v, 10), 10) = (v \div 10) % 10
  BY DEF Rem, Quot
<1>2. v % 10 \in 0 .. 9 /\ (v \div 10) % 10 \in 0 .. 9
  BY SMT
<1>3. Packed(v) = 16 * ((v \div 10) % 10) + (v % 10)
  <2> DEFINE low == v % 10
             high == (v \div 10) % 10
  <2>1. ~(Rem(v, 10) < 0)
    BY <1>1, <1>2
  <2>2. Packed(v) = ((16 * Rem(Quot(v, 10), 10)) % 256) + Rem(v, 10)
    BY <2>1, Zenon DEF Packed
  <2>3. (16 * high) % 256 = 16 * high
    BY <1>2, ModBelow
  <2>4. QED
    BY <1>1, <2>2, <2>3
<1>4. /\ Packed(v) \div 16 = (v \div 10) % 10
      /\ Packed(v) % 16 = v % 10
      /\ Packed(v) \in 0 .. 255
  BY <1>2, <1>3
<1>5. v % 100 = 10 * ((v \div 10) % 10) + (v % 10)
  BY SMT
<1>6. DecimalByte(Packed(v))
  BY <1>2, <1>4 DEF DecimalByte
<1>7. Decimal(Packed(v)) = 10 * ((v \div 10) % 10) + (v % 10)
  BY <1>4 DEF Decimal
<1>8. QED
  BY <1>5, <1>6, <1>7

\* A decimal byte is a number below a hundred.
LEMMA DecimalRange ==
  ASSUME NEW b, DecimalByte(b)
  PROVE  Decimal(b) \in 0 .. 99
BY DEF DecimalByte, Decimal

\* ABCD of two decimal bytes is exact: its result is a decimal byte again, and
\* with X for a hundred it is the sum (abcd.c).
THEOREM AbcdExact ==
  ASSUME NEW s, NEW t, NEW f,
         DecimalByte(s), DecimalByte(t),
         NEW p, p = AbcdOp(f, s, t)
  PROVE  /\ DecimalByte(p.r)
         /\ Decimal(p.r) + 100 * One(p.f.x) = Decimal(s) + Decimal(t) + One(f.x)
<1> DEFINE sum == Decimal(s) + Decimal(t) + One(f.x)
<1>1. sum \in 0 .. 199
  BY DecimalRange, OneType
<1>2. p.r = Packed(sum)
  BY DEF AbcdOp
<1>3. DecimalByte(p.r) /\ Decimal(p.r) = sum % 100
  BY <1>1, <1>2, PackedExact
<1>4. p.f.x <=> sum >= 100
  BY Zenon DEF AbcdOp, SetDecimal
<1>5. (One(p.f.x) = 1 <=> sum >= 100) /\ One(p.f.x) \in {0, 1}
  BY <1>4, OneType
<1>6. sum % 100 = IF sum >= 100 THEN sum - 100 ELSE sum
  BY <1>1
<1>7. QED
  BY <1>1, <1>3, <1>5, <1>6

-----------------------------------------------------------------------------
(* The clocked core: each instruction takes the cycles and makes the accesses *)
(* of its table.  First what the microcycle codes come to.                    *)
\* The microcycles that use the bus.
BusOps == {"p", "r", "w"}
\* How many of the first k - 1 microcycles of a code are in S; no code is longer
\* than eight.
CountAt(code, k, S, n) == IF n < k /\ n \in DOMAIN code /\ code[n] \in S THEN 1 ELSE 0
Count(code, k, S) ==
  CountAt(code, k, S, 1) + CountAt(code, k, S, 2) + CountAt(code, k, S, 3)
  + CountAt(code, k, S, 4) + CountAt(code, k, S, 5) + CountAt(code, k, S, 6)
  + CountAt(code, k, S, 7) + CountAt(code, k, S, 8)

\* Counting one microcycle further.
LEMMA CountNext ==
  ASSUME NEW code, NEW S, NEW k \in 1 .. 8, k \in DOMAIN code
  PROVE  Count(code, k + 1, S) = Count(code, k, S) + (IF code[k] \in S THEN 1 ELSE 0)
  BY DEF Count, CountAt

\* Nothing comes before the first microcycle.
LEMMA CountNone ==
  ASSUME NEW code, NEW S
  PROVE  Count(code, 1, S) = 0 /\ \A k \in Int : Count(code, k, S) \in Int
  BY DEF Count, CountAt

\* Words an operand is read with.
Reads(e, sz) == IF InRegister(e) \/ e.mode = "imm" THEN 0 ELSE Words(sz)

\* The code of an operand takes the time of the table, fetches the words of the
\* instruction and reads those of the operand, the ones before the others (ea.c).
LEMMA ReadTable ==
  ASSUME NEW e, NEW sz \in {"b", "w", "l"}, e.mode \in MemoryModes \cup {"d", "a", "imm"}
  PROVE  LET code == Microcode(e)
             all == ReadCycles(e, sz)
         IN  /\ all \in 0 .. 8 /\ 1 .. all \subseteq DOMAIN code
             /\ EaTime(e, sz) = 2 * all
             /\ Count(code, all + 1, {"p"}) = Len(EaWords(e, sz))
             /\ Count(code, all + 1, BusOps) = Len(EaWords(e, sz)) + Reads(e, sz)
             /\ \A k \in 1 .. all :
                  /\ Count(code, k, BusOps) \in 0 .. Len(EaWords(e, sz)) + Reads(e, sz)
                  /\ code[k] # "w"
                  /\ code[k] = "p" => Count(code, k, BusOps) < Len(EaWords(e, sz))
                  /\ code[k] = "r" =>
                       Count(code, k, BusOps) \in
                         Len(EaWords(e, sz)) .. Len(EaWords(e, sz)) + Reads(e, sz) - 1
<1> DEFINE W == Len(EaWords(e, sz))
<1> USE DEF Microcode, ReadCycles, EaTime, EaWords, InRegister, Reads, Words, Count, CountAt,
            BusOps, Halves
<1>1. CASE e.mode \in {"d", "a"}
  <2>1. CASE e.mode = "d" BY <2>1, SMTT(60)
  <2>2. CASE e.mode = "a" BY <2>2, SMTT(60)
  <2> QED BY <1>1, <2>1, <2>2
<1>2. CASE e.mode = "at" BY <1>2, SMTT(30)
<1>9. CASE e.mode = "inc" BY <1>9, SMTT(30)
<1>3. CASE e.mode = "dec" BY <1>3, SMTT(30)
<1>4. CASE e.mode = "off" BY <1>4, SMTT(30)
<1>5. CASE e.mode = "index" BY <1>5, SMTT(30)
<1>6. CASE e.mode = "abs" /\ ~Far(e) BY <1>6, SMTT(30)
<1>7. CASE e.mode = "abs" /\ Far(e) BY <1>7, SMTT(30)
<1>8. CASE e.mode = "imm" BY <1>8, SMTT(30)
<1> QED BY <1>1, <1>2, <1>3, <1>4, <1>5, <1>6, <1>7, <1>8, <1>9 DEF MemoryModes

\* The same of an address that is only computed.
LEMMA AddressTable ==
  ASSUME NEW e, e.mode \in {"at", "off", "index", "abs"}
  PROVE  LET code == AddressCode(e)
             all == AddressCycles(e)
         IN  /\ all \in 0 .. 8 /\ 1 .. all \subseteq DOMAIN code
             /\ PlaceTime(e) + (IF e.mode = "index" THEN 2 ELSE 0) = 2 * all
             /\ Count(code, all + 1, {"p"}) = Len(EaWords(e, "l"))
             /\ Count(code, all + 1, BusOps) = Len(EaWords(e, "l"))
             /\ \A k \in 1 .. all :
                  /\ Count(code, k, BusOps) \in 0 .. Len(EaWords(e, "l"))
                  /\ code[k] \notin {"w", "r"}
                  /\ code[k] = "p" => Count(code, k, BusOps) < Len(EaWords(e, "l"))
<1> USE DEF Microcode, AddressCode, AddressCycles, PlaceTime, EaWords, Count, CountAt,
            BusOps, Halves
<1>1. CASE e.mode = "at" BY <1>1
<1>4. CASE e.mode = "off" BY <1>4
<1>5. CASE e.mode = "index" BY <1>5
<1>6. CASE e.mode = "abs" /\ ~Far(e) BY <1>6
<1>7. CASE e.mode = "abs" /\ Far(e) BY <1>7
<1> QED BY <1>1, <1>4, <1>5, <1>6, <1>7

\* The microcycles of ea_begin_modify, and how many of them.
WriteCode(i) == IF i.t.mode = "d" THEN <<"n", "n", "n">> ELSE <<"w", "n", "w", "n">>
WriteCycles(i) ==
  IF i.t.mode # "d" THEN (IF i.sz = "l" THEN 4 ELSE 2)
  ELSE IF ~FromEa(i) /\ i.sz = "l" THEN 2 ELSE 0

\* How far an instruction's cycles are from its table: ADD.L and SUB.L to a data
\* register do not wait for the addition, the others that write one wait a
\* microcycle too long, and MOVEM takes a step to parse its list.
Slip(i) ==
  CASE i.op \in {"add", "sub"} /\ ~ToMemory(i) /\ i.sz = "l" ->
         IF InRegister(i.s) \/ i.s.mode = "imm" THEN -4 ELSE -2
    [] i.op \in {"neg", "negx", "not", "clr"} /\ ~ToMemory(i) /\ i.sz = "l" -> 2
    [] i.op \in {"movemstore", "movemload"} -> IF i.t.mode = "index" THEN 2 ELSE 4
    [] OTHER -> 0

\* What the tables and their slips say of an instruction that reads an operand,
\* as microcycles of its parts.
LEMMA TimeOfRead ==
  ASSUME NEW i, Proper(i), i.op \in ReadOps
  PROVE  /\ Ea(i).mode \in MemoryModes \cup {"d", "a", "imm"}
         /\ i.sz \in {"b", "w", "l"}
         /\ Tabled(i) + Slip(i) = 2 * ReadCycles(Ea(i), i.sz) + 4
              + (IF i.op = "cmp" THEN IF i.sz = "l" THEN 2 ELSE 0 ELSE 2 * WriteCycles(i))
<1>1. Ea(i).mode \in MemoryModes \cup {"d", "a", "imm"} /\ i.sz \in {"b", "w", "l"}
      /\ (i.op \in {"neg", "negx", "not", "clr"} => i.t.mode \in MemoryModes \cup {"d"})
      /\ (i.op \in {"add", "sub"} => i.t.mode \in MemoryModes \cup {"d"})
      /\ (i.op = "cmp" => i.t.mode = "d")
  <2>1. \A e, sz, modes : ProperEa(e, sz, modes) => e.mode \in modes BY Zenon DEF ProperEa
  <2>2. /\ i.sz \in {"b", "w", "l"}
        /\ i.op = "cmp" => i.t.mode \in {"d"} /\ i.s.mode \in MemoryModes \cup {"d", "a", "imm"}
        /\ i.op \in {"neg", "negx", "not", "clr"} => i.t.mode \in MemoryModes \cup {"d"}
    BY <2>1, Zenon DEF Proper
  <2>3. i.op \in {"add", "sub"} =>
          \/ i.t.mode \in {"d"} /\ i.s.mode \in MemoryModes \cup {"d", "a", "imm"}
          \/ i.s.mode \in {"d"} /\ i.t.mode \in MemoryModes
    BY <2>1, Zenon DEF Proper
  <2>4. "d" \notin MemoryModes BY DEF MemoryModes
  <2>5. i.op \in ReadOps <=> i.op \in {"add", "sub"} \/ i.op = "cmp"
                            \/ i.op \in {"neg", "negx", "not", "clr"}
    BY DEF ReadOps
  <2> QED BY <2>2, <2>3, <2>4, <2>5 DEF Ea, FromEa
<1>2. EaTime(Ea(i), i.sz) = 2 * ReadCycles(Ea(i), i.sz) /\ ReadCycles(Ea(i), i.sz) \in Int
  BY <1>1, ReadTable
<1>. DEFINE T == ReadCycles(Ea(i), i.sz)
<1>3. CASE ToMemory(i)
  <2>1. Ea(i) = i.t /\ ~FromEa(i)
    BY <1>3, <1>1 DEF Ea, FromEa, ToMemory, ReadOps
  <2>2. Tabled(i) = (IF i.sz = "l" THEN 12 ELSE 8) + EaTime(i.t, i.sz) /\ Slip(i) = 0
    BY <1>3, <1>1 DEF Tabled, Slip, ToMemory, ReadOps
  <2> QED BY <2>1, <2>2, <1>1, <1>2, <1>3 DEF WriteCycles, ToMemory
<1>4. CASE ~ToMemory(i) /\ i.sz # "l"
  <2>2. Tabled(i) = 4 + EaTime(Ea(i), i.sz) /\ Slip(i) = 0 /\ i.t.mode = "d"
    BY <1>4, <1>1 DEF Tabled, Slip, ToMemory, ReadOps
  <2> QED BY <2>2, <1>1, <1>2, <1>4 DEF WriteCycles
<1>5. CASE ~ToMemory(i) /\ i.sz = "l" /\ i.op \in {"add", "sub"}
  <2>1. i.t.mode = "d" /\ FromEa(i) /\ Ea(i) = i.s
    BY <1>5 DEF ToMemory, ReadOps, FromEa, Ea
  <2>2. Tabled(i) = (IF InRegister(i.s) \/ i.s.mode = "imm" THEN 8 ELSE 6) + EaTime(i.s, "l")
        /\ Slip(i) = (IF InRegister(i.s) \/ i.s.mode = "imm" THEN -4 ELSE -2)
    BY <1>5 DEF Tabled, Slip
  <2> QED BY <2>1, <2>2, <1>1, <1>2, <1>5 DEF WriteCycles
<1>6. CASE ~ToMemory(i) /\ i.sz = "l" /\ i.op \in ReadOps \ {"add", "sub"}
  <2>1. i.t.mode = "d" /\ (FromEa(i) <=> i.op = "cmp")
    BY <1>6, <1>1 DEF ToMemory, ReadOps, FromEa
  <2>2. Tabled(i) = 6 + EaTime(Ea(i), "l")
        /\ Slip(i) = (IF i.op = "cmp" THEN 0 ELSE 2)
    BY <1>6 DEF Tabled, Slip, ReadOps
  <2> QED BY <2>1, <2>2, <1>1, <1>2, <1>6 DEF WriteCycles
<1> QED BY <1>1, <1>3, <1>4, <1>5, <1>6

\* Reading takes a number of microcycles.
LEMMA ReadCyclesType ==
  ASSUME NEW i, Proper(i), i.op \in ReadOps
  PROVE  ReadCycles(Ea(i), i.sz) \in Nat
<1>1. Ea(i).mode \in MemoryModes \cup {"d", "a", "imm"} /\ i.sz \in {"b", "w", "l"}
  BY TimeOfRead
<1>2. ReadCycles(Ea(i), i.sz) \in 0 .. 8 BY <1>1, ReadTable
<1> QED BY <1>2

-----------------------------------------------------------------------------
(* Sequences of accesses.                                                     *)
\* Times is a sequence of one kind of access.
LEMMA TimesType ==
  ASSUME NEW n \in Nat, NEW bus \in BusOps
  PROVE  Times(n, bus) \in Seq(BusOps) /\ Len(Times(n, bus)) = n
         /\ \A k \in 1 .. n : Times(n, bus)[k] = bus
  BY DEF Times

\* The part of a table that is done grows by its next access.
LEMMA NextBus ==
  ASSUME NEW B \in Seq(BusOps), NEW n \in Nat, n < Len(B), NEW u, u = B[n + 1]
  PROVE  SubSeq(B, 1, n) \o <<u>> = SubSeq(B, 1, n + 1)
  <1>1. n + 1 \in 1 .. Len(B) /\ 1 \in 1 .. Len(B) OBVIOUS
  <1>2. SubSeq(B, 1, n + 1) = SubSeq(B, 1, (n + 1) - 1) \o <<B[n + 1]>>
     BY <1>1, SubSeqRecursiveSecond, n + 1 \in 1 .. Len(B)
  <1> QED BY <1>2, (n + 1) - 1 = n

\* An operand has two words at most.
LEMMA EaWordsType ==
  ASSUME NEW e, NEW sz PROVE Len(EaWords(e, sz)) \in 0 .. 2
  BY DEF EaWords, Halves

\* m accesses b.
Filled(s, m, b) == s \in Seq(BusOps) /\ Len(s) = m /\ \A k \in 1 .. m : s[k] = b

\* A sequence s continued by t.
Joins(s, t, u) ==
  /\ u \in Seq(BusOps)
  /\ Len(u) = Len(s) + Len(t)
  /\ \A k \in 1 .. Len(s) : u[k] = s[k]
  /\ \A k \in 1 .. Len(t) : u[Len(s) + k] = t[k]

\* Concatenation joins.
LEMMA JoinsConcat ==
  ASSUME NEW s \in Seq(BusOps), NEW t \in Seq(BusOps) PROVE Joins(s, t, s \o t)
  BY DEF Joins

\* w words of the program, r reads, the next instruction, x writes.
Spelled(s, w, r, x) ==
  /\ s \in Seq(BusOps)
  /\ Len(s) = w + r + 1 + x
  /\ \A k \in 1 .. w : s[k] = "p"
  /\ \A k \in 1 .. r : s[w + k] = "r"
  /\ s[w + r + 1] = "p"
  /\ \A k \in 1 .. x : s[w + r + 1 + k] = "w"

\* Four runs of accesses make a table.
LEMMA ChainSpelled ==
  ASSUME NEW fs, NEW ms, NEW ps, NEW ws, NEW w \in Nat, NEW r \in Nat, NEW x \in Nat,
     Filled(fs, w, "p"), Filled(ms, r, "r"), Filled(ps, 1, "p"), Filled(ws, x, "w")
  PROVE  Spelled(fs \o ((ms \o ps) \o ws), w, r, x)
<1>1. PICK e : e = ms \o ps OBVIOUS
<1>2. e \in Seq(BusOps) /\ Len(e) = r + 1 /\ (\A k \in 1 .. r : e[k] = "r")
      /\ e[r + 1] = "p"
  <2>1. Joins(ms, ps, e) BY JoinsConcat, <1>1 DEF Filled
  <2>2. Len(ms) = r /\ Len(ps) = 1 /\ ps[1] = "p" /\ \A k \in 1 .. r : ms[k] = "r"
    BY DEF Filled
  <2>3. e \in Seq(BusOps) /\ Len(e) = r + 1 BY <2>1, <2>2 DEF Joins
  <2>4. \A k \in 1 .. r : e[k] = "r" BY <2>1, <2>2 DEF Joins
  <2>5. e[r + 1] = "p" BY <2>1, <2>2 DEF Joins
  <2> QED BY <2>3, <2>4, <2>5
<1>3. PICK f : f = e \o ws OBVIOUS
<1>4. f \in Seq(BusOps) /\ Len(f) = r + 1 + x /\ (\A k \in 1 .. r : f[k] = "r")
      /\ f[r + 1] = "p"
      /\ \A k \in 1 .. x : f[r + 1 + k] = "w"
  <2>1. Joins(e, ws, f) BY JoinsConcat, <1>2, <1>3 DEF Filled
  <2>2. Len(ws) = x /\ \A k \in 1 .. x : ws[k] = "w" BY DEF Filled
  <2>3. f \in Seq(BusOps) /\ Len(f) = r + 1 + x BY <2>1, <2>2, <1>2 DEF Joins
  <2>4. \A k \in 1 .. r + 1 : f[k] = e[k] BY <2>1, <1>2 DEF Joins
  <2>5. \A k \in 1 .. x : f[r + 1 + k] = "w" BY <2>1, <2>2, <1>2 DEF Joins
  <2> QED BY <2>3, <2>4, <2>5, <1>2
<1>5. PICK s : s = fs \o f OBVIOUS
<1>6. s \in Seq(BusOps) /\ Len(s) = w + (r + 1 + x)
      /\ (\A k \in 1 .. w : s[k] = "p")
      /\ \A k \in 1 .. r + 1 + x : s[w + k] = f[k]
  <2>1. Joins(fs, f, s) BY JoinsConcat, <1>4, <1>5 DEF Filled
  <2>2. Len(fs) = w /\ \A k \in 1 .. w : fs[k] = "p" BY DEF Filled
  <2> QED BY <2>1, <2>2, <1>4 DEF Joins
<1>7. \A k \in 1 .. r : s[w + k] = "r"
  <2> TAKE k \in 1 .. r
  <2>1. k \in 1 .. r + 1 + x OBVIOUS
  <2> QED BY <1>4, <1>6, <2>1
<1>8. s[w + r + 1] = "p"
  <2>1. r + 1 \in 1 .. r + 1 + x /\ w + (r + 1) = w + r + 1 OBVIOUS
  <2> QED BY <2>1, <1>4, <1>6
<1>9. \A k \in 1 .. x : s[w + r + 1 + k] = "w"
  <2> TAKE k \in 1 .. x
  <2>1. PICK n : n = r + 1 + k OBVIOUS
  <2>2. n \in 1 .. r + 1 + x /\ w + n = w + r + 1 + k BY <2>1
  <2>3. s[w + n] = f[n] BY <2>2, <1>6
  <2>4. f[n] = "w" BY <2>1, <1>4
  <2> QED BY <2>2, <2>3, <2>4
<1>10. w + (r + 1 + x) = w + r + 1 + x OBVIOUS
<1> QED BY <1>1, <1>3, <1>5, <1>6, <1>7, <1>8, <1>9, <1>10 DEF Spelled

\* The table of an instruction that reads an operand.
LEMMA BusOfRead ==
  ASSUME NEW i, Proper(i), i.op \in ReadOps
  PROVE  /\ Extensions(i) = EaWords(Ea(i), i.sz)
         /\ Spelled(Bus(i), Len(EaWords(Ea(i), i.sz)), Reads(Ea(i), i.sz),
                    IF ToMemory(i) THEN Words(i.sz) ELSE 0)
<1> DEFINE w == Len(EaWords(Ea(i), i.sz))
           r == Reads(Ea(i), i.sz)
           x == IF ToMemory(i) THEN Words(i.sz) ELSE 0
<1>1. Extensions(i) = EaWords(Ea(i), i.sz)
  BY DEF Extensions, ReadOps
<1>2. w \in Nat /\ r \in Nat /\ x \in Nat
  BY EaWordsType DEF Reads, Words
<1>3. Bus(i) = Times(w, "p") \o ((Times(r, "r") \o <<"p">>) \o Times(x, "w"))
  BY <1>1 DEF Bus, Reads, Words, ReadOps
<1> HIDE DEF w, r, x
<1>4. Filled(Times(w, "p"), w, "p") BY <1>2, TimesType DEF Filled, BusOps
<1>5. Filled(Times(r, "r"), r, "r") BY <1>2, TimesType DEF Filled, BusOps
<1>6. Filled(Times(x, "w"), x, "w") BY <1>2, TimesType DEF Filled, BusOps
<1>7. Filled(<<"p">>, 1, "p") BY DEF Filled, BusOps
<1>8. Spelled(Times(w, "p") \o ((Times(r, "r") \o <<"p">>) \o Times(x, "w")), w, r, x)
  BY <1>2, <1>4, <1>5, <1>6, <1>7, ChainSpelled
<1>9. Spelled(Bus(i), w, r, x) BY <1>3, <1>8
<1> QED BY <1>1, <1>9 DEF w, r, x

-----------------------------------------------------------------------------
(* The invariant: how far each state of an instruction is in its table.       *)
IsSeq(t) == \E S : t \in Seq(S)
\* Words behind the opcode, and the words MOVEM moves.
W == Len(Extensions(cur))
Moves == Words(cur.sz) * Len(cur.list)
\* The first n accesses of the table are made, in time t, and f words fetched.
Took(t, n, f) == cycles = t /\ accesses = SubSeq(Bus(cur), 1, n) /\ fetched = f

\* upc - 1 of all microcycles of a code are behind.
Ran(code, all) == ucode = code /\ upc \in 1 .. all + 1 /\ ucycles = all + 1 - upc
\* ... and nothing else of the instruction is.
Within(code) ==
  Took(2 * (upc - 1), Count(code, upc, BusOps), 1 + Count(code, upc, {"p"}))

\* The states of the handlers: what they took when they come there.
AtNone == cycles = 0 /\ accesses = <<>> /\ fetched = 1
AtRead ==
  /\ cur.op \in ReadOps
  /\ Ran(Microcode(Ea(cur)), ReadCycles(Ea(cur), cur.sz)) /\ Within(Microcode(Ea(cur)))
AtEa ==
  /\ cur.op = "lea"
  /\ Ran(AddressCode(cur.s), AddressCycles(cur.s)) /\ Within(AddressCode(cur.s))
AtWrite ==
  /\ cur.op \in ReadOps \ {"cmp"} /\ prefetched = Here
  /\ Ran(WriteCode(cur), WriteCycles(cur))
  /\ Took(2 * ReadCycles(Ea(cur), cur.sz) + 4 + 2 * (upc - 1),
          W + Reads(Ea(cur), cur.sz) + 1 + Count(ucode, upc, {"w"}), W + 1)
AtLong ==
  /\ cur.op = "cmp" /\ cur.sz = "l" /\ prefetched = Here
  /\ Took(2 * ReadCycles(Ea(cur), cur.sz) + 4, Len(Bus(cur)), W + 1)
AtExchange == cur.op = "exg" /\ prefetched = Here /\ Took(4, Len(Bus(cur)), 1)
AtNotTaken == cur.op = "bcc" /\ ~TakesBranch /\ Took(2, W, W + 1)
AtPushHigh == cur.op = "bsr" /\ Took(2, W, W + 1)
AtPushLow == cur.op = "bsr" /\ Took(6, W + 1, W + 1)
AtRefill ==
  \/ cur.op = "bcc" /\ TakesBranch /\ Took(2, W, 0)
  \/ cur.op = "bcc" /\ ~TakesBranch /\ Wide(cur) /\ Took(4, W, W + 1)
  \/ cur.op = "bsr" /\ Took(10, W + 2, 0)
AtPrefetch ==
  \/ cur.op = "bcc" /\ TakesBranch /\ Took(6, W, 0)
  \/ cur.op = "bcc" /\ ~TakesBranch /\ Took(IF Wide(cur) THEN 8 ELSE 4, W, W + 1)
  \/ cur.op = "bsr" /\ Took(14, W + 2, 0)
  \/ cur.op = "movemstore" /\ Took(4 * (W + 1 + Moves), W + Moves, W + 1)
  \/ cur.op = "movemload" /\ Took(4 * (W + 2 + Moves), W + Moves + 1, W + 1)
AtFetch == Movem /\ fetched \in 2 .. W /\ Took(4 * (fetched - 1), fetched - 1, fetched)
AtParse == Movem /\ Took(4 * W, W, W + 1)
AtStore == cur.op = "movemstore" /\ IsSeq(transfers) /\ Len(transfers) \in 1 .. Moves
  /\ Took(4 * (W + 1 + Moves - Len(transfers)), W + Moves - Len(transfers), W + 1)
AtLoad == cur.op = "movemload" /\ IsSeq(transfers) /\ Len(transfers) \in 1 .. Moves
  /\ Took(4 * (W + 1 + Moves - Len(transfers)), W + Moves - Len(transfers), W + 1)
AtExtra == cur.op = "movemload" /\ Took(4 * (W + 1 + Moves), W + Moves, W + 1)

\* What every instruction takes and accesses, slips included.
Timed ==
  state = "finished" /\ cur # None /\ cur.op \in ClockedOps =>
    cycles = Tabled(cur) + Slip(cur) /\ accesses = Bus(cur)

AtEnd == Here[2] = 0 /\ shown.pc = Here[1] /\ prefetched = Here /\ Timed

\* The handlers' states.
States ==
  {"none", "read", "ea", "write", "long", "exchange", "not taken", "push high", "push low",
   "refill", "prefetch", "fetch", "parse", "store", "load", "extra read", "finished"}

\* The inductive invariant: in every state of a handler an instruction took the
\* time and made the accesses its table has up to there.
TimeInv ==
  /\ task.program \in DOMAIN Code
  /\ state # "finished" \/ cur # None => (cur.op \in ClockedOps => Proper(cur))
  /\ state \in States
  /\ state = "none" => AtNone
  /\ state = "read" => AtRead
  /\ state = "ea" => AtEa
  /\ state = "write" => AtWrite
  /\ state = "long" => AtLong
  /\ state = "exchange" => AtExchange
  /\ state = "not taken" => AtNotTaken
  /\ state = "push high" => AtPushHigh
  /\ state = "push low" => AtPushLow
  /\ state = "refill" => AtRefill
  /\ state = "prefetch" => AtPrefetch
  /\ state = "fetch" => AtFetch
  /\ state = "parse" => AtParse
  /\ state = "store" => AtStore
  /\ state = "load" => AtLoad
  /\ state = "extra read" => AtExtra
  /\ state = "finished" => AtEnd

\* w words of the program, n accesses b, and the next instruction.
Mixed(s, w, b, n) ==
  /\ s \in Seq(BusOps)
  /\ Len(s) = w + n + 1
  /\ \A k \in 1 .. w : s[k] = "p"
  /\ \A k \in 1 .. n : s[w + k] = b
  /\ s[w + n + 1] = "p"

\* Three runs of accesses make a table.
LEMMA ChainMixed ==
  ASSUME NEW fs, NEW ms, NEW ps, NEW w \in Nat, NEW n \in Nat, NEW b \in BusOps,
         Filled(fs, w, "p"), Filled(ms, n, b), Filled(ps, 1, "p")
  PROVE  Mixed(fs \o (ms \o ps), w, b, n)
<1>1. PICK e : e = ms \o ps OBVIOUS
<1>2. e \in Seq(BusOps) /\ Len(e) = n + 1 /\ (\A k \in 1 .. n : e[k] = b) /\ e[n + 1] = "p"
  <2>1. Joins(ms, ps, e) BY JoinsConcat, <1>1 DEF Filled
  <2>2. Len(ms) = n /\ Len(ps) = 1 /\ ps[1] = "p" /\ \A k \in 1 .. n : ms[k] = b
    BY DEF Filled
  <2>3. e \in Seq(BusOps) /\ Len(e) = n + 1 BY <2>1, <2>2 DEF Joins
  <2>4. \A k \in 1 .. n : e[k] = b BY <2>1, <2>2 DEF Joins
  <2>5. e[n + 1] = "p" BY <2>1, <2>2 DEF Joins
  <2> QED BY <2>3, <2>4, <2>5
<1>5. PICK s : s = fs \o e OBVIOUS
<1>6. s \in Seq(BusOps) /\ Len(s) = w + (n + 1)
      /\ (\A k \in 1 .. w : s[k] = "p")
      /\ \A k \in 1 .. n + 1 : s[w + k] = e[k]
  <2>1. Joins(fs, e, s) BY JoinsConcat, <1>2, <1>5 DEF Filled
  <2>2. Len(fs) = w /\ \A k \in 1 .. w : fs[k] = "p" BY DEF Filled
  <2> QED BY <2>1, <2>2, <1>2 DEF Joins
<1>7. \A k \in 1 .. n : s[w + k] = b
  <2> TAKE k \in 1 .. n
  <2>1. k \in 1 .. n + 1 OBVIOUS
  <2> QED BY <1>2, <1>6, <2>1
<1>8. s[w + n + 1] = "p"
  <2>1. n + 1 \in 1 .. n + 1 /\ w + (n + 1) = w + n + 1 OBVIOUS
  <2> QED BY <2>1, <1>2, <1>6
<1>10. w + (n + 1) = w + n + 1 OBVIOUS
<1> QED BY <1>1, <1>5, <1>6, <1>7, <1>8, <1>10 DEF Mixed

\* Times as such a run.
LEMMA FilledTimes ==
  ASSUME NEW n \in Nat, NEW b \in BusOps PROVE Filled(Times(n, b), n, b)
  BY TimesType DEF Filled

\* How many words the instructions have behind the opcode.
LEMMA ExtensionsType ==
  ASSUME NEW i, i.op \in ClockedOps
  PROVE  /\ Len(Extensions(i)) \in Nat
         /\ i.op \in {"movemstore", "movemload"} =>
              Len(Extensions(i)) = Len(EaWords(i.t, i.sz)) + 1
         /\ i.op = "lea" => Extensions(i) = EaWords(i.s, i.sz)
         /\ i.op = "exg" => Len(Extensions(i)) = 0
         /\ i.op \in {"bcc", "bsr"} => Len(Extensions(i)) = IF Wide(i) THEN 1 ELSE 0
<1>1. CASE i.op \in {"movemstore", "movemload"}
  <2>3. i.op \in {"movemstore", "movemload"} /\ i.op \notin {"bcc", "bsr"}
        /\ i.op \notin ReadOps \cup {"lea"}
    BY <1>1 DEF ReadOps
  <2>1. Extensions(i) = <<i.list>> \o EaWords(i.t, i.sz)
    BY <2>3 DEF Extensions
  <2>2. Len(<<i.list>> \o EaWords(i.t, i.sz)) = Len(EaWords(i.t, i.sz)) + 1
    <3>1. PICK s : s = EaWords(i.t, i.sz) OBVIOUS
    <3>2. s = <<>> \/ (\E x : s = <<x>>) \/ (\E x, y : s = <<x, y>>)
      BY <3>1 DEF EaWords, Halves
    <3>3. \E S : s \in Seq(S)
      <4>1. CASE s = <<>>
        <5>1. s \in Seq({0}) BY <4>1
        <5> QED BY <5>1
      <4>2. CASE \E x : s = <<x>>
        <5>1. PICK x : s = <<x>> BY <4>2
        <5>2. s \in Seq({x}) BY <5>1
        <5> QED BY <5>2
      <4>3. CASE \E x, y : s = <<x, y>>
        <5>1. PICK x, y : s = <<x, y>> BY <4>3
        <5>2. s \in Seq({x, y}) BY <5>1
        <5> QED BY <5>2
      <4> QED BY <3>2, <4>1, <4>2, <4>3
    <3>4. PICK S : s \in Seq(S) BY <3>3
    <3>5. PICK l : l = <<i.list>> OBVIOUS
    <3>6. l \in Seq({i.list}) /\ Len(l) = 1 BY <3>5
    <3>7. l \in Seq({i.list} \cup S) /\ s \in Seq({i.list} \cup S) BY <3>4, <3>6
    <3>8. Len(l \o s) = Len(l) + Len(s) BY <3>7, ConcatProperties
    <3> QED BY <3>1, <3>5, <3>6, <3>8, EaWordsType
  <2> QED BY <1>1, <2>1, <2>2, EaWordsType
<1>2. CASE i.op \in {"bcc", "bsr"}
  <2>1. Extensions(i) = IF Wide(i) THEN <<i.to>> ELSE <<>>
    <3>1. i.op \in {"bcc", "bsr"} /\ i.op \notin {"movemstore", "movemload"}
          /\ i.op \notin ReadOps \cup {"lea"}
      BY <1>2 DEF ReadOps
    <3> QED BY <3>1 DEF Extensions
  <2>2. Len(Extensions(i)) = IF Wide(i) THEN 1 ELSE 0 BY <2>1
  <2> QED BY <1>2, <2>2
<1>3. CASE i.op = "exg"
  BY <1>3 DEF Extensions, ReadOps
<1>4. CASE i.op = "lea"
  <2>1. i.op \in ReadOps \cup {"lea"} /\ i.op \notin {"bcc", "bsr"}
        /\ i.op \notin {"movemstore", "movemload"}
    BY <1>4 DEF ReadOps
  <2>2. Ea(i) = i.s BY <1>4 DEF Ea, FromEa
  <2> QED BY <1>4, <2>1, <2>2, EaWordsType DEF Extensions
<1>5. CASE i.op \in ReadOps
  BY <1>5, EaWordsType DEF Extensions, ReadOps
<1> QED BY <1>1, <1>2, <1>3, <1>4, <1>5 DEF ClockedOps

\* The tables of the other instructions.
LEMMA BusOfOthers ==
  ASSUME NEW i, Proper(i), i.op \in ClockedOps
  PROVE  /\ i.op \in {"lea", "exg", "bcc"} => Mixed(Bus(i), Len(Extensions(i)), "p", 0)
         /\ i.op = "bsr" => Mixed(Bus(i), Len(Extensions(i)), "w", 2)
         /\ i.op = "movemstore" =>
              Mixed(Bus(i), Len(Extensions(i)), "w", Words(i.sz) * Len(i.list))
         /\ i.op = "movemload" =>
              Mixed(Bus(i), Len(Extensions(i)), "r", Words(i.sz) * Len(i.list) + 1)
         /\ i.op \in {"movemstore", "movemload"} => Words(i.sz) * Len(i.list) \in Nat \ {0}
<1> DEFINE w == Len(Extensions(i))
           m == Words(i.sz) * Len(i.list)
<1>1. w \in Nat BY ExtensionsType
<1>2. i.op \in {"movemstore", "movemload"} => m \in Nat /\ m > 0
  <2> SUFFICES ASSUME i.op \in {"movemstore", "movemload"} PROVE m \in Nat /\ m > 0
    OBVIOUS
  <2>1. Len(i.list) \in Nat /\ Len(i.list) > 0 BY DEF Proper
  <2>2. Words(i.sz) \in {1, 2} BY DEF Words
  <2> QED BY <2>1, <2>2
<1>3. Filled(Times(w, "p"), w, "p") /\ Filled(<<"p">>, 1, "p") /\ Filled(<<>>, 0, "p")
  BY <1>1, FilledTimes DEF BusOps, Filled
<1>4. CASE i.op \in {"lea", "exg", "bcc"}
  <2>1. Bus(i) = Times(w, "p") \o <<"p">> BY <1>4 DEF Bus, ReadOps
  <2>2. <<"p">> = <<>> \o <<"p">> OBVIOUS
  <2>3. Mixed(Times(w, "p") \o (<<>> \o <<"p">>), w, "p", 0)
    <3> HIDE DEF w
    <3> QED BY <1>1, <1>3, ChainMixed DEF BusOps
  <2> QED BY <2>1, <2>2, <2>3, <1>4
<1>5. CASE i.op = "bsr"
  <2>1. Bus(i) = Times(w, "p") \o <<"w", "w", "p">> BY <1>5 DEF Bus, ReadOps
  <2>2. <<"w", "w", "p">> = <<"w", "w">> \o <<"p">> OBVIOUS
  <2>3. Mixed(Times(w, "p") \o (<<"w", "w">> \o <<"p">>), w, "w", 2)
    <3>1. Filled(<<"w", "w">>, 2, "w") BY DEF Filled, BusOps
    <3> HIDE DEF w
    <3> QED BY <1>1, <1>3, <3>1, ChainMixed DEF BusOps
  <2> QED BY <2>1, <2>2, <2>3, <1>5
<1>6. CASE i.op = "movemstore"
  <2>1. Bus(i) = Times(w, "p") \o (Times(m, "w") \o <<"p">>) BY <1>6 DEF Bus, ReadOps
  <2>2. Mixed(Times(w, "p") \o (Times(m, "w") \o <<"p">>), w, "w", m)
    <3>2. m \in Nat BY <1>2, <1>6
    <3> HIDE DEF w, m
    <3>1. Filled(Times(m, "w"), m, "w") BY <3>2, FilledTimes DEF BusOps
    <3> QED BY <1>1, <1>3, <3>1, <3>2, ChainMixed DEF BusOps
  <2> QED BY <2>1, <2>2, <1>6, <1>2
<1>7. CASE i.op = "movemload"
  <2>1. Bus(i) = Times(w, "p") \o (Times(m + 1, "r") \o <<"p">>)
    BY <1>7 DEF Bus, ReadOps
  <2>2. Mixed(Times(w, "p") \o (Times(m + 1, "r") \o <<"p">>), w, "r", m + 1)
    <3>2. m + 1 \in Nat BY <1>2, <1>7
    <3>3. PICK k : k = m + 1 OBVIOUS
    <3> HIDE DEF w, m
    <3>1. Filled(Times(k, "r"), k, "r") BY <3>2, <3>3, FilledTimes DEF BusOps
    <3>4. Mixed(Times(w, "p") \o (Times(k, "r") \o <<"p">>), w, "r", k)
      BY <1>1, <1>3, <3>1, <3>2, <3>3, ChainMixed DEF BusOps
    <3> QED BY <3>3, <3>4
  <2> QED BY <2>1, <2>2, <1>7, <1>2
<1>8. CASE i.op \in ReadOps BY <1>8 DEF ReadOps
<1> QED BY <1>1, <1>2, <1>4, <1>5, <1>6, <1>7, <1>8 DEF ClockedOps

-----------------------------------------------------------------------------
(* The steps.                                                                 *)
\* No instruction changes the program.
LEMMA KeepsTask == Next => task' = task
<1> USE DEF Continue, Jump, ToAddress, ToData, ToCcr
<1>1. Arithmetic => task' = task
  BY DEF Arithmetic, Add, Addi, Addq, Addx, Sub, Subi, Subq, Subx, Neg, Negx, Abcd,
     Sbcd, Cmp, Cmpi, Cmpm, Cmpa, Adda, Suba, Ext,
   Mulu, Muls, Divu, Divs, DivideByZero, Dyadic, Monadic, Compare, DecimalOp, ByWord
<1>2. Logic => task' = task
  BY DEF Logic,  AndBits, Andi, OrBits, Ori, EorBits, Eori, NotBits, Tst, Tas, Btst,
     Bset, Bclr, Bchg, Asl, Asr, Lsl, Lsr, Rol, Ror, Roxl, Roxr, Dyadic, Monadic,
     ShiftBy, InMemory, BitOp
<1>3. Moving => task' = task
  BY DEF Moving, Move, Movea, Moveq, Clr, Swap, Exg, MovemStore, MovemLoad, MovepStore,
     MovepLoad, MoveFromSr, MoveToCcr, AndiToCcr, OriToCcr, EoriToCcr
<1>4. Control => task' = task
  BY DEF Control, Bcc, Bsr, Dbcc, Scc, Jmp, Jsr, Rts, Rtr, Lea, Pea, Link, Unlk
<1> QED BY <1>1, <1>2, <1>3, <1>4 DEF Next

\* Parts of a table at its beginning, and with nothing more.
LEMMA Prefix ==
  ASSUME NEW B \in Seq(BusOps), NEW n \in Nat
  PROVE  SubSeq(B, 1, 0) = <<>>
         /\ (n <= Len(B) => SubSeq(B, 1, n) \o <<>> = SubSeq(B, 1, n))
<1>1. SubSeq(B, 1, 0) = <<>> BY SubSeqEmpty
<1>2. ASSUME n <= Len(B) PROVE SubSeq(B, 1, n) \o <<>> = SubSeq(B, 1, n)
  <2>1. SubSeq(B, 1, n) \in Seq(BusOps) BY <1>2, SubSeqProperties
  <2>2. PICK s : s = SubSeq(B, 1, n) OBVIOUS
  <2>3. s \o <<>> = s BY <2>1, <2>2, ConcatEmptySeq
  <2> QED BY <2>2, <2>3
<1> QED BY <1>1, <1>2

\* cpu->pc stays while no word is fetched.
LEMMA HereKept == pc' = pc /\ fetched' = fetched /\ cur' = cur => Here' = Here
  BY DEF Here

\* Between instructions cpu->pc is at an opcode.
LEMMA HereIs ==
  ASSUME fetched = 0 \/ fetched = W + 1, W \in Nat
  PROVE  Here[2] = 0
  BY DEF Here, W

\* After the last word of an instruction, or a jump, cpu->pc is at an opcode.
LEMMA HereAfter ==
  ASSUME fetched' = 0 \/ fetched' = W + 1, W \in Nat, cur' = cur
  PROVE  Here'[2] = 0
  BY DEF Here, W

\* An instruction that ends as its table has it, with the next one prefetched.
LEMMA Ends ==
  ASSUME TimeInv, state # "finished", Finish, cur' = cur, task' = task, task.program \in DOMAIN Code,
         W \in Nat, fetched' = 0 \/ fetched' = W + 1, prefetched' = Here',
         cur.op \in ClockedOps => cycles' = Tabled(cur)' + Slip(cur) /\ accesses' = Bus(cur)
  PROVE  TimeInv'
<1>1. state' = "finished" /\ shown'.pc = Here'[1] BY DEF Finish
<1>2. Here'[2] = 0 BY HereAfter
<1>3. Timed' BY <1>1 DEF Timed
<1>4. AtEnd' BY <1>1, <1>2, <1>3 DEF AtEnd
<1>5. cur.op \in ClockedOps => Proper(cur) BY DEF TimeInv
<1> QED BY <1>1, <1>4, <1>5 DEF TimeInv, States

-----------------------------------------------------------------------------
(* Each step keeps the invariant.                                             *)
\* NewInstr keeps the invariant.
LEMMA StepNewInstr == TimeInv /\ NewInstr => TimeInv'
<1> SUFFICES ASSUME TimeInv, NewInstr PROVE TimeInv' OBVIOUS
<1>1. AtEnd /\ task.program \in DOMAIN Code BY DEF TimeInv, States, NewInstr
<1>2. /\ cur' = Code[task.program][Here[1]] /\ fetched' = 1 /\ cycles' = 0
      /\ accesses' = <<>>
      /\ state' = "none" /\ task' = task
  BY <1>1 DEF NewInstr, AtEnd, Go, Listing
<1>3. Here[1] \in DOMAIN Code[task.program]
  BY <1>1 DEF NewInstr, AtEnd, Stopped, Listing
<1>4. cur'.op \in ClockedOps => Proper(cur') BY <1>1, <1>2, <1>3, CodeAssumption
<1>5. AtNone' BY <1>2 DEF AtNone
<1> QED BY <1>1, <1>2, <1>4, <1>5 DEF TimeInv, States

\* RunWhole keeps the invariant.
LEMMA StepRunWhole == TimeInv /\ RunWhole => TimeInv'
<1> SUFFICES ASSUME TimeInv, RunWhole PROVE TimeInv' OBVIOUS
<1>1. task' = task /\ task.program \in DOMAIN Code BY KeepsTask DEF TimeInv, States, RunWhole
<1>2. cur' = cur /\ cur.op \notin ClockedOps /\ fetched' = 0 /\ prefetched' = <<pc', 0>>
      /\ Finish
  BY DEF RunWhole
<1>3. Here' = <<pc', 0>> BY <1>2 DEF Here
<1>4. state' = "finished" /\ shown'.pc = Here'[1] BY <1>2 DEF Finish
<1>5. Timed' BY <1>2, <1>4 DEF Timed
<1>6. AtEnd' BY <1>2, <1>3, <1>4, <1>5 DEF AtEnd
<1>7. cur'.op \notin ClockedOps BY <1>2
<1> QED BY <1>1, <1>4, <1>6, <1>7 DEF TimeInv, States

\* BeginRead keeps the invariant.
LEMMA StepBeginRead == TimeInv /\ BeginRead => TimeInv'
<1> SUFFICES ASSUME TimeInv, BeginRead PROVE TimeInv' OBVIOUS
<1>1. /\ AtNone /\ task.program \in DOMAIN Code /\ Proper(cur) /\ cur.op \in ReadOps
      /\ cur' = cur /\ task' = task /\ state' = "read" /\ cycles' = cycles
      /\ accesses' = accesses /\ fetched' = fetched
      /\ ucode' = Microcode(Ea(cur)) /\ upc' = 1 /\ ucycles' = ReadCycles(Ea(cur), cur.sz)
  BY DEF TimeInv, States, BeginRead, Go, Ujump, ClockedOps
<1>2. ReadCycles(Ea(cur), cur.sz) \in Nat BY <1>1, ReadCyclesType
<1>3. Bus(cur) \in Seq(BusOps) BY <1>1, BusOfRead DEF Spelled
<1>4. SubSeq(Bus(cur), 1, 0) = <<>> BY <1>3, Prefix
<1>5. Count(Microcode(Ea(cur)), 1, BusOps) = 0 /\ Count(Microcode(Ea(cur)), 1, {"p"}) = 0
  BY CountNone
<1>6. Ran(Microcode(Ea(cur)), ReadCycles(Ea(cur), cur.sz))' BY <1>1, <1>2 DEF Ran
<1>7. Within(Microcode(Ea(cur)))' BY <1>1, <1>4, <1>5 DEF Within, Took, AtNone
<1>8. AtRead' BY <1>1, <1>6, <1>7 DEF AtRead
<1> QED BY <1>1, <1>8 DEF TimeInv, States

\* BeginAddress keeps the invariant.
LEMMA StepBeginAddress == TimeInv /\ BeginAddress => TimeInv'
<1> SUFFICES ASSUME TimeInv, BeginAddress PROVE TimeInv' OBVIOUS
<1>1. /\ AtNone /\ task.program \in DOMAIN Code /\ Proper(cur) /\ cur.op = "lea"
      /\ cur' = cur /\ task' = task /\ state' = "ea" /\ cycles' = cycles
      /\ accesses' = accesses /\ fetched' = fetched
      /\ ucode' = AddressCode(cur.s) /\ upc' = 1 /\ ucycles' = AddressCycles(cur.s)
  BY DEF TimeInv, States, BeginAddress, Go, Ujump, ClockedOps, vars
<1>2. AddressCycles(cur.s) \in Nat
  <2>1. cur.s.mode \in {"at", "off", "index", "abs"} BY <1>1 DEF Proper, ProperEa
  <2> QED BY <2>1, AddressTable
<1>3. Bus(cur) \in Seq(BusOps) BY <1>1, BusOfOthers DEF Mixed, ClockedOps
<1>4. SubSeq(Bus(cur), 1, 0) = <<>> BY <1>3, Prefix
<1>5. Count(AddressCode(cur.s), 1, BusOps) = 0 /\ Count(AddressCode(cur.s), 1, {"p"}) = 0
  BY CountNone
<1>6. Ran(AddressCode(cur.s), AddressCycles(cur.s))' BY <1>1, <1>2 DEF Ran
<1>7. Within(AddressCode(cur.s))' BY <1>1, <1>4, <1>5 DEF Within, Took, AtNone
<1>8. AtEa' BY <1>1, <1>6, <1>7 DEF AtEa
<1> QED BY <1>1, <1>8 DEF TimeInv, States

\* Only the time of a branch depends on the condition codes.
LEMMA TabledKept == ASSUME NEW i, i.op # "bcc" PROVE Tabled(i)' = Tabled(i)
  BY DEF Tabled

\* What a microcycle does but for the operand.
LEMMA MicroRuns ==
  ASSUME Micro
  PROVE  /\ state \in {"read", "ea", "write"} /\ ucycles # 0
         /\ ucycles' = ucycles - 1 /\ upc' = upc + 1 /\ ucode' = ucode
         /\ cycles' = cycles + 2
         /\ accesses' = accesses \o (IF ucode[upc] \in BusOps THEN <<ucode[upc]>> ELSE <<>>)
         /\ fetched' = IF ucode[upc] = "p" THEN fetched + 1 ELSE fetched
         /\ state' = state /\ cur' = cur /\ task' = task /\ pc' = pc
         /\ prefetched' = prefetched
<1>1. /\ state \in {"read", "ea", "write"} /\ ucycles # 0
      /\ ucycles' = ucycles - 1 /\ upc' = upc + 1 /\ ucode' = ucode
      /\ state' = state /\ cur' = cur /\ task' = task /\ pc' = pc
      /\ prefetched' = prefetched
      /\ Uses(2, IF ucode[upc] \in {"p", "r", "w"} THEN <<ucode[upc]>> ELSE <<>>)
  BY DEF Micro, Go
<1>2. fetched' = IF ucode[upc] = "p" THEN fetched + 1 ELSE fetched
  BY DEF Micro, FetchWord
<1> QED BY <1>1, <1>2 DEF Uses, BusOps

\* Counts are small.
LEMMA CountType ==
  ASSUME NEW code, NEW S, NEW k PROVE Count(code, k, S) \in 0 .. 8
  BY DEF Count, CountAt

\* One microcycle of a code, counted.
LEMMA MicroStep ==
  ASSUME Micro, NEW code, NEW all \in 0 .. 8, 1 .. all \subseteq DOMAIN code, Ran(code, all)
  PROVE  /\ upc \in 1 .. all
         /\ Ran(code, all)'
         /\ upc' = upc + 1 /\ cycles' = cycles + 2
         /\ accesses' = accesses \o (IF code[upc] \in BusOps THEN <<code[upc]>> ELSE <<>>)
         /\ fetched' = IF code[upc] = "p" THEN fetched + 1 ELSE fetched
         /\ state' = state /\ cur' = cur /\ task' = task /\ pc' = pc
         /\ prefetched' = prefetched
         /\ \A S : Count(code, upc + 1, S)
                  = Count(code, upc, S) + (IF code[upc] \in S THEN 1 ELSE 0)
<1>1. /\ ucycles # 0 /\ ucycles' = ucycles - 1 /\ upc' = upc + 1 /\ ucode' = ucode
      /\ cycles' = cycles + 2
      /\ accesses' = accesses \o (IF ucode[upc] \in BusOps THEN <<ucode[upc]>> ELSE <<>>)
      /\ fetched' = IF ucode[upc] = "p" THEN fetched + 1 ELSE fetched
      /\ state' = state /\ cur' = cur /\ task' = task /\ pc' = pc
      /\ prefetched' = prefetched
  BY MicroRuns
<1>2. ucode = code /\ upc \in 1 .. all + 1 /\ ucycles = all + 1 - upc BY DEF Ran
<1>3. upc \in 1 .. all BY <1>1, <1>2
<1>4. Ran(code, all)'
  <2>1. ucode' = code BY <1>1, <1>2
  <2>2. upc' \in 1 .. all + 1 /\ ucycles' = all + 1 - upc' BY <1>1, <1>2, <1>3
  <2> QED BY <2>1, <2>2 DEF Ran
<1>5. \A S : Count(code, upc + 1, S)
                  = Count(code, upc, S) + (IF code[upc] \in S THEN 1 ELSE 0)
  <2> TAKE S
  <2>1. PICK k : k = upc OBVIOUS
  <2>2. k \in 1 .. 8 /\ k \in DOMAIN code BY <1>3, <2>1
  <2>3. Count(code, k + 1, S) = Count(code, k, S) + (IF code[k] \in S THEN 1 ELSE 0)
    BY <2>2, CountNext
  <2> QED BY <2>1, <2>3
<1>6. accesses' = accesses \o (IF code[upc] \in BusOps THEN <<code[upc]>> ELSE <<>>)
  BY <1>1, <1>2
<1>7. fetched' = IF code[upc] = "p" THEN fetched + 1 ELSE fetched BY <1>1, <1>2
<1> QED BY <1>1, <1>3, <1>4, <1>5, <1>6, <1>7

\* A microcycle whose access is the next of the table stays within it.
LEMMA WithinStep ==
  ASSUME Micro, NEW code, NEW all \in 0 .. 8, 1 .. all \subseteq DOMAIN code,
         Ran(code, all), Within(code),
         NEW B \in Seq(BusOps), B = Bus(cur), NEW n \in 0 .. Len(B),
         n = Count(code, upc, BusOps),
         code[upc] \in BusOps => n < Len(B) /\ B[n + 1] = code[upc]
  PROVE  Within(code)'
<1>1. /\ upc \in 1 .. all
      /\ upc' = upc + 1 /\ cycles' = cycles + 2
      /\ accesses' = accesses \o (IF code[upc] \in BusOps THEN <<code[upc]>> ELSE <<>>)
      /\ fetched' = IF code[upc] = "p" THEN fetched + 1 ELSE fetched
      /\ cur' = cur
      /\ Count(code, upc + 1, BusOps) = n + (IF code[upc] \in BusOps THEN 1 ELSE 0)
      /\ Count(code, upc + 1, {"p"})
           = Count(code, upc, {"p"}) + (IF code[upc] \in {"p"} THEN 1 ELSE 0)
  BY MicroStep
<1>2. cycles = 2 * (upc - 1) /\ accesses = SubSeq(B, 1, n)
      /\ fetched = 1 + Count(code, upc, {"p"})
  BY DEF Within, Took
<1>3. PICK u : u = code[upc] OBVIOUS
<1>4. accesses' = SubSeq(B, 1, n + (IF u \in BusOps THEN 1 ELSE 0))
  <2>1. accesses' = accesses \o (IF u \in BusOps THEN <<u>> ELSE <<>>) BY <1>1, <1>3
  <2>2. u \in BusOps => n < Len(B) /\ B[n + 1] = u BY <1>3
  <2>3. n \in Nat /\ n <= Len(B) OBVIOUS
  <2>4. accesses = SubSeq(B, 1, n) BY <1>2
  <2>5. CASE u \in BusOps
    <3>1. accesses' = SubSeq(B, 1, n) \o <<u>> BY <2>1, <2>4, <2>5
    <3>2. SubSeq(B, 1, n) \o <<u>> = SubSeq(B, 1, n + 1) BY <2>2, <2>3, <2>5, NextBus
    <3> QED BY <2>5, <3>1, <3>2
  <2>6. CASE u \notin BusOps
    <3>1. accesses' = SubSeq(B, 1, n) \o <<>> BY <2>1, <2>4, <2>6
    <3>2. SubSeq(B, 1, n) \o <<>> = SubSeq(B, 1, n) BY <2>3, Prefix
    <3>3. n + 0 = n BY <2>3
    <3> QED BY <2>6, <3>1, <3>2, <3>3
  <2> QED BY <2>5, <2>6
<1>5. accesses' = SubSeq(Bus(cur'), 1, Count(code, upc', BusOps)) BY <1>1, <1>3, <1>4
<1>6. cycles' = 2 * (upc' - 1) BY <1>1, <1>2
<1>7. fetched' = 1 + Count(code, upc', {"p"})
  <2>1. PICK c : c = Count(code, upc, {"p"}) OBVIOUS
  <2>2. c \in 0 .. 8 BY <2>1, CountType
  <2> QED BY <1>1, <1>2, <2>1, <2>2
<1> QED BY <1>5, <1>6, <1>7 DEF Within, Took

\* MicroRead keeps the invariant.
LEMMA StepMicroRead == TimeInv /\ Micro /\ state = "read" => TimeInv'
<1> SUFFICES ASSUME TimeInv, Micro, state = "read" PROVE TimeInv' OBVIOUS
<1>1. AtRead /\ task.program \in DOMAIN Code /\ Proper(cur) /\ cur.op \in ReadOps
  <2>1. AtRead /\ task.program \in DOMAIN Code /\ (cur.op \in ClockedOps => Proper(cur))
    BY DEF TimeInv, States
  <2>2. cur.op \in ReadOps BY <2>1 DEF AtRead
  <2> QED BY <2>1, <2>2 DEF ClockedOps
<1>2. PICK i : i = cur OBVIOUS
<1>3. PICK code, all, words, reads :
        /\ code = Microcode(Ea(i)) /\ all = ReadCycles(Ea(i), i.sz)
        /\ words = Len(EaWords(Ea(i), i.sz)) /\ reads = Reads(Ea(i), i.sz)
  OBVIOUS
<1>4. Ran(code, all) /\ Within(code) BY <1>1, <1>2, <1>3 DEF AtRead
<1>5. /\ all \in 0 .. 8 /\ 1 .. all \subseteq DOMAIN code
      /\ \A k \in 1 .. all :
           /\ Count(code, k, BusOps) \in 0 .. words + reads
           /\ code[k] # "w"
           /\ code[k] = "p" => Count(code, k, BusOps) < words
           /\ code[k] = "r" => Count(code, k, BusOps) \in words .. words + reads - 1
  BY <1>1, <1>2, <1>3, TimeOfRead, ReadTable, SMTT(30)
<1>6. /\ upc \in 1 .. all /\ Ran(code, all)'
      /\ state' = state /\ cur' = cur /\ task' = task
  BY <1>4, <1>5, MicroStep
<1>7. PICK n, u : n = Count(code, upc, BusOps) /\ u = code[upc] OBVIOUS
<1>8. /\ n \in 0 .. words + reads /\ u # "w"
      /\ u = "p" => n < words
      /\ u = "r" => n \in words .. words + reads - 1
  BY <1>5, <1>6, <1>7
<1>9. words \in Nat /\ reads \in Nat BY <1>3, EaWordsType DEF Reads, Words
<1>10. PICK x : x = IF ToMemory(i) THEN Words(i.sz) ELSE 0 OBVIOUS
<1>11. x \in Nat BY <1>10 DEF Words
<1>12. PICK B : B = Bus(i) OBVIOUS
<1>13. Spelled(B, words, reads, x) BY <1>1, <1>2, <1>3, <1>10, <1>12, BusOfRead
<1>14. B \in Seq(BusOps) /\ n \in 0 .. Len(B) BY <1>8, <1>9, <1>11, <1>13 DEF Spelled
<1>15. u \in BusOps => n < Len(B) /\ B[n + 1] = u
  <2>1. CASE u = "p"
    <3>1. n + 1 \in 1 .. words BY <2>1, <1>8, <1>9
    <3>2. B[n + 1] = "p" BY <3>1, <1>13 DEF Spelled
    <3>3. n < Len(B) BY <3>1, <1>8, <1>9, <1>11, <1>13 DEF Spelled
    <3> QED BY <2>1, <3>2, <3>3
  <2>2. CASE u = "r"
    <3>1. n + 1 - words \in 1 .. reads /\ words + (n + 1 - words) = n + 1
      BY <2>2, <1>8, <1>9
    <3>2. B[words + (n + 1 - words)] = "r" BY <3>1, <1>13 DEF Spelled
    <3> QED BY <2>2, <3>1, <3>2, <1>8, <1>9, <1>11, <1>13 DEF Spelled
  <2> QED BY <2>1, <2>2, <1>8 DEF BusOps
<1>16. Within(code)' BY <1>2, <1>4, <1>5, <1>7, <1>12, <1>14, <1>15, WithinStep
<1>18. AtRead' BY <1>1, <1>2, <1>3, <1>6, <1>16 DEF AtRead
<1> QED BY <1>1, <1>6, <1>18 DEF TimeInv, States

\* MicroEa keeps the invariant.
LEMMA StepMicroEa == TimeInv /\ Micro /\ state = "ea" => TimeInv'
<1> SUFFICES ASSUME TimeInv, Micro, state = "ea" PROVE TimeInv' OBVIOUS
<1>1. AtEa /\ task.program \in DOMAIN Code /\ Proper(cur) /\ cur.op = "lea"
  <2>1. AtEa /\ task.program \in DOMAIN Code /\ (cur.op \in ClockedOps => Proper(cur))
    BY DEF TimeInv, States
  <2>2. cur.op = "lea" BY <2>1 DEF AtEa
  <2> QED BY <2>1, <2>2 DEF ClockedOps
<1>2. PICK i : i = cur OBVIOUS
<1>3. PICK code, all, words :
        /\ code = AddressCode(i.s) /\ all = AddressCycles(i.s)
        /\ words = Len(EaWords(i.s, "l"))
  OBVIOUS
<1>4. Ran(code, all) /\ Within(code) BY <1>1, <1>2, <1>3 DEF AtEa
<1>20. i.s.mode \in {"at", "off", "index", "abs"} /\ i.sz = "l"
  BY <1>1, <1>2 DEF Proper, ProperEa
<1>5. /\ all \in 0 .. 8 /\ 1 .. all \subseteq DOMAIN code
      /\ \A k \in 1 .. all :
           /\ Count(code, k, BusOps) \in 0 .. words
           /\ code[k] \notin {"w", "r"}
           /\ code[k] = "p" => Count(code, k, BusOps) < words
  BY <1>3, <1>20, AddressTable
<1>6. /\ upc \in 1 .. all /\ Ran(code, all)'
      /\ state' = state /\ cur' = cur /\ task' = task
  BY <1>4, <1>5, MicroStep
<1>7. PICK n, u : n = Count(code, upc, BusOps) /\ u = code[upc] OBVIOUS
<1>8. /\ n \in 0 .. words /\ u \notin {"w", "r"}
      /\ u = "p" => n < words
  BY <1>5, <1>6, <1>7
<1>9. words \in Nat BY <1>3, EaWordsType
<1>12. PICK B : B = Bus(i) OBVIOUS
<1>13. Mixed(B, words, "p", 0)
  <2>1. Len(Extensions(i)) = words
    BY <1>1, <1>2, <1>3, <1>20, ExtensionsType DEF ClockedOps
  <2> QED BY <1>1, <1>2, <1>12, <2>1, BusOfOthers DEF ClockedOps
<1>14. B \in Seq(BusOps) /\ n \in 0 .. Len(B) BY <1>8, <1>9, <1>13 DEF Mixed
<1>15. u \in BusOps => n < Len(B) /\ B[n + 1] = u
  <2>1. CASE u = "p"
    <3>1. n + 1 \in 1 .. words BY <2>1, <1>8, <1>9
    <3>2. B[n + 1] = "p" BY <3>1, <1>13 DEF Mixed
    <3>3. n < Len(B) BY <3>1, <1>8, <1>9, <1>13 DEF Mixed
    <3> QED BY <2>1, <3>2, <3>3
  <2> QED BY <2>1, <1>8 DEF BusOps
<1>16. Within(code)' BY <1>2, <1>4, <1>5, <1>7, <1>12, <1>14, <1>15, WithinStep
<1>18. AtEa' BY <1>1, <1>2, <1>3, <1>6, <1>16 DEF AtEa
<1> QED BY <1>1, <1>6, <1>18 DEF TimeInv, States

\* They write the words of the operand, if it is in memory.
LEMMA WriteTable ==
  ASSUME NEW i, i.op \in ReadOps \ {"cmp"}, i.sz \in {"b", "w", "l"},
         NEW code, code = WriteCode(i), NEW all, all = WriteCycles(i),
         NEW x, x = IF ToMemory(i) THEN Words(i.sz) ELSE 0
  PROVE  /\ all \in 0 .. 8 /\ 1 .. all \subseteq DOMAIN code
         /\ Count(code, all + 1, {"w"}) = x
         /\ \A k \in 1 .. all :
              /\ Count(code, k, {"w"}) \in 0 .. x
              /\ code[k] \in {"w", "n"}
              /\ code[k] = "w" => Count(code, k, {"w"}) < x
<1> USE DEF WriteCode, WriteCycles, Words, ToMemory
<1>1. CASE i.t.mode = "d" /\ ~FromEa(i) /\ i.sz = "l" BY <1>1 DEF Count, CountAt
<1>2. CASE i.t.mode = "d" /\ ~(~FromEa(i) /\ i.sz = "l") BY <1>2 DEF Count, CountAt
<1>3. CASE i.t.mode # "d" /\ i.sz = "l"
  <2>1. code = <<"w", "n", "w", "n">> /\ all = 4 /\ x = 2 BY <1>3
  <2> QED BY <2>1 DEF Count, CountAt
<1>4. CASE i.t.mode # "d" /\ i.sz # "l"
  <2>1. code = <<"w", "n", "w", "n">> /\ all = 2 /\ x = 1 BY <1>4
  <2> QED BY <2>1 DEF Count, CountAt
<1> QED BY <1>1, <1>2, <1>3, <1>4

\* MicroWrite keeps the invariant.
LEMMA StepMicroWrite == TimeInv /\ Micro /\ state = "write" => TimeInv'
<1> SUFFICES ASSUME TimeInv, Micro, state = "write" PROVE TimeInv' OBVIOUS
<1>1. AtWrite /\ task.program \in DOMAIN Code /\ Proper(cur) /\ cur.op \in ReadOps \ {"cmp"}
  <2>1. AtWrite /\ task.program \in DOMAIN Code /\ (cur.op \in ClockedOps => Proper(cur))
    BY DEF TimeInv, States
  <2>2. cur.op \in ReadOps \ {"cmp"} BY <2>1 DEF AtWrite
  <2> QED BY <2>1, <2>2 DEF ClockedOps
<1>2. PICK i : i = cur OBVIOUS
<1>3. PICK code, all, words, reads, x, T :
        /\ code = WriteCode(i) /\ all = WriteCycles(i)
        /\ words = Len(EaWords(Ea(i), i.sz)) /\ reads = Reads(Ea(i), i.sz)
        /\ x = (IF ToMemory(i) THEN Words(i.sz) ELSE 0)
        /\ T = 2 * ReadCycles(Ea(i), i.sz) + 4
  OBVIOUS
<1>12. PICK B : B = Bus(i) OBVIOUS
<1>13. Spelled(B, words, reads, x) /\ Extensions(i) = EaWords(Ea(i), i.sz)
   BY <1>1, <1>2, <1>3, <1>12, BusOfRead
<1>4. /\ Ran(code, all) /\ prefetched = Here
      /\ cycles = T + 2 * (upc - 1)
      /\ accesses = SubSeq(B, 1, words + reads + 1 + Count(code, upc, {"w"}))
      /\ fetched = words + 1
  <2>1. /\ Ran(WriteCode(cur), WriteCycles(cur))
        /\ prefetched = Here
        /\ Took(2 * ReadCycles(Ea(cur), cur.sz) + 4 + 2 * (upc - 1),
                W + Reads(Ea(cur), cur.sz) + 1 + Count(ucode, upc, {"w"}), W + 1)
    BY <1>1 DEF AtWrite
  <2>2. Ran(code, all) /\ W = words BY <2>1, <1>2, <1>3, <1>13 DEF WriteCode, W
  <2>3. ucode = code BY <2>2 DEF Ran
  <2> QED BY <2>1, <2>2, <2>3, <1>2, <1>3, <1>12 DEF Took
<1>5. /\ all \in 0 .. 8 /\ 1 .. all \subseteq DOMAIN code
      /\ \A k \in 1 .. all :
           /\ Count(code, k, {"w"}) \in 0 .. x
           /\ code[k] \in {"w", "n"}
           /\ code[k] = "w" => Count(code, k, {"w"}) < x
  <2>1. i.sz \in {"b", "w", "l"} BY <1>1, <1>2, TimeOfRead
  <2> QED BY <1>1, <1>2, <1>3, <2>1, WriteTable
<1>7. PICK n, u : n = Count(code, upc, {"w"}) /\ u = code[upc] OBVIOUS
<1>6. /\ upc \in 1 .. all /\ Ran(code, all)'
      /\ state' = state /\ cur' = cur /\ task' = task /\ pc' = pc
      /\ prefetched' = prefetched
      /\ upc' = upc + 1 /\ cycles' = cycles + 2
      /\ accesses' = accesses \o (IF u \in BusOps THEN <<u>> ELSE <<>>)
      /\ fetched' = IF u = "p" THEN fetched + 1 ELSE fetched
      /\ Count(code, upc + 1, {"w"}) = n + (IF u \in {"w"} THEN 1 ELSE 0)
  BY <1>4, <1>5, <1>7, MicroStep
<1>8. /\ n \in 0 .. x /\ u \in {"w", "n"}
      /\ u = "w" => n < x
  BY <1>5, <1>6, <1>7
<1>9. words \in Nat /\ reads \in Nat BY <1>3, EaWordsType DEF Reads, Words
<1>11. x \in Nat BY <1>3 DEF Words
<1>14. B \in Seq(BusOps) /\ words + reads + 1 + n \in 0 .. Len(B)
  BY <1>8, <1>9, <1>11, <1>13 DEF Spelled
<1>15. accesses' = SubSeq(B, 1, words + reads + 1 + Count(code, upc', {"w"}))
  <2>1. PICK m : m = words + reads + 1 + n OBVIOUS
  <2>2. accesses = SubSeq(B, 1, m) /\ m \in Nat /\ m <= Len(B)
    <3>1. accesses = SubSeq(B, 1, m) BY <1>4, <1>7, <2>1
    <3>2. m \in 0 .. Len(B) BY <1>14, <2>1
    <3>3. Len(B) \in Nat BY <1>14
    <3> QED BY <3>1, <3>2, <3>3
  <2>3. CASE u = "w"
    <3>1. n + 1 \in 1 .. x BY <1>8, <1>11, <2>3
    <3>2. B[words + reads + 1 + (n + 1)] = "w" BY <3>1, <1>13 DEF Spelled
    <3>3. words + reads + 1 + (n + 1) = m + 1 BY <2>1, <1>8, <1>9
    <3>4. m < Len(B)
      <4>1. Len(B) = words + reads + 1 + x BY <1>13 DEF Spelled
      <4> QED BY <4>1, <1>8, <1>9, <1>11, <2>1, <2>3
    <3>5. SubSeq(B, 1, m) \o <<u>> = SubSeq(B, 1, m + 1)
      BY <2>2, <2>3, <3>2, <3>3, <3>4, <1>14, NextBus
    <3>6. accesses' = SubSeq(B, 1, m) \o <<u>> BY <1>6, <2>2, <2>3 DEF BusOps
    <3>7. words + reads + 1 + Count(code, upc', {"w"}) = m + 1 BY <1>6, <2>3, <3>3
    <3> QED BY <3>5, <3>6, <3>7
  <2>4. CASE u = "n"
    <3>1. accesses' = SubSeq(B, 1, m) \o <<>> BY <1>6, <2>2, <2>4 DEF BusOps
    <3>2. SubSeq(B, 1, m) \o <<>> = SubSeq(B, 1, m) BY <2>2, <1>14, Prefix
    <3>3. words + reads + 1 + Count(code, upc', {"w"}) = m BY <1>6, <1>8, <2>1, <2>4
    <3> QED BY <3>1, <3>2, <3>3
  <2> QED BY <2>3, <2>4, <1>8
<1>16. cycles' = T + 2 * (upc' - 1)
  <2>1. PICK r : r = ReadCycles(Ea(i), i.sz) OBVIOUS
  <2>2. r \in Nat BY <1>1, <1>2, <2>1, ReadCyclesType
  <2> QED BY <1>3, <1>4, <1>6, <2>1, <2>2
<1>17. fetched' = words + 1 /\ prefetched' = Here'
  <2>1. fetched' = fetched BY <1>6, <1>8
  <2> QED BY <2>1, <1>4, <1>6, HereKept
<1>18. AtWrite'
  <2>1. W' = words /\ cur' = i BY <1>2, <1>3, <1>6, <1>13 DEF W
  <2>2. Took(2 * ReadCycles(Ea(cur), cur.sz) + 4 + 2 * (upc - 1),
                W + Reads(Ea(cur), cur.sz) + 1 + Count(ucode, upc, {"w"}), W + 1)'
    <3>1. ucode' = code BY <1>6 DEF Ran
    <3> QED BY <2>1, <3>1, <1>3, <1>12, <1>15, <1>16, <1>17 DEF Took
  <2>3. Ran(WriteCode(cur), WriteCycles(cur))'
    BY <2>1, <1>3, <1>6 DEF WriteCode
  <2> QED BY <2>1, <2>2, <2>3, <1>1, <1>2, <1>17 DEF AtWrite
<1> QED BY <1>1, <1>6, <1>18 DEF TimeInv, States

\* When the last microcycle of reading is over.
LEMMA ReadDone ==
  ASSUME AtRead, ucycles = 0, NEW i, i = cur, Proper(i),
         NEW x, x = IF ToMemory(i) THEN Words(i.sz) ELSE 0
  PROVE  /\ i.op \in ReadOps
         /\ cycles = 2 * ReadCycles(Ea(i), i.sz)
         /\ fetched = W + 1 /\ W \in Nat
         /\ W = Len(EaWords(Ea(i), i.sz))
         /\ accesses = SubSeq(Bus(i), 1, W + Reads(Ea(i), i.sz))
         /\ Spelled(Bus(i), W, Reads(Ea(i), i.sz), x)
         /\ x \in Nat /\ Reads(Ea(i), i.sz) \in Nat
<1>0. i.op \in ReadOps BY DEF AtRead
<1>1. Ran(Microcode(Ea(i)), ReadCycles(Ea(i), i.sz)) /\ Within(Microcode(Ea(i)))
  BY DEF AtRead
<1>2. PICK code, all : code = Microcode(Ea(i)) /\ all = ReadCycles(Ea(i), i.sz) OBVIOUS
<1>3. PICK words, reads : words = Len(EaWords(Ea(i), i.sz)) /\ reads = Reads(Ea(i), i.sz)
  OBVIOUS
<1>4. all \in Nat BY <1>0, <1>2, ReadCyclesType
<1>5. upc = all + 1
  <2>1. upc \in 1 .. all + 1 /\ ucycles = all + 1 - upc BY <1>1, <1>2 DEF Ran
  <2> QED BY <2>1, <1>4
<1>6. Count(code, all + 1, {"p"}) = words /\ Count(code, all + 1, BusOps) = words + reads
  BY <1>0, <1>2, <1>3, TimeOfRead, ReadTable
<1>7. words \in Nat /\ reads \in Nat /\ x \in Nat BY <1>3, EaWordsType DEF Reads, Words
<1>8. W = words BY <1>0, <1>3, BusOfRead DEF W
<1>9. cycles = 2 * (upc - 1) /\ accesses = SubSeq(Bus(i), 1, Count(code, upc, BusOps))
      /\ fetched = 1 + Count(code, upc, {"p"})
  BY <1>1, <1>2 DEF Within, Took
<1>10. accesses = SubSeq(Bus(i), 1, words + reads) /\ fetched = 1 + words
  BY <1>5, <1>6, <1>9
<1>11. cycles = 2 * all BY <1>4, <1>5, <1>9
<1>12. Spelled(Bus(i), words, reads, x) BY <1>0, <1>3, BusOfRead
<1> QED BY <1>0, <1>2, <1>3, <1>7, <1>8, <1>10, <1>11, <1>12

\* The words of an instruction stay.
LEMMA WAfter == cur' = cur => W' = W
  BY DEF W

\* The prefetch of the next instruction, at its place of the table.
LEMMA AndPrefetch ==
  ASSUME NEW B \in Seq(BusOps), NEW n \in Nat, n < Len(B), B[n + 1] = "p",
         accesses = SubSeq(B, 1, n), accesses' = accesses \o <<"p">>
  PROVE  accesses' = SubSeq(B, 1, n + 1) /\ (n + 1 = Len(B) => accesses' = B)
<1>1. accesses' = SubSeq(B, 1, n + 1) BY NextBus
<1>2. ASSUME n + 1 = Len(B) PROVE accesses' = B BY <1>1, <1>2, SubSeqFull
<1> QED BY <1>1, <1>2

\* Compute keeps the invariant.
LEMMA StepCompute == TimeInv /\ Compute => TimeInv'
<1> SUFFICES ASSUME TimeInv, Compute PROVE TimeInv' OBVIOUS
<1>1. /\ state = "read" /\ ucycles = 0 /\ cur.op # "cmp"
      /\ prefetched' = Here /\ cycles' = cycles + 4 /\ accesses' = accesses \o <<"p">>
      /\ Modify(Result.r) /\ state' = "write" /\ task' = task /\ pc' = pc /\ cur' = cur
      /\ fetched' = fetched
  BY DEF Compute, Prefetch, Uses, Go
<1>2. AtRead /\ task.program \in DOMAIN Code /\ (cur.op \in ClockedOps => Proper(cur))
  BY <1>1 DEF TimeInv, States
<1>3. PICK i, x, reads :
        i = cur /\ x = (IF ToMemory(i) THEN Words(i.sz) ELSE 0) /\ reads = Reads(Ea(i), i.sz)
  OBVIOUS
<1>4. i.op \in ReadOps /\ Proper(i) BY <1>2, <1>3 DEF AtRead, ClockedOps
<1>5. /\ cycles = 2 * ReadCycles(Ea(i), i.sz)
      /\ fetched = W + 1 /\ W \in Nat /\ W = Len(EaWords(Ea(i), i.sz))
      /\ accesses = SubSeq(Bus(i), 1, W + reads)
      /\ Spelled(Bus(i), W, reads, x)
      /\ x \in Nat /\ reads \in Nat
  BY <1>1, <1>2, <1>3, <1>4, ReadDone
<1>6. /\ ucode' = WriteCode(i) /\ upc' = 1 /\ ucycles' = WriteCycles(i)
  <2>1. CASE i.t.mode = "d"
    BY <1>1, <1>3, <2>1 DEF Modify, Ujump, WriteCode, WriteCycles
  <2>2. CASE i.t.mode # "d"
    BY <1>1, <1>3, <2>2 DEF Modify, Ujump, WriteCode, WriteCycles
  <2> QED BY <2>1, <2>2
<1>7. WriteCycles(i) \in Nat BY DEF WriteCycles
<1>8. Ran(WriteCode(i), WriteCycles(i))' BY <1>6, <1>7 DEF Ran
<1>9. accesses' = SubSeq(Bus(i), 1, W + reads + 1)
  <2>1. PICK B : B = Bus(i) OBVIOUS
  <2>2. PICK n : n = W + reads OBVIOUS
  <2>3. B \in Seq(BusOps) /\ n \in Nat /\ n < Len(B) /\ B[n + 1] = "p"
    BY <1>5, <2>1, <2>2 DEF Spelled
  <2>4. accesses = SubSeq(B, 1, n) BY <1>5, <2>1, <2>2
  <2>5. accesses' = SubSeq(B, 1, n + 1) BY <1>1, <2>3, <2>4, AndPrefetch
  <2> QED BY <2>1, <2>2, <2>5
<1>10. prefetched' = Here' /\ W' = W /\ fetched' = W' + 1
  BY <1>1, <1>5, HereKept, WAfter
<1>11. cycles' = 2 * ReadCycles(Ea(i), i.sz) + 4 + 2 * (upc' - 1)
  <2>1. PICK r : r = ReadCycles(Ea(i), i.sz) OBVIOUS
  <2>2. r \in Nat BY <1>4, <2>1, ReadCyclesType
  <2> QED BY <1>1, <1>5, <1>6, <2>1, <2>2
<1>12. accesses' = SubSeq(Bus(i), 1, W' + reads + 1 + Count(ucode', upc', {"w"}))
  <2>1. Count(ucode', upc', {"w"}) = 0 BY <1>6, CountNone
  <2>2. W' + reads + 1 + 0 = W + reads + 1 BY <1>5, <1>10
  <2> QED BY <1>9, <2>1, <2>2
<1>13. AtWrite'
  <2>1. cur' = i /\ i.op \in ReadOps \ {"cmp"} BY <1>1, <1>3, <1>4
  <2>2. Took(2 * ReadCycles(Ea(cur), cur.sz) + 4 + 2 * (upc - 1),
                W + Reads(Ea(cur), cur.sz) + 1 + Count(ucode, upc, {"w"}), W + 1)'
    BY <2>1, <1>3, <1>10, <1>11, <1>12 DEF Took
  <2>3. Ran(WriteCode(cur), WriteCycles(cur))'
    BY <2>1, <1>8 DEF WriteCode
  <2> QED BY <2>1, <2>2, <2>3, <1>10 DEF AtWrite
<1> QED BY <1>1, <1>2, <1>3, <1>4, <1>13 DEF TimeInv, States

\* Written keeps the invariant.
LEMMA StepWritten == TimeInv /\ Written => TimeInv'
<1> SUFFICES ASSUME TimeInv, Written PROVE TimeInv' OBVIOUS
<1>1. /\ state = "write" /\ ucycles = 0 /\ Finish
      /\ task' = task /\ pc' = pc /\ cur' = cur /\ fetched' = fetched
      /\ prefetched' = prefetched
      /\ cycles' = cycles /\ accesses' = accesses
  BY DEF Written
<1>2. AtWrite /\ task.program \in DOMAIN Code /\ (cur.op \in ClockedOps => Proper(cur))
  BY <1>1 DEF TimeInv, States
<1>3. PICK i, x, reads, code, all, r :
         /\ i = cur /\ x = (IF ToMemory(i) THEN Words(i.sz) ELSE 0)
         /\ reads = Reads(Ea(i), i.sz)
         /\ code = WriteCode(i) /\ all = WriteCycles(i) /\ r = ReadCycles(Ea(i), i.sz)
  OBVIOUS
<1>4. i.op \in ReadOps \ {"cmp"} /\ Proper(i) BY <1>2, <1>3 DEF AtWrite, ClockedOps
<1>5. /\ Ran(code, all) /\ prefetched = Here
      /\ cycles = 2 * r + 4 + 2 * (upc - 1)
      /\ accesses = SubSeq(Bus(i), 1, W + reads + 1 + Count(ucode, upc, {"w"}))
      /\ fetched = W + 1
  BY <1>2, <1>3 DEF AtWrite, Took, WriteCode
<1>6. all \in Nat /\ r \in Nat BY <1>3, <1>4, ReadCyclesType DEF WriteCycles
<1>7. upc = all + 1 /\ ucode = code
  <2>1. upc \in 1 .. all + 1 /\ ucycles = all + 1 - upc /\ ucode = code BY <1>5 DEF Ran
  <2> QED BY <2>1, <1>1, <1>6
<1>8. Count(code, all + 1, {"w"}) = x
  <2>1. i.sz \in {"b", "w", "l"} BY <1>4, TimeOfRead
  <2> QED BY <1>3, <1>4, <2>1, WriteTable
<1>9. W = Len(EaWords(Ea(i), i.sz)) /\ Spelled(Bus(i), W, reads, x)
  <2>1. W = Len(EaWords(Ea(i), i.sz)) BY <1>3, <1>4, BusOfRead DEF W
  <2> QED BY <2>1, <1>3, <1>4, BusOfRead
<1>10. accesses = Bus(i)
  <2>1. Bus(i) \in Seq(BusOps) /\ Len(Bus(i)) = W + reads + 1 + x BY <1>9 DEF Spelled
  <2>2. accesses = SubSeq(Bus(i), 1, Len(Bus(i))) BY <1>5, <1>7, <1>8, <2>1
  <2> QED BY <2>1, <2>2, SubSeqFull
<1>11. W \in Nat BY <1>9, EaWordsType
<1>12. cycles = Tabled(i)' + Slip(i)
  <2>1. Tabled(i) + Slip(i) = 2 * r + 4 + 2 * all BY <1>3, <1>4, TimeOfRead
  <2>2. Tabled(i)' = Tabled(i) BY <1>4, TabledKept DEF ReadOps
  <2>3. cycles = 2 * r + 4 + 2 * all BY <1>5, <1>6, <1>7
  <2> QED BY <2>1, <2>2, <2>3
<1>13. Tabled(cur)' = Tabled(i)' BY <1>1, <1>3
<1>14. prefetched' = Here' BY <1>1, <1>5, HereKept
<1>15. cycles' = Tabled(cur)' + Slip(cur) /\ accesses' = Bus(cur)
  BY <1>1, <1>3, <1>10, <1>12, <1>13
<1>16. fetched' = W + 1 BY <1>1, <1>5
<1> QED BY <1>1, <1>2, <1>11, <1>14, <1>15, <1>16, Ends

\* ComparePart keeps the invariant.
LEMMA StepComparePart == TimeInv /\ ComparePart => TimeInv'
<1> SUFFICES ASSUME TimeInv, ComparePart PROVE TimeInv' OBVIOUS
<1>1. /\ state = "read" /\ ucycles = 0 /\ cur.op = "cmp"
      /\ prefetched' = Here /\ cycles' = cycles + 4 /\ accesses' = accesses \o <<"p">>
      /\ task' = task /\ pc' = pc /\ cur' = cur /\ fetched' = fetched
      /\ (cur.sz = "l" => state' = "long") /\ (cur.sz # "l" => Finish)
  BY DEF ComparePart, Prefetch, Uses, Go
<1>2. AtRead /\ task.program \in DOMAIN Code /\ (cur.op \in ClockedOps => Proper(cur))
  BY <1>1 DEF TimeInv, States
<1>3. PICK i, reads, r : i = cur /\ reads = Reads(Ea(i), i.sz) /\ r = ReadCycles(Ea(i), i.sz)
  OBVIOUS
<1>4. i.op = "cmp" /\ i.op \in ReadOps /\ i.op \in ClockedOps /\ Proper(i)
  BY <1>1, <1>2, <1>3 DEF ReadOps, ClockedOps
<1>5. 0 = IF ToMemory(i) THEN Words(i.sz) ELSE 0 BY <1>4 DEF ToMemory
<1>6. /\ cycles = 2 * r /\ r \in Nat
      /\ fetched = W + 1 /\ W \in Nat
      /\ accesses = SubSeq(Bus(i), 1, W + reads)
      /\ Spelled(Bus(i), W, reads, 0)
      /\ reads \in Nat
  BY <1>1, <1>2, <1>3, <1>4, <1>5, ReadDone, ReadCyclesType
<1>7. accesses' = Bus(i)
  <2>1. PICK B : B = Bus(i) OBVIOUS
  <2>2. PICK n : n = W + reads OBVIOUS
  <2>3. B \in Seq(BusOps) /\ n \in Nat /\ n < Len(B) /\ B[n + 1] = "p" /\ n + 1 = Len(B)
    BY <1>6, <2>1, <2>2 DEF Spelled
  <2>4. accesses = SubSeq(B, 1, n) BY <1>6, <2>1, <2>2
  <2>5. accesses' = B BY <1>1, <2>3, <2>4, AndPrefetch
  <2> QED BY <2>1, <2>5
<1>8. prefetched' = Here' BY <1>1, HereKept
<1>9. Tabled(i) + Slip(i) = 2 * r + 4 + (IF i.sz = "l" THEN 2 ELSE 0)
  BY <1>3, <1>4, TimeOfRead
<1>10. CASE cur.sz # "l"
  <2>1. Tabled(i)' = Tabled(i) BY <1>4, TabledKept
  <2>2. cycles' = Tabled(cur)' + Slip(cur) BY <2>1, <1>1, <1>3, <1>6, <1>9, <1>10
  <2>3. accesses' = Bus(cur) /\ fetched' = W + 1 BY <1>1, <1>3, <1>6, <1>7
  <2> QED BY <1>1, <1>2, <1>6, <1>8, <1>10, <2>2, <2>3, Ends
<1>11. CASE cur.sz = "l"
  <2>1. W' = W BY <1>1, WAfter
  <2>2. SubSeq(Bus(i), 1, Len(Bus(i))) = Bus(i) BY <1>6, SubSeqFull DEF Spelled
  <2>3. Took(2 * ReadCycles(Ea(cur), cur.sz) + 4, Len(Bus(cur)), W + 1)'
    BY <1>1, <1>3, <1>6, <1>7, <2>1, <2>2 DEF Took
  <2>4. AtLong' BY <2>3, <1>1, <1>8, <1>11 DEF AtLong
  <2> QED BY <1>1, <1>2, <1>3, <1>4, <1>11, <2>4 DEF TimeInv, States
<1> QED BY <1>10, <1>11

\* CompareLong keeps the invariant.
LEMMA StepCompareLong == TimeInv /\ CompareLong => TimeInv'
<1> SUFFICES ASSUME TimeInv, CompareLong PROVE TimeInv' OBVIOUS
<1>1. /\ state = "long" /\ Finish /\ cycles' = cycles + 2 /\ accesses' = accesses \o <<>>
      /\ task' = task /\ pc' = pc /\ cur' = cur /\ fetched' = fetched
      /\ prefetched' = prefetched
  BY DEF CompareLong, Uses, vars
<1>2. AtLong /\ task.program \in DOMAIN Code /\ (cur.op \in ClockedOps => Proper(cur))
  BY <1>1 DEF TimeInv, States
<1>3. PICK i, r : i = cur /\ r = ReadCycles(Ea(i), i.sz) OBVIOUS
<1>4. i.op = "cmp" /\ i.sz = "l" /\ i.op \in ReadOps /\ Proper(i)
  BY <1>2, <1>3 DEF AtLong, ReadOps, ClockedOps
<1>5. /\ cycles = 2 * r + 4 /\ fetched = W + 1 /\ prefetched = Here
      /\ accesses = SubSeq(Bus(i), 1, Len(Bus(i)))
  BY <1>2, <1>3 DEF AtLong, Took
<1>6. r \in Nat BY <1>3, <1>4, ReadCyclesType
<1>7. Bus(i) \in Seq(BusOps) BY <1>4, BusOfRead DEF Spelled
<1>8. accesses' = Bus(i)
  <2>1. PICK B : B = Bus(i) OBVIOUS
  <2>2. accesses = B BY <1>5, <1>7, <2>1, SubSeqFull
  <2>3. B \o <<>> = B BY <1>7, <2>1, ConcatEmptySeq
  <2> QED BY <1>1, <2>1, <2>2, <2>3
<1>9. Tabled(i) + Slip(i) = 2 * r + 4 + 2 BY <1>3, <1>4, TimeOfRead
<1>10. Tabled(i)' = Tabled(i) BY <1>4, TabledKept
<1>11. cycles' = Tabled(cur)' + Slip(cur) BY <1>1, <1>3, <1>5, <1>6, <1>9, <1>10
<1>12. W \in Nat BY <1>4, <1>3, ExtensionsType DEF ClockedOps, W
<1>13. prefetched' = Here' /\ fetched' = W + 1 BY <1>1, <1>5, HereKept
<1> QED BY <1>1, <1>2, <1>3, <1>8, <1>11, <1>12, <1>13, Ends

\* LoadAddress keeps the invariant.
LEMMA StepLoadAddress == TimeInv /\ LoadAddress => TimeInv'
<1> SUFFICES ASSUME TimeInv, LoadAddress PROVE TimeInv' OBVIOUS
<1>1. /\ state = "ea" /\ ucycles = 0 /\ Finish
      /\ prefetched' = Here /\ cycles' = cycles + 4 /\ accesses' = accesses \o <<"p">>
      /\ task' = task /\ pc' = pc /\ cur' = cur /\ fetched' = fetched
  BY DEF LoadAddress, Prefetch, Uses
<1>2. AtEa /\ task.program \in DOMAIN Code /\ (cur.op \in ClockedOps => Proper(cur))
  BY <1>1 DEF TimeInv, States
<1>3. PICK i, code, all, words :
        i = cur /\ code = AddressCode(i.s) /\ all = AddressCycles(i.s)
        /\ words = Len(EaWords(i.s, "l"))
  OBVIOUS
<1>4. i.op = "lea" /\ Proper(i) /\ i.op \in ClockedOps
  BY <1>2, <1>3 DEF AtEa, ClockedOps
<1>5. i.s.mode \in {"at", "off", "index", "abs"} /\ i.sz = "l"
  BY <1>4 DEF Proper, ProperEa
<1>6. Ran(code, all) /\ Within(code) BY <1>2, <1>3 DEF AtEa
<1>7. /\ all \in 0 .. 8
      /\ PlaceTime(i.s) + (IF i.s.mode = "index" THEN 2 ELSE 0) = 2 * all
      /\ Count(code, all + 1, {"p"}) = words /\ Count(code, all + 1, BusOps) = words
  BY <1>3, <1>5, AddressTable
<1>8. upc = all + 1
  <2>1. upc \in 1 .. all + 1 /\ ucycles = all + 1 - upc BY <1>6 DEF Ran
  <2> QED BY <2>1, <1>1, <1>7
<1>9. W = words /\ words \in Nat BY <1>3, <1>4, <1>5, ExtensionsType, EaWordsType DEF W
<1>10. cycles = 2 * all /\ accesses = SubSeq(Bus(i), 1, words) /\ fetched = 1 + words
  <2>1. cycles = 2 * (upc - 1) /\ accesses = SubSeq(Bus(i), 1, Count(code, upc, BusOps))
        /\ fetched = 1 + Count(code, upc, {"p"})
    BY <1>3, <1>6 DEF Within, Took
  <2>2. cycles = 2 * all BY <2>1, <1>7, <1>8
  <2> QED BY <2>1, <2>2, <1>7, <1>8
<1>11. Mixed(Bus(i), words, "p", 0) BY <1>3, <1>4, <1>9, BusOfOthers DEF W
<1>12. accesses' = Bus(i)
  <2>1. PICK B : B = Bus(i) OBVIOUS
  <2>3. B \in Seq(BusOps) /\ words < Len(B) /\ B[words + 1] = "p" /\ words + 1 = Len(B)
    <3>1. words + 0 + 1 = words + 1 BY <1>9
    <3> QED BY <1>9, <1>11, <2>1, <3>1 DEF Mixed
  <2>4. accesses = SubSeq(B, 1, words) BY <1>10, <2>1
  <2>5. accesses' = B BY <1>1, <1>9, <2>3, <2>4, AndPrefetch
  <2> QED BY <2>1, <2>5
<1>13. Tabled(i) + Slip(i) = 4 + 2 * all
  <2>1. i.op = "lea" /\ i.op \notin ReadOps /\ ~ToMemory(i)
    BY <1>4 DEF ReadOps, ToMemory
  <2>2. Tabled(i) = 4 + PlaceTime(i.s) + (IF i.s.mode = "index" THEN 2 ELSE 0)
    BY <2>1 DEF Tabled
  <2>3. Slip(i) = 0 BY <2>1 DEF Slip
  <2>4. PlaceTime(i.s) \in Int BY <1>5 DEF PlaceTime
  <2> QED BY <2>2, <2>3, <2>4, <1>7
<1>14. Tabled(i)' = Tabled(i) BY <1>4, TabledKept
<1>15. cycles' = Tabled(cur)' + Slip(cur)
  <2>1. cycles' = 4 + 2 * all BY <1>1, <1>7, <1>10
  <2> QED BY <2>1, <1>1, <1>3, <1>13, <1>14
<1>16. prefetched' = Here' /\ fetched' = W + 1 BY <1>1, <1>9, <1>10, HereKept
<1> QED BY <1>1, <1>2, <1>3, <1>9, <1>12, <1>15, <1>16, Ends

\* BeginExchange keeps the invariant.
LEMMA StepBeginExchange == TimeInv /\ BeginExchange => TimeInv'
<1> SUFFICES ASSUME TimeInv, BeginExchange PROVE TimeInv' OBVIOUS
<1>1. /\ state = "none" /\ cur.op = "exg" /\ state' = "exchange"
      /\ prefetched' = Here /\ cycles' = cycles + 4 /\ accesses' = accesses \o <<"p">>
      /\ task' = task /\ pc' = pc /\ cur' = cur /\ fetched' = fetched
  BY DEF BeginExchange, Prefetch, Uses, vars, Go
<1>2. AtNone /\ task.program \in DOMAIN Code /\ (cur.op \in ClockedOps => Proper(cur))
  BY <1>1 DEF TimeInv, States
<1>3. Proper(cur) /\ cur.op \in ClockedOps BY <1>1, <1>2 DEF ClockedOps
<1>4. Mixed(Bus(cur), 0, "p", 0)
  <2>1. Len(Extensions(cur)) = 0 BY <1>1, <1>3, ExtensionsType
  <2> QED BY <2>1, <1>1, <1>3, BusOfOthers
<1>5. accesses' = Bus(cur) /\ Bus(cur) \in Seq(BusOps)
  <2>1. PICK B : B = Bus(cur) OBVIOUS
  <2>2. B \in Seq(BusOps) /\ Len(B) = 1 /\ B[1] = "p" BY <1>4, <2>1 DEF Mixed
  <2>3. accesses = SubSeq(B, 1, 0) BY <1>2, <2>2, Prefix DEF AtNone
  <2>4. accesses' = B BY <1>1, <2>2, <2>3, AndPrefetch
  <2> QED BY <2>1, <2>2, <2>4
<1>6. SubSeq(Bus(cur), 1, Len(Bus(cur))) = Bus(cur) BY <1>5, SubSeqFull
<1>7. AtExchange'
  <2>1. prefetched' = Here' BY <1>1, HereKept
  <2>2. Took(4, Len(Bus(cur)), 1)' BY <1>1, <1>2, <1>5, <1>6 DEF Took, AtNone
  <2> QED BY <1>1, <2>1, <2>2 DEF AtExchange
<1> QED BY <1>1, <1>2, <1>7 DEF TimeInv, States

\* Exchange keeps the invariant.
LEMMA StepExchange == TimeInv /\ Exchange => TimeInv'
<1> SUFFICES ASSUME TimeInv, Exchange PROVE TimeInv' OBVIOUS
<1>1. /\ state = "exchange" /\ Finish
      /\ cycles' = cycles + 2 /\ accesses' = accesses \o <<>>
      /\ task' = task /\ pc' = pc /\ cur' = cur /\ fetched' = fetched
      /\ prefetched' = prefetched
  BY DEF Exchange, Uses
<1>2. AtExchange /\ task.program \in DOMAIN Code /\ (cur.op \in ClockedOps => Proper(cur))
  BY <1>1 DEF TimeInv, States
<1>3. Proper(cur) /\ cur.op \in ClockedOps /\ cur.op = "exg"
  BY <1>2 DEF ClockedOps, AtExchange
<1>4. W = 0 BY <1>3, ExtensionsType DEF W
<1>5. cycles = 4 /\ fetched = 1 /\ prefetched = Here
      /\ accesses = SubSeq(Bus(cur), 1, Len(Bus(cur)))
  BY <1>2 DEF AtExchange, Took
<1>6. Bus(cur) \in Seq(BusOps) BY <1>3, BusOfOthers DEF Mixed
<1>7. accesses' = Bus(cur)
  <2>1. PICK B : B = Bus(cur) OBVIOUS
  <2>2. accesses = B BY <1>5, <1>6, <2>1, SubSeqFull
  <2>3. B \o <<>> = B BY <1>6, <2>1, ConcatEmptySeq
  <2> QED BY <1>1, <2>1, <2>2, <2>3
<1>8. cycles' = Tabled(cur)' + Slip(cur)
  <2>1. PICK i : i = cur OBVIOUS
  <2>2. i.op = "exg" /\ i.op \notin ReadOps /\ ~ToMemory(i)
    BY <1>3, <2>1 DEF ReadOps, ToMemory
  <2>3. Tabled(i) = 6 /\ Slip(i) = 0 BY <2>2 DEF Tabled, Slip
  <2>4. Tabled(i)' = Tabled(i) BY <2>2, TabledKept
  <2> QED BY <1>1, <1>5, <2>1, <2>3, <2>4
<1>9. prefetched' = Here' /\ fetched' = W + 1 /\ W \in Nat BY <1>1, <1>4, <1>5, HereKept
<1> QED BY <1>1, <1>2, <1>7, <1>8, <1>9, Ends

\* Whether a branch is taken stays.
LEMMA TakesKept == cur' = cur /\ ccr' = ccr => (TakesBranch' <=> TakesBranch)
  BY DEF TakesBranch

\* The time of Bcc.
LEMMA TimeOfBranch ==
  ASSUME cur' = cur, ccr' = ccr, cur.op = "bcc"
  PROVE  Tabled(cur)' = (IF TakesBranch THEN 10 ELSE IF Wide(cur) THEN 12 ELSE 8)
         /\ Slip(cur) = 0
<1>1. cur.op = "bcc" /\ cur.op \notin ReadOps /\ ~ToMemory(cur) BY DEF ReadOps, ToMemory
<1>2. Tabled(cur)' = IF Condition(ccr)[cur.cc] THEN 10 ELSE IF Wide(cur) THEN 12 ELSE 8
  BY <1>1 DEF Tabled
<1>3. TakesBranch <=> Condition(ccr)[cur.cc] BY DEF TakesBranch
<1>4. Slip(cur) = 0 BY <1>1 DEF Slip
<1> QED BY <1>2, <1>3, <1>4

\* The time of BSR.
LEMMA TimeOfCall ==
  ASSUME cur' = cur, cur.op = "bsr" PROVE Tabled(cur)' = 18 /\ Slip(cur) = 0
<1>1. cur.op \notin ReadOps /\ ~ToMemory(cur) BY DEF ReadOps, ToMemory
<1> QED BY <1>1 DEF Tabled, Slip

\* A branch has one word in its word form.
LEMMA BranchWord ==
  ASSUME cur.op \in {"bcc", "bsr"}, Proper(cur)
  PROVE  /\ W = (IF Wide(cur) THEN 1 ELSE 0) /\ W \in Nat
         /\ SubSeq(Bus(cur), 1, W) = IF Wide(cur) THEN <<"p">> ELSE <<>>
<1>1. W = IF Wide(cur) THEN 1 ELSE 0 BY ExtensionsType DEF W, ClockedOps
<1>2. PICK B : B = Bus(cur) OBVIOUS
<1>3. Mixed(B, W, "p", 0) \/ Mixed(B, W, "w", 2) BY <1>2, BusOfOthers DEF W, ClockedOps
<1>4. B \in Seq(BusOps) /\ Len(B) > W /\ \A k \in 1 .. W : B[k] = "p"
  BY <1>1, <1>3 DEF Mixed
<1>5. CASE ~Wide(cur)
  <2>1. SubSeq(B, 1, 0) = <<>> BY <1>4, Prefix
  <2> QED BY <1>1, <1>2, <1>5, <2>1
<1>6. CASE Wide(cur)
  <2>1. B[1] = "p" /\ 0 < Len(B) BY <1>1, <1>4, <1>6
  <2>2. SubSeq(B, 1, 0) \o <<"p">> = SubSeq(B, 1, 0 + 1) BY <2>1, <1>4, NextBus
  <2>3. SubSeq(B, 1, 0) = <<>> BY <1>4, Prefix
  <2>4. <<>> \o <<"p">> = <<"p">> OBVIOUS
  <2>5. 0 + 1 = 1 OBVIOUS
  <2>6. SubSeq(B, 1, 1) = <<"p">> BY <2>2, <2>3, <2>4, <2>5
  <2> QED BY <1>1, <1>2, <1>6, <2>6
<1> QED BY <1>1, <1>5, <1>6

\* BeginBranch keeps the invariant.
LEMMA StepBeginBranch == TimeInv /\ BeginBranch => TimeInv'
<1> SUFFICES ASSUME TimeInv, BeginBranch PROVE TimeInv' OBVIOUS
<1>1. /\ state = "none" /\ cur.op \in {"bcc", "bsr"} /\ task' = task /\ cur' = cur
      /\ ccr' = ccr
      /\ cycles' = cycles + 2
      /\ accesses' = accesses \o (IF Wide(cur) THEN <<"p">> ELSE <<>>)
      /\ state' = IF cur.op = "bsr" THEN "push high"
                  ELSE IF TakesBranch THEN "refill" ELSE "not taken"
  BY DEF BeginBranch, Uses, Go
<1>2. fetched' = IF TakesBranch THEN 0 ELSE IF Wide(cur) THEN fetched + 1 ELSE fetched
  BY DEF BeginBranch
<1>3. AtNone /\ task.program \in DOMAIN Code /\ (cur.op \in ClockedOps => Proper(cur))
  BY <1>1 DEF TimeInv, States
<1>4. Proper(cur) BY <1>1, <1>3 DEF ClockedOps
<1>5. accesses' = SubSeq(Bus(cur), 1, W)
  <2>1. accesses = <<>> BY <1>3 DEF AtNone
  <2>2. <<>> \o <<"p">> = <<"p">> /\ <<>> \o <<>> = <<>> OBVIOUS
  <2>3. accesses' = IF Wide(cur) THEN <<"p">> ELSE <<>> BY <1>1, <2>1, <2>2
  <2> QED BY <1>1, <1>4, <2>3, BranchWord
<1>12. cycles = 0 /\ fetched = 1 /\ cycles' = cycles + 2 BY <1>1, <1>3 DEF AtNone
<1>6. cycles' = 2 BY <1>12
<1>13. W = IF Wide(cur) THEN 1 ELSE 0 BY <1>1, <1>4, BranchWord
<1>7. ~TakesBranch => fetched' = W + 1 BY <1>2, <1>12, <1>13
<1>8. W' = W /\ (TakesBranch' <=> TakesBranch) BY <1>1, WAfter, TakesKept
<1>9. CASE cur.op = "bsr"
  <2>1. ~TakesBranch BY <1>9 DEF TakesBranch
  <2>2. Took(2, W, W + 1)' BY <2>1, <1>1, <1>5, <1>6, <1>7, <1>8 DEF Took
  <2>3. AtPushHigh' BY <2>2, <1>1, <1>9 DEF AtPushHigh
  <2> QED BY <2>3, <1>1, <1>3, <1>9 DEF TimeInv, States
<1>10. CASE cur.op = "bcc" /\ TakesBranch
  <2>1. Took(2, W, 0)' BY <1>10, <1>1, <1>2, <1>5, <1>6, <1>8 DEF Took
  <2>2. AtRefill' BY <2>1, <1>1, <1>8, <1>10 DEF AtRefill
  <2> QED BY <2>2, <1>1, <1>3, <1>10 DEF TimeInv, States
<1>11. CASE cur.op = "bcc" /\ ~TakesBranch
  <2>1. Took(2, W, W + 1)' BY <1>11, <1>1, <1>5, <1>6, <1>7, <1>8 DEF Took
  <2>2. AtNotTaken' BY <2>1, <1>1, <1>8, <1>11 DEF AtNotTaken
  <2> QED BY <2>2, <1>1, <1>3, <1>11 DEF TimeInv, States
<1> QED BY <1>1, <1>9, <1>10, <1>11

\* A step that takes time and makes no access.
LEMMA Waits ==
  ASSUME NEW B, B = Bus(cur), B \in Seq(BusOps), NEW n \in Nat, n <= Len(B),
         accesses = SubSeq(B, 1, n), accesses' = accesses \o <<>>
  PROVE  accesses' = SubSeq(B, 1, n)
  BY Prefix

\* NotTaken keeps the invariant.
LEMMA StepNotTaken == TimeInv /\ NotTaken => TimeInv'
<1> SUFFICES ASSUME TimeInv, NotTaken PROVE TimeInv' OBVIOUS
<1>1. /\ state = "not taken" /\ task' = task /\ cur' = cur /\ ccr' = ccr
      /\ fetched' = fetched
      /\ cycles' = cycles + 2 /\ accesses' = accesses \o <<>>
      /\ state' = IF Wide(cur) THEN "refill" ELSE "prefetch"
  BY DEF NotTaken, Uses, Go, vars
<1>2. AtNotTaken /\ task.program \in DOMAIN Code /\ (cur.op \in ClockedOps => Proper(cur))
  BY <1>1 DEF TimeInv, States
<1>3. /\ cur.op = "bcc" /\ ~TakesBranch /\ Proper(cur)
      /\ cycles = 2 /\ accesses = SubSeq(Bus(cur), 1, W) /\ fetched = W + 1
  BY <1>2 DEF AtNotTaken, Took, ClockedOps
<1>4. W' = W /\ ~TakesBranch' BY <1>1, <1>3, WAfter, TakesKept
<1>5. accesses' = SubSeq(Bus(cur), 1, W)
  <2>1. PICK B : B = Bus(cur) OBVIOUS
  <2>2. W \in Nat BY <1>3, BranchWord
  <2>3. Mixed(B, W, "p", 0) BY <1>3, <2>1, BusOfOthers DEF W, ClockedOps
  <2>4. B \in Seq(BusOps) /\ W <= Len(B) BY <2>2, <2>3 DEF Mixed
  <2> QED BY <1>1, <1>3, <2>1, <2>2, <2>4, Waits
<1>8. cycles' = 4
  <2>1. cycles' = cycles + 2 /\ cycles = 2 BY <1>1, <1>3
  <2> QED BY <2>1
<1>6. CASE Wide(cur)
  <2>1. Took(4, W, W + 1)' BY <1>1, <1>3, <1>4, <1>5, <1>8 DEF Took
  <2>2. AtRefill' BY <2>1, <1>1, <1>3, <1>4, <1>6 DEF AtRefill
  <2> QED BY <2>2, <1>1, <1>2, <1>6 DEF TimeInv, States
<1>7. CASE ~Wide(cur)
  <2>1. Took(IF Wide(cur) THEN 8 ELSE 4, W, W + 1)'
    BY <1>1, <1>3, <1>4, <1>5, <1>7, <1>8 DEF Took
  <2>2. AtPrefetch' BY <2>1, <1>1, <1>3, <1>4 DEF AtPrefetch
  <2> QED BY <2>2, <1>1, <1>2, <1>7 DEF TimeInv, States
<1> QED BY <1>6, <1>7

\* The accesses of BSR after its word.
LEMMA CallBus ==
  ASSUME cur.op = "bsr", Proper(cur), NEW B, B = Bus(cur)
  PROVE  /\ W \in Nat /\ B \in Seq(BusOps) /\ Len(B) = W + 3
         /\ B[W + 1] = "w" /\ B[(W + 1) + 1] = "w" /\ B[(W + 2) + 1] = "p"
         /\ W + 1 \in Nat /\ W + 2 \in Nat /\ W < Len(B) /\ W + 1 < Len(B) /\ W + 2 < Len(B)
         /\ W + 2 <= Len(B)
         /\ (W + 1) + 1 = W + 2
<1>1. W \in Nat BY BranchWord
<1>2. Mixed(B, W, "w", 2) BY BusOfOthers DEF W, ClockedOps
<1>3. B[W + 1] = "w" /\ B[W + 2] = "w"
  <2>1. 1 \in 1 .. 2 /\ 2 \in 1 .. 2 OBVIOUS
  <2>2. \A k \in 1 .. 2 : B[W + k] = "w" BY <1>2 DEF Mixed
  <2> QED BY <2>1, <2>2
<1>4. B \in Seq(BusOps) /\ Len(B) = W + 2 + 1 /\ B[W + 2 + 1] = "p" BY <1>2 DEF Mixed
<1>5. W + 2 + 1 = W + 3 /\ (W + 1) + 1 = W + 2 BY <1>1
<1>6. /\ W + 1 \in Nat /\ W + 2 \in Nat /\ W < W + 3 /\ W + 1 < W + 3 /\ W + 2 < W + 3
      /\ W + 2 <= W + 3
  BY <1>1
<1>7. Len(B) = W + 3 BY <1>4, <1>5
<1>8. B[(W + 1) + 1] = "w" /\ B[(W + 2) + 1] = "p" BY <1>3, <1>4, <1>5
<1> QED BY <1>1, <1>3, <1>4, <1>5, <1>6, <1>7, <1>8

\* PushHigh keeps the invariant.
LEMMA StepPushHigh == TimeInv /\ PushHigh => TimeInv'
<1> SUFFICES ASSUME TimeInv, PushHigh PROVE TimeInv' OBVIOUS
<1>1. /\ state = "push high" /\ task' = task /\ cur' = cur /\ fetched' = fetched
      /\ cycles' = cycles + 4 /\ accesses' = accesses \o <<"w">> /\ state' = "push low"
  BY DEF PushHigh, Uses, Go
<1>2. AtPushHigh /\ task.program \in DOMAIN Code /\ (cur.op \in ClockedOps => Proper(cur))
  BY <1>1 DEF TimeInv, States
<1>3. /\ cur.op = "bsr" /\ Proper(cur)
      /\ cycles = 2 /\ accesses = SubSeq(Bus(cur), 1, W) /\ fetched = W + 1
  BY <1>2 DEF AtPushHigh, Took, ClockedOps
<1>4. accesses' = SubSeq(Bus(cur), 1, W + 1)
  <2>1. PICK B : B = Bus(cur) OBVIOUS
  <2>2. W \in Nat /\ B \in Seq(BusOps) /\ W < Len(B) /\ B[W + 1] = "w"
    BY <1>3, <2>1, CallBus
  <2>3. SubSeq(B, 1, W) \o <<"w">> = SubSeq(B, 1, W + 1) BY <2>2, NextBus
  <2> QED BY <1>1, <1>3, <2>1, <2>3
<1>7. cycles' = 6
  <2>1. cycles' = cycles + 4 /\ cycles = 2 BY <1>1, <1>3
  <2> QED BY <2>1
<1>8. W' = W BY <1>1, WAfter
<1>5. Took(6, W + 1, W + 1)' BY <1>1, <1>3, <1>4, <1>7, <1>8 DEF Took
<1>6. AtPushLow' BY <1>1, <1>3, <1>5 DEF AtPushLow
<1> QED BY <1>1, <1>2, <1>6 DEF TimeInv, States

\* PushLow keeps the invariant.
LEMMA StepPushLow == TimeInv /\ PushLow => TimeInv'
<1> SUFFICES ASSUME TimeInv, PushLow PROVE TimeInv' OBVIOUS
<1>1. /\ state = "push low" /\ task' = task /\ cur' = cur /\ fetched' = 0
      /\ cycles' = cycles + 4 /\ accesses' = accesses \o <<"w">> /\ state' = "refill"
  BY DEF PushLow, Uses, Go
<1>2. AtPushLow /\ task.program \in DOMAIN Code /\ (cur.op \in ClockedOps => Proper(cur))
  BY <1>1 DEF TimeInv, States
<1>3. /\ cur.op = "bsr" /\ Proper(cur)
      /\ cycles = 6 /\ accesses = SubSeq(Bus(cur), 1, W + 1)
  BY <1>2 DEF AtPushLow, Took, ClockedOps
<1>4. accesses' = SubSeq(Bus(cur), 1, W + 2)
  <2>1. PICK B : B = Bus(cur) OBVIOUS
  <2>2. W + 1 \in Nat /\ B \in Seq(BusOps) /\ W + 1 < Len(B) /\ B[(W + 1) + 1] = "w"
        /\ (W + 1) + 1 = W + 2
    BY <1>3, <2>1, CallBus
  <2>3. PICK n : n = W + 1 OBVIOUS
  <2>4. SubSeq(B, 1, n) \o <<"w">> = SubSeq(B, 1, n + 1) BY <2>2, <2>3, NextBus
  <2> QED BY <1>1, <1>3, <2>1, <2>2, <2>3, <2>4
<1>7. cycles' = 10
  <2>1. cycles' = cycles + 4 /\ cycles = 6 BY <1>1, <1>3
  <2> QED BY <2>1
<1>8. W' = W BY <1>1, WAfter
<1>5. Took(10, W + 2, 0)' BY <1>1, <1>4, <1>7, <1>8 DEF Took
<1>6. AtRefill' BY <1>1, <1>3, <1>5 DEF AtRefill
<1> QED BY <1>1, <1>2, <1>6 DEF TimeInv, States

\* Refill keeps the invariant.
LEMMA StepRefill == TimeInv /\ Refill => TimeInv'
<1> SUFFICES ASSUME TimeInv, Refill PROVE TimeInv' OBVIOUS
<1>1. /\ state = "refill" /\ task' = task /\ cur' = cur /\ ccr' = ccr /\ fetched' = fetched
      /\ cycles' = cycles + 4 /\ accesses' = accesses \o <<>> /\ state' = "prefetch"
  BY DEF Refill, Uses, Go, vars
<1>2. AtRefill /\ task.program \in DOMAIN Code /\ (cur.op \in ClockedOps => Proper(cur))
  BY <1>1 DEF TimeInv, States
<1>3. cur.op \in {"bcc", "bsr"} /\ Proper(cur) BY <1>2 DEF AtRefill, ClockedOps
<1>4. W' = W /\ (TakesBranch' <=> TakesBranch) BY <1>1, WAfter, TakesKept
<1>5. PICK B : B = Bus(cur) OBVIOUS
<1>6. CASE cur.op = "bsr"
  <2>1. cycles = 10 /\ accesses = SubSeq(B, 1, W + 2) /\ fetched = 0
    BY <1>2, <1>5, <1>6 DEF AtRefill, Took
  <2>2. W \in Nat /\ W + 2 \in Nat /\ B \in Seq(BusOps) /\ W + 2 <= Len(B)
    BY <1>3, <1>5, <1>6, CallBus
  <2>3. accesses' = SubSeq(B, 1, W + 2)
    <3>1. PICK n : n = W + 2 OBVIOUS
    <3>2. accesses' = SubSeq(B, 1, n) BY <1>1, <1>5, <2>1, <2>2, <3>1, Waits
    <3> QED BY <3>1, <3>2
  <2>4. Took(14, W + 2, 0)' BY <1>1, <1>4, <1>5, <2>1, <2>3 DEF Took
  <2>5. AtPrefetch' BY <2>4, <1>1, <1>6 DEF AtPrefetch
  <2> QED BY <2>5, <1>1, <1>2 DEF TimeInv, States
<1>7. CASE cur.op = "bcc"
  <2>1. /\ accesses = SubSeq(B, 1, W)
        /\ \/ TakesBranch /\ cycles = 2 /\ fetched = 0
           \/ ~TakesBranch /\ Wide(cur) /\ cycles = 4 /\ fetched = W + 1
    BY <1>2, <1>5, <1>7 DEF AtRefill, Took
  <2>2. accesses' = SubSeq(B, 1, W)
    <3>1. W \in Nat BY <1>3, BranchWord
    <3>2. Mixed(B, W, "p", 0) BY <1>3, <1>5, <1>7, BusOfOthers DEF W, ClockedOps
    <3>3. B \in Seq(BusOps) /\ W <= Len(B) BY <3>1, <3>2 DEF Mixed
    <3> QED BY <1>1, <1>5, <2>1, <3>1, <3>3, Waits
  <2>3. CASE TakesBranch
    <3>1. Took(6, W, 0)' BY <1>1, <1>4, <1>5, <2>1, <2>2, <2>3 DEF Took
    <3>2. AtPrefetch' BY <3>1, <1>1, <1>4, <1>7, <2>3 DEF AtPrefetch
    <3> QED BY <3>2, <1>1, <1>2 DEF TimeInv, States
  <2>4. CASE ~TakesBranch
    <3>1. Took(IF Wide(cur) THEN 8 ELSE 4, W, W + 1)'
      BY <1>1, <1>4, <1>5, <2>1, <2>2, <2>4 DEF Took
    <3>2. AtPrefetch' BY <3>1, <1>1, <1>4, <1>7, <2>4 DEF AtPrefetch
    <3> QED BY <3>2, <1>1, <1>2 DEF TimeInv, States
  <2> QED BY <2>3, <2>4
<1> QED BY <1>3, <1>6, <1>7

\* The accesses of MOVEM.
LEMMA MoveBus ==
  ASSUME Movem, Proper(cur), NEW B, B = Bus(cur), NEW w, w = W, NEW m, m = Moves
  PROVE  /\ w \in Nat \ {0} /\ m \in Nat \ {0} /\ B \in Seq(BusOps)
         /\ w = Len(EaWords(cur.t, cur.sz)) + 1
         /\ \A k \in 1 .. w : B[k] = "p"
         /\ cur.op = "movemstore" => Mixed(B, w, "w", m)
         /\ cur.op = "movemload" => Mixed(B, w, "r", m + 1)
         /\ Len(B) > w + m
<1>1. cur.op \in {"movemstore", "movemload"} /\ cur.op \in ClockedOps
  BY DEF Movem, ClockedOps
<1>2. w = Len(EaWords(cur.t, cur.sz)) + 1 BY <1>1, ExtensionsType DEF W
<1>3. w \in Nat \ {0} BY <1>2, EaWordsType
<1>4. m \in Nat \ {0} BY <1>1, BusOfOthers DEF Moves
<1>5. cur.op = "movemstore" => Mixed(B, w, "w", m) BY <1>1, BusOfOthers DEF Moves, W
<1>6. cur.op = "movemload" => Mixed(B, w, "r", m + 1) BY <1>1, BusOfOthers DEF Moves, W
<1>7. B \in Seq(BusOps) /\ (\A k \in 1 .. w : B[k] = "p") /\ Len(B) > w + m
  <2>1. CASE cur.op = "movemstore"
    <3>1. B \in Seq(BusOps) /\ (\A k \in 1 .. w : B[k] = "p") /\ Len(B) = w + m + 1
      BY <2>1, <1>5 DEF Mixed
    <3> QED BY <3>1, <1>3, <1>4
  <2>2. CASE cur.op = "movemload"
    <3>1. B \in Seq(BusOps) /\ (\A k \in 1 .. w : B[k] = "p") /\ Len(B) = w + (m + 1) + 1
      BY <2>2, <1>6 DEF Mixed
    <3> QED BY <3>1, <1>3, <1>4
  <2> QED BY <1>1, <2>1, <2>2
<1> QED BY <1>2, <1>3, <1>4, <1>5, <1>6, <1>7

\* What MOVEM moves stays.
LEMMA MovesAfter == cur' = cur => Moves' = Moves
  BY DEF Moves

\* FetchMask keeps the invariant.
LEMMA StepFetchMask == TimeInv /\ FetchMask => TimeInv'
<1> SUFFICES ASSUME TimeInv, FetchMask PROVE TimeInv' OBVIOUS
<1>1. /\ state = "none" /\ Movem /\ task' = task /\ cur' = cur /\ fetched' = fetched + 1
      /\ cycles' = cycles + 4 /\ accesses' = accesses \o <<"p">>
      /\ state' = IF EaWords(cur.t, cur.sz) # <<>> THEN "fetch" ELSE "parse"
  BY DEF FetchMask, FetchWord, Uses, Go, vars
<1>2. AtNone /\ task.program \in DOMAIN Code /\ (cur.op \in ClockedOps => Proper(cur))
  BY <1>1 DEF TimeInv, States
<1>3. Proper(cur) BY <1>1, <1>2 DEF Movem, ClockedOps
<1>4. PICK B, w, m : B = Bus(cur) /\ w = W /\ m = Moves OBVIOUS
<1>5. /\ w \in Nat \ {0} /\ m \in Nat \ {0} /\ B \in Seq(BusOps)
      /\ w = Len(EaWords(cur.t, cur.sz)) + 1
      /\ \A k \in 1 .. w : B[k] = "p"
      /\ Len(B) > w + m
  BY <1>1, <1>3, <1>4, MoveBus
<1>6. fetched' = 2 /\ cycles' = 4
  <2>1. fetched' = fetched + 1 /\ fetched = 1 /\ cycles' = cycles + 4 /\ cycles = 0
    BY <1>1, <1>2 DEF AtNone
  <2> QED BY <2>1
<1>7. accesses' = SubSeq(B, 1, 1)
  <2>1. accesses = <<>> BY <1>2 DEF AtNone
  <2>2. accesses = SubSeq(B, 1, 0) BY <2>1, <1>5, Prefix
  <2>3. B[1] = "p" /\ 0 < Len(B) BY <1>5
  <2>4. B[0 + 1] = "p" BY <2>3
  <2>5. SubSeq(B, 1, 0) \o <<"p">> = SubSeq(B, 1, 0 + 1) BY <2>3, <2>4, <1>5, NextBus
  <2>6. 0 + 1 = 1 OBVIOUS
  <2> QED BY <1>1, <2>2, <2>5, <2>6
<1>8. W' = w /\ cur' = cur /\ Bus(cur') = B /\ Movem' BY <1>1, <1>4, WAfter DEF Movem
<1>9. CASE EaWords(cur.t, cur.sz) # <<>>
  <2>1. Len(EaWords(cur.t, cur.sz)) # 0 BY <1>9 DEF EaWords, Halves
  <2>2. 2 \in 2 .. w BY <2>1, <1>5, EaWordsType
  <2>3. AtFetch' BY <1>4, <1>6, <1>7, <1>8, <2>2 DEF AtFetch, Took
  <2> QED BY <1>1, <1>2, <1>9, <2>3 DEF TimeInv, States
<1>10. CASE EaWords(cur.t, cur.sz) = <<>>
  <2>1. w = 1 BY <1>5, <1>10
  <2>2. AtParse' BY <1>6, <1>7, <1>8, <2>1 DEF AtParse, Took
  <2> QED BY <1>1, <1>2, <1>10, <2>2 DEF TimeInv, States
<1> QED BY <1>9, <1>10

\* FetchEa keeps the invariant.
LEMMA StepFetchEa == TimeInv /\ FetchEa => TimeInv'
<1> SUFFICES ASSUME TimeInv, FetchEa PROVE TimeInv' OBVIOUS
<1>1. /\ state = "fetch" /\ task' = task /\ cur' = cur /\ fetched' = fetched + 1
      /\ cycles' = cycles + 4 /\ accesses' = accesses \o <<"p">>
      /\ state' = IF fetched' > W THEN "parse" ELSE "fetch"
  BY DEF FetchEa, FetchWord, Uses, Go, vars, W
<1>2. AtFetch /\ task.program \in DOMAIN Code /\ (cur.op \in ClockedOps => Proper(cur))
  BY <1>1 DEF TimeInv, States
<1>3. Proper(cur) /\ Movem BY <1>1, <1>2 DEF Movem, ClockedOps, AtFetch
<1>4. PICK B, w, m, f : B = Bus(cur) /\ w = W /\ m = Moves /\ f = fetched OBVIOUS
<1>5. /\ w \in Nat \ {0} /\ m \in Nat \ {0} /\ B \in Seq(BusOps)
      /\ \A k \in 1 .. w : B[k] = "p"
      /\ Len(B) > w + m
  BY <1>3, <1>4, MoveBus
<1>6. f \in 2 .. w /\ cycles = 4 * (f - 1) /\ accesses = SubSeq(B, 1, f - 1)
  BY <1>2, <1>4 DEF AtFetch, Took
<1>7. fetched' = f + 1 /\ cycles' = 4 * f
  <2>1. fetched' = f + 1 /\ cycles' = cycles + 4 BY <1>1, <1>4
  <2> QED BY <2>1, <1>6
<1>8. accesses' = SubSeq(B, 1, f)
  <2>1. PICK n : n = f - 1 OBVIOUS
  <2>2. n \in Nat /\ n + 1 = f /\ f \in 1 .. w /\ n < w + m BY <1>5, <1>6, <2>1
  <2>3. B[n + 1] = "p" BY <1>5, <2>2
  <2>4. n < Len(B) BY <1>5, <2>2
  <2>5. SubSeq(B, 1, n) \o <<"p">> = SubSeq(B, 1, n + 1)
    BY <2>2, <2>3, <2>4, <1>5, NextBus
  <2> QED BY <1>1, <1>6, <2>1, <2>2, <2>5
<1>9. W' = w /\ cur' = cur /\ Bus(cur') = B /\ Movem'
  BY <1>1, <1>3, <1>4, WAfter DEF Movem
<1>10. CASE f = w
  <2>1. fetched' > W BY <1>4, <1>5, <1>7, <1>10
  <2>2. AtParse' BY <1>7, <1>8, <1>9, <1>10 DEF AtParse, Took
  <2> QED BY <1>1, <1>2, <2>1, <2>2 DEF TimeInv, States
<1>11. CASE f # w
  <2>1. ~(fetched' > W) /\ f + 1 \in 2 .. w /\ (f + 1) - 1 = f
    BY <1>4, <1>5, <1>6, <1>7, <1>11
  <2>2. AtFetch' BY <1>7, <1>8, <1>9, <2>1 DEF AtFetch, Took
  <2> QED BY <1>1, <1>2, <2>1, <2>2 DEF TimeInv, States
<1> QED BY <1>10, <1>11

\* Parse keeps the invariant.
LEMMA StepParse == TimeInv /\ Parse => TimeInv'
<1> SUFFICES ASSUME TimeInv, Parse PROVE TimeInv' OBVIOUS
<1>1. /\ state = "parse" /\ task' = task /\ cur' = cur /\ fetched' = fetched
      /\ cycles' = cycles + 4 /\ accesses' = accesses \o <<>>
      /\ transfers' = ListHalves(cur)
      /\ state' = IF cur.op = "movemload" THEN "load" ELSE "store"
  BY DEF Parse, Uses, Go, vars
<1>2. AtParse /\ task.program \in DOMAIN Code /\ (cur.op \in ClockedOps => Proper(cur))
  BY <1>1 DEF TimeInv, States
<1>3. Proper(cur) /\ Movem BY <1>1, <1>2 DEF Movem, ClockedOps, AtParse
<1>4. PICK B, w, m : B = Bus(cur) /\ w = W /\ m = Moves OBVIOUS
<1>5. /\ w \in Nat \ {0} /\ m \in Nat \ {0} /\ B \in Seq(BusOps)
      /\ Len(B) > w + m
  BY <1>3, <1>4, MoveBus
<1>6. cycles = 4 * w /\ accesses = SubSeq(B, 1, w) /\ fetched = w + 1
  BY <1>2, <1>4 DEF AtParse, Took
<1>7. IsSeq(transfers') /\ Len(transfers') = m
  <2>1. transfers' = [n \in 1 .. m |->
                       NthHalf(cur, IF cur.t.mode = "dec" THEN m + 1 - n ELSE n)]
    BY <1>1, <1>4 DEF ListHalves, Moves
  <2>2. PICK t : t = transfers' OBVIOUS
  <2>3. t = [n \in 1 .. m |-> t[n]] BY <2>1, <2>2
  <2>4. t \in Seq({t[n] : n \in 1 .. m}) /\ Len(t) = m BY <2>3, <1>5
  <2> QED BY <2>2, <2>4 DEF IsSeq
<1>8. accesses' = SubSeq(B, 1, w)
  <2>1. w \in Nat /\ w <= Len(B) BY <1>5
  <2> QED BY <1>1, <1>4, <1>5, <1>6, <2>1, Waits
<1>9. W' = w /\ Moves' = m /\ cur' = cur /\ Bus(cur') = B
  BY <1>1, <1>4, WAfter, MovesAfter
<1>10. /\ cycles' = 4 * (w + 1 + m - m) /\ w = w + m - m /\ m \in 1 .. m
  <2>1. cycles' = cycles + 4 BY <1>1
  <2> QED BY <2>1, <1>5, <1>6
<1>11. Took(4 * (W + 1 + Moves - Len(transfers)), W + Moves - Len(transfers), W + 1)'
  BY <1>1, <1>6, <1>7, <1>8, <1>9, <1>10 DEF Took
<1>12. CASE cur.op = "movemload"
  <2>1. AtLoad' BY <1>1, <1>7, <1>9, <1>10, <1>11, <1>12 DEF AtLoad
  <2> QED BY <1>1, <1>2, <1>12, <2>1 DEF TimeInv, States
<1>13. CASE cur.op = "movemstore"
  <2>1. AtStore' BY <1>1, <1>7, <1>9, <1>10, <1>11, <1>13 DEF AtStore
  <2> QED BY <1>1, <1>2, <1>13, <2>1 DEF TimeInv, States
<1> QED BY <1>3, <1>12, <1>13 DEF Movem

\* One word more of a list: what is left of it, and the time and the accesses so far.
LEMMA MoveOne ==
  ASSUME Movem, Proper(cur), IsSeq(transfers), Len(transfers) \in 1 .. Moves,
         Took(4 * (W + 1 + Moves - Len(transfers)), W + Moves - Len(transfers), W + 1),
         NEW u, u = IF cur.op = "movemstore" THEN "w" ELSE "r",
         cur' = cur, fetched' = fetched, cycles' = cycles + 4, accesses' = accesses \o <<u>>,
         transfers' = Tail(transfers)
  PROVE  /\ IsSeq(transfers')
         /\ Len(transfers) # 1 => Len(transfers') \in 1 .. Moves'
         /\ Took(4 * (W + 1 + Moves - Len(transfers)), W + Moves - Len(transfers), W + 1)'
         /\ Len(transfers) = 1 => Took(4 * (W + 1 + Moves), W + Moves, W + 1)'
<1>1. PICK B, w, m, l, t :
        B = Bus(cur) /\ w = W /\ m = Moves /\ l = Len(transfers) /\ t = transfers
  OBVIOUS
<1>2. w \in Nat \ {0} /\ m \in Nat \ {0} /\ B \in Seq(BusOps) /\ Len(B) > w + m
  BY <1>1, MoveBus
<1>3. \A k \in 1 .. m : B[w + k] = u
  <2>1. CASE cur.op = "movemstore"
    <3>1. Mixed(B, w, "w", m) BY <1>1, <2>1, MoveBus
    <3> QED BY <2>1, <3>1 DEF Mixed
  <2>2. CASE cur.op = "movemload"
    <3>1. Mixed(B, w, "r", m + 1) BY <1>1, <2>2, MoveBus
    <3>2. \A k \in 1 .. m + 1 : B[w + k] = "r" BY <3>1 DEF Mixed
    <3>3. 1 .. m \subseteq 1 .. m + 1 BY <1>2
    <3> QED BY <2>2, <3>2, <3>3
  <2> QED BY <2>1, <2>2 DEF Movem
<1>4. l \in 1 .. m /\ cycles = 4 * (w + 1 + m - l) /\ accesses = SubSeq(B, 1, w + m - l)
      /\ fetched = w + 1
  BY <1>1 DEF Took
<1>5. IsSeq(transfers') /\ Len(transfers') = l - 1
  <2>1. PICK S : t \in Seq(S) BY <1>1 DEF IsSeq
  <2>2. t # <<>> BY <1>1, <1>2, <1>4
  <2>3. Tail(t) \in Seq(S) /\ Len(Tail(t)) = Len(t) - 1
    BY <2>1, <2>2, HeadTailProperties
  <2> QED BY <1>1, <2>3 DEF IsSeq
<1>6. cycles' = 4 * (w + 1 + m - (l - 1))
  <2>1. cycles' = cycles + 4 OBVIOUS
  <2> QED BY <2>1, <1>2, <1>4
<1>7. accesses' = SubSeq(B, 1, w + m - (l - 1))
  <2>1. PICK n : n = w + m - l OBVIOUS
  <2>2. n \in Nat /\ n + 1 = w + m - (l - 1) /\ n + 1 = w + (m - l + 1)
        /\ m - l + 1 \in 1 .. m /\ n < w + m
    BY <1>2, <1>4, <2>1
  <2>3. B[n + 1] = u BY <1>3, <2>2
  <2>4. n < Len(B) BY <1>2, <2>2
  <2>5. SubSeq(B, 1, n) \o <<u>> = SubSeq(B, 1, n + 1)
    BY <1>2, <2>2, <2>3, <2>4, NextBus
  <2>6. accesses' = SubSeq(B, 1, n) \o <<u>> BY <1>4, <2>1
  <2> QED BY <2>2, <2>5, <2>6
<1>8. W' = w /\ Moves' = m /\ Bus(cur') = B BY <1>1, WAfter, MovesAfter
<1>9. Took(4 * (W + 1 + Moves - Len(transfers)), W + Moves - Len(transfers), W + 1)'
  BY <1>4, <1>5, <1>6, <1>7, <1>8 DEF Took
<1>10. ASSUME l = 1 PROVE Took(4 * (W + 1 + Moves), W + Moves, W + 1)'
  <2>1. w + 1 + m - (l - 1) = w + 1 + m /\ w + m - (l - 1) = w + m BY <1>2, <1>10
  <2> QED BY <2>1, <1>4, <1>6, <1>7, <1>8 DEF Took
<1>11. l # 1 => l - 1 \in 1 .. m BY <1>2, <1>4
<1> QED BY <1>1, <1>5, <1>8, <1>9, <1>10, <1>11

\* StoreWord keeps the invariant.
LEMMA StepStoreWord == TimeInv /\ StoreWord => TimeInv'
<1> SUFFICES ASSUME TimeInv, StoreWord PROVE TimeInv' OBVIOUS
<1>1. /\ state = "store" /\ task' = task /\ cur' = cur /\ fetched' = fetched
      /\ cycles' = cycles + 4 /\ accesses' = accesses \o <<"w">>
      /\ transfers' = Tail(transfers)
      /\ state' = IF Len(transfers) = 1 THEN "prefetch" ELSE "store"
  BY DEF StoreWord, Uses, Go
<1>2. AtStore /\ task.program \in DOMAIN Code /\ (cur.op \in ClockedOps => Proper(cur))
  BY <1>1 DEF TimeInv, States
<1>3. Proper(cur) /\ Movem /\ cur.op = "movemstore"
  BY <1>1, <1>2 DEF Movem, ClockedOps, AtStore
<1>4. /\ IsSeq(transfers) /\ Len(transfers) \in 1 .. Moves
      /\ Took(4 * (W + 1 + Moves - Len(transfers)), W + Moves - Len(transfers), W + 1)
  BY <1>2 DEF AtStore
<1>5. /\ IsSeq(transfers')
      /\ Len(transfers) # 1 => Len(transfers') \in 1 .. Moves'
      /\ Took(4 * (W + 1 + Moves - Len(transfers)), W + Moves - Len(transfers), W + 1)'
      /\ Len(transfers) = 1 => Took(4 * (W + 1 + Moves), W + Moves, W + 1)'
  BY <1>1, <1>3, <1>4, MoveOne
<1>6. CASE Len(transfers) = 1
  <2>1. AtPrefetch' BY <1>1, <1>3, <1>5, <1>6 DEF AtPrefetch
  <2> QED BY <1>1, <1>2, <1>6, <2>1 DEF TimeInv, States
<1>7. CASE Len(transfers) # 1
  <2>1. AtStore' BY <1>1, <1>3, <1>5, <1>7 DEF AtStore
  <2> QED BY <1>1, <1>2, <1>7, <2>1 DEF TimeInv, States
<1> QED BY <1>6, <1>7

\* LoadWord keeps the invariant.
LEMMA StepLoadWord == TimeInv /\ LoadWord => TimeInv'
<1> SUFFICES ASSUME TimeInv, LoadWord PROVE TimeInv' OBVIOUS
<1>1. /\ state = "load" /\ task' = task /\ cur' = cur /\ fetched' = fetched
      /\ cycles' = cycles + 4 /\ accesses' = accesses \o <<"r">>
      /\ transfers' = Tail(transfers)
      /\ state' = IF Len(transfers) = 1 THEN "extra read" ELSE "load"
  BY DEF LoadWord, Uses, Go
<1>2. AtLoad /\ task.program \in DOMAIN Code /\ (cur.op \in ClockedOps => Proper(cur))
  BY <1>1 DEF TimeInv, States
<1>3. Proper(cur) /\ Movem /\ cur.op = "movemload"
  BY <1>1, <1>2 DEF Movem, ClockedOps, AtLoad
<1>4. /\ IsSeq(transfers) /\ Len(transfers) \in 1 .. Moves
      /\ Took(4 * (W + 1 + Moves - Len(transfers)), W + Moves - Len(transfers), W + 1)
  BY <1>2 DEF AtLoad
<1>5. /\ IsSeq(transfers')
      /\ Len(transfers) # 1 => Len(transfers') \in 1 .. Moves'
      /\ Took(4 * (W + 1 + Moves - Len(transfers)), W + Moves - Len(transfers), W + 1)'
      /\ Len(transfers) = 1 => Took(4 * (W + 1 + Moves), W + Moves, W + 1)'
  BY <1>1, <1>3, <1>4, MoveOne
<1>6. CASE Len(transfers) = 1
  <2>1. AtExtra' BY <1>1, <1>3, <1>5, <1>6 DEF AtExtra
  <2> QED BY <1>1, <1>2, <1>6, <2>1 DEF TimeInv, States
<1>7. CASE Len(transfers) # 1
  <2>1. AtLoad' BY <1>1, <1>3, <1>5, <1>7 DEF AtLoad
  <2> QED BY <1>1, <1>2, <1>7, <2>1 DEF TimeInv, States
<1> QED BY <1>6, <1>7

\* ExtraRead keeps the invariant.
LEMMA StepExtraRead == TimeInv /\ ExtraRead => TimeInv'
<1> SUFFICES ASSUME TimeInv, ExtraRead PROVE TimeInv' OBVIOUS
<1>1. /\ state = "extra read" /\ task' = task /\ cur' = cur /\ fetched' = fetched
      /\ cycles' = cycles + 4 /\ accesses' = accesses \o <<"r">> /\ state' = "prefetch"
  BY DEF ExtraRead, Uses, Go
<1>2. AtExtra /\ task.program \in DOMAIN Code /\ (cur.op \in ClockedOps => Proper(cur))
  BY <1>1 DEF TimeInv, States
<1>3. Proper(cur) /\ Movem /\ cur.op = "movemload"
  BY <1>1, <1>2 DEF Movem, ClockedOps, AtExtra
<1>4. PICK B, w, m : B = Bus(cur) /\ w = W /\ m = Moves OBVIOUS
<1>5. w \in Nat \ {0} /\ m \in Nat \ {0} /\ B \in Seq(BusOps) /\ Len(B) > w + m
      /\ Mixed(B, w, "r", m + 1)
  BY <1>3, <1>4, MoveBus
<1>6. cycles = 4 * (w + 1 + m) /\ accesses = SubSeq(B, 1, w + m) /\ fetched = w + 1
  BY <1>2, <1>4 DEF AtExtra, Took
<1>7. cycles' = 4 * (w + 2 + m)
  <2>1. cycles' = cycles + 4 BY <1>1
  <2> QED BY <2>1, <1>5, <1>6
<1>8. accesses' = SubSeq(B, 1, w + m + 1)
  <2>1. PICK n : n = w + m OBVIOUS
  <2>2. n \in Nat /\ m + 1 \in 1 .. m + 1 /\ w + (m + 1) = n + 1 /\ n + 1 = w + m + 1
        /\ n < Len(B)
    BY <1>5, <2>1
  <2>3. B[n + 1] = "r"
    <3>1. \A k \in 1 .. m + 1 : B[w + k] = "r" BY <1>5 DEF Mixed
    <3> QED BY <3>1, <2>2
  <2>5. SubSeq(B, 1, n) \o <<"r">> = SubSeq(B, 1, n + 1) BY <1>5, <2>2, <2>3, NextBus
  <2> QED BY <1>1, <1>6, <2>1, <2>2, <2>5
<1>9. W' = w /\ Moves' = m /\ Bus(cur') = B BY <1>1, <1>4, WAfter, MovesAfter
<1>10. Took(4 * (W + 2 + Moves), W + Moves + 1, W + 1)'
  BY <1>1, <1>6, <1>7, <1>8, <1>9 DEF Took
<1>11. AtPrefetch' BY <1>1, <1>3, <1>10 DEF AtPrefetch
<1> QED BY <1>1, <1>2, <1>11 DEF TimeInv, States

\* The time of MOVEM, by its words.
LEMMA TimeOfMove ==
  ASSUME Movem, Proper(cur), cur' = cur, NEW w, w = W, NEW m, m = Moves
  PROVE  Tabled(cur)' + Slip(cur) = 4 * (w + 2 + m) + (IF cur.op = "movemload" THEN 4 ELSE 0)
<1>1. PICK i : i = cur OBVIOUS
<1>2. i.op \in {"movemstore", "movemload"} /\ i.op \notin ReadOps /\ ~ToMemory(i)
  BY <1>1 DEF Movem, ReadOps, ToMemory
<1>3. i.sz \in {"w", "l"} /\ i.t.mode \in MemoryModes /\ Len(i.list) \in Nat
  <2>1. i.sz \in {"w", "l"}
        /\ i.list \in Seq([mode : {"d"}, reg : 0 .. 3] \cup [mode : {"a"}, reg : {0, 1, 6, 7}])
    BY <1>1, <1>2 DEF Proper
  <2>2. ProperEa(i.t, i.sz, MemoryModes \ (IF i.op = "movemstore" THEN {"inc"} ELSE {"dec"}))
    BY <1>1, <1>2 DEF Proper
  <2>3. i.t.mode \in MemoryModes BY <2>2 DEF ProperEa
  <2>4. Len(i.list) \in Nat BY <2>1
  <2> QED BY <2>1, <2>3, <2>4
<1>4. PICK k, n, p : k = Len(i.list) /\ n = Len(EaWords(i.t, i.sz)) /\ p = PlaceTime(i.t)
  OBVIOUS
<1>5. w = n + 1 /\ n \in Nat /\ k \in Nat
  BY <1>1, <1>2, <1>3, <1>4, MoveBus, EaWordsType
<1>6. 4 * k * Words(i.sz) = 4 * m
  <2>1. m = Words(i.sz) * k BY <1>1, <1>4 DEF Moves
  <2>2. Words(i.sz) = 1 \/ Words(i.sz) = 2 BY DEF Words
  <2>3. CASE Words(i.sz) = 1 BY <2>1, <2>3, <1>5
  <2>4. CASE Words(i.sz) = 2 BY <2>1, <2>4, <1>5
  <2> QED BY <2>2, <2>3, <2>4
<1>7. p + Slip(i) = 4 + 4 * n /\ p \in Int /\ Slip(i) \in Int
  <2>1. Slip(i) = IF i.t.mode = "index" THEN 2 ELSE 4 BY <1>2 DEF Slip
  <2>2. CASE i.t.mode \in {"at", "inc", "dec"}
    <3>1. ~(i.t.mode \in {"off", "index", "abs"}) BY <2>2
    <3>2. PlaceTime(i.t) = 0 BY <2>2 DEF PlaceTime
    <3>3. Len(EaWords(i.t, i.sz)) = 0 BY <2>2 DEF EaWords
    <3> QED BY <2>1, <3>1, <3>2, <3>3, <1>4
  <2>3. CASE i.t.mode = "off" BY <2>1, <2>3, <1>4 DEF PlaceTime, EaWords
  <2>4. CASE i.t.mode = "index" BY <2>1, <2>4, <1>4 DEF PlaceTime, EaWords
  <2>5. CASE i.t.mode = "abs" BY <2>1, <2>5, <1>4 DEF PlaceTime, EaWords, Halves
  <2> QED BY <1>3, <2>2, <2>3, <2>4, <2>5 DEF MemoryModes
<1>8. Tabled(i)' = (IF i.op = "movemload" THEN 12 ELSE 8) + p + 4 * k * Words(i.sz)
  BY <1>2, <1>4 DEF Tabled
<1>9. Tabled(i)' = (IF i.op = "movemload" THEN 12 ELSE 8) + p + 4 * m BY <1>6, <1>8
<1>10. m \in Nat BY <1>1, <1>2, <1>4, MoveBus
<1>11. CASE i.op = "movemload" BY <1>11, <1>9, <1>10, <1>7, <1>5, <1>1
<1>12. CASE i.op # "movemload" BY <1>12, <1>9, <1>10, <1>7, <1>5, <1>1
<1> QED BY <1>11, <1>12

\* LastState keeps the invariant.
LEMMA StepLastState == TimeInv /\ LastState => TimeInv'
<1> SUFFICES ASSUME TimeInv, LastState PROVE TimeInv' OBVIOUS
<1>1. /\ state = "prefetch" /\ Finish /\ prefetched' = Here
      /\ cycles' = cycles + 4 /\ accesses' = accesses \o <<"p">>
      /\ task' = task /\ pc' = pc /\ ccr' = ccr /\ cur' = cur /\ fetched' = fetched
  BY DEF LastState, Prefetch, Uses, vars
<1>2. AtPrefetch /\ task.program \in DOMAIN Code /\ (cur.op \in ClockedOps => Proper(cur))
  BY <1>1 DEF TimeInv, States
<1>3. Proper(cur) /\ cur.op \in {"bcc", "bsr", "movemstore", "movemload"}
  BY <1>2 DEF ClockedOps, AtPrefetch
<1>4. PICK B, w, m : B = Bus(cur) /\ w = W /\ m = Moves OBVIOUS
<1>5. prefetched' = Here' BY <1>1, HereKept
<1>6. CASE cur.op = "bcc"
  <2>1. /\ accesses = SubSeq(B, 1, w)
        /\ \/ TakesBranch /\ cycles = 6 /\ fetched = 0
           \/ ~TakesBranch /\ cycles = (IF Wide(cur) THEN 8 ELSE 4) /\ fetched = w + 1
    BY <1>2, <1>4, <1>6 DEF AtPrefetch, Took
  <2>2. Mixed(B, w, "p", 0) /\ w \in Nat
    BY <1>3, <1>4, <1>6, BranchWord, BusOfOthers DEF W, ClockedOps
  <2>3. accesses' = B
    <3>1. w + 0 + 1 = w + 1 BY <2>2
    <3>2. B \in Seq(BusOps) /\ w < Len(B) /\ B[w + 1] = "p" /\ w + 1 = Len(B)
      BY <2>2, <3>1 DEF Mixed
    <3> QED BY <1>1, <2>1, <2>2, <3>2, AndPrefetch
  <2>4. cycles' = Tabled(cur)' + Slip(cur)
    <3>1. Tabled(cur)' = (IF TakesBranch THEN 10 ELSE IF Wide(cur) THEN 12 ELSE 8)
          /\ Slip(cur) = 0
      BY <1>1, <1>6, TimeOfBranch
    <3>2. cycles' = cycles + 4 BY <1>1
    <3> QED BY <2>1, <3>1, <3>2
  <2>5. fetched' = 0 \/ fetched' = w + 1 BY <1>1, <2>1
  <2> QED BY <1>1, <1>2, <1>4, <1>5, <2>2, <2>3, <2>4, <2>5, Ends
<1>7. CASE cur.op = "bsr"
  <2>1. accesses = SubSeq(B, 1, w + 2) /\ cycles = 14 /\ fetched = 0
    BY <1>2, <1>4, <1>7 DEF AtPrefetch, Took
  <2>2. /\ w \in Nat /\ B \in Seq(BusOps) /\ Len(B) = w + 3
        /\ B[(w + 2) + 1] = "p" /\ w + 2 \in Nat /\ w + 2 < Len(B)
    BY <1>3, <1>4, <1>7, CallBus
  <2>3. accesses' = B
    <3>1. PICK n : n = w + 2 OBVIOUS
    <3>2. n \in Nat /\ n < Len(B) /\ B[n + 1] = "p" /\ n + 1 = Len(B) BY <2>2, <3>1
    <3> QED BY <1>1, <2>1, <2>2, <3>1, <3>2, AndPrefetch
  <2>4. cycles' = Tabled(cur)' + Slip(cur)
    <3>1. Tabled(cur)' = 18 /\ Slip(cur) = 0 BY <1>1, <1>7, TimeOfCall
    <3>2. cycles' = cycles + 4 BY <1>1
    <3> QED BY <2>1, <3>1, <3>2
  <2>5. fetched' = 0 BY <1>1, <2>1
  <2> QED BY <1>1, <1>2, <1>4, <1>5, <2>2, <2>3, <2>4, <2>5, Ends
<1>8. CASE cur.op \in {"movemstore", "movemload"}
  <2>1. Movem BY <1>8 DEF Movem
  <2>2. PICK x : x = IF cur.op = "movemload" THEN 1 ELSE 0 OBVIOUS
  <2>3. x \in {0, 1} /\ w \in Nat \ {0} /\ m \in Nat \ {0}
    BY <1>3, <1>4, <2>1, <2>2, MoveBus
  <2>4. accesses = SubSeq(B, 1, w + m + x) /\ cycles = 4 * (w + 1 + m + x)
        /\ fetched = w + 1
    <3>1. CASE cur.op = "movemload"
      <4>1. accesses = SubSeq(B, 1, w + m + 1) /\ cycles = 4 * (w + 2 + m)
            /\ fetched = w + 1
        BY <3>1, <1>2, <1>4 DEF AtPrefetch, Took
      <4>2. x = 1 BY <2>2, <3>1
      <4>3. w + 2 + m = w + 1 + m + 1 BY <2>3
      <4> QED BY <4>1, <4>2, <4>3
    <3>2. CASE cur.op = "movemstore"
      <4>1. accesses = SubSeq(B, 1, w + m) /\ cycles = 4 * (w + 1 + m) /\ fetched = w + 1
        BY <3>2, <1>2, <1>4 DEF AtPrefetch, Took
      <4>2. x = 0 BY <2>2, <3>2
      <4>3. w + m = w + m + 0 /\ w + 1 + m = w + 1 + m + 0 BY <2>3
      <4> QED BY <4>1, <4>2, <4>3
    <3> QED BY <1>8, <3>1, <3>2
  <2>5. \E b : Mixed(B, w, b, m + x)
    <3>1. CASE cur.op = "movemload"
      <4>1. x = 1 BY <2>2, <3>1
      <4> QED BY <4>1, <3>1, <1>3, <1>4, <2>1, MoveBus
    <3>2. CASE cur.op = "movemstore"
      <4>1. x = 0 BY <2>2, <3>2
      <4>2. m + x = m BY <4>1, <2>3
      <4> QED BY <4>2, <3>2, <1>3, <1>4, <2>1, MoveBus
    <3> QED BY <1>8, <3>1, <3>2
  <2>6. accesses' = B
    <3>1. PICK n : n = w + m + x OBVIOUS
    <3>2. PICK b : Mixed(B, w, b, m + x) BY <2>5
    <3>3. B \in Seq(BusOps) /\ Len(B) = w + (m + x) + 1 /\ B[w + (m + x) + 1] = "p"
      BY <3>2 DEF Mixed
    <3>4. w + (m + x) + 1 = n + 1 /\ n \in Nat BY <3>1, <2>3
    <3>5. n < Len(B) /\ B[n + 1] = "p" /\ n + 1 = Len(B) BY <3>3, <3>4
    <3> QED BY <1>1, <2>4, <3>1, <3>3, <3>4, <3>5, AndPrefetch
  <2>7. cycles' = Tabled(cur)' + Slip(cur)
    <3>1. Tabled(cur)' + Slip(cur) = 4 * (w + 2 + m) + (IF cur.op = "movemload" THEN 4 ELSE 0)
      BY <1>1, <1>3, <1>4, <2>1, TimeOfMove
    <3>2. cycles' = cycles + 4 BY <1>1
    <3>3. (IF cur.op = "movemload" THEN 4 ELSE 0) = 4 * x BY <2>2
    <3>4. cycles' = 4 * (w + 2 + m) + 4 * x BY <2>3, <2>4, <3>2
    <3> QED BY <3>1, <3>3, <3>4
  <2>8. fetched' = w + 1 BY <1>1, <2>4
  <2> QED BY <1>1, <1>2, <1>4, <1>5, <2>3, <2>6, <2>7, <2>8, Ends
<1> QED BY <1>3, <1>6, <1>7, <1>8

\* The invariant holds after a reset.
LEMMA TimeInit == ClockInit => TimeInv
<1> SUFFICES ASSUME ClockInit PROVE TimeInv OBVIOUS
<1>1. /\ task \in Tasks /\ pc = 1 /\ fetched = 0 /\ cur = None /\ prefetched = <<1, 0>>
      /\ state = "finished" /\ shown.pc = 1
  BY DEF ClockInit, Init
<1>2. task.program \in DOMAIN Code BY <1>1, CodeAssumption
<1>3. Here = <<1, 0>> BY <1>1 DEF Here
<1>4. Timed BY <1>1 DEF Timed
<1>5. AtEnd BY <1>1, <1>3, <1>4 DEF AtEnd
<1> QED BY <1>1, <1>2, <1>5 DEF TimeInv, States

\* It does not depend on anything but the state.
LEMMA TimeStutter == TimeInv /\ UNCHANGED clockVars => TimeInv'
<1> SUFFICES ASSUME TimeInv, UNCHANGED clockVars PROVE TimeInv' OBVIOUS
<1>1. /\ task' = task /\ d' = d /\ a' = a /\ ccr' = ccr /\ mem' = mem /\ pc' = pc
      /\ cur' = cur /\ fetched' = fetched
      /\ prefetched' = prefetched /\ state' = state /\ ucode' = ucode /\ upc' = upc
      /\ ucycles' = ucycles
      /\ transfers' = transfers /\ cycles' = cycles /\ accesses' = accesses
      /\ shown' = shown
  BY DEF clockVars, vars, eaVars, micro
<1>2. W' = W /\ Moves' = Moves /\ Here' = Here /\ (TakesBranch' <=> TakesBranch)
  BY <1>1, WAfter, MovesAfter, HereKept, TakesKept
<1>3. Timed => Timed'
  BY <1>1 DEF Timed, Tabled
<1> USE <1>1, <1>2
<1>4. AtNone => AtNone' BY DEF AtNone
<1>5. AtRead => AtRead' BY DEF AtRead, Ran, Within, Took
<1>6. AtEa => AtEa' BY DEF AtEa, Ran, Within, Took
<1>7. AtWrite => AtWrite' BY DEF AtWrite, Ran, Took
<1>8. AtLong => AtLong' BY DEF AtLong, Took
<1>9. AtExchange => AtExchange' BY DEF AtExchange, Took
<1>10. AtNotTaken => AtNotTaken' BY DEF AtNotTaken, Took
<1>11. AtPushHigh => AtPushHigh' BY DEF AtPushHigh, Took
<1>12. AtPushLow => AtPushLow' BY DEF AtPushLow, Took
<1>13. AtRefill => AtRefill' BY DEF AtRefill, Took
<1>14. AtPrefetch => AtPrefetch' BY DEF AtPrefetch, Took
<1>15. AtFetch => AtFetch' BY DEF AtFetch, Took, Movem
<1>16. AtParse => AtParse' BY DEF AtParse, Took, Movem
<1>17. AtStore => AtStore' BY DEF AtStore, Took, IsSeq
<1>18. AtLoad => AtLoad' BY DEF AtLoad, Took, IsSeq
<1>19. AtExtra => AtExtra' BY DEF AtExtra, Took
<1>20. AtEnd => AtEnd' BY <1>3 DEF AtEnd
<1>21. /\ task'.program \in DOMAIN Code
       /\ state' # "finished" => (cur'.op \in ClockedOps => Proper(cur'))
  BY DEF TimeInv, States
<1>22. state \in States
  BY DEF TimeInv, States
<1>23. CASE state = "none" BY <1>4, <1>21, <1>23 DEF TimeInv, States
<1>24. CASE state = "read" BY <1>5, <1>21, <1>24 DEF TimeInv, States
<1>25. CASE state = "ea" BY <1>6, <1>21, <1>25 DEF TimeInv, States
<1>26. CASE state = "write" BY <1>7, <1>21, <1>26 DEF TimeInv, States
<1>27. CASE state = "long" BY <1>8, <1>21, <1>27 DEF TimeInv, States
<1>28. CASE state = "exchange" BY <1>9, <1>21, <1>28 DEF TimeInv, States
<1>29. CASE state = "not taken" BY <1>10, <1>21, <1>29 DEF TimeInv, States
<1>30. CASE state = "push high" BY <1>11, <1>21, <1>30 DEF TimeInv, States
<1>31. CASE state = "push low" BY <1>12, <1>21, <1>31 DEF TimeInv, States
<1>32. CASE state = "refill" BY <1>13, <1>21, <1>32 DEF TimeInv, States
<1>33. CASE state = "prefetch" BY <1>14, <1>21, <1>33 DEF TimeInv, States
<1>34. CASE state = "fetch" BY <1>15, <1>21, <1>34 DEF TimeInv, States
<1>35. CASE state = "parse" BY <1>16, <1>21, <1>35 DEF TimeInv, States
<1>36. CASE state = "store" BY <1>17, <1>21, <1>36 DEF TimeInv, States
<1>37. CASE state = "load" BY <1>18, <1>21, <1>37 DEF TimeInv, States
<1>38. CASE state = "extra read" BY <1>19, <1>21, <1>38 DEF TimeInv, States
<1>39. CASE state = "finished" BY <1>20, <1>21, <1>39 DEF TimeInv, States
<1> QED
  BY <1>22, <1>23, <1>24, <1>25, <1>26, <1>27, <1>28, <1>29, <1>30, <1>31, <1>32,
     <1>33, <1>34, <1>35, <1>36, <1>37, <1>38, <1>39 DEF States

\* The inductive invariant holds throughout: in each state of its handler an
\* instruction is just as far in its table as its time and accesses say
\* (cpuinstr/).
THEOREM TimeAlways == ClockSpec => []TimeInv
<1>1. TimeInv /\ [ClockNext]_clockVars => TimeInv'
  <2> SUFFICES ASSUME TimeInv, [ClockNext]_clockVars PROVE TimeInv' OBVIOUS
  <2>1. CASE UNCHANGED clockVars BY <2>1, TimeStutter
  <2>2. CASE Micro
    <3>1. state \in {"read", "ea", "write"} BY <2>2 DEF Micro
    <3> QED BY <2>2, <3>1, StepMicroRead, StepMicroEa, StepMicroWrite
  <2>3. CASE NewInstr \/ RunWhole BY <2>3, StepNewInstr, StepRunWhole
  <2>4. CASE BeginRead \/ BeginAddress BY <2>4, StepBeginRead, StepBeginAddress
  <2>5. CASE Compute \/ Written BY <2>5, StepCompute, StepWritten
  <2>6. CASE ComparePart \/ CompareLong \/ LoadAddress
    BY <2>6, StepComparePart, StepCompareLong, StepLoadAddress
  <2>7. CASE BeginExchange \/ Exchange BY <2>7, StepBeginExchange, StepExchange
  <2>8. CASE BeginBranch \/ NotTaken \/ PushHigh \/ PushLow \/ Refill
    BY <2>8, StepBeginBranch, StepNotTaken, StepPushHigh, StepPushLow, StepRefill
  <2>9. CASE FetchMask \/ FetchEa \/ Parse
    BY <2>9, StepFetchMask, StepFetchEa, StepParse
  <2>10. CASE StoreWord \/ LoadWord \/ ExtraRead \/ LastState
    BY <2>10, StepStoreWord, StepLoadWord, StepExtraRead, StepLastState
  <2> QED BY <2>1, <2>2, <2>3, <2>4, <2>5, <2>6, <2>7, <2>8, <2>9, <2>10 DEF ClockNext
<1> QED BY <1>1, TimeInit, PTL DEF ClockSpec

\* A table holds numbers.
LEMMA TabledType ==
  ASSUME NEW i, Proper(i), i.op \in TabledOps, ~Slips(i)
  PROVE  Tabled(i) \in Int /\ Slip(i) = 0
<1>1. Slip(i) = 0
  <2>1. ReadOps \ {"cmp"} = {"add", "sub", "neg", "negx", "not", "clr"} BY DEF ReadOps
  <2> QED BY <2>1 DEF Slip, Slips
<1>2. CASE i.op \in ReadOps
  <2>1. /\ Ea(i).mode \in MemoryModes \cup {"d", "a", "imm"}
        /\ i.sz \in {"b", "w", "l"}
    BY <1>2, TimeOfRead
  <2>2. EaTime(Ea(i), i.sz) \in Int BY <2>1, ReadTable
  <2>3. ToMemory(i) => Ea(i) = i.t
    <3>1. ToMemory(i) => i.op # "cmp" /\ i.op # "lea" /\ i.t.mode # "d"
      BY DEF ToMemory, ReadOps
    <3> QED BY <3>1 DEF Ea, FromEa
  <2>4. Tabled(i) = (IF ToMemory(i) THEN IF i.sz = "l" THEN 12 ELSE 8
                     ELSE IF i.sz = "l" THEN 6 ELSE 4) + EaTime(Ea(i), i.sz)
    BY <1>2, <2>3 DEF Tabled, Slips, ReadOps
  <2> QED BY <1>1, <2>2, <2>4
<1>3. CASE i.op = "lea"
  <2>1. i.s.mode \in {"at", "off", "index", "abs"} BY <1>3 DEF Proper, ProperEa
  <2>2. PlaceTime(i.s) \in Int BY <2>1 DEF PlaceTime
  <2>3. Tabled(i) = 4 + PlaceTime(i.s) + (IF i.s.mode = "index" THEN 2 ELSE 0)
    BY <1>3 DEF Tabled, ToMemory, ReadOps
  <2> QED BY <1>1, <2>2, <2>3
<1>4. CASE i.op \in {"exg", "bcc"}
  <2>1. Tabled(i) = IF i.op = "exg" THEN 6
                    ELSE IF Condition(ccr)[i.cc] THEN 10 ELSE IF Wide(i) THEN 12 ELSE 8
    BY <1>4 DEF Tabled, ToMemory, ReadOps
  <2> QED BY <1>1, <2>1
<1> QED BY <1>2, <1>3, <1>4 DEF TabledOps, ClockedOps, Slips

\* An instruction takes the cycles of its table unless it slips, and makes its
\* accesses unless it is a short branch taken, for every program of instructions
\* its handlers are entered for (cpuinstr/: add.c:23, sub.c:23, cmp.c:11, neg.c:10,
\* clr.c:10, lea.c:10, exg.c:7, bcc.c:50, movem.c:155).
THEOREM TabledAlways == ClockSpec => []AsTabled
<1>1. TimeInv => AsTabled
  <2> SUFFICES ASSUME TimeInv, Ended(TabledOps)
               PROVE  (~Slips(cur) => cycles = Tabled(cur)) /\ (~ShortTaken => accesses = Bus(cur))
    BY DEF AsTabled
  <2>1. state = "finished" /\ cur # None /\ cur.op \in TabledOps BY DEF Ended
  <2>2. cur.op \in ClockedOps BY <2>1 DEF TabledOps
  <2>3. AtEnd /\ Proper(cur) BY <2>1, <2>2 DEF TimeInv
  <2>4. cycles = Tabled(cur) + Slip(cur) /\ accesses = Bus(cur)
    BY <2>1, <2>2, <2>3 DEF AtEnd, Timed
  <2>5. ~Slips(cur) => Tabled(cur) \in Int /\ Slip(cur) = 0 BY <2>1, <2>3, TabledType
  <2> QED BY <2>4, <2>5
<1> QED BY <1>1, TimeAlways, PTL

-----------------------------------------------------------------------------
(* What a comparison decides: the programs of Results that branch on one, and *)
(* the one that compares strings.                                             *)
\* The instructions of the programs that compare.
OrderOps ==
  {"movea", "cmp", "sub", "cmpa", "scc", "dbcc", "bcc", "jmp", "moveq", "lea", "cmpm"}

\* The action that executes an instruction is its own.
LEMMA OneAction ==
  ASSUME Next
  PROVE  /\ ~Halted
         /\ I.op = "movea" => Movea
         /\ I.op = "cmp" => Cmp
         /\ I.op = "sub" => Sub
         /\ I.op = "cmpa" => Cmpa
         /\ I.op = "scc" => Scc
         /\ I.op = "dbcc" => Dbcc
         /\ I.op = "bcc" => Bcc
         /\ I.op = "jmp" => Jmp
         /\ I.op = "moveq" => Moveq
         /\ I.op = "lea" => Lea
         /\ I.op = "cmpm" => Cmpm
<1>1. Arithmetic => Cmp \/ Sub \/ Cmpa \/ Cmpm \/ (~Halted /\ I.op \notin OrderOps)
  BY DEF Arithmetic, Add, Addi, Addq, Addx, Subi, Subq, Subx, Neg, Negx, Abcd,
     Sbcd, Cmpi, Adda, Suba, Ext, OrderOps,
   Mulu, Muls, Divu, Divs, DivideByZero, Dyadic, Monadic, Compare, DecimalOp, ByWord, Executing
<1>2. Logic => ~Halted /\ I.op \notin OrderOps
  BY DEF Logic,  AndBits, Andi, OrBits, Ori, EorBits, Eori, NotBits, Tst, Tas, Btst,
     Bset, Bclr, Bchg, Asl, Asr, Lsl, Lsr, Rol, Ror, Roxl, Roxr, Dyadic, Monadic,
     ShiftBy, InMemory, BitOp, Executing, OrderOps
<1>3. Moving => Movea \/ Moveq \/ (~Halted /\ I.op \notin OrderOps)
  BY DEF Moving, Move, Clr, Swap, Exg, MovemStore, MovemLoad, MovepStore,
     MovepLoad, MoveFromSr, MoveToCcr, AndiToCcr, OriToCcr, EoriToCcr, Executing, OrderOps
<1>4. Control => Bcc \/ Dbcc \/ Scc \/ Jmp \/ Lea \/ (~Halted /\ I.op \notin OrderOps)
  BY DEF Control, Bsr, Jsr, Rts, Rtr, Pea, Link, Unlk, Executing, OrderOps
<1>5. \/ Cmp \/ Sub \/ Cmpa \/ Cmpm \/ Movea \/ Moveq \/ Bcc \/ Dbcc \/ Scc \/ Jmp \/ Lea
      \/ (~Halted /\ I.op \notin OrderOps)
  BY <1>1, <1>2, <1>3, <1>4 DEF Next
<1>6. /\ Cmp => ~Halted /\ I.op = "cmp"
      /\ Cmpa => ~Halted /\ I.op = "cmpa"
      /\ Cmpm => ~Halted /\ I.op = "cmpm"
      /\ Sub => ~Halted /\ I.op = "sub"
      /\ Movea => ~Halted /\ I.op = "movea"
      /\ Moveq => ~Halted /\ I.op = "moveq"
      /\ Bcc => ~Halted /\ I.op = "bcc"
      /\ Dbcc => ~Halted /\ I.op = "dbcc"
      /\ Scc => ~Halted /\ I.op = "scc"
      /\ Jmp => ~Halted /\ I.op = "jmp"
      /\ Lea => ~Halted /\ I.op = "lea"
  BY DEF Cmp, Cmpa, Cmpm, Sub, Movea, Moveq, Bcc, Dbcc, Scc, Jmp, Lea, Executing, Dyadic
<1> QED BY <1>5, <1>6 DEF OrderOps

\* The conditions of a comparison are the relations they are named for.
LEMMA ConditionRelates ==
  ASSUME NEW h \in Nat, h > 0, NEW m, m = 2 * h,
         NEW s \in Values(m), NEW t \in Values(m), NEW f, NEW cc \in Conditions
  PROVE  Condition(CmpOp(m, f, s, t).f)[cc] <=> Related(cc, m, s, t)
<1> DEFINE g == CmpOp(m, f, s, t).f
           c == Condition(g)
           r == (t - s) % m
<1>1. /\ (c.hi <=> t > s) /\ (c.ls <=> t <= s) /\ (c.cc <=> t >= s) /\ (c.cs <=> t < s)
      /\ (c.eq <=> t = s) /\ (c.ne <=> t # s)
      /\ c.ge <=> Signed(m, t) >= Signed(m, s)
      /\ c.lt <=> Signed(m, t) < Signed(m, s)
      /\ c.gt <=> Signed(m, t) > Signed(m, s)
      /\ c.le <=> Signed(m, t) <= Signed(m, s)
  BY ComparisonDecides
<1>2. cc \in {"t", "f", "hi", "ls", "cc", "cs", "ne", "eq", "vc", "vs", "pl", "mi",
              "ge", "lt", "gt", "le"}
  <2>1. DOMAIN Condition([x |-> FALSE, n |-> FALSE, z |-> FALSE, v |-> FALSE, c |-> FALSE])
          = {"t", "f", "hi", "ls", "cc", "cs", "ne", "eq", "vc", "vs", "pl", "mi",
             "ge", "lt", "gt", "le"}
    BY Zenon DEF Condition
  <2> QED BY <2>1 DEF Conditions
<1>3. (c.pl <=> ~Top(m, r)) /\ (c.mi <=> Top(m, r)) /\ c.t /\ ~c.f
  BY Zenon DEF Condition, CmpOp, SetCmp
<1>4. (c.vs <=> SubOverflow(Top(m, s), Top(m, t), Top(m, r))) /\ (c.vc <=> ~c.vs)
  BY Zenon DEF Condition, CmpOp, SetCmp
<1>5. SubOverflow(Top(m, s), Top(m, t), Top(m, r))
        <=> Signed(m, t) - Signed(m, s) \notin -(m \div 2) .. m \div 2 - 1
  <2>1. /\ s \in Int /\ t \in Int /\ m \in Nat /\ m > 0
        /\ 0 <= s /\ s < m /\ 0 <= t /\ t < m
    BY DEF Values
  <2>2. r \in Int /\ (r = t - s \/ r = t - s + m) /\ 0 <= r /\ r < m
    <3>1. CASE t >= s BY <2>1, <3>1, ModBelow
    <3>2. CASE t < s BY <2>1, <3>2, ModMinus
    <3> QED BY <2>1, <3>1, <3>2
  <2> HIDE DEF r
  <2>3. /\ Top(m, s) <=> s >= h
        /\ Top(m, t) <=> t >= h
        /\ Top(m, r) <=> r >= h
        /\ Signed(m, s) = IF s >= h THEN s - m ELSE s
        /\ Signed(m, t) = IF t >= h THEN t - m ELSE t
        /\ m \div 2 = h
    BY <2>1, <2>2, TopHalf, Half
  <2> QED BY <2>1, <2>2, <2>3 DEF SubOverflow
<1>6. PICK k : k = c OBVIOUS
<1>7. k[cc] <=> Related(cc, m, s, t)
  <2> HIDE DEF c
  <2>1. CASE cc = "t" BY <2>1, <1>3, <1>6 DEF Related
  <2>2. CASE cc = "f" BY <2>2, <1>3, <1>6 DEF Related
  <2>3. CASE cc = "hi" BY <2>3, <1>1, <1>6 DEF Related
  <2>4. CASE cc = "ls" BY <2>4, <1>1, <1>6 DEF Related
  <2>5. CASE cc = "cc" BY <2>5, <1>1, <1>6 DEF Related
  <2>6. CASE cc = "cs" BY <2>6, <1>1, <1>6 DEF Related
  <2>7. CASE cc = "ne" BY <2>7, <1>1, <1>6 DEF Related
  <2>8. CASE cc = "eq" BY <2>8, <1>1, <1>6 DEF Related
  <2>9. CASE cc = "vc" BY <2>9, <1>4, <1>6, <1>5 DEF Related
  <2>10. CASE cc = "vs" BY <2>10, <1>4, <1>6, <1>5 DEF Related
  <2>11. CASE cc = "pl" BY <2>11, <1>3, <1>6 DEF Related
  <2>12. CASE cc = "mi" BY <2>12, <1>3, <1>6 DEF Related
  <2>13. CASE cc = "ge" BY <2>13, <1>1, <1>6 DEF Related
  <2>14. CASE cc = "lt" BY <2>14, <1>1, <1>6 DEF Related
  <2>15. CASE cc = "gt" BY <2>15, <1>1, <1>6 DEF Related
  <2>16. CASE cc = "le" BY <2>16, <1>1, <1>6 DEF Related
  <2> QED BY <1>2, <2>1, <2>2, <2>3, <2>4, <2>5, <2>6, <2>7, <2>8, <2>9,
            <2>10, <2>11, <2>12, <2>13, <2>14, <2>15, <2>16
<1> QED BY <1>6, <1>7

\* Words and longs have an even number of values, and so have bytes.
LEMMA SizesEven ==
  /\ Word \in Nat /\ Word >= 512 /\ Long \in Nat /\ Long = Word * Word /\ Long >= Word
  /\ \A sz \in {"b", "w", "l"} :
       /\ Modulus[sz] \in Nat /\ Modulus[sz] > 0 /\ Modulus[sz] <= Long
       /\ \E h \in Nat : h > 0 /\ Modulus[sz] = 2 * h
  /\ Modulus["b"] = 256 /\ Modulus["w"] = Word /\ Modulus["l"] = Long
<1>1. Word \in {512, 1024, 2048, 4096, 8192, 16384, 32768, 65536}
  <2>1. WordBits \in {9, 10, 11, 12, 13, 14, 15, 16} BY WordAssumption
  <2>2. 2^9 = 512 /\ 2^10 = 1024 /\ 2^11 = 2048 /\ 2^12 = 4096 OBVIOUS
  <2>3. 2^13 = 8192 /\ 2^14 = 16384 /\ 2^15 = 32768 /\ 2^16 = 65536 OBVIOUS
  <2>4. PICK n \in {9, 10, 11, 12, 13, 14, 15, 16} : WordBits = n BY <2>1
  <2>5. 2^n \in {512, 1024, 2048, 4096, 8192, 16384, 32768, 65536}
    <3>1. CASE n = 9 BY <3>1, <2>2
    <3>2. CASE n = 10 BY <3>2, <2>2
    <3>3. CASE n = 11 BY <3>3, <2>2
    <3>4. CASE n = 12 BY <3>4, <2>2
    <3>5. CASE n = 13 BY <3>5, <2>3
    <3>6. CASE n = 14 BY <3>6, <2>3
    <3>7. CASE n = 15 BY <3>7, <2>3
    <3>8. CASE n = 16 BY <3>8, <2>3
    <3> QED BY <3>1, <3>2, <3>3, <3>4, <3>5, <3>6, <3>7, <3>8
  <2> QED BY <2>4, <2>5 DEF Word
<1>2. PICK k \in Nat : k >= 256 /\ Word = 2 * k
  <2>1. Word = 2 * 256 \/ Word = 2 * 512 \/ Word = 2 * 1024 \/ Word = 2 * 2048
        \/ Word = 2 * 4096 \/ Word = 2 * 8192 \/ Word = 2 * 16384 \/ Word = 2 * 32768
    BY <1>1
  <2> QED BY <2>1
<1>3. Long = Word * Word BY DEF Long
<1>4. Long = 2 * (k * Word) /\ k * Word \in Nat /\ k * Word > 0 /\ Long >= Word
  <2>1. k * Word \in Nat /\ k * Word >= k /\ k * Word >= Word
    <3>1. Word >= 1 /\ Word \in Nat BY <1>2
    <3> QED BY <1>2, <3>1
  <2>2. Word * Word = 2 * (k * Word) BY <1>2
  <2> QED BY <1>2, <1>3, <2>1, <2>2
<1>5. Modulus["b"] = 256 /\ Modulus["w"] = Word /\ Modulus["l"] = Long BY DEF Modulus
<1>9. \A sz \in {"b", "w", "l"} :
        /\ Modulus[sz] \in Nat /\ Modulus[sz] > 0 /\ Modulus[sz] <= Long
        /\ \E h \in Nat : h > 0 /\ Modulus[sz] = 2 * h
  <2> TAKE sz \in {"b", "w", "l"}
  <2>1. CASE sz = "b"
    <3>1. Modulus[sz] = 2 * 128 BY <1>5, <2>1
    <3> QED BY <3>1, <1>2, <1>4
  <2>2. CASE sz = "w" BY <1>5, <1>2, <1>4, <2>2
  <2>3. CASE sz = "l" BY <1>5, <1>4, <2>3
  <2> QED BY <2>1, <2>2, <2>3
<1> QED BY <1>2, <1>3, <1>4, <1>5, <1>9

DecideTask(op, sz, cc) ==
  /\ op \in {"cmp", "sub", "cmpa"} /\ sz \in {"b", "w", "l"} /\ cc \in Conditions
  /\ task.program[2] = op /\ task.program[3] = sz /\ task.program[4] = cc
  /\ Listing[task.program] = Decide(op, sz, cc)

\* A task that compares has one of the operations, sizes and conditions.
LEMMA TaskOfDecide ==
  ASSUME task \in Tasks, Kind = "decide"
  PROVE  /\ \E op, sz, cc : DecideTask(op, sz, cc)
         /\ \A r \in 0 .. 3 : GivenD(r) \in Values(Long)
<1>1. PICK p : p = task.program OBVIOUS
<1>2. p \in ProgramNames /\ p[1] = "decide" /\ Code[p] = Program(p)
      /\ task.d \in [1 .. 4 -> Values(Long)]
  BY <1>1, TaskAssumption DEF Kind
<1>3. p \in OrderNames
  <2>1. p \notin ImmediateNames BY <1>2 DEF ImmediateNames
  <2>2. p \notin SumNames BY <1>2, <2>1 DEF SumNames
  <2>3. p \notin LoopNames BY <1>2 DEF LoopNames
  <2>4. p \notin ShiftNames BY <1>2 DEF ShiftNames
  <2>5. p \notin MaskNames BY <1>2 DEF MaskNames
  <2>6. p \notin BitNames BY <1>2, <2>5 DEF BitNames
  <2> QED BY <1>2, <2>2, <2>3, <2>4, <2>6 DEF ProgramNames
<1>4. p[2] \in {"cmp", "sub", "cmpa"} /\ p[3] \in {"b", "w", "l"} /\ p[4] \in Conditions
  <2>1. p # <<"strings", "">>
    <3>1. <<"strings", "">>[1] = "strings" OBVIOUS
    <3> QED BY <1>2, <3>1
  <2>2. CASE p \in {"decide"} \X {"cmp", "sub"} \X Sizes \X Conditions BY <2>2 DEF Sizes
  <2>3. CASE p \in {"decide"} \X {"cmpa"} \X {"w", "l"} \X Conditions BY <2>3
  <2> QED BY <1>3, <2>1, <2>2, <2>3 DEF OrderNames
<1>5. Program(p) = Decide(p[2], p[3], p[4]) BY <1>2 DEF Program
<1>6. DecideTask(p[2], p[3], p[4]) BY <1>1, <1>2, <1>4, <1>5 DEF DecideTask, Listing
<1>7. \A r \in 0 .. 3 : r + 1 \in 1 .. 4 OBVIOUS
<1> QED BY <1>2, <1>6, <1>7 DEF GivenD

\* Its instructions.
LEMMA DecideCode ==
  ASSUME NEW op, NEW sz, NEW cc, DecideTask(op, sz, cc)
  PROVE  /\ Halted <=> pc \notin 1 .. 7
         /\ pc = 1 => I = Ins("movea", "l", D(1), A(1))
         /\ pc = 2 => I = Ins(op, sz, D(0), IF op = "cmpa" THEN A(1) ELSE D(1))
         /\ pc = 3 => I = SetIf(cc, D(2))
         /\ pc = 4 => I = Loop(cc, 3, 5)
         /\ pc = 5 => I = Branch(cc, 7)
         /\ pc = 6 => I = Ins("jmp", "l", Imm(0), Abs(8))
         /\ pc = 7 => I = Ins("moveq", "l", Imm(85), D(0))
<1>1. PICK c : c = Listing[task.program] OBVIOUS
<1>2. c = Decide(op, sz, cc) BY <1>1 DEF DecideTask
<1>3. DOMAIN c = 1 .. 7 BY <1>2 DEF Decide
<1>4. /\ c[1] = Ins("movea", "l", D(1), A(1))
      /\ c[2] = Ins(op, sz, D(0), IF op = "cmpa" THEN A(1) ELSE D(1))
      /\ c[3] = SetIf(cc, D(2))
      /\ c[4] = Loop(cc, 3, 5)
      /\ c[5] = Branch(cc, 7)
      /\ c[6] = Ins("jmp", "l", Imm(0), Abs(8))
      /\ c[7] = Ins("moveq", "l", Imm(85), D(0))
  BY <1>2 DEF Decide
<1>5. I = c[pc] /\ (Halted <=> pc \notin DOMAIN c) BY <1>1 DEF I, Halted
<1> QED BY <1>3, <1>4, <1>5

\* What the instructions before pc have done.
DecideInv ==
  /\ pc \in 1 .. 8
  /\ d \in [0 .. 3 -> Int] /\ DOMAIN a = {0, 1, 6, 7}
  /\ pc < 7 => d[0] = GivenD(0)
  /\ pc <= 2 => d[1] = GivenD(1)
  /\ pc = 2 => a[1] = GivenD(1)
  /\ pc \in 3 .. 5 => (Condition(ccr)[task.program[4]] <=> TaskHolds)
  /\ pc > 3 /\ task.program[4] # "lt" => Low(2, 256) = IF TaskHolds THEN 255 ELSE 0
  /\ pc <= 4 => d[3] = GivenD(3)
  /\ pc > 4 => d[3] = IF TaskHolds THEN GivenD(3) ELSE CountedDown(GivenD(3))
  /\ pc = 6 => ~TaskHolds
  /\ pc = 7 => TaskHolds
  /\ pc = 8 => d[0] = IF TaskHolds THEN 85 ELSE GivenD(0)

\* The fields of the instructions.
LEMMA Fields ==
  /\ \A op, sz, s, t : /\ Ins(op, sz, s, t).op = op /\ Ins(op, sz, s, t).sz = sz
                       /\ Ins(op, sz, s, t).s = s /\ Ins(op, sz, s, t).t = t
  /\ \A cc, to : Branch(cc, to).op = "bcc" /\ Branch(cc, to).cc = cc /\ Branch(cc, to).to = to
  /\ \A cc, r, to : /\ Loop(cc, r, to).op = "dbcc" /\ Loop(cc, r, to).cc = cc
                    /\ Loop(cc, r, to).t = D(r) /\ Loop(cc, r, to).to = to
  /\ \A cc, e : SetIf(cc, e).op = "scc" /\ SetIf(cc, e).cc = cc /\ SetIf(cc, e).t = e
  /\ \A r : D(r).mode = "d" /\ D(r).reg = r /\ A(r).mode = "a" /\ A(r).reg = r
  /\ \A r : Inc(r).mode = "inc" /\ Inc(r).reg = r
  /\ \A x : Abs(x).mode = "abs" /\ Abs(x).address = x
  /\ \A x : Imm(x).mode = "imm" /\ Imm(x).value = x
  BY DEF Ins, Branch, Loop, SetIf, D, A, Inc, Abs, Imm

\* A condition survives in SUB as in CMP.
LEMMA SubCompares ==
  ASSUME NEW m, NEW f, NEW s, NEW t
  PROVE  Condition(SubOp(m, f, s, t).f) = Condition(CmpOp(m, f, s, t).f)
<1>1. PICK x, y : x = SubOp(m, f, s, t).f /\ y = CmpOp(m, f, s, t).f OBVIOUS
<1>2. x.n = y.n /\ x.z = y.z /\ x.v = y.v /\ x.c = y.c BY <1>1 DEF SubOp, CmpOp, SetSub, SetCmp
<1> QED BY <1>1, <1>2 DEF Condition

\* Division with a remainder, by a number that is not known.
LEMMA DivMod ==
  ASSUME NEW x \in Int, NEW m \in Nat, m > 0
  PROVE  x \div m \in Int /\ x % m \in 0 .. m - 1 /\ x = m * (x \div m) + (x % m)
BY SMT

\* A remainder is the only number of the size that differs by a multiple.
LEMMA ModOfSum ==
  ASSUME NEW q \in Int, NEW m \in Nat, m > 0, NEW v \in 0 .. m - 1
  PROVE  (m * q + v) % m = v
<1>1. PICK x \in Int : x = m * q + v OBVIOUS
<1>2. PICK k \in Int, w \in 0 .. m - 1 : x % m = w /\ x = m * k + w
  <2>1. x \div m \in Int /\ x % m \in 0 .. m - 1 /\ x = m * (x \div m) + (x % m) BY DivMod
  <2> QED BY <2>1
<1>3. m * q + v = m * k + w BY <1>1, <1>2
<1>4. q = k
  <2>1. CASE q > k
    <3>1. m * q >= m * k + m
      <4>1. PICK e \in Int : e = q - k /\ e >= 1 /\ q = k + e BY <2>1
      <4>2. m * q = m * k + m * e BY <4>1
      <4>3. m * e >= m BY <4>1
      <4>4. m * k \in Int /\ m * e \in Int BY <4>1
      <4> QED BY <4>2, <4>3, <4>4
    <3>2. m * q \in Int /\ m * k \in Int OBVIOUS
    <3> QED BY <3>1, <3>2, <1>3
  <2>2. CASE q < k
    <3>1. m * k >= m * q + m
      <4>1. PICK e \in Int : e = k - q /\ e >= 1 /\ k = q + e BY <2>2
      <4>2. m * k = m * q + m * e BY <4>1
      <4>3. m * e >= m BY <4>1
      <4>4. m * q \in Int /\ m * e \in Int BY <4>1
      <4> QED BY <4>2, <4>3, <4>4
    <3>2. m * q \in Int /\ m * k \in Int OBVIOUS
    <3> QED BY <3>1, <3>2, <1>3
  <2> QED BY <2>1, <2>2
<1>5. v = w
  <2>1. m * q \in Int OBVIOUS
  <2> QED BY <1>3, <1>4, <2>1
<1> QED BY <1>1, <1>2, <1>5

\* Replacing a part of a register replaces what is read of that part.
LEMMA InsertLow ==
  ASSUME NEW r \in Int, NEW sz \in {"b", "w", "l"}, NEW v \in Values(Modulus[sz])
  PROVE  Insert(r, sz, v) \in Int /\ Insert(r, sz, v) % Modulus[sz] = v
<1>1. PICK m \in Nat : m > 0 /\ m = Modulus[sz] BY SizesEven
<1>2. PICK q \in Int, w \in Int : w = r % m /\ r = m * q + w
  <2>1. r \div m \in Int /\ r % m \in 0 .. m - 1 /\ r = m * (r \div m) + (r % m)
    BY <1>1, DivMod
  <2> QED BY <2>1
<1>3. v \in 0 .. m - 1 BY <1>1 DEF Values
<1>4. Insert(r, sz, v) = m * q + v
  <2>1. Insert(r, sz, v) = r - w + v BY <1>1, <1>2 DEF Insert
  <2>2. m * q \in Int BY <1>1
  <2> QED BY <1>2, <1>3, <2>1, <2>2
<1>5. (m * q + v) % m = v BY <1>1, <1>3, ModOfSum
<1>6. m * q + v \in Int BY <1>1, <1>3
<1> QED BY <1>1, <1>4, <1>5, <1>6

\* A number with its sign in a long.
LEMMA ExtendType ==
  ASSUME NEW sz \in {"b", "w", "l"}, NEW v \in Values(Modulus[sz])
  PROVE  SignExtend(sz, v) \in Values(Long) /\ (sz = "l" => SignExtend(sz, v) = v)
<1>1. PICK m, h \in Nat : m = Modulus[sz] /\ m = 2 * h /\ h > 0 /\ m <= Long /\ Long \in Nat
                          /\ (sz = "l" => m = Long)
  BY SizesEven
<1>2. v \in 0 .. m - 1 BY <1>1 DEF Values
<1>3. SignExtend(sz, v) = IF v >= h THEN Long - m + v ELSE v
  BY <1>1, <1>2, TopHalf DEF SignExtend, Extend
<1> QED BY <1>1, <1>2, <1>3 DEF Values

\* A positive byte is its own long.
LEMMA PositiveByte == ASSUME NEW v \in 0 .. 127 PROVE SignExtend("b", v) = v
<1>1. PICK h \in Nat, m \in Nat : h = 128 /\ m = 256 /\ m = 2 * h OBVIOUS
<1>2. ~Top(m, v)
  <2>1. v \in Int /\ m = 2 * h /\ ~(v >= h) BY <1>1
  <2>2. Top(m, v) <=> v >= h BY <2>1, TopHalf
  <2> QED BY <2>1, <2>2
<1>3. Modulus["b"] = m BY <1>1, SizesEven
<1> QED BY <1>2, <1>3, Zenon DEF SignExtend, Extend

\* With the task, what it asks for stays.
LEMMA TaskKept ==
  ASSUME task' = task
  PROVE  /\ Kind' = Kind /\ TaskHolds' = TaskHolds
         /\ \A r : GivenD(r)' = GivenD(r)
         /\ CountedDown(GivenD(3))' = CountedDown(GivenD(3))
         /\ task.program[4]' = task.program[4]
<1>1. \A r : GivenD(r)' = GivenD(r) BY DEF GivenD
<1>2. CountedDown(GivenD(3))' = CountedDown(GivenD(3)) BY DEF CountedDown, Insert, GivenD
<1>3. TaskHolds' = TaskHolds BY DEF TaskHolds, GivenD, Related, SignExtend, Signed, Top
<1> QED BY <1>1, <1>2, <1>3 DEF Kind

\* The operands of data and address registers.
LEMMA RegisterOperand ==
  ASSUME NEW e, NEW sz, NEW R
  PROVE  /\ e.mode = "d" => Operand(e, sz, R) = d[e.reg] % Modulus[sz]
         /\ e.mode \in {"d", "a", "imm"} => Bump(e, sz, R) = R
         /\ e.mode = "imm" => Operand(e, sz, R) = e.value
BY DEF Operand, Bump

\* D1 goes to A1.
LEMMA DecideMovea ==
  ASSUME Next, task \in Tasks, Kind = "decide", DecideInv, pc = 1
  PROVE  DecideInv'
<1>1. PICK op, sz, cc : DecideTask(op, sz, cc) BY TaskOfDecide
<1>2. GivenD(1) \in Values(Long) BY TaskOfDecide
<1>3. I = Ins("movea", "l", D(1), A(1)) BY <1>1, DecideCode
<1>4. I.op = "movea" /\ I.sz = "l" /\ I.s = D(1) /\ I.t = A(1) BY <1>3, Fields
<1>5. I.s.mode = "d" /\ I.s.reg = 1 /\ I.t.reg = 1 BY <1>4, Fields
<1>6. Movea BY <1>4, OneAction
<1>7. Source = d[1] % Long /\ AfterSource = a
  BY <1>4, <1>5, RegisterOperand, SizesEven DEF Source, AfterSource
<1>8. d[1] % Long = GivenD(1) BY <1>2, SizesEven, ModBelow DEF DecideInv, Values
<1>9. SignExtend("l", GivenD(1)) = GivenD(1) BY <1>2, ExtendType, SizesEven
<1>10. /\ pc' = 2 /\ task' = task /\ d' = d /\ ccr' = ccr /\ a' = [a EXCEPT ![1] = GivenD(1)]
  <2>1. PICK v : v = SignExtend(I.sz, Source) OBVIOUS
  <2>2. v = GivenD(1) BY <2>1, <1>4, <1>7, <1>8, <1>9
  <2>3. ToAddress(v) BY <1>6, <2>1 DEF Movea
  <2> QED BY <1>5, <1>7, <2>2, <2>3 DEF ToAddress, Continue
<1>11. DOMAIN a' = {0, 1, 6, 7} /\ a'[1] = GivenD(1) BY <1>10 DEF DecideInv
<1> QED BY <1>10, <1>11, TaskKept DEF DecideInv, Low

\* What the comparison leaves is what the task is about.
LEMMA DecideCompare ==
  ASSUME Next, task \in Tasks, Kind = "decide", DecideInv, pc = 2
  PROVE  DecideInv'
<1>1. PICK op, sz, cc : DecideTask(op, sz, cc) BY TaskOfDecide
<1>2. /\ op \in {"cmp", "sub", "cmpa"} /\ sz \in {"b", "w", "l"} /\ cc \in Conditions
      /\ task.program[2] = op /\ task.program[3] = sz /\ task.program[4] = cc
  BY <1>1 DEF DecideTask
<1>3. PICK g0, g1 \in Int : /\ g0 = GivenD(0) /\ g1 = GivenD(1)
                            /\ g0 \in Values(Long) /\ g1 \in Values(Long)
  <2>1. GivenD(0) \in Values(Long) /\ GivenD(1) \in Values(Long) BY TaskOfDecide
  <2> QED BY <2>1 DEF Values
<1>4. d[0] = g0 /\ d[1] = g1 /\ d[3] = GivenD(3) /\ a[1] = g1 /\ d \in [0 .. 3 -> Int]
      /\ DOMAIN a = {0, 1, 6, 7}
  BY <1>3 DEF DecideInv
<1>5. PICK m, h \in Nat : m = Modulus[sz] /\ m = 2 * h /\ h > 0 BY <1>2, SizesEven
<1>6. PICK s : s = g0 % m OBVIOUS
<1>7. s \in Values(m) /\ g1 % m \in Values(m) BY <1>3, <1>5, <1>6, DivMod DEF Values
<1>8. I.op = op /\ I.sz = sz /\ I.s = D(0) /\ I.t = (IF op = "cmpa" THEN A(1) ELSE D(1))
  BY <1>1, DecideCode, Fields
<1>9. Source = s /\ AfterSource = a
  <2>1. I.s.mode = "d" /\ I.s.reg = 0 BY <1>8, Fields
  <2>2. Source = d[0] % Modulus[sz] /\ AfterSource = a
    BY <1>8, <2>1, RegisterOperand DEF Source, AfterSource
  <2> QED BY <1>4, <1>5, <1>6, <2>2
<1>10. /\ pc' = 3 /\ task' = task /\ a' = a
       /\ d' \in [0 .. 3 -> Int] /\ d'[0] = d[0] /\ d'[3] = d[3]
       /\ Condition(ccr')[cc] <=> TaskHolds
  <2>1. CASE op = "cmp"
    <3>1. Cmp BY <1>8, <2>1, OneAction
    <3>2. Operand(I.t, I.sz, AfterSource) = g1 % m /\ Bump(I.t, I.sz, AfterSource) = a
      <4>1. I.t.mode = "d" /\ I.t.reg = 1 BY <1>8, <2>1, Fields
      <4>2. Operand(I.t, I.sz, a) = d[1] % Modulus[sz] /\ Bump(I.t, I.sz, a) = a
        BY <1>8, <4>1, RegisterOperand
      <4> QED BY <1>4, <1>5, <1>9, <4>1, <4>2
    <3>3. ccr' = CmpOp(m, ccr, s, g1 % m).f /\ a' = a /\ d' = d /\ pc' = pc + 1 /\ task' = task
      BY <3>1, <3>2, <1>5, <1>8, <1>9 DEF Cmp, Compare, Continue
    <3>4. TaskHolds <=> Related(cc, m, s, g1 % m)
      BY <1>2, <1>3, <1>5, <1>6, <2>1 DEF TaskHolds
    <3>5. Condition(ccr')[cc] <=> Related(cc, m, s, g1 % m)
      BY <3>3, <1>2, <1>5, <1>7, ConditionRelates
    <3> QED BY <3>3, <3>4, <3>5, <1>4
  <2>2. CASE op = "sub"
    <3>1. Sub BY <1>8, <2>2, OneAction
    <3>2. Operand(I.t, I.sz, AfterSource) = g1 % m /\ Bump(I.t, I.sz, AfterSource) = a
          /\ I.t.mode = "d" /\ I.t.reg = 1
      <4>1. I.t.mode = "d" /\ I.t.reg = 1 BY <1>8, <2>2, Fields
      <4>2. Operand(I.t, I.sz, a) = d[1] % Modulus[sz] /\ Bump(I.t, I.sz, a) = a
        BY <1>8, <4>1, RegisterOperand
      <4> QED BY <1>4, <1>5, <1>9, <4>1, <4>2
    <3>3. PICK r : r = SubOp(m, ccr, s, g1 % m) OBVIOUS
    <3>4. Store(I.t, I.sz, r.r, a) /\ ccr' = r.f /\ pc' = pc + 1 /\ task' = task
      BY <3>1, <3>2, <3>3, <1>5, <1>8, <1>9 DEF Sub, Dyadic, Continue
    <3>5. r.r \in Values(m) BY <3>3, <1>3, <1>5, <1>7, DivMod DEF SubOp, Values
    <3>6. Insert(d[1], sz, r.r) \in Int BY <3>5, <1>2, <1>4, <1>3, <1>5, InsertLow
    <3>7. a' = a /\ d' = [d EXCEPT ![1] = Insert(d[1], sz, r.r)]
      BY <3>4, <3>2, <1>8, RegisterOperand DEF Store
    <3>8. TaskHolds <=> Related(cc, m, s, g1 % m)
      BY <1>2, <1>3, <1>5, <1>6, <2>2 DEF TaskHolds
    <3>9. Condition(ccr')[cc] <=> Related(cc, m, s, g1 % m)
      BY <3>3, <3>4, <1>2, <1>5, <1>7, ConditionRelates, SubCompares
    <3> QED BY <3>4, <3>6, <3>7, <3>8, <3>9, <1>4
  <2>3. CASE op = "cmpa"
    <3>1. Cmpa BY <1>8, <2>3, OneAction
    <3>2. PICK x : x = SignExtend(sz, s) OBVIOUS
    <3>3. x \in Values(Long) BY <3>2, <1>2, <1>5, <1>7, ExtendType
    <3>4. ccr' = CmpOp(Long, ccr, x, g1).f /\ a' = a /\ d' = d /\ pc' = pc + 1 /\ task' = task
      BY <3>1, <3>2, <1>4, <1>8, <1>9, <2>3, Fields DEF Cmpa, Continue
    <3>5. TaskHolds <=> Related(cc, Long, x, g1)
      BY <1>2, <1>3, <1>5, <1>6, <2>3, <3>2 DEF TaskHolds
    <3>6. PICK k \in Nat : k > 0 /\ Long = 2 * k BY SizesEven
    <3>7. Condition(ccr')[cc] <=> Related(cc, Long, x, g1)
      BY <3>3, <3>4, <3>6, <1>2, <1>3, ConditionRelates
    <3> QED BY <3>4, <3>5, <3>7, <1>4
  <2> QED BY <1>2, <2>1, <2>2, <2>3
<1>11. d'[0] = GivenD(0) /\ d'[3] = GivenD(3) BY <1>3, <1>4, <1>10
<1> QED BY <1>2, <1>4, <1>10, <1>11, TaskKept DEF DecideInv

\* Scc puts its condition into the low byte of a register.
LEMMA SetInto ==
  ASSUME Scc, NEW r \in 0 .. 3, I.t = D(r), NEW cc \in Conditions, I.cc = cc,
         d \in [0 .. 3 -> Int]
  PROVE  /\ pc' = pc + 1 /\ task' = task /\ a' = a /\ ccr' = ccr /\ mem' = mem
         /\ d' \in [0 .. 3 -> Int] /\ \A x \in 0 .. 3 : x # r => d'[x] = d[x]
         /\ cc # "lt" => d'[r] % 256 = IF Condition(ccr)[cc] THEN 255 ELSE 0
<1>1. I.t.mode = "d" /\ I.t.reg = r BY Fields
<1>2. PICK v : v = IF SetCondition(ccr)[cc] THEN 255 ELSE 0 OBVIOUS
<1>3. v \in Values(Modulus["b"]) BY <1>2, SizesEven DEF Values
<1>4. PICK w : w = Insert(d[r], "b", v) OBVIOUS
<1>5. w \in Int /\ w % 256 = v
  <2>1. d[r] \in Int /\ "b" \in {"b", "w", "l"} OBVIOUS
  <2>2. w \in Int /\ w % Modulus["b"] = v BY <1>3, <1>4, <2>1, InsertLow
  <2> QED BY <2>2, SizesEven
<1>6. Bump(I.t, "b", a) = a BY <1>1, RegisterOperand
<1>7. /\ pc' = pc + 1 /\ task' = task /\ a' = a /\ ccr' = ccr /\ mem' = mem
      /\ d' = [d EXCEPT ![r] = w]
  BY <1>1, <1>2, <1>4, <1>6 DEF Scc, Store, Continue
<1>8. d' \in [0 .. 3 -> Int] /\ d'[r] = w /\ \A x \in 0 .. 3 : x # r => d'[x] = d[x]
  BY <1>5, <1>7
<1>9. cc # "lt" => SetCondition(ccr)[cc] = Condition(ccr)[cc]
  <2>1. PICK c : c = Condition(ccr) OBVIOUS
  <2>2. DOMAIN c = Conditions BY <2>1, Zenon DEF Condition, Conditions
  <2>3. SetCondition(ccr) = [c EXCEPT !["lt"] = FALSE] BY <2>1 DEF SetCondition
  <2> QED BY <2>1, <2>2, <2>3
<1> QED BY <1>2, <1>5, <1>7, <1>8, <1>9

\* D2 has the condition.
LEMMA DecideSet ==
  ASSUME Next, task \in Tasks, Kind = "decide", DecideInv, pc = 3
  PROVE  DecideInv'
<1>1. PICK op, sz, cc : DecideTask(op, sz, cc) BY TaskOfDecide
<1>2. cc \in Conditions /\ task.program[4] = cc BY <1>1 DEF DecideTask
<1>3. I.op = "scc" /\ I.cc = cc /\ I.t = D(2) BY <1>1, DecideCode, Fields
<1>4. Scc BY <1>3, OneAction
<1>5. d \in [0 .. 3 -> Int] BY DEF DecideInv
<1>6. /\ pc' = 4 /\ task' = task /\ a' = a /\ ccr' = ccr /\ d' \in [0 .. 3 -> Int]
      /\ d'[0] = d[0] /\ d'[3] = d[3]
      /\ cc # "lt" => d'[2] % 256 = IF Condition(ccr)[cc] THEN 255 ELSE 0
  BY <1>2, <1>3, <1>4, <1>5, SetInto
<1>7. (Condition(ccr)[cc] <=> TaskHolds) /\ Condition(ccr')[cc] = Condition(ccr)[cc]
  BY <1>2, <1>6 DEF DecideInv
<1>8. /\ d[0] = GivenD(0) /\ d[3] = GivenD(3) /\ DOMAIN a = {0, 1, 6, 7}
  BY DEF DecideInv
<1>9. Low(2, 256)' = d'[2] % 256 BY DEF Low
<1> QED BY <1>2, <1>6, <1>7, <1>8, <1>9, TaskKept DEF DecideInv

\* DBcc counts D3 down if the condition does not hold.
LEMMA DecideLoop ==
  ASSUME Next, task \in Tasks, Kind = "decide", DecideInv, pc = 4
  PROVE  DecideInv'
<1>1. PICK op, sz, cc : DecideTask(op, sz, cc) BY TaskOfDecide
<1>2. task.program[4] = cc BY <1>1 DEF DecideTask
<1>3. I.op = "dbcc" /\ I.cc = cc /\ I.t.reg = 3 /\ I.to = 5 BY <1>1, DecideCode, Fields
<1>4. Dbcc BY <1>3, OneAction
<1>5. d \in [0 .. 3 -> Int] /\ DOMAIN a = {0, 1, 6, 7} /\ d[0] = GivenD(0) /\ d[3] = GivenD(3)
      /\ (Condition(ccr)[cc] <=> TaskHolds)
      /\ (cc # "lt" => Low(2, 256) = IF TaskHolds THEN 255 ELSE 0)
  BY <1>2 DEF DecideInv
<1>6. pc' = 5 /\ task' = task /\ a' = a /\ ccr' = ccr
  BY <1>3, <1>4 DEF Dbcc, Jump
<1>7. PICK g \in Int : g = GivenD(3) /\ g = d[3] BY <1>5
<1>8. CountedDown(g) \in Int
  <2>1. (g % Word) - 1 \in Int BY SizesEven, <1>7
  <2>2. ((g % Word) - 1) % Word \in Values(Modulus["w"]) BY <2>1, SizesEven, DivMod DEF Values
  <2> QED BY <2>2, <1>7, InsertLow DEF CountedDown
<1>9. d' = IF Condition(ccr)[cc] THEN d ELSE [d EXCEPT ![3] = CountedDown(g)]
  BY <1>3, <1>4, <1>7 DEF Dbcc, CountedDown
<1>10. /\ d' \in [0 .. 3 -> Int] /\ d'[0] = d[0] /\ d'[2] = d[2]
       /\ d'[3] = IF TaskHolds THEN g ELSE CountedDown(g)
  BY <1>5, <1>7, <1>8, <1>9
<1>11. Low(2, 256)' = Low(2, 256) /\ (Condition(ccr')[cc] <=> Condition(ccr)[cc])
  BY <1>6, <1>10 DEF Low
<1> QED BY <1>2, <1>5, <1>6, <1>7, <1>10, <1>11, TaskKept DEF DecideInv

\* Bcc goes to MOVEQ or to the jump over it.
LEMMA DecideBranch ==
  ASSUME Next, task \in Tasks, Kind = "decide", DecideInv, pc \in {5, 6}
  PROVE  DecideInv'
<1>1. PICK op, sz, cc : DecideTask(op, sz, cc) BY TaskOfDecide
<1>2. task.program[4] = cc BY <1>1 DEF DecideTask
<1>3. /\ d \in [0 .. 3 -> Int] /\ DOMAIN a = {0, 1, 6, 7} /\ d[0] = GivenD(0)
      /\ d[3] = IF TaskHolds THEN GivenD(3) ELSE CountedDown(GivenD(3))
      /\ pc = 5 => (Condition(ccr)[cc] <=> TaskHolds)
      /\ cc # "lt" => Low(2, 256) = IF TaskHolds THEN 255 ELSE 0
      /\ pc = 6 => ~TaskHolds
  BY <1>2 DEF DecideInv
<1>4. /\ task' = task /\ a' = a /\ d' = d
      /\ pc' = (IF TaskHolds THEN 7 ELSE IF pc = 5 THEN 6 ELSE 8)
  <2>1. CASE pc = 5
    <3>1. I.op = "bcc" /\ I.cc = cc /\ I.to = 7 BY <1>1, <2>1, DecideCode, Fields
    <3>2. Bcc BY <3>1, OneAction
    <3> QED BY <1>3, <2>1, <3>1, <3>2 DEF Bcc, Jump
  <2>2. CASE pc = 6
    <3>1. I.op = "jmp" /\ I.t = Abs(8) BY <1>1, <2>2, DecideCode, Fields
    <3>2. I.t.mode = "abs" /\ I.t.address = 8 BY <3>1, Fields
    <3>3. Address(I.t, "l", a) = 8 BY <3>2 DEF Address
    <3>4. Jmp BY <3>1, OneAction
    <3> QED BY <1>3, <2>2, <3>3, <3>4 DEF Jmp, Jump
  <2> QED BY <2>1, <2>2
<1>5. Low(2, 256)' = Low(2, 256) BY <1>4 DEF Low
<1> QED BY <1>2, <1>3, <1>4, <1>5, TaskKept DEF DecideInv

\* 85 comes to D0.
LEMMA DecideMark ==
  ASSUME Next, task \in Tasks, Kind = "decide", DecideInv, pc = 7
  PROVE  DecideInv'
<1>1. PICK op, sz, cc : DecideTask(op, sz, cc) BY TaskOfDecide
<1>2. task.program[4] = cc BY <1>1 DEF DecideTask
<1>3. /\ d \in [0 .. 3 -> Int] /\ DOMAIN a = {0, 1, 6, 7}
      /\ d[3] = IF TaskHolds THEN GivenD(3) ELSE CountedDown(GivenD(3))
      /\ cc # "lt" => Low(2, 256) = IF TaskHolds THEN 255 ELSE 0
      /\ TaskHolds
  BY <1>2 DEF DecideInv
<1>4. I.op = "moveq" /\ I.s = Imm(85) /\ I.t = D(0) BY <1>1, DecideCode, Fields
<1>5. I.s.value = 85 /\ I.t.reg = 0 BY <1>4, Fields
<1>6. Moveq BY <1>4, OneAction
<1>7. SignExtend("b", 85) = 85
  <2>1. 85 \in 0 .. 127 OBVIOUS
  <2> QED BY <2>1, PositiveByte
<1>8. task' = task /\ a' = a /\ pc' = 8 /\ d' = [d EXCEPT ![0] = 85]
  <2>1. PICK v : v = SignExtend("b", I.s.value) OBVIOUS
  <2>2. v = 85 BY <1>5, <1>7, <2>1
  <2>3. ToData(I.t.reg, v, MoveOp(256, ccr, I.s.value).f) BY <1>6, <2>1 DEF Moveq
  <2> QED BY <1>5, <2>2, <2>3 DEF ToData, Continue
<1>9. d' \in [0 .. 3 -> Int] /\ d'[0] = 85 /\ d'[2] = d[2] /\ d'[3] = d[3] BY <1>3, <1>8
<1>10. Low(2, 256)' = Low(2, 256) BY <1>9 DEF Low
<1> QED BY <1>2, <1>3, <1>8, <1>9, <1>10, TaskKept DEF DecideInv

\* The tasks that decide, as a whole.
LEMMA DecideStep ==
  ASSUME Next, task \in Tasks, Kind = "decide", DecideInv
  PROVE  DecideInv'
<1>1. PICK op, sz, cc : DecideTask(op, sz, cc) BY TaskOfDecide
<1>2. ~Halted /\ (Halted <=> pc \notin 1 .. 7) BY <1>1, DecideCode, OneAction
<1>3. pc = 1 \/ pc = 2 \/ pc = 3 \/ pc = 4 \/ pc \in {5, 6} \/ pc = 7
  BY <1>2 DEF DecideInv
<1> QED BY <1>3, DecideMovea, DecideCompare, DecideSet, DecideLoop, DecideBranch, DecideMark

\* What they are left with.
LEMMA DecideEnd ==
  ASSUME task \in Tasks, Kind = "decide", DecideInv, Halted
  PROVE  Decided
<1>1. PICK op, sz, cc : DecideTask(op, sz, cc) BY TaskOfDecide
<1>2. pc = 8 BY <1>1, DecideCode DEF DecideInv
<1> QED BY <1>2 DEF DecideInv, Decided

\* And begin with.
LEMMA DecideInit ==
  ASSUME Init, Kind = "decide"
  PROVE  DecideInv
<1>1. task \in Tasks /\ d = [r \in 0 .. 3 |-> task.d[r + 1]] /\ pc = 1
      /\ a = [r \in {0, 1, 6, 7} |-> IF r = 7 THEN Stack ELSE 0]
  BY DEF Init
<1>2. \A r \in 0 .. 3 : GivenD(r) \in Values(Long) /\ d[r] = GivenD(r)
  BY <1>1, TaskOfDecide DEF GivenD
<1>3. \A r \in 0 .. 3 : d[r] \in Int BY <1>2 DEF Values
<1>4. d \in [0 .. 3 -> Int] BY <1>1, <1>3
<1>5. d[0] = GivenD(0) /\ d[1] = GivenD(1) /\ d[3] = GivenD(3) BY <1>2
<1>6. DOMAIN a = {0, 1, 6, 7} BY <1>1
<1> QED BY <1>1, <1>4, <1>5, <1>6 DEF DecideInv

\* The instructions of the program that compares strings.
LEMMA StringsCode ==
  ASSUME task \in Tasks, Kind = "strings"
  PROVE  /\ Halted <=> pc \notin 1 .. 8
         /\ pc = 1 => I = Ins("lea", "l", Abs(0), A(0))
         /\ pc = 2 => I = Ins("lea", "l", Abs(4), A(1))
         /\ pc = 3 => I = Ins("moveq", "l", Imm(1), D(0))
         /\ pc = 4 => I = Ins("cmpm", "b", Inc(0), Inc(1))
         /\ pc = 5 => I = Loop("ne", 0, 4)
         /\ pc = 6 => I = SetIf("hi", D(1))
         /\ pc = 7 => I = SetIf("cs", D(2))
         /\ pc = 8 => I = SetIf("eq", D(3))
<1>1. PICK p : p = task.program OBVIOUS
<1>2. p \in ProgramNames /\ p[1] = "strings" /\ Code[p] = Program(p)
  BY <1>1, TaskAssumption DEF Kind
<1>3. PICK c : c = Listing[p] OBVIOUS
<1>4. c = Strings BY <1>2, <1>3 DEF Program, Listing
<1>5. DOMAIN c = 1 .. 8 BY <1>4 DEF Strings
<1>6. /\ c[1] = Ins("lea", "l", Abs(0), A(0))
      /\ c[2] = Ins("lea", "l", Abs(4), A(1))
      /\ c[3] = Ins("moveq", "l", Imm(1), D(0))
      /\ c[4] = Ins("cmpm", "b", Inc(0), Inc(1))
      /\ c[5] = Loop("ne", 0, 4)
      /\ c[6] = SetIf("hi", D(1))
      /\ c[7] = SetIf("cs", D(2))
      /\ c[8] = SetIf("eq", D(3))
  BY <1>4 DEF Strings
<1>7. I = c[pc] /\ (Halted <=> pc \notin DOMAIN c) BY <1>1, <1>3 DEF I, Halted
<1> QED BY <1>5, <1>6, <1>7

\* The bytes that are given.
LEMMA GivenType == ASSUME task \in Tasks, NEW x \in Nat PROVE Given(x) \in 0 .. 255
<1>1. PICK b : b = task.bytes OBVIOUS
<1>2. b \in Seq(Values(256)) BY <1>1, TaskAssumption
<1>3. x < Len(b) => b[x + 1] \in Values(256)
  <2>1. Len(b) \in Nat /\ b \in [1 .. Len(b) -> Values(256)] BY <1>2
  <2>2. x < Len(b) => x + 1 \in 1 .. Len(b) BY <2>1
  <2> QED BY <2>1, <2>2
<1>4. Values(256) = 0 .. 255 BY DEF Values
<1>5. Given(x) = IF x < Len(b) THEN b[x + 1] ELSE 0 BY <1>1 DEF Given
<1> QED BY <1>3, <1>4, <1>5

\* The condition codes tell t from s.
Told(s, t) ==
  LET c == Condition(ccr)
  IN  (c.hi <=> t > s) /\ (c.cs <=> t < s) /\ (c.eq <=> t = s) /\ (c.ne <=> t # s)

\* Where the loop stands: k bytes have been compared before and were equal.
Passed(k) == k \in 0 .. 1 /\ d[0] = 1 - k /\ (k = 1 => Given(4) = Given(0))

\* What the instructions before pc have done to strings.
StringsInv ==
  /\ pc \in 1 .. 9
  /\ d \in [0 .. 3 -> Int] /\ DOMAIN a = {0, 1, 6, 7}
  /\ \A x \in 0 .. 7 : mem[x] = Given(x)
  /\ pc \in {2, 3} => a[0] = 0
  /\ pc = 3 => a[1] = 4
  /\ pc = 4 => \E k \in 0 .. 1 : Passed(k) /\ a[0] = k /\ a[1] = 4 + k
  /\ pc = 5 => \E k \in 0 .. 1 : /\ Passed(k) /\ a[0] = k + 1 /\ a[1] = 5 + k
                                 /\ Told(Given(k), Given(4 + k))
  /\ pc \in 6 .. 9 => Told(GivenWord(0), GivenWord(4))
  /\ pc \in 7 .. 9 => Low(1, 256) = IF GivenWord(4) > GivenWord(0) THEN 255 ELSE 0
  /\ pc \in 8 .. 9 => Low(2, 256) = IF GivenWord(4) < GivenWord(0) THEN 255 ELSE 0
  /\ pc = 9 => Low(3, 256) = IF GivenWord(4) = GivenWord(0) THEN 255 ELSE 0

\* With the task, its bytes stay.
LEMMA BytesKept ==
  ASSUME task' = task
  PROVE  /\ \A x : Given(x)' = Given(x)
         /\ GivenWord(0)' = GivenWord(0) /\ GivenWord(4)' = GivenWord(4)
<1>1. \A x : Given(x)' = Given(x) BY DEF Given
<1> QED BY <1>1 DEF GivenWord, Given

\* The first byte that differs decides between words.
LEMMA WordsDiffer ==
  ASSUME task \in Tasks
  PROVE  /\ GivenWord(0) \in Nat /\ GivenWord(4) \in Nat
         /\ Given(4) > Given(0) => GivenWord(4) > GivenWord(0)
         /\ Given(4) < Given(0) => GivenWord(4) < GivenWord(0)
         /\ Given(4) = Given(0) => /\ Given(5) > Given(1) => GivenWord(4) > GivenWord(0)
                                   /\ Given(5) < Given(1) => GivenWord(4) < GivenWord(0)
                                   /\ Given(5) = Given(1) => GivenWord(4) = GivenWord(0)
<1>1. PICK e, f, g, h \in 0 .. 255 :
        e = Given(0) /\ f = Given(1) /\ g = Given(4) /\ h = Given(5)
  <2>1. 0 \in Nat /\ 1 \in Nat /\ 4 \in Nat /\ 5 \in Nat OBVIOUS
  <2>2. \A x \in Nat : Given(x) \in 0 .. 255 BY GivenType
  <2> QED BY <2>1, <2>2
<1>2. GivenWord(0) = 256 * e + f /\ GivenWord(4) = 256 * g + h
  <2>1. 0 + 1 = 1 /\ 4 + 1 = 5 OBVIOUS
  <2>2. GivenWord(0) = 256 * Given(0) + Given(1) /\ GivenWord(4) = 256 * Given(4) + Given(5)
    BY <2>1 DEF GivenWord
  <2> QED BY <1>1, <2>2
<1> QED
  <2>1. Given(4) = g /\ Given(0) = e /\ Given(5) = h /\ Given(1) = f BY <1>1
  <2>2. 256 * e + f \in Nat /\ 256 * g + h \in Nat OBVIOUS
  <2>3. g > e => 256 * g + h > 256 * e + f OBVIOUS
  <2>4. g < e => 256 * g + h < 256 * e + f OBVIOUS
  <2> QED BY <1>2, <2>1, <2>2, <2>3, <2>4

\* Addresses and the counter are set up.
LEMMA StringsStart ==
  ASSUME Next, task \in Tasks, Kind = "strings", StringsInv, pc \in 1 .. 3
  PROVE  StringsInv'
<1>1. task' = task BY KeepsTask
<1>2. /\ d \in [0 .. 3 -> Int] /\ DOMAIN a = {0, 1, 6, 7}
      /\ \A x \in 0 .. 7 : mem[x] = Given(x)
      /\ pc \in {2, 3} => a[0] = 0
      /\ pc = 3 => a[1] = 4
  BY DEF StringsInv
<1>3. CASE pc = 1
  <2>1. I.op = "lea" /\ I.s = Abs(0) /\ I.t = A(0) BY <1>3, StringsCode, Fields
  <2>2. I.s.mode = "abs" /\ I.s.address = 0 /\ I.t.reg = 0 BY <2>1, Fields
  <2>3. Address(I.s, "l", a) = 0 BY <2>2 DEF Address
  <2>4. Lea BY <2>1, OneAction
  <2>5. a' = [a EXCEPT ![0] = 0] /\ pc' = 2 /\ d' = d /\ mem' = mem
    <3>1. PICK v, r : v = Address(I.s, "l", a) /\ r = I.t.reg OBVIOUS
    <3>2. a' = [a EXCEPT ![r] = v] /\ pc' = pc + 1 /\ d' = d /\ mem' = mem
      BY <2>4, <3>1 DEF Lea, Continue
    <3>3. v = 0 /\ r = 0 BY <2>2, <2>3, <3>1
    <3> QED BY <1>3, <3>2, <3>3
  <2>6. DOMAIN a' = {0, 1, 6, 7} /\ a'[0] = 0 BY <1>2, <2>5
  <2> QED BY <1>1, <1>2, <2>5, <2>6, BytesKept DEF StringsInv
<1>4. CASE pc = 2
  <2>1. I.op = "lea" /\ I.s = Abs(4) /\ I.t = A(1) BY <1>4, StringsCode, Fields
  <2>2. I.s.mode = "abs" /\ I.s.address = 4 /\ I.t.reg = 1 BY <2>1, Fields
  <2>3. Address(I.s, "l", a) = 4 BY <2>2 DEF Address
  <2>4. Lea BY <2>1, OneAction
  <2>5. a' = [a EXCEPT ![1] = 4] /\ pc' = 3 /\ d' = d /\ mem' = mem
    <3>1. PICK v, r : v = Address(I.s, "l", a) /\ r = I.t.reg OBVIOUS
    <3>2. a' = [a EXCEPT ![r] = v] /\ pc' = pc + 1 /\ d' = d /\ mem' = mem
      BY <2>4, <3>1 DEF Lea, Continue
    <3>3. v = 4 /\ r = 1 BY <2>2, <2>3, <3>1
    <3> QED BY <1>4, <3>2, <3>3
  <2>6. DOMAIN a' = {0, 1, 6, 7} /\ a'[0] = 0 /\ a'[1] = 4 BY <1>2, <1>4, <2>5
  <2> QED BY <1>1, <1>2, <2>5, <2>6, BytesKept DEF StringsInv
<1>5. CASE pc = 3
  <2>1. I.op = "moveq" /\ I.s = Imm(1) /\ I.t = D(0) BY <1>5, StringsCode, Fields
  <2>2. I.s.value = 1 /\ I.t.reg = 0 BY <2>1, Fields
  <2>3. Moveq BY <2>1, OneAction
  <2>4. SignExtend("b", 1) = 1
    <3>1. 1 \in 0 .. 127 OBVIOUS
    <3> QED BY <3>1, PositiveByte
  <2>5. a' = a /\ pc' = 4 /\ d' = [d EXCEPT ![0] = 1] /\ mem' = mem
    <3>1. PICK v : v = SignExtend("b", I.s.value) OBVIOUS
    <3>2. v = 1 BY <2>2, <2>4, <3>1
    <3>3. ToData(I.t.reg, v, MoveOp(256, ccr, I.s.value).f) BY <2>3, <3>1 DEF Moveq
    <3> QED BY <1>5, <2>2, <3>2, <3>3 DEF ToData, Continue
  <2>6. d' \in [0 .. 3 -> Int] /\ d'[0] = 1 BY <1>2, <2>5
  <2>7. Passed(0)' /\ a'[0] = 0 /\ a'[1] = 4 BY <1>2, <1>5, <2>5, <2>6 DEF Passed
  <2> QED BY <1>1, <1>2, <2>5, <2>6, <2>7, BytesKept DEF StringsInv
<1> QED BY <1>3, <1>4, <1>5

\* CMPM compares the next bytes and moves both addresses on.
LEMMA StringsCompare ==
  ASSUME Next, task \in Tasks, Kind = "strings", StringsInv, pc = 4
  PROVE  StringsInv'
<1>1. task' = task BY KeepsTask
<1>2. /\ d \in [0 .. 3 -> Int] /\ DOMAIN a = {0, 1, 6, 7}
      /\ \A x \in 0 .. 7 : mem[x] = Given(x)
  BY DEF StringsInv
<1>3. PICK k \in 0 .. 1 : Passed(k) /\ a[0] = k /\ a[1] = 4 + k BY DEF StringsInv
<1>4. I.op = "cmpm" /\ I.sz = "b" /\ I.s = Inc(0) /\ I.t = Inc(1) BY StringsCode, Fields
<1>5. I.s.mode = "inc" /\ I.s.reg = 0 /\ I.t.mode = "inc" /\ I.t.reg = 1 BY <1>4, Fields
<1>6. Cmpm BY <1>4, OneAction
<1>7. Stride(I.s, "b") = 1 /\ Stride(I.t, "b") = 1 BY <1>5 DEF Stride, Bytes
<1>8. Source = mem[a[0]] /\ AfterSource = [a EXCEPT ![0] = @ + 1]
  BY <1>4, <1>5, <1>7 DEF Source, AfterSource, Operand, Bump, Address, Peek
<1>9. PICK R : R = AfterSource OBVIOUS
<1>10. R = [a EXCEPT ![0] = k + 1] /\ R[0] = k + 1 /\ R[1] = 4 + k /\ DOMAIN R = {0, 1, 6, 7}
  BY <1>2, <1>3, <1>8, <1>9
<1>11. Operand(I.t, "b", R) = mem[R[1]] /\ Bump(I.t, "b", R) = [R EXCEPT ![1] = @ + 1]
  BY <1>5, <1>7 DEF Operand, Bump, Address, Peek
<1>12. Source = Given(k) /\ Operand(I.t, "b", R) = Given(4 + k)
  <2>1. k \in 0 .. 7 /\ 4 + k \in 0 .. 7 OBVIOUS
  <2> QED BY <1>2, <1>3, <1>8, <1>10, <1>11, <2>1
<1>13. /\ ccr' = CmpOp(256, ccr, Given(k), Given(4 + k)).f /\ pc' = 5 /\ d' = d /\ mem' = mem
       /\ a' = [R EXCEPT ![1] = @ + 1]
  <2>1. ccr' = CmpOp(Modulus[I.sz], ccr, Source, Operand(I.t, I.sz, R)).f
        /\ a' = Bump(I.t, I.sz, R) /\ pc' = pc + 1 /\ d' = d /\ mem' = mem
    BY <1>6, <1>9 DEF Cmpm, Compare, Continue
  <2> QED BY <1>4, <1>11, <1>12, <2>1, SizesEven
<1>14. a'[0] = k + 1 /\ a'[1] = 5 + k /\ DOMAIN a' = {0, 1, 6, 7} BY <1>10, <1>13
<1>15. Told(Given(k), Given(4 + k))'
  <2>1. PICK s, t \in 0 .. 255 : s = Given(k) /\ t = Given(4 + k)
    <3>1. k \in Nat /\ 4 + k \in Nat OBVIOUS
    <3> QED BY <3>1, GivenType
  <2>2. PICK h \in Nat, m \in Nat : h = 128 /\ m = 256 OBVIOUS
  <2>3. h > 0 /\ m = 2 * h /\ s \in Values(m) /\ t \in Values(m) BY <2>1, <2>2 DEF Values
  <2>4. PICK c : c = Condition(CmpOp(m, ccr, s, t).f) OBVIOUS
  <2>5. (c.hi <=> t > s) /\ (c.cs <=> t < s) /\ (c.eq <=> t = s) /\ (c.ne <=> t # s)
    BY <2>3, <2>4, ComparisonDecides
  <2>6. Condition(ccr') = c BY <1>13, <2>1, <2>2, <2>4
  <2>7. Given(k)' = s /\ Given(4 + k)' = t BY <1>1, <2>1, BytesKept
  <2> QED BY <2>5, <2>6, <2>7 DEF Told
<1>16. Passed(k)' BY <1>1, <1>3, <1>13, BytesKept DEF Passed
<1> QED BY <1>1, <1>2, <1>13, <1>14, <1>15, <1>16, BytesKept DEF StringsInv

\* The loop goes on with equal bytes, once.
LEMMA StringsLoop ==
  ASSUME Next, task \in Tasks, Kind = "strings", StringsInv, pc = 5
  PROVE  StringsInv'
<1>1. task' = task BY KeepsTask
<1>2. /\ d \in [0 .. 3 -> Int] /\ DOMAIN a = {0, 1, 6, 7}
      /\ \A x \in 0 .. 7 : mem[x] = Given(x)
  BY DEF StringsInv
<1>3. PICK k \in 0 .. 1 : /\ Passed(k) /\ a[0] = k + 1 /\ a[1] = 5 + k
                          /\ Told(Given(k), Given(4 + k))
  BY DEF StringsInv
<1>4. I.op = "dbcc" /\ I.cc = "ne" /\ I.t = D(0) /\ I.to = 4 BY StringsCode, Fields
<1>5. I.t.reg = 0 BY <1>4, Fields
<1>6. Dbcc BY <1>4, OneAction
<1>7. PICK c : c = Condition(ccr) OBVIOUS
<1>8. a' = a /\ mem' = mem /\ ccr' = ccr BY <1>6 DEF Dbcc
<1>9. d[0] = 1 - k /\ (k = 1 => Given(4) = Given(0)) BY <1>3 DEF Passed
<1>10. PICK s, t \in 0 .. 255 : s = Given(k) /\ t = Given(4 + k)
  <2>1. k \in Nat /\ 4 + k \in Nat OBVIOUS
  <2> QED BY <2>1, GivenType
<1>11. (c.hi <=> t > s) /\ (c.cs <=> t < s) /\ (c.eq <=> t = s) /\ (c.ne <=> t # s)
  BY <1>3, <1>7, <1>10 DEF Told
<1>12. d[0] % Word = 1 - k
  <2>1. 1 - k \in 0 .. Word - 1 /\ Word \in Nat BY SizesEven
  <2> QED BY <1>9, <2>1, ModBelow
<1>13. CASE t # s
  <2>1. c["ne"] BY <1>11, <1>13
  <2>2. d' = d /\ pc' = 6
    BY <1>4, <1>6, <1>7, <2>1 DEF Dbcc, Jump
  <2>3. Told(GivenWord(0), GivenWord(4))
    <3>1. CASE k = 0
      <4>1. s = Given(0) /\ t = Given(4) BY <1>10, <3>1
      <4> QED BY <1>7, <1>11, <1>13, <4>1, WordsDiffer DEF Told
    <3>2. CASE k = 1
      <4>1. s = Given(1) /\ t = Given(5) /\ Given(4) = Given(0) BY <1>9, <1>10, <3>2
      <4> QED BY <1>7, <1>11, <1>13, <4>1, WordsDiffer DEF Told
    <3> QED BY <3>1, <3>2
  <2>4. Told(GivenWord(0), GivenWord(4))'
    BY <1>1, <1>8, <2>3, BytesKept DEF Told
  <2> QED BY <1>1, <1>2, <1>8, <2>2, <2>4, BytesKept DEF StringsInv
<1>14. CASE t = s
  <2>1. ~c["ne"] BY <1>11, <1>14
  <2>2. PICK w : w = Insert(d[0], "w", ((d[0] % Word) - 1) % Word) OBVIOUS
  <2>3. d' = [d EXCEPT ![0] = w] /\ pc' = IF d[0] % Word # 0 THEN 4 ELSE 6
    BY <1>4, <1>5, <1>6, <1>7, <2>1, <2>2 DEF Dbcc, Jump
  <2>4. w \in Int /\ (k = 0 => w = 0)
    <3>1. PICK v : v = ((d[0] % Word) - 1) % Word OBVIOUS
    <3>2. v \in Values(Modulus["w"]) /\ (k = 0 => v = 0)
      <4>1. PICK y \in Int : y = (d[0] % Word) - 1 /\ y = 0 - k BY <1>12
      <4>2. y % Word \in Values(Modulus["w"])
        <5>1. PICK m \in Nat : m = Word /\ m = Modulus["w"] /\ m > 0 BY SizesEven
        <5>2. y % m \in 0 .. m - 1 BY <5>1, DivMod
        <5>3. Values(m) = 0 .. m - 1 BY DEF Values
        <5>4. y % m \in Values(m) BY <5>2, <5>3
        <5> QED BY <5>1, <5>4
      <4>3. y = 0 => y % Word = 0
        <5>1. 0 \in 0 .. Word - 1 /\ Word \in Nat BY SizesEven
        <5> QED BY <5>1, ModBelow
      <4>4. v = y % Word BY <3>1, <4>1, Zenon
      <4>5. k = 0 => y = 0 BY <4>1
      <4> QED BY <4>2, <4>3, <4>4, <4>5, Zenon
    <3>3. w = Insert(d[0], "w", v) BY <2>2, <3>1
    <3>4. w \in Int
      <4>1. d[0] \in Int /\ "w" \in {"b", "w", "l"} BY <1>2
      <4> QED BY <3>2, <3>3, <4>1, InsertLow
    <3>5. k = 0 => w = 0
      <4>1. w = d[0] - (d[0] % Word) + v BY <3>3, SizesEven DEF Insert
      <4>2. k = 0 => d[0] = 1 /\ d[0] % Word = 1 /\ v = 0 BY <1>9, <1>12, <3>2
      <4> QED BY <4>1, <4>2
    <3> QED BY <3>4, <3>5
  <2>5. d' \in [0 .. 3 -> Int] /\ d'[0] = w BY <1>2, <2>3, <2>4
  <2>6. CASE k = 0
    <3>1. pc' = 4 /\ d'[0] = 0 BY <1>12, <2>3, <2>4, <2>5, <2>6
    <3>2. Given(4) = Given(0) BY <1>10, <1>14, <2>6
    <3>3. a'[0] = 1 /\ a'[1] = 5 BY <1>3, <1>8, <2>6
    <3>4. Passed(1)' BY <1>1, <3>1, <3>2, BytesKept DEF Passed
    <3>5. \E j \in 0 .. 1 : Passed(j)' /\ a'[0] = j /\ a'[1] = 4 + j BY <3>3, <3>4
    <3> QED BY <1>1, <1>2, <1>8, <2>5, <3>1, <3>5, BytesKept DEF StringsInv
  <2>7. CASE k = 1
    <3>1. pc' = 6 BY <1>12, <2>3, <2>7
    <3>2. s = Given(1) /\ t = Given(5) /\ Given(4) = Given(0) BY <1>9, <1>10, <2>7
    <3>3. Told(GivenWord(0), GivenWord(4)) BY <1>7, <1>11, <1>14, <3>2, WordsDiffer DEF Told
    <3>4. Told(GivenWord(0), GivenWord(4))' BY <1>1, <1>8, <3>3, BytesKept DEF Told
    <3> QED BY <1>1, <1>2, <1>8, <2>5, <3>1, <3>4, BytesKept DEF StringsInv
  <2> QED BY <2>6, <2>7
<1> QED BY <1>13, <1>14

\* Three conditions are put into registers.
LEMMA StringsSet ==
  ASSUME Next, task \in Tasks, Kind = "strings", StringsInv, pc \in 6 .. 8
  PROVE  StringsInv'
<1> DEFINE cc == IF pc = 6 THEN "hi" ELSE IF pc = 7 THEN "cs" ELSE "eq"
<1>1. task' = task BY KeepsTask
<1>2. /\ d \in [0 .. 3 -> Int] /\ DOMAIN a = {0, 1, 6, 7}
      /\ \A x \in 0 .. 7 : mem[x] = Given(x)
      /\ Told(GivenWord(0), GivenWord(4))
      /\ pc \in 7 .. 8 => Low(1, 256) = IF GivenWord(4) > GivenWord(0) THEN 255 ELSE 0
      /\ pc = 8 => Low(2, 256) = IF GivenWord(4) < GivenWord(0) THEN 255 ELSE 0
  BY DEF StringsInv
<1>3. PICK r \in 1 .. 3 : r = pc - 5 OBVIOUS
<1>4. I.op = "scc" /\ I.cc = cc /\ I.t = D(r)
  <2>1. pc = 6 \/ pc = 7 \/ pc = 8 OBVIOUS
  <2> QED BY <1>3, <2>1, StringsCode, Fields
<1>5. PICK q : q = cc OBVIOUS
<1>6. q \in {"hi", "cs", "eq"} /\ q # "lt" BY <1>5
<1>7. q \in Conditions
  <2>1. {"hi", "cs", "eq"} \subseteq Conditions BY DEF Condition, Conditions
  <2> QED BY <1>6, <2>1
<1> HIDE DEF cc
<1>8. Scc BY <1>4, OneAction
<1>9. /\ pc' = pc + 1 /\ a' = a /\ ccr' = ccr /\ mem' = mem /\ d' \in [0 .. 3 -> Int]
      /\ \A x \in 0 .. 3 : x # r => d'[x] = d[x]
      /\ d'[r] % 256 = IF Condition(ccr)[q] THEN 255 ELSE 0
  <2>1. r \in 0 .. 3 OBVIOUS
  <2> QED BY <1>2, <1>4, <1>5, <1>6, <1>7, <1>8, <2>1, SetInto
<1>10. PICK s, t : s = GivenWord(0) /\ t = GivenWord(4) OBVIOUS
<1>11. PICK c : c = Condition(ccr) OBVIOUS
<1>12. (c.hi <=> t > s) /\ (c.cs <=> t < s) /\ (c.eq <=> t = s) BY <1>2, <1>10, <1>11 DEF Told
<1>13. Told(GivenWord(0), GivenWord(4))' BY <1>1, <1>2, <1>9, BytesKept DEF Told
<1>14. GivenWord(0)' = s /\ GivenWord(4)' = t BY <1>1, <1>10, BytesKept
<1>15. \A x \in 1 .. 3 : Low(x, 256)' = d'[x] % 256 /\ Low(x, 256) = d[x] % 256 BY DEF Low
<1>16. CASE pc = 6
  <2>1. r = 1 /\ q = "hi" BY <1>3, <1>5, <1>16 DEF cc
  <2>2. Low(1, 256)' = IF t > s THEN 255 ELSE 0 BY <1>9, <1>11, <1>12, <1>15, <2>1
  <2> QED BY <1>1, <1>2, <1>9, <1>13, <1>14, <1>16, <2>2, BytesKept DEF StringsInv
<1>17. CASE pc = 7
  <2>1. r = 2 /\ q = "cs" BY <1>3, <1>5, <1>17 DEF cc
  <2>2. Low(2, 256)' = IF t < s THEN 255 ELSE 0 BY <1>9, <1>11, <1>12, <1>15, <2>1
  <2>3. Low(1, 256)' = IF t > s THEN 255 ELSE 0 BY <1>2, <1>9, <1>10, <1>15, <1>17, <2>1
  <2> QED BY <1>1, <1>2, <1>9, <1>13, <1>14, <1>17, <2>2, <2>3, BytesKept DEF StringsInv
<1>18. CASE pc = 8
  <2>1. r = 3 /\ q = "eq" BY <1>3, <1>5, <1>18 DEF cc
  <2>2. Low(3, 256)' = IF t = s THEN 255 ELSE 0 BY <1>9, <1>11, <1>12, <1>15, <2>1
  <2>3. Low(1, 256)' = IF t > s THEN 255 ELSE 0 BY <1>2, <1>9, <1>10, <1>15, <1>18, <2>1
  <2>4. Low(2, 256)' = IF t < s THEN 255 ELSE 0 BY <1>2, <1>9, <1>10, <1>15, <1>18, <2>1
  <2> QED BY <1>1, <1>2, <1>9, <1>13, <1>14, <1>18, <2>2, <2>3, <2>4, BytesKept DEF StringsInv
<1> QED BY <1>16, <1>17, <1>18

\* The task that compares strings, as a whole, its end and its beginning.
LEMMA StringsStep ==
  ASSUME Next, task \in Tasks, Kind = "strings", StringsInv
  PROVE  StringsInv'
<1>1. ~Halted /\ (Halted <=> pc \notin 1 .. 8) BY StringsCode, OneAction
<1>2. pc \in 1 .. 3 \/ pc = 4 \/ pc = 5 \/ pc \in 6 .. 8 BY <1>1 DEF StringsInv
<1> QED BY <1>2, StringsStart, StringsCompare, StringsLoop, StringsSet

LEMMA StringsEnd ==
  ASSUME task \in Tasks, Kind = "strings", StringsInv, Halted
  PROVE  StringsDecided
<1>1. pc = 9 BY StringsCode DEF StringsInv
<1>2. PICK s, t : s = GivenWord(0) /\ t = GivenWord(4) OBVIOUS
<1>3. /\ Low(1, 256) = IF t > s THEN 255 ELSE 0
      /\ Low(2, 256) = IF t < s THEN 255 ELSE 0
      /\ Low(3, 256) = IF t = s THEN 255 ELSE 0
  BY <1>1, <1>2 DEF StringsInv
<1> QED BY <1>2, <1>3 DEF StringsDecided

LEMMA StringsInit ==
  ASSUME Init, Kind = "strings"
  PROVE  StringsInv
<1>1. /\ task \in Tasks /\ d = [r \in 0 .. 3 |-> task.d[r + 1]] /\ pc = 1
      /\ a = [r \in {0, 1, 6, 7} |-> IF r = 7 THEN Stack ELSE 0]
      /\ mem = [x \in 0 .. Stack - 1 |-> IF x < Len(task.bytes) THEN task.bytes[x + 1] ELSE 0]
  BY DEF Init
<1>2. \A x \in 0 .. 7 : mem[x] = Given(x)
  <2>1. \A x \in 0 .. 7 : x \in 0 .. Stack - 1 BY TaskAssumption
  <2> QED BY <1>1, <2>1 DEF Given
<1>3. d \in [0 .. 3 -> Int]
  <2>1. PICK g : g = task.d OBVIOUS
  <2>2. g \in [1 .. 4 -> Values(Long)] BY <1>1, <2>1, TaskAssumption
  <2>3. \A r \in 0 .. 3 : g[r + 1] \in Int
    <3>1. \A r \in 0 .. 3 : r + 1 \in 1 .. 4 OBVIOUS
    <3>2. \A i \in 1 .. 4 : g[i] \in Int BY <2>2 DEF Values
    <3> QED BY <3>1, <3>2
  <2> QED BY <1>1, <2>1, <2>3
<1>4. DOMAIN a = {0, 1, 6, 7} BY <1>1
<1> QED BY <1>1, <1>2, <1>3, <1>4 DEF StringsInv

-----------------------------------------------------------------------------
\* The inductive invariant of OrderDecided.
OrderInv ==
  /\ task \in Tasks
  /\ Kind = "decide" => DecideInv
  /\ Kind = "strings" => StringsInv

\* Every step keeps it.
LEMMA OrderStep == OrderInv /\ [Next]_vars => OrderInv'
<1> SUFFICES ASSUME OrderInv, [Next]_vars PROVE OrderInv' OBVIOUS
<1>1. CASE Next
  <2>1. task' = task /\ task' \in Tasks /\ Kind' = Kind BY <1>1, KeepsTask DEF OrderInv, Kind
  <2>2. Kind = "decide" => DecideInv' BY <1>1, DecideStep DEF OrderInv
  <2>3. Kind = "strings" => StringsInv' BY <1>1, StringsStep DEF OrderInv
  <2> QED BY <2>1, <2>2, <2>3 DEF OrderInv
<1>2. CASE UNCHANGED vars
  <2>1. task' = task /\ d' = d /\ a' = a /\ ccr' = ccr /\ mem' = mem /\ pc' = pc
    BY <1>2 DEF vars
  <2>2. Kind' = Kind BY <2>1 DEF Kind
  <2>3. DecideInv' <=> DecideInv BY <2>1, TaskKept DEF DecideInv, Low
  <2>4. StringsInv' <=> StringsInv BY <2>1, BytesKept DEF StringsInv, Low, Told, Passed
  <2> QED BY <2>1, <2>2, <2>3, <2>4 DEF OrderInv
<1> QED BY <1>1, <1>2

\* Whatever the operands, a comparison decides every branch, loop and Scc that
\* follows it by the relation of its operands, and strings up to their first
\* difference.
THEOREM OrderAlways == Spec => []OrderDecided
<1>1. Init => OrderInv BY DecideInit, StringsInit DEF OrderInv, Init
<1>2. OrderInv => OrderDecided BY DecideEnd, StringsEnd DEF OrderInv, OrderDecided, Done
<1> QED BY <1>1, <1>2, OrderStep, PTL DEF Spec

-----------------------------------------------------------------------------
(* Sums of digits: programs that add, subtract and negate digit by digit.     *)
\* Numbers of two digits are ordered by the high one.
LEMMA DigitsOrder ==
  ASSUME NEW m \in Nat, m > 0, NEW S \in Int, NEW K \in Int, NEW l \in 0 .. m - 1
  PROVE  m * S \in Int /\ m * K \in Int /\ (m * S + l >= m * K <=> S >= K)
<1>1. m * S \in Int /\ m * K \in Int OBVIOUS
<1>2. CASE S >= K
  <2>1. PICK e \in Nat : S = K + e
    <3>1. S - K \in Nat /\ S = K + (S - K) BY <1>2
    <3> QED BY <3>1
  <2>2. m * S = m * K + m * e /\ m * e >= 0 /\ m * e \in Int BY <2>1
  <2> QED BY <1>1, <1>2, <2>2
<1>3. CASE ~(S >= K)
  <2>1. PICK e \in Nat : K = S + 1 + e
    <3>1. K - S - 1 \in Nat /\ K = S + 1 + (K - S - 1) BY <1>3
    <3> QED BY <3>1
  <2>2. m * K = m * S + m + m * e /\ m * e >= 0 /\ m * e \in Int BY <2>1
  <2> QED BY <1>1, <1>3, <2>2
<1> QED BY <1>1, <1>2, <1>3

\* The sign of two digits is that of the high one.
LEMMA SignedDigits ==
  ASSUME NEW h \in Nat, h > 0, NEW m \in Nat, m = 2 * h,
         NEW th \in Values(m), NEW tl \in Values(m)
  PROVE  /\ (m * m) \div 2 = m * h /\ m * m \in Nat /\ m * m > 0 /\ m * m = 2 * (m * h)
         /\ m * h \in Nat /\ m * h > 0
         /\ m * th + tl \in 0 .. m * m - 1
         /\ Signed(m, th) \in Int
         /\ Signed(m * m, m * th + tl) = m * Signed(m, th) + tl
<1>1. th \in 0 .. m - 1 /\ tl \in 0 .. m - 1 BY DEF Values
<1>2. PICK mm \in Nat, mh \in Nat : mm = m * m /\ mh = m * h
  <2>1. m * m \in Nat /\ m * h \in Nat OBVIOUS
  <2> QED BY <2>1
<1>3. mm = 2 * mh /\ mh > 0
  <2>1. m * m = 2 * (m * h) BY <1>2
  <2>2. m * h >= m OBVIOUS
  <2> QED BY <1>2, <2>1, <2>2
<1>4. PICK t \in Int : t = m * th + tl
  <2>1. m * th \in Int BY <1>1
  <2> QED BY <1>1, <2>1
<1>5. (t >= mh <=> th >= h) /\ (t >= mm <=> th >= m) /\ t >= 0
  <2>1. th \in Int /\ 0 \in Int /\ m \in Int /\ h \in Int BY <1>1
  <2>2. m * th + tl >= m * h <=> th >= h BY <1>1, <2>1, DigitsOrder
  <2>3. m * th + tl >= m * m <=> th >= m BY <1>1, <2>1, DigitsOrder
  <2>4. m * th + tl >= m * 0 <=> th >= 0 BY <1>1, <2>1, DigitsOrder
  <2> QED BY <1>1, <1>2, <1>4, <2>2, <2>3, <2>4
<1>6. t \in 0 .. mm - 1 BY <1>1, <1>4, <1>5
<1>7. Signed(mm, t) = IF t >= mh THEN t - mm ELSE t BY <1>2, <1>3, <1>4, TopHalf
<1>8. PICK g \in Int : g = Signed(m, th) /\ g = IF th >= h THEN th - m ELSE th
  <2>1. Signed(m, th) = IF th >= h THEN th - m ELSE th BY <1>1, TopHalf
  <2> QED BY <1>1, <2>1
<1>9. m * g = IF th >= h THEN m * th - mm ELSE m * th
  <2>1. m * (th - m) = m * th - m * m BY <1>1
  <2> QED BY <1>2, <1>8, <2>1
<1>10. mm \div 2 = mh BY <1>3
<1>11. Signed(mm, t) = m * g + tl
  <2>1. m * g \in Int /\ m * th \in Int BY <1>1
  <2> QED BY <1>1, <1>4, <1>5, <1>7, <1>9, <2>1
<1> QED BY <1>2, <1>3, <1>4, <1>6, <1>8, <1>10, <1>11

\* A digit r with the carry c out of it, from t, e times s and the carry b.
Carries(m, e, t, s, b, r, c) ==
  /\ t \in Values(m) /\ s \in Values(m) /\ r \in Values(m) /\ b \in Int /\ c \in Int
  /\ r + m * c = t + e * s + b

\* Two digits with the carries c0 and c1 out of them make the number that is e
\* times s more than t.
SumRight(e, m, h, tl, th, sl, sh, rl, rh, c0, c1) ==
  LET mm == m * m
      t == m * th + tl
      s == m * sh + sl
      r == m * rh + rl
      exact == t + e * s
      sgn == Signed(mm, t) + e * Signed(mm, s)
      top == Signed(m, th) + e * Signed(m, sh) + c0
  IN  /\ r = exact % mm /\ (r = 0 <=> rl = 0 /\ rh = 0)
      /\ c1 # 0 <=> exact \notin 0 .. mm - 1
      /\ sgn \notin -(mm \div 2) .. mm \div 2 - 1 <=> top \notin -h .. h - 1
      /\ sgn < 0 <=> top < 0

\* Two digits that are right with their carries make a number that is: e is 1
\* for sums and -1 for differences.
LEMMA DigitsExact ==
  ASSUME NEW h \in Nat, h > 0, NEW m \in Nat, m = 2 * h, NEW e \in {1, -1},
         NEW tl, NEW th, NEW sl, NEW sh, NEW rl, NEW rh, NEW c0, NEW c1,
         Carries(m, e, tl, sl, 0, rl, c0), Carries(m, e, th, sh, c0, rh, c1)
  PROVE  SumRight(e, m, h, tl, th, sl, sh, rl, rh, c0, c1)
<1> SUFFICES ASSUME NEW mm, mm = m * m, NEW t, t = m * th + tl, NEW s, s = m * sh + sl,
                    NEW r, r = m * rh + rl, NEW exact, exact = t + e * s,
                    NEW sgn, sgn = Signed(mm, t) + e * Signed(mm, s),
                    NEW top, top = Signed(m, th) + e * Signed(m, sh) + c0
    PROVE  /\ r = exact % mm /\ (r = 0 <=> rl = 0 /\ rh = 0)
           /\ c1 # 0 <=> exact \notin 0 .. mm - 1
           /\ sgn \notin -(mm \div 2) .. mm \div 2 - 1 <=> top \notin -h .. h - 1
           /\ sgn < 0 <=> top < 0
  BY DEF SumRight
<1>1. /\ th \in 0 .. m - 1 /\ tl \in 0 .. m - 1 /\ sh \in 0 .. m - 1 /\ sl \in 0 .. m - 1
      /\ rh \in 0 .. m - 1 /\ rl \in 0 .. m - 1 /\ c0 \in Int /\ c1 \in Int
  BY DEF Carries, Values
<1>2. rl + m * c0 = tl + e * sl /\ rh + m * c1 = th + e * sh + c0
  <2>1. rl + m * c0 = tl + e * sl + 0 /\ rh + m * c1 = th + e * sh + c0 BY DEF Carries
  <2>2. tl + e * sl \in Int BY <1>1
  <2> QED BY <2>1, <2>2
<1>3. PICK gt \in Int, gs \in Int : /\ gt = Signed(m, th) /\ gs = Signed(m, sh)
                                    /\ Signed(mm, t) = m * gt + tl /\ Signed(mm, s) = m * gs + sl
  <2>1. th \in Values(m) /\ tl \in Values(m) /\ sh \in Values(m) /\ sl \in Values(m)
    BY DEF Carries
  <2>2. Signed(m, th) \in Int /\ Signed(m * m, m * th + tl) = m * Signed(m, th) + tl
    BY <2>1, SignedDigits
  <2>3. Signed(m, sh) \in Int /\ Signed(m * m, m * sh + sl) = m * Signed(m, sh) + sl
    BY <2>1, SignedDigits
  <2> QED BY <2>2, <2>3
<1>4. mm \in Nat /\ mm > 0 /\ mm = m * m /\ mm \div 2 = m * h /\ r \in 0 .. mm - 1
  <2>1. rh \in Values(m) /\ rl \in Values(m) BY DEF Carries
  <2> QED BY <2>1, SignedDigits
<1>5. exact = r + mm * c1 /\ exact \in Int
  <2>1. r + mm * c1 = m * (rh + m * c1) + rl
    <3>1. m * (rh + m * c1) = m * rh + m * (m * c1) BY <1>1
    <3>2. m * (m * c1) = (m * m) * c1 BY <1>1
    <3>3. m * rh \in Int /\ m * (m * c1) \in Int BY <1>1
    <3> QED BY <1>1, <3>1, <3>2, <3>3
  <2>2. CASE e = 1
    <3>1. rh + m * c1 = th + sh + c0 /\ rl = tl + sl - m * c0 /\ exact = t + s
      <4>1. e * sl = sl /\ e * sh = sh /\ e * s = s
        <5>1. s \in Int BY <1>1
        <5> QED BY <1>1, <2>2, <5>1
      <4>2. m * c0 \in Int BY <1>1
      <4> QED BY <1>2, <1>1, <4>1, <4>2
    <3>2. m * (th + sh + c0) = m * th + m * sh + m * c0 BY <1>1
    <3>3. m * th \in Int /\ m * sh \in Int /\ m * c0 \in Int BY <1>1
    <3> QED BY <1>1, <2>1, <3>1, <3>2, <3>3
  <2>3. CASE e = -1
    <3>1. rh + m * c1 = th - sh + c0 /\ rl = tl - sl - m * c0 /\ exact = t - s
      <4>1. e * sl = -sl /\ e * sh = -sh /\ e * s = -s
        <5>1. s \in Int BY <1>1
        <5> QED BY <1>1, <2>3, <5>1
      <4>2. m * c0 \in Int /\ s \in Int /\ t \in Int BY <1>1
      <4> QED BY <1>2, <1>1, <4>1, <4>2
    <3>2. m * (th - sh + c0) = m * th - m * sh + m * c0 BY <1>1
    <3>3. m * th \in Int /\ m * sh \in Int /\ m * c0 \in Int BY <1>1
    <3> QED BY <1>1, <2>1, <3>1, <3>2, <3>3
  <2> QED BY <2>2, <2>3
<1>6. sgn = m * top + rl /\ top \in Int
  <2>1. CASE e = 1
    <3>1. top = gt + gs + c0 /\ rl = tl + sl - m * c0 /\ sgn = (m * gt + tl) + (m * gs + sl)
      <4>1. e * sl = sl /\ e * gs = gs BY <1>1, <2>1
      <4>2. m * c0 \in Int /\ m * gt \in Int /\ m * gs \in Int BY <1>1
      <4>3. e * (m * gs + sl) = m * gs + sl BY <1>1, <2>1, <4>2
      <4>4. rl = tl + sl - m * c0 BY <1>2, <1>1, <4>1, <4>2
      <4> QED BY <1>1, <1>3, <4>1, <4>2, <4>3, <4>4
    <3>2. m * (gt + gs + c0) = m * gt + m * gs + m * c0 BY <1>1
    <3>3. PICK x, y, z \in Int : x = m * c0 /\ y = m * gt /\ z = m * gs
      <4>1. m * c0 \in Int /\ m * gt \in Int /\ m * gs \in Int BY <1>1
      <4> QED BY <4>1
    <3>4. m * top = y + z + x BY <3>1, <3>2, <3>3
    <3>5. rl = tl + sl - x /\ sgn = (y + tl) + (z + sl) BY <3>1, <3>3
    <3>6. rl \in Int /\ tl \in Int /\ sl \in Int BY <1>1
    <3>7. top \in Int BY <1>1, <3>1
    <3>8. PICK g \in Int : g = m * top BY <3>7
    <3>9. sgn = g + rl BY <3>4, <3>5, <3>6, <3>8
    <3> QED BY <3>7, <3>8, <3>9
  <2>2. CASE e = -1
    <3>1. top = gt - gs + c0 /\ rl = tl - sl - m * c0 /\ sgn = (m * gt + tl) - (m * gs + sl)
      <4>1. e * sl = -sl /\ e * gs = -gs BY <1>1, <2>2
      <4>2. m * c0 \in Int /\ m * gt \in Int /\ m * gs \in Int BY <1>1
      <4>3. e * (m * gs + sl) = -(m * gs + sl) BY <1>1, <2>2, <4>2
      <4>4. rl = tl - sl - m * c0 BY <1>2, <1>1, <4>1, <4>2
      <4> QED BY <1>1, <1>3, <4>1, <4>2, <4>3, <4>4
    <3>2. m * (gt - gs + c0) = m * gt - m * gs + m * c0 BY <1>1
    <3>3. PICK x, y, z \in Int : x = m * c0 /\ y = m * gt /\ z = m * gs
      <4>1. m * c0 \in Int /\ m * gt \in Int /\ m * gs \in Int BY <1>1
      <4> QED BY <4>1
    <3>4. m * top = y - z + x BY <3>1, <3>2, <3>3
    <3>5. rl = tl - sl - x /\ sgn = (y + tl) - (z + sl) BY <3>1, <3>3
    <3>6. rl \in Int /\ tl \in Int /\ sl \in Int BY <1>1
    <3>7. top \in Int BY <1>1, <3>1
    <3>8. PICK g \in Int : g = m * top BY <3>7
    <3>9. sgn = g + rl
      <4>1. g = y - z + x BY <3>4, <3>8
      <4>2. (y + tl) - (z + sl) = (y - z + x) + (tl - sl - x) BY <3>6
      <4> QED BY <3>5, <4>1, <4>2
    <3> QED BY <3>7, <3>8, <3>9
  <2> QED BY <2>1, <2>2
<1>7. r = exact % mm
  <2>1. (mm * c1 + r) % mm = r BY <1>1, <1>4, ModOfSum
  <2>2. mm * c1 \in Int BY <1>1, <1>4
  <2> QED BY <1>1, <1>4, <1>5, <2>1, <2>2
<1>8. c1 # 0 <=> exact \notin 0 .. mm - 1
  <2>1. mm * c1 + r >= mm * 0 <=> c1 >= 0 BY <1>1, <1>4, DigitsOrder
  <2>2. mm * c1 + r >= mm * 1 <=> c1 >= 1 BY <1>1, <1>4, DigitsOrder
  <2>3. mm * c1 \in Int BY <1>1, <1>4
  <2> QED BY <1>1, <1>4, <1>5, <2>1, <2>2, <2>3
<1>9. r = 0 <=> rl = 0 /\ rh = 0
  <2>1. m * rh + rl >= m * 1 <=> rh >= 1 BY <1>1, DigitsOrder
  <2>2. rh = 0 => m * rh = 0 OBVIOUS
  <2> QED BY <1>1, <2>1, <2>2
<1>10. PICK S \in Int : S = top BY <1>6
<1>11. /\ sgn >= m * h <=> S >= h
       /\ sgn >= m * (-h) <=> S >= -h
       /\ sgn >= m * 0 <=> S >= 0
  BY <1>1, <1>6, <1>10, DigitsOrder
<1>12. m * (-h) = -(m * h) /\ m * h \in Int /\ m * S \in Int OBVIOUS
<1> QED BY <1>1, <1>4, <1>6, <1>7, <1>8, <1>9, <1>10, <1>11, <1>12

\* The operations that take X from the digit before.
Digit(op, m, f, s, t) ==
  CASE op = "addx" -> AddxOp(m, f, s, t)
    [] op = "subx" -> SubxOp(m, f, s, t)
    [] op = "negx" -> NegxOp(m, f, t)
    [] op = "abcd" -> AbcdOp(f, s, t)
    [] op = "sbcd" -> SbcdOp(f, s, t)

\* Before the low digit X is clear and Z set.
Fresh == ToFlags(4)

\* In these X is clear and Z is set.
LEMMA FreshFlags == Fresh.x = FALSE /\ Fresh.z = TRUE
<1>1. 2^4 = 16 /\ 2^2 = 4 OBVIOUS
<1>2. ~Bit(4, 4) /\ Bit(4, 2)
  <2>1. (4 \div 16) % 2 = 0 /\ (4 \div 4) % 2 = 1 OBVIOUS
  <2> QED BY <1>1, <2>1 DEF Bit
<1>3. Fresh.x = Bit(4, 4) /\ Fresh.z = Bit(4, 2) BY DEF Fresh, ToFlags
<1>4. Bit(4, 4) \in BOOLEAN /\ Bit(4, 2) \in BOOLEAN BY DEF Bit
<1> QED BY <1>2, <1>3, <1>4

\* The operations put out Boolean condition codes.
LEMMA DigitBoolean ==
  ASSUME NEW m, NEW f, NEW s, NEW t, NEW p,
         p \in {AddxOp(m, f, s, t), SubxOp(m, f, s, t), NegxOp(m, f, t)}
  PROVE  /\ p.f.x \in BOOLEAN /\ p.f.c \in BOOLEAN /\ p.f.z \in BOOLEAN
         /\ p.f.v \in BOOLEAN /\ p.f.n \in BOOLEAN
<1>1. \A k, x : Top(k, x) \in BOOLEAN BY DEF Top
<1>2. CASE p = AddxOp(m, f, s, t)
  BY <1>1, <1>2, Zenon DEF AddxOp, SetAddx, CarryOut, AddOverflow
<1>3. CASE p = SubxOp(m, f, s, t)
  BY <1>1, <1>3, Zenon DEF SubxOp, SetSubx, BorrowOut, SubOverflow
<1>4. CASE p = NegxOp(m, f, t)
  BY <1>4, <1>1, Zenon DEF NegxOp, SetNegx
<1> QED BY <1>2, <1>3, <1>4

\* A digit is right: l and r are the terms of its sign, 0 and t for a negation.
DigitRight(e, m, h, l, r, x, p) ==
  /\ p.r \in Values(m)
  /\ p.r + m * (e * One(p.f.x)) = l + e * r + e * x
  /\ p.f.c <=> p.f.x
  /\ p.f.v <=> Signed(m, l) + e * Signed(m, r) + e * x \notin -h .. h - 1
  /\ ~(p.f.n <=> p.f.v) <=> Signed(m, l) + e * Signed(m, r) + e * x < 0

\* A digit that is subtracted, with what it borrows, is right.
LEMMA SubxRight ==
  ASSUME NEW h \in Nat, h > 0, NEW m \in Nat, m = 2 * h, NEW s \in Values(m), NEW t \in Values(m),
         NEW f, NEW p, p = SubxOp(m, f, s, t)
  PROVE  DigitRight(-1, m, h, t, s, One(f.x), p) /\ (p.f.z <=> f.z /\ p.r = 0)
<1>1. /\ p.r \in Values(m)
      /\ p.r - m * One(p.f.x) = t - s - One(f.x)
      /\ p.f.c <=> p.f.x
      /\ p.f.z <=> f.z /\ p.r = 0
      /\ p.f.v <=> Signed(m, t) - Signed(m, s) - One(f.x) \notin -h .. h - 1
      /\ ~(p.f.n <=> p.f.v) <=> Signed(m, t) - Signed(m, s) - One(f.x) < 0
  BY SubxExact, Z3
<1>2. PICK x, y \in {0, 1} : x = One(f.x) /\ y = One(p.f.x) BY OneType
<1>3. PICK a1, b1 \in Int : a1 = Signed(m, t) /\ b1 = Signed(m, s)
  <2>1. Signed(m, t) \in Int /\ Signed(m, s) \in Int BY SignedDigits
  <2> QED BY <2>1
<1>4. s \in Int /\ t \in Int /\ p.r \in Int BY <1>1 DEF Values
<1>5. a1 + (-1) * b1 + (-1) * x = a1 - b1 - x BY <1>2, <1>3
<1>6. p.r + m * ((-1) * y) = t + (-1) * s + (-1) * x
  <2>1. p.r - m * y = t - s - x BY <1>1, <1>2
  <2>2. m * ((-1) * y) = -(m * y) /\ m * y \in Int BY <1>2
  <2> QED BY <1>2, <1>4, <2>1, <2>2
<1> QED BY <1>1, <1>2, <1>3, <1>5, <1>6 DEF DigitRight

\* The same of a digit that is added.
LEMMA AddxRight ==
  ASSUME NEW h \in Nat, h > 0, NEW m \in Nat, m = 2 * h, NEW s \in Values(m), NEW t \in Values(m),
         NEW f, NEW p, p = AddxOp(m, f, s, t)
  PROVE  DigitRight(1, m, h, t, s, One(f.x), p) /\ (p.f.z <=> f.z /\ p.r = 0)
<1>1. /\ p.r \in Values(m)
      /\ p.r + m * One(p.f.x) = t + s + One(f.x)
      /\ p.f.c <=> p.f.x
      /\ p.f.z <=> f.z /\ p.r = 0
      /\ p.f.v <=> Signed(m, t) + Signed(m, s) + One(f.x) \notin -h .. h - 1
      /\ ~(p.f.n <=> p.f.v) <=> Signed(m, t) + Signed(m, s) + One(f.x) < 0
  BY AddxExact
<1>2. PICK x, y \in {0, 1} : x = One(f.x) /\ y = One(p.f.x) BY OneType
<1>3. PICK a1, b1 \in Int : a1 = Signed(m, t) /\ b1 = Signed(m, s)
  <2>1. Signed(m, t) \in Int /\ Signed(m, s) \in Int BY SignedDigits
  <2> QED BY <2>1
<1>4. s \in Int /\ t \in Int BY DEF Values
<1>5. 1 * b1 = b1 /\ 1 * x = x /\ 1 * y = y /\ 1 * s = s BY <1>2, <1>3, <1>4
<1> QED BY <1>1, <1>2, <1>3, <1>5 DEF DigitRight

\* The same of a digit that is negated.
LEMMA NegxRight ==
  ASSUME NEW h \in Nat, h > 0, NEW m \in Nat, m = 2 * h, NEW t \in Values(m),
         NEW f, NEW p, p = NegxOp(m, f, t)
  PROVE  DigitRight(-1, m, h, 0, t, One(f.x), p) /\ (p.f.z <=> f.z /\ p.r = 0)
<1>1. PICK q : q = SubxOp(m, f, t, 0) OBVIOUS
<1>2. 0 \in Values(m) BY DEF Values
<1>3. DigitRight(-1, m, h, 0, t, One(f.x), q) /\ (q.f.z <=> f.z /\ q.r = 0)
  BY <1>1, <1>2, SubxRight
<1>4. /\ p.r = q.r
      /\ (p.f.x <=> q.f.x) /\ (p.f.n <=> q.f.n) /\ (p.f.z <=> q.f.z)
      /\ (p.f.v <=> q.f.v) /\ (p.f.c <=> q.f.c)
  BY <1>1, NegxIsSubxFromZero
<1>5. One(p.f.x) = One(q.f.x) BY <1>4 DEF One
<1> QED BY <1>3, <1>4, <1>5 DEF DigitRight

\* What the digits p and q make of the terms l and r, the low digits first.
NumberRight(e, m, h, ll, lh, rl, rh, p, q) ==
  LET mm == m * m
      l == m * lh + ll
      r == m * rh + rl
      v == m * q.r + p.r
      exact == l + e * r
      sgn == Signed(mm, l) + e * Signed(mm, r)
  IN  /\ v = exact % mm /\ (v = 0 <=> p.r = 0 /\ q.r = 0)
      /\ q.f.x <=> exact \notin 0 .. mm - 1
      /\ q.f.c <=> q.f.x
      /\ q.f.v <=> sgn \notin -(mm \div 2) .. mm \div 2 - 1
      /\ ~(q.f.n <=> q.f.v) <=> sgn < 0

\* Two digits that are right are an exact number with its condition codes.
LEMMA RightDigits ==
  ASSUME NEW h \in Nat, h > 0, NEW m \in Nat, m = 2 * h, NEW e \in {1, -1},
         NEW ll \in Values(m), NEW lh \in Values(m), NEW rl \in Values(m), NEW rh \in Values(m),
         NEW p, NEW q,
         DigitRight(e, m, h, ll, rl, 0, p), DigitRight(e, m, h, lh, rh, One(p.f.x), q)
  PROVE  NumberRight(e, m, h, ll, lh, rl, rh, p, q)
<1> SUFFICES ASSUME NEW mm, mm = m * m, NEW l, l = m * lh + ll, NEW r, r = m * rh + rl,
                    NEW v, v = m * q.r + p.r, NEW exact, exact = l + e * r,
                    NEW sgn, sgn = Signed(mm, l) + e * Signed(mm, r)
    PROVE  /\ v = exact % mm /\ (v = 0 <=> p.r = 0 /\ q.r = 0)
           /\ q.f.x <=> exact \notin 0 .. mm - 1
           /\ q.f.c <=> q.f.x
           /\ q.f.v <=> sgn \notin -(mm \div 2) .. mm \div 2 - 1
           /\ ~(q.f.n <=> q.f.v) <=> sgn < 0
  BY DEF NumberRight
<1>1. PICK x, y \in {0, 1} : /\ x = One(p.f.x) /\ y = One(q.f.x) /\ (y # 0 <=> q.f.x)
  BY OneType
<1>2. PICK c0, c1 \in Int : c0 = e * x /\ c1 = e * y /\ (c1 # 0 <=> y # 0) BY <1>1
<1>3. PICK pr \in Values(m), qr \in Values(m) : pr = p.r /\ qr = q.r BY DEF DigitRight
<1>4. Carries(m, e, ll, rl, 0, pr, c0) /\ Carries(m, e, lh, rh, c0, qr, c1)
  <2>1. pr + m * c0 = ll + e * rl + e * 0 /\ qr + m * c1 = lh + e * rh + c0
    BY <1>1, <1>2, <1>3 DEF DigitRight
  <2>2. e * 0 = 0 OBVIOUS
  <2>3. ll \in Int /\ e * rl \in Int /\ e * rh \in Int BY DEF Values
  <2> QED BY <2>1, <2>2, <2>3 DEF Carries
<1>5. PICK top : top = Signed(m, lh) + e * Signed(m, rh) + c0 OBVIOUS
<1>6. v = m * qr + pr BY <1>3
<1>7. /\ v = exact % mm /\ (v = 0 <=> pr = 0 /\ qr = 0)
      /\ c1 # 0 <=> exact \notin 0 .. mm - 1
      /\ sgn \notin -(mm \div 2) .. mm \div 2 - 1 <=> top \notin -h .. h - 1
      /\ sgn < 0 <=> top < 0
  <2>1. SumRight(e, m, h, ll, lh, rl, rh, pr, qr, c0, c1) BY <1>4, DigitsExact
  <2> QED BY <1>5, <1>6, <2>1 DEF SumRight
<1>8. /\ q.f.c <=> q.f.x
      /\ q.f.v <=> top \notin -h .. h - 1
      /\ ~(q.f.n <=> q.f.v) <=> top < 0
  BY <1>1, <1>2, <1>5 DEF DigitRight
<1> QED BY <1>1, <1>2, <1>3, <1>7, <1>8

\* The operation on a digit that goes with a name of Sum.
OpOf(name) ==
  CASE name \in {"add", "addi", "addq", "addx"} -> "addx"
    [] name \in {"sub", "subi", "subq", "subx"} -> "subx"
    [] name \in {"neg", "negx"} -> "negx"
SumOps == {"add", "addi", "addq", "addx", "sub", "subi", "subq", "subx", "neg", "negx"}

\* Two digits, the low one first, from s and t.
LEMMA DigitsDone ==
  ASSUME NEW h \in Nat, h > 0, NEW m \in Nat, m = 2 * h, NEW name \in SumOps,
         NEW op, op = OpOf(name),
         NEW sl \in Values(m), NEW sh \in Values(m), NEW tl \in Values(m), NEW th \in Values(m),
         NEW p, p = Digit(op, m, Fresh, sl, tl), NEW q, q = Digit(op, m, p.f, sh, th),
         NEW s, s = m * sh + sl, NEW t, t = m * th + tl, NEW v, v = m * q.r + p.r,
         ccr = q.f
  PROVE  TwoDigits(name, m, t, s, v)
<1>1. PICK mm \in Nat : mm = m * m OBVIOUS
<1>2. /\ s \in Int /\ t \in Int /\ Signed(mm, s) \in Int /\ Signed(mm, t) \in Int
      /\ Signed(mm, 0) = 0
  <2>1. 0 \in Values(m) /\ sl \in Int /\ tl \in Int BY DEF Values
  <2>2. /\ Signed(m, sh) \in Int /\ Signed(m, th) \in Int /\ Signed(m, 0) \in Int
        /\ Signed(m * m, m * sh + sl) = m * Signed(m, sh) + sl
        /\ Signed(m * m, m * th + tl) = m * Signed(m, th) + tl
    BY <2>1, SignedDigits
  <2>3. mm = 2 * (m * h) /\ m * h \in Nat /\ m * h > 0 BY <1>1, SignedDigits
  <2>4. Signed(mm, 0) = 0
    <3>1. PICK g \in Nat : g = m * h /\ g > 0 /\ mm = 2 * g BY <2>3
    <3>2. 0 \in Int /\ ~(0 >= g) BY <3>1
    <3>3. Signed(mm, 0) = IF 0 >= g THEN 0 - mm ELSE 0 BY <3>1, <3>2, TopHalf
    <3> QED BY <3>2, <3>3
  <2>5. m * sh + sl \in Int /\ m * th + tl \in Int BY <2>1 DEF Values
  <2>6. m * Signed(m, sh) + sl \in Int /\ m * Signed(m, th) + tl \in Int BY <2>1, <2>2
  <2> QED BY <1>1, <2>2, <2>4, <2>5, <2>6
<1>3. One(Fresh.x) = 0 /\ Fresh.z BY FreshFlags DEF One
<1>4. /\ ccr.x \in BOOLEAN /\ ccr.c \in BOOLEAN /\ ccr.z \in BOOLEAN
      /\ ccr.v \in BOOLEAN /\ ccr.n \in BOOLEAN
  <2>1. op \in {"addx", "subx", "negx"} BY DEF OpOf, SumOps
  <2>2. q \in {AddxOp(m, p.f, sh, th), SubxOp(m, p.f, sh, th), NegxOp(m, p.f, th)}
    BY <2>1 DEF Digit
  <2> QED BY <2>2, DigitBoolean
<1>5. SUFFICES ASSUME NEW exact, exact = Sum(name, t, s),
                      NEW sgn, sgn = Sum(name, Signed(mm, t), Signed(mm, s))
      PROVE /\ v = exact % mm
            /\ ccr.x <=> exact \notin 0 .. mm - 1
            /\ ccr.c <=> ccr.x
            /\ ccr.z <=> v = 0
            /\ ccr.v <=> sgn \notin -(mm \div 2) .. mm \div 2 - 1
            /\ ~(ccr.n <=> ccr.v) <=> sgn < 0
  BY <1>1, <1>4 DEF TwoDigits
<1>6. CASE op = "addx"
  <2>1. exact = t + s /\ sgn = Signed(mm, t) + Signed(mm, s)
    BY <1>5, <1>6 DEF Sum, OpOf, SumOps
  <2>2. p = AddxOp(m, Fresh, sl, tl) /\ q = AddxOp(m, p.f, sh, th) BY <1>6 DEF Digit
  <2>3. DigitRight(1, m, h, tl, sl, 0, p) /\ (p.f.z <=> p.r = 0) BY <1>3, <2>2, AddxRight
  <2>4. DigitRight(1, m, h, th, sh, One(p.f.x), q) /\ (q.f.z <=> p.f.z /\ q.r = 0)
    BY <2>2, AddxRight
  <2>5. exact = t + 1 * s /\ sgn = Signed(mm, t) + 1 * Signed(mm, s) BY <1>2, <2>1
  <2>6. 1 \in {1, -1} OBVIOUS
  <2>7. /\ v = exact % mm /\ (v = 0 <=> p.r = 0 /\ q.r = 0)
        /\ q.f.x <=> exact \notin 0 .. mm - 1
        /\ q.f.c <=> q.f.x
        /\ q.f.v <=> sgn \notin -(mm \div 2) .. mm \div 2 - 1
        /\ ~(q.f.n <=> q.f.v) <=> sgn < 0
    <3>1. NumberRight(1, m, h, tl, th, sl, sh, p, q) BY <2>3, <2>4, <2>6, RightDigits
    <3> QED BY <1>1, <2>5, <3>1 DEF NumberRight
  <2> QED BY <2>3, <2>4, <2>7
<1>7. CASE op = "subx"
  <2>1. exact = t - s /\ sgn = Signed(mm, t) - Signed(mm, s)
    BY <1>5, <1>7 DEF Sum, OpOf, SumOps
  <2>2. p = SubxOp(m, Fresh, sl, tl) /\ q = SubxOp(m, p.f, sh, th) BY <1>7 DEF Digit
  <2>3. DigitRight(-1, m, h, tl, sl, 0, p) /\ (p.f.z <=> p.r = 0) BY <1>3, <2>2, SubxRight, Z3
  <2>4. DigitRight(-1, m, h, th, sh, One(p.f.x), q) /\ (q.f.z <=> p.f.z /\ q.r = 0)
    BY <2>2, SubxRight
  <2>5. exact = t + (-1) * s /\ sgn = Signed(mm, t) + (-1) * Signed(mm, s) BY <1>2, <2>1
  <2>6. -1 \in {1, -1} OBVIOUS
  <2>7. /\ v = exact % mm /\ (v = 0 <=> p.r = 0 /\ q.r = 0)
        /\ q.f.x <=> exact \notin 0 .. mm - 1
        /\ q.f.c <=> q.f.x
        /\ q.f.v <=> sgn \notin -(mm \div 2) .. mm \div 2 - 1
        /\ ~(q.f.n <=> q.f.v) <=> sgn < 0
    <3>1. NumberRight(-1, m, h, tl, th, sl, sh, p, q) BY <2>3, <2>4, <2>6, RightDigits
    <3> QED BY <1>1, <2>5, <3>1 DEF NumberRight
  <2> QED BY <2>3, <2>4, <2>7
<1>8. CASE op = "negx"
  <2>1. exact = 0 - t /\ sgn = 0 - Signed(mm, t)
    BY <1>5, <1>8 DEF Sum, OpOf, SumOps
  <2>2. p = NegxOp(m, Fresh, tl) /\ q = NegxOp(m, p.f, th) BY <1>8 DEF Digit
  <2>3. DigitRight(-1, m, h, 0, tl, 0, p) /\ (p.f.z <=> p.r = 0) BY <1>3, <2>2, NegxRight, Z3
  <2>4. DigitRight(-1, m, h, 0, th, One(p.f.x), q) /\ (q.f.z <=> p.f.z /\ q.r = 0)
    BY <2>2, NegxRight, ZenonT(60)
  <2>5. exact = 0 + (-1) * t /\ sgn = Signed(mm, 0) + (-1) * Signed(mm, t) BY <1>2, <2>1
  <2>6. -1 \in {1, -1} /\ 0 \in Values(m) /\ 0 = m * 0 + 0 BY DEF Values
  <2>7. /\ v = exact % mm /\ (v = 0 <=> p.r = 0 /\ q.r = 0)
        /\ q.f.x <=> exact \notin 0 .. mm - 1
        /\ q.f.c <=> q.f.x
        /\ q.f.v <=> sgn \notin -(mm \div 2) .. mm \div 2 - 1
        /\ ~(q.f.n <=> q.f.v) <=> sgn < 0
    <3>1. NumberRight(-1, m, h, 0, 0, tl, th, p, q) BY <2>3, <2>4, <2>6, RightDigits
    <3> QED BY <1>1, <2>5, <3>1 DEF NumberRight
  <2> QED BY <2>3, <2>4, <2>7
<1> QED BY <1>6, <1>7, <1>8 DEF OpOf, SumOps

\* SBCD of decimal bytes is exact where nothing is borrowed (sbcd.c).
LEMMA SbcdExact ==
  ASSUME NEW s, NEW t, NEW f, DecimalByte(s), DecimalByte(t), Decimal(s) <= Decimal(t),
         One(f.x) = 0, NEW p, p = SbcdOp(f, s, t)
  PROVE  /\ DecimalByte(p.r) /\ Decimal(p.r) = Decimal(t) - Decimal(s)
         /\ One(p.f.x) = 0
<1>1. PICK v \in 0 .. 99 : v = Decimal(t) - Decimal(s)
  <2>1. Decimal(s) \in 0 .. 99 /\ Decimal(t) \in 0 .. 99 BY DecimalRange
  <2> QED BY <2>1
<1>2. Decimal(t) - Decimal(s) - One(f.x) = v BY <1>1
<1>3. p.r = Packed(v) /\ p.f = SetDecimal(f, v, v < 0) BY <1>2 DEF SbcdOp
<1>4. DecimalByte(p.r) /\ Decimal(p.r) = v
  <2>1. v \in 0 .. 199 /\ v % 100 = v OBVIOUS
  <2> QED BY <1>3, <2>1, PackedExact
<1>5. ~p.f.x
  <2>1. p.f.x <=> Decimal(t) - Decimal(s) - One(f.x) < 0 BY Zenon DEF SbcdOp, SetDecimal
  <2> QED BY <1>2, <2>1
<1> QED BY <1>1, <1>4, <1>5 DEF One

\* The bytes of a word.
LEMMA WordBytes ==
  ASSUME NEW x \in 0 .. 255, NEW y \in 0 .. 255
  PROVE  (256 * x + y) \div 256 = x /\ (256 * x + y) % 256 = y
OBVIOUS

\* Two decimal bytes, the low one first, from s and t.
LEMMA DecimalsDone ==
  ASSUME NEW op \in {"abcd", "sbcd"}, NEW m, m = 256,
         NEW sl \in Values(m), NEW sh \in Values(m), NEW tl \in Values(m), NEW th \in Values(m),
         NEW p, p = Digit(op, m, Fresh, sl, tl), NEW q, q = Digit(op, m, p.f, sh, th),
         NEW s, s = m * sh + sl, NEW t, t = m * th + tl, NEW v, v = m * q.r + p.r,
         ccr = q.f
  PROVE  TwoDecimals(op, t, s, v)
<1> DEFINE Value(w) == 100 * Decimal(w \div 256) + Decimal(w % 256)
           exact == IF op = "abcd" THEN Value(t) + Value(s) ELSE Value(t) - Value(s)
           borrows == op = "sbcd" /\ \/ Decimal(s % 256) > Decimal(t % 256)
                                     \/ Decimal(s \div 256) > Decimal(t \div 256)
           decimals == \A w \in {s, t} : DecimalByte(w \div 256) /\ DecimalByte(w % 256)
           done == Value(v) = exact % 10000 /\ ccr.x = (exact < 0 \/ exact >= 10000) /\ ccr.c = ccr.x
<1>1. /\ p = Digit(op, 256, Fresh, sl, tl) /\ q = Digit(op, 256, p.f, sh, th)
      /\ s = 256 * sh + sl /\ t = 256 * th + tl /\ v = 256 * q.r + p.r
  OBVIOUS
<1>2. sl \in 0 .. 255 /\ sh \in 0 .. 255 /\ tl \in 0 .. 255 /\ th \in 0 .. 255
  BY DEF Values
<1>3. s \div 256 = sh /\ s % 256 = sl /\ t \div 256 = th /\ t % 256 = tl
  <2>1. (256 * sh + sl) \div 256 = sh /\ (256 * sh + sl) % 256 = sl BY <1>2, WordBytes
  <2>2. (256 * th + tl) \div 256 = th /\ (256 * th + tl) % 256 = tl BY <1>2, WordBytes
  <2> QED BY <1>1, <2>1, <2>2
<1>4. SUFFICES ASSUME decimals, ~borrows PROVE done
  BY DEF TwoDecimals
<1>5. DecimalByte(sl) /\ DecimalByte(sh) /\ DecimalByte(tl) /\ DecimalByte(th)
  BY <1>3, <1>4
<1>6. PICK dsl, dsh, dtl, dth \in 0 .. 99 :
        dsl = Decimal(sl) /\ dsh = Decimal(sh) /\ dtl = Decimal(tl) /\ dth = Decimal(th)
  BY <1>5, DecimalRange
<1>7. op = "sbcd" => dsl <= dtl /\ dsh <= dth BY <1>3, <1>4, <1>6
<1>8. exact = IF op = "abcd" THEN (100 * dth + dtl) + (100 * dsh + dsl)
              ELSE (100 * dth + dtl) - (100 * dsh + dsl)
  BY <1>3, <1>6
<1> HIDE DEF exact
<1>9. One(Fresh.x) = 0 BY FreshFlags DEF One
<1>10. /\ DecimalByte(p.r) /\ DecimalByte(q.r) /\ ccr.x \in BOOLEAN /\ ccr.c = ccr.x
       /\ op = "abcd" => /\ Decimal(p.r) + 100 * One(p.f.x) = dtl + dsl
                         /\ Decimal(q.r) + 100 * One(q.f.x) = dth + dsh + One(p.f.x)
       /\ op = "sbcd" => /\ Decimal(p.r) = dtl - dsl /\ Decimal(q.r) = dth - dsh
                         /\ One(q.f.x) = 0
  <2>1. ccr.x \in BOOLEAN /\ ccr.c = ccr.x
    <3>1. PICK r \in Int : q = [r |-> Packed(r), f |-> SetDecimal(p.f, r, r >= 100)]
                           \/ q = [r |-> Packed(r), f |-> SetDecimal(p.f, r, r < 0)]
      <4>1. Decimal(sh) + Decimal(th) + One(p.f.x) \in Int BY <1>6, OneType
      <4>2. Decimal(th) - Decimal(sh) - One(p.f.x) \in Int BY <1>6, OneType
      <4>3. q = AbcdOp(p.f, sh, th) \/ q = SbcdOp(p.f, sh, th) BY <1>1 DEF Digit
      <4>4. CASE q = AbcdOp(p.f, sh, th) BY <4>1, <4>4 DEF AbcdOp
      <4>5. CASE q = SbcdOp(p.f, sh, th) BY <4>2, <4>5 DEF SbcdOp
      <4> QED BY <4>3, <4>4, <4>5
    <3>2. q.f = SetDecimal(p.f, r, r >= 100) \/ q.f = SetDecimal(p.f, r, r < 0) BY <3>1
    <3>3. (q.f.x = (r >= 100) \/ q.f.x = (r < 0)) /\ q.f.c = q.f.x BY <3>2 DEF SetDecimal
    <3>4. PICK u, z : u = (r >= 100) /\ z = (r < 0) OBVIOUS
    <3>5. u \in BOOLEAN /\ z \in BOOLEAN BY <3>4
    <3>6. (q.f.x = u \/ q.f.x = z) /\ q.f.c = q.f.x BY <3>3, <3>4
    <3> QED BY <1>1, <3>5, <3>6, Zenon
  <2>2. CASE op = "abcd"
    <3>1. p = AbcdOp(Fresh, sl, tl) /\ q = AbcdOp(p.f, sh, th) BY <1>1, <2>2 DEF Digit
    <3>2. DecimalByte(p.r) /\ Decimal(p.r) + 100 * One(p.f.x) = dtl + dsl
      <4>1. Decimal(p.r) + 100 * One(p.f.x) = Decimal(sl) + Decimal(tl) + One(Fresh.x)
            /\ DecimalByte(p.r)
        BY <1>5, <3>1, AbcdExact
      <4> QED BY <1>6, <1>9, <4>1
    <3>3. DecimalByte(q.r) /\ Decimal(q.r) + 100 * One(q.f.x) = dth + dsh + One(p.f.x)
      <4>1. Decimal(q.r) + 100 * One(q.f.x) = Decimal(sh) + Decimal(th) + One(p.f.x)
            /\ DecimalByte(q.r)
        BY <1>5, <3>1, AbcdExact
      <4> QED BY <1>6, <4>1, OneType
    <3> QED BY <2>1, <2>2, <3>2, <3>3
  <2>3. CASE op = "sbcd"
    <3>1. p = SbcdOp(Fresh, sl, tl) /\ q = SbcdOp(p.f, sh, th) BY <1>1, <2>3 DEF Digit
    <3>2. DecimalByte(p.r) /\ Decimal(p.r) = dtl - dsl /\ One(p.f.x) = 0
      BY <1>5, <1>7, <1>6, <1>9, <2>3, <3>1, SbcdExact
    <3>3. DecimalByte(q.r) /\ Decimal(q.r) = dth - dsh /\ One(q.f.x) = 0
      BY <1>5, <1>7, <1>6, <2>3, <3>1, <3>2, SbcdExact
    <3> QED BY <2>1, <2>3, <3>2, <3>3
  <2> QED BY <2>2, <2>3
<1>11. PICK vl, vh \in 0 .. 99 : vl = Decimal(p.r) /\ vh = Decimal(q.r)
  <2>1. Decimal(p.r) \in 0 .. 99 /\ Decimal(q.r) \in 0 .. 99 BY <1>10, DecimalRange
  <2> QED BY <2>1
<1>12. PICK x, y \in {0, 1} : x = One(p.f.x) /\ y = One(q.f.x) /\ (y = 1 <=> ccr.x) BY OneType
<1>13. /\ op = "abcd" => vl + 100 * x = dtl + dsl /\ vh + 100 * y = dth + dsh + x
       /\ op = "sbcd" => vl = dtl - dsl /\ vh = dth - dsh /\ y = 0
  <2>1. op = "abcd" => vl + 100 * x = dtl + dsl /\ vh + 100 * y = dth + dsh + x
    BY <1>10, <1>11, <1>12
  <2>2. op = "sbcd" => vl = dtl - dsl /\ vh = dth - dsh /\ y = 0 BY <1>10, <1>11, <1>12
  <2> QED BY <2>1, <2>2
<1>14. Value(v) = 100 * vh + vl
  <2>1. p.r \in 0 .. 255 /\ q.r \in 0 .. 255 BY <1>10 DEF DecimalByte
  <2>2. v \div 256 = q.r /\ v % 256 = p.r
    <3>1. PICK x1, y1 \in 0 .. 255 : x1 = q.r /\ y1 = p.r BY <2>1
    <3>2. (256 * x1 + y1) \div 256 = x1 /\ (256 * x1 + y1) % 256 = y1 BY WordBytes
    <3> QED BY <3>1, <3>2
  <2> QED BY <1>11, <1>1, <2>2
<1> HIDE DEF Value
<1>15. exact = 100 * vh + vl + (IF op = "abcd" THEN 10000 * y ELSE 0)
  <2>1. CASE op = "abcd" BY <1>8, <1>13, <2>1
  <2>2. CASE op = "sbcd" BY <1>8, <1>13, <2>2
  <2> QED BY <2>1, <2>2
<1>16. exact % 10000 = 100 * vh + vl
  <2>1. \A w \in 0 .. 9999 : w % 10000 = w /\ (w + 10000) % 10000 = w OBVIOUS
  <2>2. 100 * vh + vl \in 0 .. 9999 OBVIOUS
  <2>3. exact = 100 * vh + vl \/ exact = 100 * vh + vl + 10000 BY <1>13, <1>15
  <2> QED BY <2>1, <2>2, <2>3
<1>17. ccr.x <=> exact < 0 \/ exact >= 10000
  <2>1. PICK w \in Int : w = 100 * vh + vl /\ w >= 0 /\ w < 10000
    <3>1. 100 * vh + vl \in Int /\ 100 * vh + vl >= 0 /\ 100 * vh + vl < 10000 OBVIOUS
    <3> QED BY <3>1
  <2>2. CASE y = 0
    <3>1. exact = w BY <1>15, <2>1, <2>2
    <3>2. ~(exact < 0 \/ exact >= 10000) BY <2>1, <3>1
    <3>3. ~ccr.x BY <1>12, <2>2
    <3> QED BY <3>2, <3>3
  <2>3. CASE y = 1
    <3>1. op = "abcd" BY <1>13, <2>3
    <3>2. exact = w + 10000 BY <1>15, <2>1, <2>3, <3>1
    <3>3. exact >= 10000 BY <2>1, <3>2
    <3>4. ccr.x BY <1>12, <2>3
    <3> QED BY <3>3, <3>4
  <2> QED BY <1>12, <2>2, <2>3
<1>18. ccr.x = (exact < 0 \/ exact >= 10000)
  <2>1. (exact < 0 \/ exact >= 10000) \in BOOLEAN OBVIOUS
  <2>2. ccr.x \in BOOLEAN BY <1>10
  <2> QED BY <1>17, <2>1, <2>2
<1> QED BY <1>10, <1>14, <1>16, <1>18

\* The instructions of the programs that add, besides OrderOps.
AddingOps == SumOps \cup {"abcd", "sbcd", "movetoccr"}

\* The action that executes one of them is its own.
LEMMA AddingAction ==
  ASSUME Next, I.op \in AddingOps
  PROVE  /\ I.op \in {"add", "addi"} => Dyadic(AddOp)
         /\ I.op \in {"sub", "subi"} => Dyadic(SubOp)
         /\ I.op = "addx" => Dyadic(AddxOp)
         /\ I.op = "subx" => Dyadic(SubxOp)
         /\ I.op = "addq" => Addq
         /\ I.op = "subq" => Subq
         /\ I.op = "neg" => Monadic(NegOp)
         /\ I.op = "negx" => Monadic(NegxOp)
         /\ I.op = "abcd" => DecimalOp(AbcdOp)
         /\ I.op = "sbcd" => DecimalOp(SbcdOp)
         /\ I.op = "movetoccr" => ToCcr(Source)
<1>1. \/ Add \/ Addi \/ Addq \/ Addx \/ Sub \/ Subi \/ Subq \/ Subx \/ Neg \/ Negx \/ Abcd \/ Sbcd
      \/ ~Arithmetic
  BY DEF Arithmetic, Cmp, Cmpi, Cmpm, Cmpa, Adda, Suba, Ext, AddingOps, SumOps,
     Mulu, Muls, Divu, Divs, DivideByZero, Compare, ByWord, Executing
<1>2. ~Logic
  BY DEF Logic,  AndBits, Andi, OrBits, Ori, EorBits, Eori, NotBits, Tst, Tas, Btst,
     Bset, Bclr, Bchg, Asl, Asr, Lsl, Lsr, Rol, Ror, Roxl, Roxr, Executing, AddingOps, SumOps
<1>3. Moving => MoveToCcr
  BY DEF Moving, Move, Movea, Moveq, Clr, Swap, Exg, MovemStore, MovemLoad, MovepStore,
     MovepLoad, MoveFromSr, AndiToCcr, OriToCcr, EoriToCcr, Executing, AddingOps, SumOps
<1>4. ~Control
  BY DEF Control, Bcc, Dbcc, Scc, Jmp, Lea, Bsr, Jsr, Rts, Rtr, Pea, Link, Unlk, Executing,
     AddingOps, SumOps
<1>5. \/ Add \/ Addi \/ Addq \/ Addx \/ Sub \/ Subi \/ Subq \/ Subx \/ Neg \/ Negx \/ Abcd \/ Sbcd
      \/ MoveToCcr
  BY <1>1, <1>2, <1>3, <1>4 DEF Next
<1>6. /\ Add => I.op = "add" /\ Dyadic(AddOp)
      /\ Addi => I.op = "addi" /\ Dyadic(AddOp)
      /\ Addx => I.op = "addx" /\ Dyadic(AddxOp)
      /\ Sub => I.op = "sub" /\ Dyadic(SubOp)
      /\ Subi => I.op = "subi" /\ Dyadic(SubOp)
      /\ Subx => I.op = "subx" /\ Dyadic(SubxOp)
  BY Zenon DEF Add, Addi, Addx, Sub, Subi, Subx, Executing
<1>7. /\ Addq => I.op = "addq"
      /\ Subq => I.op = "subq"
      /\ Neg => I.op = "neg" /\ Monadic(NegOp)
      /\ Negx => I.op = "negx" /\ Monadic(NegxOp)
      /\ Abcd => I.op = "abcd" /\ DecimalOp(AbcdOp)
      /\ Sbcd => I.op = "sbcd" /\ DecimalOp(SbcdOp)
      /\ MoveToCcr => I.op = "movetoccr" /\ ToCcr(Source)
  BY Zenon DEF Addq, Subq, Neg, Negx, Abcd, Sbcd, MoveToCcr, Executing
<1> QED BY <1>5, <1>6, <1>7, Zenon

\* ADD, SUB and NEG are the operations of a first digit.
LEMMA FirstDigit ==
  ASSUME NEW m, NEW f, NEW s \in Int, NEW t \in Int
  PROVE  /\ AddOp(m, f, s, t) = AddxOp(m, Fresh, s, t)
         /\ SubOp(m, f, s, t) = SubxOp(m, Fresh, s, t)
         /\ NegOp(m, f, t) = NegxOp(m, Fresh, t)
<1>1. One(Fresh.x) = 0 /\ Fresh.z = TRUE BY FreshFlags DEF One
<1>2. /\ s + t + One(Fresh.x) = t + s
      /\ t - s - One(Fresh.x) = t - s
      /\ 0 - t - One(Fresh.x) = 0 - t
  BY <1>1
<1>3. \A r : (Fresh.z /\ r = 0) = (r = 0)
  BY <1>1
<1>4. AddOp(m, f, s, t) = AddxOp(m, Fresh, s, t)
  BY <1>2, <1>3, Zenon DEF AddOp, AddxOp, SetAdd, SetAddx
<1>5. SubOp(m, f, s, t) = SubxOp(m, Fresh, s, t)
  BY <1>2, <1>3, Zenon DEF SubOp, SubxOp, SetSub, SetSubx
<1>6. NegOp(m, f, t) = NegxOp(m, Fresh, t)
  BY <1>2, <1>3, Zenon DEF NegOp, NegxOp, SetNeg, SetNegx
<1> QED BY <1>4, <1>5, <1>6

\* The operations that take X in.
Extended == {"addx", "subx", "negx"}

\* An instruction that adds works on a digit.
LEMMA SumActs ==
  ASSUME Next, NEW op \in SumOps, I.op = op, I.t.mode # "a",
         NEW R, R = IF op \in {"neg", "negx"} THEN a ELSE AfterSource,
         NEW m, m = Modulus[I.sz], NEW s \in Int, op \notin {"neg", "negx"} => s = Source,
         NEW t \in Int, t = Operand(I.t, I.sz, R)
  PROVE  \E p : /\ p = Digit(OpOf(op), m, IF op \in Extended THEN ccr ELSE Fresh, s, t)
                /\ Store(I.t, I.sz, p.r, R) /\ ccr' = p.f /\ Continue
<1>1. /\ OpOf(op) = "addx" => op \in {"add", "addi", "addq", "addx"}
      /\ OpOf(op) = "subx" => op \in {"sub", "subi", "subq", "subx"}
      /\ OpOf(op) = "negx" => op \in {"neg", "negx"}
      /\ OpOf(op) \in Extended
  BY DEF OpOf, SumOps, Extended
<1>2. I.op \in AddingOps BY DEF AddingOps
<1>3. CASE OpOf(op) = "addx"
  <2>1. PICK p : p = IF op = "addx" THEN AddxOp(m, ccr, s, t) ELSE AddOp(m, ccr, s, t) OBVIOUS
  <2>2. R = AfterSource /\ s = Source BY <1>1, <1>3
  <2>3. Store(I.t, I.sz, p.r, R) /\ ccr' = p.f /\ Continue
    <3>1. CASE op = "addx"
      <4>1. Dyadic(AddxOp) BY <1>2, <3>1, AddingAction
      <4> QED BY <2>1, <2>2, <3>1, <4>1, Zenon DEF Dyadic
    <3>2. CASE op # "addx"
      <4>1. Dyadic(AddOp)
        <5>1. CASE op = "addq"
          <6>1. Addq BY <1>2, <5>1, AddingAction
          <6> QED BY <5>1, <6>1 DEF Addq
        <5>2. CASE op \in {"add", "addi"} BY <1>2, <5>2, AddingAction
        <5> QED BY <1>1, <1>3, <3>2, <5>1, <5>2
      <4> QED BY <2>1, <2>2, <3>2, <4>1, Zenon DEF Dyadic
    <3> QED BY <3>1, <3>2
  <2>4. p = AddxOp(m, IF op \in Extended THEN ccr ELSE Fresh, s, t)
    <3>1. CASE op = "addx" BY <2>1, <3>1, Zenon DEF Extended
    <3>2. CASE op # "addx"
      <4>1. op \notin Extended BY <1>1, <1>3, <3>2 DEF Extended
      <4>2. AddOp(m, ccr, s, t) = AddxOp(m, Fresh, s, t) BY FirstDigit
      <4> QED BY <2>1, <3>2, <4>1, <4>2, Zenon
    <3> QED BY <3>1, <3>2
  <2>5. p = Digit(OpOf(op), m, IF op \in Extended THEN ccr ELSE Fresh, s, t)
    BY <1>3, <2>4, Zenon DEF Digit
  <2> QED BY <2>3, <2>5, Zenon
<1>4. CASE OpOf(op) = "subx"
  <2>1. PICK p : p = IF op = "subx" THEN SubxOp(m, ccr, s, t) ELSE SubOp(m, ccr, s, t) OBVIOUS
  <2>2. R = AfterSource /\ s = Source BY <1>1, <1>4
  <2>3. Store(I.t, I.sz, p.r, R) /\ ccr' = p.f /\ Continue
    <3>1. CASE op = "subx"
      <4>1. Dyadic(SubxOp) BY <1>2, <3>1, AddingAction
      <4> QED BY <2>1, <2>2, <3>1, <4>1, Zenon DEF Dyadic
    <3>2. CASE op # "subx"
      <4>1. Dyadic(SubOp)
        <5>1. CASE op = "subq"
          <6>1. Subq BY <1>2, <5>1, AddingAction
          <6> QED BY <5>1, <6>1 DEF Subq
        <5>2. CASE op \in {"sub", "subi"} BY <1>2, <5>2, AddingAction
        <5> QED BY <1>1, <1>4, <3>2, <5>1, <5>2
      <4> QED BY <2>1, <2>2, <3>2, <4>1, Zenon DEF Dyadic
    <3> QED BY <3>1, <3>2
  <2>4. p = SubxOp(m, IF op \in Extended THEN ccr ELSE Fresh, s, t)
    <3>1. CASE op = "subx" BY <2>1, <3>1, Zenon DEF Extended
    <3>2. CASE op # "subx"
      <4>1. op \notin Extended BY <1>1, <1>4, <3>2 DEF Extended
      <4>2. SubOp(m, ccr, s, t) = SubxOp(m, Fresh, s, t) BY FirstDigit
      <4> QED BY <2>1, <3>2, <4>1, <4>2, Zenon
    <3> QED BY <3>1, <3>2
  <2>5. p = Digit(OpOf(op), m, IF op \in Extended THEN ccr ELSE Fresh, s, t)
    BY <1>4, <2>4, Zenon DEF Digit
  <2> QED BY <2>3, <2>5, Zenon
<1>5. CASE OpOf(op) = "negx"
  <2>1. PICK p : p = IF op = "negx" THEN NegxOp(m, ccr, t) ELSE NegOp(m, ccr, t) OBVIOUS
  <2>2. R = a /\ op \in {"neg", "negx"} BY <1>1, <1>5
  <2>3. Store(I.t, I.sz, p.r, R) /\ ccr' = p.f /\ Continue
    <3>1. CASE op = "negx"
      <4>1. Monadic(NegxOp) BY <1>2, <3>1, AddingAction
      <4> QED BY <2>1, <2>2, <3>1, <4>1, Zenon DEF Monadic
    <3>2. CASE op = "neg"
      <4>1. Monadic(NegOp) BY <1>2, <3>2, AddingAction
      <4> QED BY <2>1, <2>2, <3>2, <4>1, Zenon DEF Monadic
    <3> QED BY <2>2, <3>1, <3>2
  <2>4. p = NegxOp(m, IF op \in Extended THEN ccr ELSE Fresh, t)
    <3>1. CASE op = "negx" BY <2>1, <3>1, Zenon DEF Extended
    <3>2. CASE op = "neg"
      <4>1. op \notin Extended /\ op # "negx" BY <3>2 DEF Extended
      <4>2. NegOp(m, ccr, t) = NegxOp(m, Fresh, t) BY FirstDigit
      <4> QED BY <2>1, <4>1, <4>2, Zenon
    <3> QED BY <2>2, <3>1, <3>2
  <2>5. p = Digit(OpOf(op), m, IF op \in Extended THEN ccr ELSE Fresh, s, t)
    BY <1>5, <2>4, Zenon DEF Digit
  <2> QED BY <2>3, <2>5, Zenon
<1> QED BY <1>1, <1>3, <1>4, <1>5 DEF Extended

\* The part of a register above a part that is replaced.
LEMMA InsertHigh ==
  ASSUME NEW r \in Int, NEW sz \in {"b", "w", "l"}, NEW v \in Values(Modulus[sz])
  PROVE  Insert(r, sz, v) \div Modulus[sz] = r \div Modulus[sz]
<1>1. PICK m \in Nat : m > 0 /\ m = Modulus[sz] BY SizesEven
<1>2. PICK q \in Int, w \in Int : q = r \div m /\ w = r % m /\ r = m * q + w
  <2>1. r \div m \in Int /\ r % m \in 0 .. m - 1 /\ r = m * (r \div m) + (r % m)
    BY <1>1, DivMod
  <2> QED BY <2>1
<1>3. PICK x \in Int : x = Insert(r, sz, v) /\ x % m = v BY <1>1, InsertLow
<1>4. x = m * q + v
  <2>1. x = r - w + v BY <1>1, <1>2, <1>3 DEF Insert
  <2>2. PICK z \in Int : z = m * q BY <1>1
  <2>3. v \in Int BY <1>1 DEF Values
  <2>4. r = z + w BY <1>2, <2>2
  <2>5. x = z + v BY <2>1, <2>3, <2>4
  <2> QED BY <2>2, <2>5
<1>5. PICK k \in Int : k = x \div m /\ x = m * k + v
  <2>1. x \div m \in Int /\ x = m * (x \div m) + (x % m) BY <1>1, DivMod
  <2> QED BY <1>3, <2>1
<1>6. k = q
  <2>1. m * k = m * q
    <3>1. m * k \in Int /\ m * q \in Int /\ v \in Int BY <1>1 DEF Values
    <3> QED BY <1>4, <1>5, <3>1
  <2>2. PICK e \in Int : e = k - q OBVIOUS
  <2>3. m * e = 0
    <3>1. m * k = m * q + m * e BY <2>2
    <3>2. m * q \in Int /\ m * e \in Int BY <2>2
    <3> QED BY <2>1, <3>1, <3>2
  <2>4. e = 0 BY <1>1, <2>3
  <2> QED BY <2>2, <2>4
<1> QED BY <1>1, <1>2, <1>3, <1>5, <1>6

\* A digit is a value of its size.
LEMMA DigitType ==
  ASSUME NEW op \in Extended, NEW h \in Nat, h > 0, NEW m \in Nat, m = 2 * h,
         NEW s \in Values(m), NEW t \in Values(m), NEW f
  PROVE  Digit(op, m, f, s, t).r \in Values(m)
<1>1. PICK p : p = Digit(op, m, f, s, t) OBVIOUS
<1>2. CASE op = "addx"
  <2>1. p = AddxOp(m, f, s, t) BY <1>1, <1>2 DEF Digit
  <2> QED BY <1>1, <2>1, AddxRight DEF DigitRight
<1>3. CASE op = "subx"
  <2>1. p = SubxOp(m, f, s, t) BY <1>1, <1>3 DEF Digit
  <2> QED BY <1>1, <2>1, SubxRight DEF DigitRight
<1>4. CASE op = "negx"
  <2>1. p = NegxOp(m, f, t) BY <1>1, <1>4 DEF Digit
  <2>2. DigitRight(-1, m, h, 0, t, One(f.x), p) BY <2>1, NegxRight
  <2> QED BY <1>1, <2>2 DEF DigitRight
<1> QED BY <1>2, <1>3, <1>4 DEF Extended

\* An instruction that adds to a register.
LEMMA RegisterDigit ==
  ASSUME Next, NEW op \in SumOps, NEW sz \in {"b", "w"}, NEW e, NEW r \in 0 .. 3,
         I = Ins(op, sz, e, D(r)), e.mode \in {"d", "imm"},
         NEW s \in Int, s = Operand(e, sz, a), d \in [0 .. 3 -> Int],
         NEW p, p = Digit(OpOf(op), Modulus[sz], IF op \in Extended THEN ccr ELSE Fresh,
                          s, d[r] % Modulus[sz])
  PROVE  /\ d' = [d EXCEPT ![r] = Insert(d[r], sz, p.r)] /\ ccr' = p.f
         /\ pc' = pc + 1 /\ task' = task
<1>1. I.op = op /\ I.sz = sz /\ I.s = e /\ I.t = D(r) BY Fields
<1>2. I.t.mode = "d" /\ I.t.reg = r BY <1>1, Fields
<1>3. Source = s /\ AfterSource = a BY <1>1, RegisterOperand DEF Source, AfterSource
<1>4. PICK m \in Nat : m > 0 /\ m = Modulus[sz] BY SizesEven
<1>5. PICK t \in Int : t = d[r] % m
  <2>1. d[r] \in Int OBVIOUS
  <2> QED BY <1>4, <2>1, DivMod
<1>6. t = Operand(I.t, I.sz, a) BY <1>1, <1>2, <1>4, <1>5, RegisterOperand
<1>7. PICK R : R = IF op \in {"neg", "negx"} THEN a ELSE AfterSource OBVIOUS
<1>8. R = a BY <1>3, <1>7
<1>9. I.t.mode # "a" /\ m = Modulus[I.sz] /\ (op \notin {"neg", "negx"} => s = Source)
      /\ t = Operand(I.t, I.sz, R)
  BY <1>1, <1>2, <1>3, <1>4, <1>6, <1>8
<1>10. PICK q : /\ q = Digit(OpOf(op), m, IF op \in Extended THEN ccr ELSE Fresh, s, t)
                /\ Store(I.t, I.sz, q.r, R) /\ ccr' = q.f /\ Continue
  BY <1>1, <1>7, <1>9, SumActs
<1>11. q = p BY <1>4, <1>5, <1>10, Zenon
<1> QED BY <1>1, <1>2, <1>10, <1>11 DEF Store, Continue

-----------------------------------------------------------------------------
\* The programs on numbers are named apart from the others.
LEMMA SumProgram ==
  ASSUME NEW p \in ProgramNames, p[1] \in {"chain", "pair", "with", "divide"}
  PROVE  p \in SumNames /\ (p[1] # "with" => p \notin ImmediateNames)
<1>1. p \notin OrderNames
  <2>1. p # <<"strings", "">>
    <3>1. <<"strings", "">>[1] = "strings" OBVIOUS
    <3> QED BY <3>1
  <2> QED BY <2>1 DEF OrderNames
<1>2. p \notin LoopNames BY DEF LoopNames
<1>3. p \notin ShiftNames BY DEF ShiftNames
<1>4. p \notin MaskNames BY DEF MaskNames
<1>5. p \notin BitNames BY <1>4 DEF BitNames
<1>6. p[1] # "with" => p \notin ImmediateNames BY DEF ImmediateNames
<1> QED BY <1>1, <1>2, <1>3, <1>5, <1>6 DEF ProgramNames

\* A task on two digits in registers; e is where the low one is taken from.
PairTask(op, opx, sz, e) ==
  /\ op \in SumOps \ Extended /\ opx \in Extended /\ OpOf(op) = opx /\ sz \in {"b", "w"}
  /\ task.program[2] = op /\ task.program[3] = sz
  /\ IF Kind = "with"
     THEN e = Imm(task.program[4]) /\ task.program[4] \in Values(Modulus[sz])
     ELSE e = D(0)
  /\ Listing[task.program] = << Ins(op, sz, e, D(2)), Ins(opx, sz, D(1), D(3)) >>

\* Every task on two digits in registers is of this form.
LEMMA TaskOfPair ==
  ASSUME task \in Tasks, Kind \in {"pair", "with"}
  PROVE  /\ \E op, opx, sz, e : PairTask(op, opx, sz, e)
         /\ \A r \in 0 .. 3 : GivenD(r) \in Values(Long)
<1>1. PICK p : p = task.program OBVIOUS
<1>2. p \in ProgramNames /\ p[1] \in {"pair", "with"} /\ p[1] = Kind /\ Code[p] = Program(p)
      /\ task.d \in [1 .. 4 -> Values(Long)]
  BY <1>1, TaskAssumption DEF Kind
<1>3. p \in SumNames /\ (p[1] = "pair" => p \notin ImmediateNames) BY <1>2, SumProgram
<1>4. \A r \in 0 .. 3 : GivenD(r) \in Values(Long)
  <2>1. \A r \in 0 .. 3 : r + 1 \in 1 .. 4 OBVIOUS
  <2> QED BY <1>2, <2>1 DEF GivenD
<1>5. CASE p[1] = "pair"
  <2>1. p \in {"pair"} \X {"add", "sub", "neg"} \X {"b", "w"} BY <1>3, <1>5 DEF SumNames
  <2>2. PICK op, sz : op = p[2] /\ sz = p[3] /\ op \in {"add", "sub", "neg"} /\ sz \in {"b", "w"}
    BY <2>1
  <2>3. PICK opx : opx = [add |-> "addx", sub |-> "subx", neg |-> "negx"][op] OBVIOUS
  <2>4. opx = OpOf(op) /\ opx \in Extended /\ op \in SumOps \ Extended
    BY <2>2, <2>3 DEF OpOf, Extended, SumOps
  <2>5. Code[p] = << Ins(op, sz, D(0), D(2)), Ins(opx, sz, D(1), D(3)) >>
    BY <1>2, <1>5, <2>2, <2>3 DEF Program, Pair
  <2>6. PairTask(op, opx, sz, D(0)) BY <1>1, <1>2, <1>5, <2>2, <2>4, <2>5 DEF PairTask, Listing
  <2> QED BY <1>4, <2>6
<1>6. CASE p[1] = "with"
  <2>1. p \in ImmediateNames \/ p \in {"with"} \X {"addq", "subq"} \X {"b", "w"} \X {1, 8}
    BY <1>3, <1>6 DEF SumNames
  <2>2. PICK op, sz, k : /\ op = p[2] /\ sz = p[3] /\ k = p[4]
                         /\ op \in {"addi", "subi", "addq", "subq"} /\ sz \in {"b", "w"}
                         /\ k \in {1, 8, Modulus[sz] \div 2, Modulus[sz] - 1}
    <3>1. CASE p \in ImmediateNames BY <3>1 DEF ImmediateNames
    <3>2. CASE p \in {"with"} \X {"addq", "subq"} \X {"b", "w"} \X {1, 8} BY <3>2
    <3> QED BY <2>1, <3>1, <3>2
  <2>3. PICK opx : opx = IF op \in {"addi", "addq"} THEN "addx" ELSE "subx" OBVIOUS
  <2>4. opx = OpOf(op) /\ opx \in Extended /\ op \in SumOps \ Extended
    BY <2>2, <2>3 DEF OpOf, Extended, SumOps
  <2>5. Code[p] = << Ins(op, sz, Imm(k), D(2)), Ins(opx, sz, D(1), D(3)) >>
    BY <1>2, <1>6, <2>2, <2>3 DEF Program, PairWith
  <2>6. k \in Values(Modulus[sz])
    <3>1. PICK m, h \in Nat : m = Modulus[sz] /\ h > 0 /\ m = 2 * h /\ m >= 256
      BY <2>2, SizesEven
    <3>2. m \div 2 = h BY <3>1
    <3> QED BY <2>2, <3>1, <3>2 DEF Values
  <2>7. PairTask(op, opx, sz, Imm(k))
    BY <1>1, <1>2, <1>6, <2>2, <2>4, <2>5, <2>6 DEF PairTask, Listing
  <2> QED BY <1>4, <2>7
<1> QED BY <1>2, <1>5, <1>6

\* The digits of a task on two digits in registers, with their condition codes.
PairSize == Modulus[task.program[3]]
PairLow == IF Kind = "with" THEN task.program[4] ELSE GivenD(0)
LowDigit ==
  Digit(OpOf(task.program[2]), PairSize, Fresh, PairLow % PairSize, GivenD(2) % PairSize)
HighDigit ==
  Digit(OpOf(task.program[2]), PairSize, LowDigit.f, GivenD(1) % PairSize, GivenD(3) % PairSize)
Put(r, v) == Insert(GivenD(r), task.program[3], v)

\* What the instructions before pc have done.
PairInv ==
  /\ pc \in 1 .. 3 /\ d \in [0 .. 3 -> Int]
  /\ d[0] = GivenD(0) /\ d[1] = GivenD(1)
  /\ d[2] = IF pc = 1 THEN GivenD(2) ELSE Put(2, LowDigit.r)
  /\ d[3] = IF pc = 3 THEN Put(3, HighDigit.r) ELSE GivenD(3)
  /\ pc = 2 => ccr = LowDigit.f
  /\ pc = 3 => ccr = HighDigit.f

\* What only depends on the task stays.
LEMMA PairKept ==
  ASSUME task' = task
  PROVE  /\ \A r : GivenD(r)' = GivenD(r)
         /\ \A r, v : Put(r, v)' = Put(r, v)
         /\ LowDigit' = LowDigit /\ HighDigit' = HighDigit
<1>1. \A r : GivenD(r)' = GivenD(r) BY DEF GivenD
<1>2. PairSize' = PairSize /\ PairLow' = PairLow /\ OpOf(task.program[2])' = OpOf(task.program[2])
  BY <1>1, Zenon DEF PairSize, PairLow, Kind
<1>3. LowDigit' = LowDigit
  BY <1>1, <1>2, Zenon DEF LowDigit, Digit, AddxOp, SubxOp, NegxOp, AbcdOp, SbcdOp
<1>4. HighDigit' = HighDigit BY <1>1, <1>2, <1>3, Zenon DEF HighDigit
<1>5. \A r, v : Put(r, v)' = Put(r, v) BY <1>1, Zenon DEF Put
<1> QED BY <1>1, <1>3, <1>4, <1>5

\* Its instructions.
LEMMA PairCode ==
  ASSUME NEW op, NEW opx, NEW sz, NEW e, PairTask(op, opx, sz, e)
  PROVE  /\ Halted <=> pc \notin 1 .. 2
         /\ pc = 1 => I = Ins(op, sz, e, D(2))
         /\ pc = 2 => I = Ins(opx, sz, D(1), D(3))
<1>1. PICK c : c = Listing[task.program] OBVIOUS
<1>2. c = << Ins(op, sz, e, D(2)), Ins(opx, sz, D(1), D(3)) >> BY <1>1 DEF PairTask
<1>3. DOMAIN c = 1 .. 2 /\ c[1] = Ins(op, sz, e, D(2)) /\ c[2] = Ins(opx, sz, D(1), D(3))
  BY <1>2
<1>4. I = c[pc] /\ (Halted <=> pc \notin DOMAIN c) BY <1>1 DEF I, Halted
<1> QED BY <1>3, <1>4

\* The digits are values of their size.
LEMMA PairTypes ==
  ASSUME task \in Tasks, Kind \in {"pair", "with"},
         NEW op, NEW opx, NEW sz, NEW e, PairTask(op, opx, sz, e)
  PROVE  /\ PairSize \in Nat /\ PairSize = Modulus[sz]
         /\ \E h \in Nat : h > 0 /\ PairSize = 2 * h
         /\ \A r \in 0 .. 3 : GivenD(r) \in Int /\ GivenD(r) % PairSize \in Values(PairSize)
         /\ PairLow % PairSize \in Values(PairSize)
         /\ LowDigit.r \in Values(PairSize) /\ HighDigit.r \in Values(PairSize)
<1>1. PICK m, h \in Nat : m = Modulus[sz] /\ h > 0 /\ m = 2 * h
  BY SizesEven DEF PairTask
<1>2. PairSize = m BY <1>1 DEF PairSize, PairTask
<1>3. \A x \in Int : x % m \in Values(m) BY <1>1, DivMod DEF Values
<1>4. \A r \in 0 .. 3 : GivenD(r) \in Int BY TaskOfPair DEF Values
<1>5. PairLow \in Int
  <2>1. CASE Kind = "with"
    <3>1. PairLow = task.program[4] /\ task.program[4] \in Values(m)
      BY <1>1, <2>1 DEF PairLow, PairTask
    <3> QED BY <1>1, <3>1 DEF Values
  <2>2. CASE Kind # "with" BY <1>4, <2>2 DEF PairLow
  <2> QED BY <2>1, <2>2
<1>6. PairLow % m \in Values(m) /\ \A r \in 0 .. 3 : GivenD(r) % m \in Values(m)
  BY <1>3, <1>4, <1>5
<1>7. OpOf(task.program[2]) \in Extended BY DEF PairTask
<1>8. LowDigit.r \in Values(m)
  <2>1. PICK s, t \in Values(m) : s = PairLow % m /\ t = GivenD(2) % m BY <1>6
  <2>2. LowDigit = Digit(OpOf(task.program[2]), m, Fresh, s, t) BY <1>2, <2>1 DEF LowDigit
  <2> QED BY <1>1, <1>7, <2>2, DigitType
<1>9. HighDigit.r \in Values(m)
  <2>1. PICK s, t \in Values(m) : s = GivenD(1) % m /\ t = GivenD(3) % m BY <1>6
  <2>2. HighDigit = Digit(OpOf(task.program[2]), m, LowDigit.f, s, t) BY <1>2, <2>1 DEF HighDigit
  <2> QED BY <1>1, <1>7, <2>2, DigitType
<1> QED BY <1>1, <1>2, <1>4, <1>6, <1>8, <1>9

\* Each of the instructions makes a digit.
LEMMA PairStep ==
  ASSUME Next, task \in Tasks, Kind \in {"pair", "with"}, PairInv
  PROVE  PairInv'
<1>1. PICK op, opx, sz, e : PairTask(op, opx, sz, e) BY TaskOfPair
<1>2. /\ op \in SumOps \ Extended /\ opx \in Extended /\ OpOf(op) = opx /\ sz \in {"b", "w"}
      /\ task.program[2] = op /\ task.program[3] = sz
  BY <1>1 DEF PairTask
<1>3. opx \in SumOps /\ OpOf(opx) = opx BY <1>2 DEF Extended, SumOps, OpOf
<1>4. PICK m \in Nat : m = PairSize /\ m = Modulus[sz] BY <1>1, PairTypes
<1>5. /\ LowDigit.r \in Values(m) /\ HighDigit.r \in Values(m) /\ PairLow % m \in Values(m)
      /\ \A r \in 0 .. 3 : GivenD(r) \in Int /\ GivenD(r) % m \in Values(m)
  BY <1>1, <1>4, PairTypes
<1>6. d \in [0 .. 3 -> Int] BY DEF PairInv
<1>7. pc \in 1 .. 2 BY <1>1, PairCode, OneAction DEF PairInv
<1>8. CASE pc = 1
  <2>1. I = Ins(op, sz, e, D(2)) BY <1>1, <1>8, PairCode
  <2>2. d[0] = GivenD(0) /\ d[1] = GivenD(1) /\ d[2] = GivenD(2) /\ d[3] = GivenD(3)
    BY <1>8 DEF PairInv
  <2>3. e.mode \in {"d", "imm"} /\ PairLow % m = Operand(e, sz, a)
    <3>1. CASE Kind = "with"
      <4>1. PICK k : k = task.program[4] OBVIOUS
      <4>2. e = Imm(k) /\ k \in Values(m) /\ PairLow = k
        BY <1>1, <1>2, <1>4, <3>1, <4>1 DEF PairTask, PairLow
      <4>3. e.mode = "imm" /\ e.value = k BY <4>2, Fields
      <4>4. k % m = k BY <4>2, ModBelow DEF Values
      <4> QED BY <4>2, <4>3, <4>4, RegisterOperand
    <3>2. CASE Kind # "with"
      <4>1. e = D(0) /\ PairLow = GivenD(0) BY <1>1, <3>2 DEF PairTask, PairLow
      <4>2. e.mode = "d" /\ e.reg = 0 BY <4>1, Fields
      <4> QED BY <1>4, <2>2, <4>1, <4>2, RegisterOperand
    <3> QED BY <3>1, <3>2
  <2>4. PICK s \in Int : s = PairLow % m /\ s = Operand(e, sz, a) BY <1>5, <2>3 DEF Values
  <2>5. PICK p : p = Digit(OpOf(op), Modulus[sz], IF op \in Extended THEN ccr ELSE Fresh,
                          s, d[2] % Modulus[sz])
    OBVIOUS
  <2>6. p = LowDigit BY <1>2, <1>4, <2>2, <2>4, <2>5 DEF LowDigit
  <2>7. /\ d' = [d EXCEPT ![2] = Insert(d[2], sz, p.r)] /\ ccr' = p.f
        /\ pc' = pc + 1 /\ task' = task
    <3>1. 2 \in 0 .. 3 OBVIOUS
    <3> QED BY <1>2, <1>6, <2>1, <2>3, <2>4, <2>5, <3>1, RegisterDigit
  <2>8. PICK w \in Int : w = Insert(d[2], sz, p.r)
    BY <1>2, <1>4, <1>5, <2>2, <2>6, InsertLow
  <2>9. w = Put(2, LowDigit.r) BY <1>2, <2>2, <2>6, <2>8 DEF Put
  <2>10. /\ pc' = 2 /\ d' \in [0 .. 3 -> Int] /\ ccr' = LowDigit.f
         /\ d'[0] = GivenD(0) /\ d'[1] = GivenD(1) /\ d'[2] = Put(2, LowDigit.r)
         /\ d'[3] = GivenD(3)
    BY <1>6, <1>8, <2>2, <2>6, <2>7, <2>8, <2>9
  <2> QED BY <2>7, <2>10, PairKept DEF PairInv
<1>9. CASE pc = 2
  <2>1. I = Ins(opx, sz, D(1), D(3)) BY <1>1, <1>9, PairCode
  <2>2. /\ d[0] = GivenD(0) /\ d[1] = GivenD(1) /\ d[2] = Put(2, LowDigit.r) /\ d[3] = GivenD(3)
        /\ ccr = LowDigit.f
    BY <1>9 DEF PairInv
  <2>3. D(1).mode = "d" /\ D(1).reg = 1 BY Fields
  <2>4. PICK s \in Int : s = GivenD(1) % m /\ s = Operand(D(1), sz, a)
    <3>1. Operand(D(1), sz, a) = d[1] % Modulus[sz] BY <2>3, RegisterOperand
    <3> QED BY <1>4, <1>5, <2>2, <3>1 DEF Values
  <2>5. PICK p : p = Digit(OpOf(opx), Modulus[sz], IF opx \in Extended THEN ccr ELSE Fresh,
                          s, d[3] % Modulus[sz])
    OBVIOUS
  <2>6. p = HighDigit BY <1>2, <1>3, <1>4, <2>2, <2>4, <2>5 DEF HighDigit
  <2>7. /\ d' = [d EXCEPT ![3] = Insert(d[3], sz, p.r)] /\ ccr' = p.f
        /\ pc' = pc + 1 /\ task' = task
    <3>1. 3 \in 0 .. 3 OBVIOUS
    <3> QED BY <1>2, <1>3, <1>6, <2>1, <2>3, <2>4, <2>5, <3>1, RegisterDigit
  <2>8. PICK w \in Int : w = Insert(d[3], sz, p.r)
    BY <1>2, <1>4, <1>5, <2>2, <2>6, InsertLow
  <2>9. w = Put(3, HighDigit.r) BY <1>2, <2>2, <2>6, <2>8 DEF Put
  <2>10. /\ pc' = 3 /\ d' \in [0 .. 3 -> Int] /\ ccr' = HighDigit.f
         /\ d'[0] = GivenD(0) /\ d'[1] = GivenD(1) /\ d'[2] = Put(2, LowDigit.r)
         /\ d'[3] = Put(3, HighDigit.r)
    BY <1>6, <1>9, <2>2, <2>6, <2>7, <2>8, <2>9
  <2> QED BY <2>7, <2>10, PairKept DEF PairInv
<1> QED BY <1>7, <1>8, <1>9

\* What is asked of the tasks on two digits in registers.
PairDone ==
  LET m == Modulus[task.program[3]]
      Both(lo, hi) == (GivenD(hi) % m) * m + (lo % m)
      low == IF Kind = "with" THEN task.program[4] ELSE GivenD(0)
  IN  /\ TwoDigits(task.program[2], m, Both(GivenD(2), 3), Both(low, 1),
                   Low(3, m) * m + Low(2, m))
      /\ Changed({2, 3}, m)

\* At the end of the program that is so.
LEMMA PairEnd ==
  ASSUME task \in Tasks, Kind \in {"pair", "with"}, PairInv, Halted
  PROVE  PairDone
<1>1. PICK op, opx, sz, e : PairTask(op, opx, sz, e) BY TaskOfPair
<1>2. /\ op \in SumOps /\ opx \in Extended /\ OpOf(op) = opx /\ sz \in {"b", "w"}
      /\ task.program[2] = op /\ task.program[3] = sz
  BY <1>1 DEF PairTask
<1>3. pc = 3 BY <1>1, PairCode DEF PairInv
<1>4. PICK m, h \in Nat : m = PairSize /\ m = Modulus[sz] /\ h > 0 /\ m = 2 * h
  BY <1>1, PairTypes
<1>5. PICK p, q : p = LowDigit /\ q = HighDigit OBVIOUS
<1>6. PICK sl, sh, tl, th \in Values(m) :
        /\ sl = PairLow % m /\ sh = GivenD(1) % m /\ tl = GivenD(2) % m /\ th = GivenD(3) % m
  <2>1. PairLow % m \in Values(m) BY <1>1, <1>4, PairTypes
  <2>2. \A r \in 0 .. 3 : GivenD(r) % m \in Values(m) BY <1>1, <1>4, PairTypes
  <2>3. GivenD(1) % m \in Values(m) /\ GivenD(2) % m \in Values(m) /\ GivenD(3) % m \in Values(m)
    BY <2>2
  <2> QED BY <2>1, <2>3
<1>7. /\ p = Digit(opx, m, Fresh, sl, tl) /\ q = Digit(opx, m, p.f, sh, th) /\ ccr = q.f
  BY <1>2, <1>3, <1>4, <1>5, <1>6 DEF LowDigit, HighDigit, PairInv
<1>8. p.r \in Values(m) /\ q.r \in Values(m) BY <1>1, <1>4, <1>5, PairTypes
<1>9. Low(2, m) = p.r /\ Low(3, m) = q.r /\ Changed({2, 3}, m)
  <2>1. /\ d[2] = Insert(GivenD(2), sz, p.r) /\ d[3] = Insert(GivenD(3), sz, q.r)
        /\ d[0] = GivenD(0) /\ d[1] = GivenD(1) /\ DOMAIN d = 0 .. 3
    BY <1>2, <1>3, <1>5 DEF PairInv, Put
  <2>2. GivenD(2) \in Int /\ GivenD(3) \in Int BY TaskOfPair DEF Values
  <2>3. /\ d[2] % m = p.r /\ d[3] % m = q.r
        /\ d[2] \div m = GivenD(2) \div m /\ d[3] \div m = GivenD(3) \div m
    <3>1. PICK g2, g3 \in Int : g2 = GivenD(2) /\ g3 = GivenD(3) BY <2>2
    <3>2. PICK pr, qr \in Values(Modulus[sz]) : pr = p.r /\ qr = q.r BY <1>4, <1>8
    <3>3. sz \in {"b", "w", "l"} BY <1>2
    <3>4. Insert(g2, sz, pr) % Modulus[sz] = pr /\ Insert(g3, sz, qr) % Modulus[sz] = qr
      BY <3>3, InsertLow
    <3>5. /\ Insert(g2, sz, pr) \div Modulus[sz] = g2 \div Modulus[sz]
          /\ Insert(g3, sz, qr) \div Modulus[sz] = g3 \div Modulus[sz]
      BY <3>3, InsertHigh
    <3> QED BY <1>4, <2>1, <3>1, <3>2, <3>4, <3>5
  <2>4. \A r \in 0 .. 3 : r \in {0, 1, 2, 3} OBVIOUS
  <2> QED BY <2>1, <2>3, <2>4 DEF Low, Changed
<1>10. PICK s, t, v : s = m * sh + sl /\ t = m * th + tl /\ v = m * q.r + p.r OBVIOUS
<1>11. TwoDigits(op, m, t, s, v)
  <2>1. PICK o : o = OpOf(op) OBVIOUS
  <2>2. p = Digit(o, m, Fresh, sl, tl) /\ q = Digit(o, m, p.f, sh, th) BY <1>2, <1>7, <2>1
  <2> QED BY <1>2, <1>4, <1>7, <1>10, <2>1, <2>2, DigitsDone, ZenonT(60)
<1>12. sh * m + sl = s /\ th * m + tl = t /\ q.r * m + p.r = v
  <2>1. PICK x, y \in Int : x = q.r /\ y = p.r BY <1>8 DEF Values
  <2>2. sh \in Int /\ th \in Int BY DEF Values
  <2>3. \A i \in Int : i * m = m * i BY <1>4
  <2> QED BY <1>10, <2>1, <2>2, <2>3
<1> QED BY <1>2, <1>4, <1>6, <1>9, <1>11, <1>12 DEF PairDone, PairLow

\* The invariant holds where the program starts.
LEMMA PairInit ==
  ASSUME Init, Kind \in {"pair", "with"}
  PROVE  PairInv
<1>1. task \in Tasks /\ d = [r \in 0 .. 3 |-> task.d[r + 1]] /\ pc = 1
  BY DEF Init
<1>2. \A r \in 0 .. 3 : GivenD(r) \in Values(Long) /\ d[r] = GivenD(r)
  BY <1>1, TaskOfPair DEF GivenD
<1>3. \A r \in 0 .. 3 : d[r] \in Int BY <1>2 DEF Values
<1>4. d \in [0 .. 3 -> Int] BY <1>1, <1>3
<1>5. d[0] = GivenD(0) /\ d[1] = GivenD(1) /\ d[2] = GivenD(2) /\ d[3] = GivenD(3) BY <1>2
<1> QED BY <1>1, <1>4, <1>5 DEF PairInv

ChainOps == Extended \cup {"abcd", "sbcd"}

\* The instructions of the program that chains two bytes in memory.
LEMMA ChainCode ==
  ASSUME task \in Tasks, Kind = "chain", NEW op, op = task.program[2]
  PROVE  /\ op \in ChainOps
         /\ Halted <=> pc \notin 1 .. 6
         /\ pc = 1 => I = Ins("lea", "l", Abs(2), A(0))
         /\ pc = 2 => I = Ins("lea", "l", Abs(6), A(1))
         /\ pc = 3 => I = Ins("moveq", "l", Imm(1), D(0))
         /\ pc = 4 => I = Ins("movetoccr", "w", Imm(4), Imm(0))
         /\ pc = 5 => I = Ins(op, "b", Dec(0), Dec(1))
         /\ pc = 6 => I = Loop("f", 0, 5)
<1>1. PICK p : p = task.program OBVIOUS
<1>2. p \in ProgramNames /\ p[1] = "chain" /\ Code[p] = Program(p) /\ op = p[2]
  BY <1>1, TaskAssumption DEF Kind
<1>3. op \in ChainOps
  <2>1. p \in {"chain"} \X {"addx", "subx", "negx", "abcd", "sbcd"}
    BY <1>2, SumProgram DEF SumNames
  <2> QED BY <1>2, <2>1 DEF ChainOps, Extended
<1>4. PICK c : c = Listing[p] OBVIOUS
<1>5. c = Chain(op, Dec(0)) BY <1>2, <1>4 DEF Program, Listing
<1>6. DOMAIN c = 1 .. 6 BY <1>5 DEF Chain
<1>7. /\ c[1] = Ins("lea", "l", Abs(2), A(0))
      /\ c[2] = Ins("lea", "l", Abs(6), A(1))
      /\ c[3] = Ins("moveq", "l", Imm(1), D(0))
      /\ c[4] = Ins("movetoccr", "w", Imm(4), Imm(0))
      /\ c[5] = Ins(op, "b", Dec(0), Dec(1))
      /\ c[6] = Loop("f", 0, 5)
  BY <1>5 DEF Chain, SetZ
<1>8. I = c[pc] /\ (Halted <=> pc \notin DOMAIN c) BY <1>1, <1>4 DEF I, Halted
<1> QED BY <1>3, <1>6, <1>7, <1>8

\* An instruction that adds to memory downwards.
LEMMA MemoryDigit ==
  ASSUME Next, NEW op \in ChainOps, I = Ins(op, "b", Dec(0), Dec(1)),
         NEW x, x = a[0] - 1, NEW y, y = a[1] - 1, DOMAIN a = {0, 1, 6, 7},
         NEW s \in Int, op # "negx" => s = mem[x], mem[y] \in Int,
         NEW p, p = Digit(op, 256, ccr, s, mem[y])
  PROVE  /\ mem' = [mem EXCEPT ![y] = p.r] /\ ccr' = p.f /\ d' = d
         /\ DOMAIN a' = {0, 1, 6, 7} /\ a'[1] = y /\ (op # "negx" => a'[0] = x)
         /\ pc' = pc + 1 /\ task' = task
<1>1. I.op = op /\ I.sz = "b" /\ I.s = Dec(0) /\ I.t = Dec(1) BY Fields
<1>2. I.s.mode = "dec" /\ I.s.reg = 0 /\ I.t.mode = "dec" /\ I.t.reg = 1 BY <1>1 DEF Dec
<1>3. Stride(I.s, "b") = 1 /\ Stride(I.t, "b") = 1 BY <1>2 DEF Stride, Bytes
<1>4. Source = mem[x] /\ AfterSource = [a EXCEPT ![0] = x]
  BY <1>1, <1>2, <1>3 DEF Source, AfterSource, Operand, Bump, Address, Peek
<1>5. PICK R : R = IF op = "negx" THEN a ELSE AfterSource OBVIOUS
<1>6. R[1] = a[1] /\ DOMAIN R = {0, 1, 6, 7} /\ (op # "negx" => R[0] = x) BY <1>4, <1>5
<1>7. Address(I.t, "b", R) = y BY <1>2, <1>3, <1>6 DEF Address
<1>8. Operand(I.t, "b", R) = mem[y] BY <1>2, <1>7 DEF Operand, Peek
<1>9. Bump(I.t, "b", R) = [R EXCEPT ![1] = y] BY <1>2, <1>3, <1>6 DEF Bump
<1>10. Store(I.t, "b", p.r, R) /\ ccr' = p.f /\ Continue
  <2>1. CASE op \in Extended
    <3>1. op \in SumOps /\ OpOf(op) = op BY <2>1 DEF Extended, SumOps, OpOf
    <3>2. PICK t \in Int : t = mem[y] OBVIOUS
    <3>3. R = IF op \in {"neg", "negx"} THEN a ELSE AfterSource BY <1>5, <2>1 DEF Extended
    <3>4. /\ I.t.mode # "a" /\ 256 = Modulus[I.sz] /\ (op \notin {"neg", "negx"} => s = Source)
          /\ t = Operand(I.t, I.sz, R)
      BY <1>1, <1>2, <1>4, <1>8, <3>2, SizesEven
    <3>5. PICK q : /\ q = Digit(OpOf(op), 256, IF op \in Extended THEN ccr ELSE Fresh, s, t)
                   /\ Store(I.t, I.sz, q.r, R) /\ ccr' = q.f /\ Continue
      BY <1>1, <3>1, <3>3, <3>4, SumActs
    <3>6. q = p BY <2>1, <3>1, <3>2, <3>5
    <3> QED BY <1>1, <3>5, <3>6
  <2>2. CASE op \in {"abcd", "sbcd"}
    <3>1. DecimalTarget = I.t BY <1>2 DEF DecimalTarget
    <3>2. R = AfterSource /\ s = Source BY <1>4, <1>5, <2>2
    <3>3. I.op \in AddingOps BY <1>1, <2>2 DEF AddingOps
    <3>4. CASE op = "abcd"
      <4>1. p = AbcdOp(ccr, Source, Operand(I.t, "b", AfterSource))
        BY <1>8, <3>2, <3>4 DEF Digit
      <4>2. DecimalOp(AbcdOp) BY <1>1, <3>3, <3>4, AddingAction
      <4> QED BY <3>1, <3>2, <4>1, <4>2, Zenon DEF DecimalOp
    <3>5. CASE op = "sbcd"
      <4>1. p = SbcdOp(ccr, Source, Operand(I.t, "b", AfterSource))
        BY <1>8, <3>2, <3>5 DEF Digit
      <4>2. DecimalOp(SbcdOp) BY <1>1, <3>3, <3>5, AddingAction
      <4> QED BY <3>1, <3>2, <4>1, <4>2, Zenon DEF DecimalOp
    <3> QED BY <2>2, <3>4, <3>5
  <2> QED BY <2>1, <2>2 DEF ChainOps
<1>11. mem' = [mem EXCEPT ![y] = p.r] /\ d' = d /\ a' = [R EXCEPT ![1] = y]
  BY <1>2, <1>7, <1>9, <1>10 DEF Store, Poke
<1> QED BY <1>6, <1>10, <1>11 DEF Continue

\* The digits of the bytes in memory.
LowByte == Digit(task.program[2], 256, Fresh, Given(1), Given(5))
HighByte == Digit(task.program[2], 256, LowByte.f, Given(0), Given(4))

\* k bytes are done.
Chained(k) ==
  /\ a[1] = 6 - k /\ (task.program[2] # "negx" => a[0] = 2 - k)
  /\ mem[5] = IF k = 0 THEN Given(5) ELSE LowByte.r
  /\ mem[4] = IF k = 2 THEN HighByte.r ELSE Given(4)
  /\ ccr = IF k = 0 THEN Fresh ELSE IF k = 1 THEN LowByte.f ELSE HighByte.f

\* What the instructions before pc have done.
ChainInv ==
  /\ pc \in 1 .. 7
  /\ d \in [0 .. 3 -> Int] /\ DOMAIN a = {0, 1, 6, 7} /\ DOMAIN mem = 0 .. Stack - 1
  /\ mem[0] = Given(0) /\ mem[1] = Given(1)
  /\ pc \in 1 .. 4 => mem[4] = Given(4) /\ mem[5] = Given(5)
  /\ pc \in 2 .. 4 => a[0] = 2
  /\ pc \in 3 .. 4 => a[1] = 6
  /\ pc = 4 => d[0] = 1
  /\ pc = 5 => \E k \in 0 .. 1 : Chained(k) /\ d[0] = 1 - k
  /\ pc = 6 => \E k \in 1 .. 2 : Chained(k) /\ d[0] = 2 - k
  /\ pc = 7 => Chained(2)

\* What only depends on the task stays.
LEMMA ChainKept ==
  ASSUME task' = task
  PROVE  /\ \A x : Given(x)' = Given(x)
         /\ LowByte' = LowByte /\ HighByte' = HighByte
         /\ task.program[2]' = task.program[2]
<1>1. \A x : Given(x)' = Given(x) BY BytesKept
<1>2. LowByte' = LowByte
  BY <1>1, ZenonT(60) DEF LowByte, Digit, AddxOp, SubxOp, NegxOp, AbcdOp, SbcdOp
<1>3. HighByte' = HighByte
  BY <1>1, <1>2, ZenonT(60) DEF HighByte, Digit, AddxOp, SubxOp, NegxOp, AbcdOp, SbcdOp
<1> QED BY <1>1, <1>2, <1>3

\* Addresses, the counter and the condition codes are set up.
LEMMA ChainStart ==
  ASSUME Next, task \in Tasks, Kind = "chain", ChainInv, pc \in 1 .. 4
  PROVE  ChainInv'
<1>1. task' = task BY KeepsTask
<1>2. /\ d \in [0 .. 3 -> Int] /\ DOMAIN a = {0, 1, 6, 7} /\ DOMAIN mem = 0 .. Stack - 1
      /\ mem[0] = Given(0) /\ mem[1] = Given(1) /\ mem[4] = Given(4) /\ mem[5] = Given(5)
      /\ pc \in 2 .. 4 => a[0] = 2
      /\ pc \in 3 .. 4 => a[1] = 6
      /\ pc = 4 => d[0] = 1
  BY DEF ChainInv
<1>3. CASE pc \in 1 .. 2
  <2>1. PICK x, r : x = (IF pc = 1 THEN 2 ELSE 6) /\ r = IF pc = 1 THEN 0 ELSE 1 OBVIOUS
  <2>2. I.op = "lea" /\ I.s = Abs(x) /\ I.t = A(r) BY <1>3, <2>1, ChainCode, Fields
  <2>3. I.s.mode = "abs" /\ I.s.address = x /\ I.t.reg = r BY <2>2, Fields
  <2>4. Address(I.s, "l", a) = x BY <2>3 DEF Address
  <2>5. Lea BY <2>2, OneAction
  <2>6. a' = [a EXCEPT ![r] = x] /\ pc' = pc + 1 /\ d' = d /\ mem' = mem
    BY <2>3, <2>4, <2>5 DEF Lea, Continue
  <2>7. DOMAIN a' = {0, 1, 6, 7} /\ a'[0] = 2 /\ (pc = 2 => a'[1] = 6)
    BY <1>2, <1>3, <2>1, <2>6
  <2> QED BY <1>1, <1>2, <1>3, <2>6, <2>7, ChainKept DEF ChainInv
<1>4. CASE pc = 3
  <2>1. I.op = "moveq" /\ I.s = Imm(1) /\ I.t = D(0) BY <1>4, ChainCode, Fields
  <2>2. I.s.value = 1 /\ I.t.reg = 0 BY <2>1, Fields
  <2>3. Moveq BY <2>1, OneAction
  <2>4. SignExtend("b", 1) = 1
    <3>1. 1 \in 0 .. 127 OBVIOUS
    <3> QED BY <3>1, PositiveByte
  <2>5. a' = a /\ pc' = 4 /\ d' = [d EXCEPT ![0] = 1] /\ mem' = mem
    <3>1. PICK v : v = SignExtend("b", I.s.value) OBVIOUS
    <3>2. v = 1 BY <2>2, <2>4, <3>1
    <3>3. ToData(I.t.reg, v, MoveOp(256, ccr, I.s.value).f) BY <2>3, <3>1 DEF Moveq
    <3> QED BY <1>4, <2>2, <3>2, <3>3 DEF ToData, Continue
  <2>6. d' \in [0 .. 3 -> Int] /\ d'[0] = 1 BY <1>2, <2>5
  <2> QED BY <1>1, <1>2, <1>4, <2>5, <2>6, ChainKept DEF ChainInv
<1>5. CASE pc = 4
  <2>1. I.op = "movetoccr" /\ I.s = Imm(4) BY <1>5, ChainCode, Fields
  <2>2. I.s.mode = "imm" /\ I.s.value = 4 BY <2>1, Fields
  <2>3. Source = 4 /\ AfterSource = a BY <2>2, RegisterOperand DEF Source, AfterSource
  <2>4. ToCcr(Source) BY <2>1, AddingAction DEF AddingOps
  <2>5. ccr' = Fresh /\ a' = a /\ pc' = 5 /\ d' = d /\ mem' = mem
    BY <1>5, <2>3, <2>4 DEF ToCcr, Continue, Fresh
  <2>6. Chained(0)' /\ d'[0] = 1 - 0
    BY <1>1, <1>2, <1>5, <2>5, ChainKept DEF Chained, Fresh, ToFlags
  <2>7. \E k \in 0 .. 1 : Chained(k)' /\ d'[0] = 1 - k BY <2>6
  <2> QED BY <1>1, <1>2, <2>5, <2>7, ChainKept DEF ChainInv
<1> QED BY <1>3, <1>4, <1>5

\* One more byte is done.
LEMMA ChainDigit ==
  ASSUME Next, task \in Tasks, Kind = "chain", ChainInv, pc = 5
  PROVE  ChainInv'
<1>1. PICK op : op = task.program[2] OBVIOUS
<1>2. op \in ChainOps /\ I = Ins(op, "b", Dec(0), Dec(1)) BY <1>1, ChainCode
<1>3. /\ d \in [0 .. 3 -> Int] /\ DOMAIN a = {0, 1, 6, 7} /\ DOMAIN mem = 0 .. Stack - 1
      /\ mem[0] = Given(0) /\ mem[1] = Given(1)
  BY DEF ChainInv
<1>4. PICK k \in 0 .. 1 : Chained(k) /\ d[0] = 1 - k BY DEF ChainInv
<1>5. /\ a[1] = 6 - k /\ (op # "negx" => a[0] = 2 - k)
      /\ mem[5] = (IF k = 0 THEN Given(5) ELSE LowByte.r) /\ mem[4] = Given(4)
      /\ ccr = IF k = 0 THEN Fresh ELSE LowByte.f
  BY <1>1, <1>4 DEF Chained
<1>6. Given(1 - k) \in Int /\ Given(5 - k) \in Int
  <2>1. 1 - k \in Nat /\ 5 - k \in Nat OBVIOUS
  <2>2. Given(1 - k) \in 0 .. 255 /\ Given(5 - k) \in 0 .. 255 BY <2>1, GivenType
  <2> QED BY <2>2
<1>7. PICK s, t : s \in Int /\ t \in Int /\ s = Given(1 - k) /\ t = Given(5 - k)
  BY <1>6, Zenon
<1>8. PICK x, y : x = a[0] - 1 /\ y = a[1] - 1 OBVIOUS
<1>9. y = 5 - k /\ mem[y] = t /\ (op # "negx" => x = 1 - k /\ mem[x] = s)
  <2>1. CASE k = 0 BY <1>3, <1>5, <1>7, <1>8, <2>1
  <2>2. CASE k = 1 BY <1>3, <1>5, <1>7, <1>8, <2>2
  <2> QED BY <2>1, <2>2
<1>10. PICK p : p = Digit(op, 256, ccr, s, t) OBVIOUS
<1>11. p = IF k = 0 THEN LowByte ELSE HighByte
  <2>1. CASE k = 0
    <3>1. s = Given(1) /\ t = Given(5) /\ ccr = Fresh BY <1>5, <1>7, <2>1
    <3> QED BY <1>1, <1>10, <2>1, <3>1 DEF LowByte
  <2>2. CASE k = 1
    <3>1. s = Given(0) /\ t = Given(4) /\ ccr = LowByte.f BY <1>5, <1>7, <2>2
    <3> QED BY <1>1, <1>10, <2>2, <3>1 DEF HighByte
  <2> QED BY <2>1, <2>2
<1>12. /\ mem' = [mem EXCEPT ![y] = p.r] /\ ccr' = p.f /\ d' = d
       /\ DOMAIN a' = {0, 1, 6, 7} /\ a'[1] = y /\ (op # "negx" => a'[0] = x)
       /\ pc' = pc + 1 /\ task' = task
  <2>1. op # "negx" => s = mem[x] BY <1>9
  <2>2. mem[y] \in Int /\ p = Digit(op, 256, ccr, s, mem[y]) BY <1>7, <1>9, <1>10
  <2>3. DOMAIN a = {0, 1, 6, 7} /\ mem[y] \in Int BY <1>3, <2>2
  <2>4. x = a[0] - 1 /\ y = a[1] - 1 /\ s \in Int BY <1>7, <1>8
  <2> QED BY <1>2, <2>1, <2>2, <2>3, <2>4, MemoryDigit, SMTT(30)
<1>13. {0, 1, 4, 5} \subseteq DOMAIN mem BY <1>3, TaskAssumption
<1>14. CASE k = 0
  <2>1. /\ mem'[0] = Given(0) /\ mem'[1] = Given(1) /\ mem'[4] = Given(4)
        /\ mem'[5] = LowByte.r /\ DOMAIN mem' = 0 .. Stack - 1
    BY <1>3, <1>5, <1>9, <1>11, <1>12, <1>13, <1>14
  <2>2. Chained(1)'
    BY <1>1, <1>9, <1>11, <1>12, <1>14, <2>1, ChainKept DEF Chained
  <2>3. d'[0] = 2 - 1 BY <1>4, <1>12, <1>14
  <2>4. \E j \in 1 .. 2 : Chained(j)' /\ d'[0] = 2 - j BY <2>2, <2>3
  <2> QED BY <1>3, <1>12, <2>1, <2>4, ChainKept DEF ChainInv
<1>15. CASE k = 1
  <2>1. /\ mem'[0] = Given(0) /\ mem'[1] = Given(1) /\ mem'[4] = HighByte.r
        /\ mem'[5] = LowByte.r /\ DOMAIN mem' = 0 .. Stack - 1
    BY <1>3, <1>5, <1>9, <1>11, <1>12, <1>13, <1>15
  <2>2. Chained(2)'
    BY <1>1, <1>9, <1>11, <1>12, <1>15, <2>1, ChainKept DEF Chained
  <2>3. d'[0] = 2 - 2 BY <1>4, <1>12, <1>15
  <2>4. \E j \in 1 .. 2 : Chained(j)' /\ d'[0] = 2 - j BY <2>2, <2>3
  <2> QED BY <1>3, <1>12, <2>1, <2>4, ChainKept DEF ChainInv
<1> QED BY <1>14, <1>15

\* Counting down the last rounds.
LEMMA LastRounds ==
  ASSUME NEW c \in 0 .. 1, NEW w, w = Insert(c, "w", ((c % Word) - 1) % Word)
  PROVE  c % Word = c /\ w \in Int /\ (c = 1 => w = 0)
<1>1. PICK m \in Nat : m = Word /\ m = Modulus["w"] /\ m >= 512 BY SizesEven
<1>2. c % m = c
  <2>1. c \in 0 .. m - 1 BY <1>1
  <2> QED BY <2>1, ModBelow
<1>3. PICK y \in Int : y = (c % m) - 1 /\ y = c - 1 BY <1>2
<1>4. PICK v : v = y % m OBVIOUS
<1>5. v \in Values(m)
  <2>1. m > 0 BY <1>1
  <2> QED BY <1>4, <2>1, DivMod DEF Values
<1>6. c = 1 => v = 0
  <2>1. 0 \in 0 .. m - 1 BY <1>1
  <2>2. 0 % m = 0 BY <2>1, ModBelow
  <2> QED BY <1>3, <1>4, <2>2
<1>7. w = Insert(c, "w", v) BY <1>1, <1>3, <1>4
<1>8. w \in Int BY <1>1, <1>5, <1>7, InsertLow
<1>9. c = 1 => w = 0
  <2>1. w = c - (c % m) + v BY <1>1, <1>7 DEF Insert
  <2> QED BY <1>2, <1>6, <2>1
<1> QED BY <1>1, <1>2, <1>8, <1>9

\* The loop goes on once.
LEMMA ChainLoop ==
  ASSUME Next, task \in Tasks, Kind = "chain", ChainInv, pc = 6
  PROVE  ChainInv'
<1>1. task' = task BY KeepsTask
<1>2. /\ d \in [0 .. 3 -> Int] /\ DOMAIN a = {0, 1, 6, 7} /\ DOMAIN mem = 0 .. Stack - 1
      /\ mem[0] = Given(0) /\ mem[1] = Given(1)
  BY DEF ChainInv
<1>3. PICK k \in 1 .. 2 : Chained(k) /\ d[0] = 2 - k BY DEF ChainInv
<1>4. I.op = "dbcc" /\ I.cc = "f" /\ I.t = D(0) /\ I.to = 5 BY ChainCode, Fields
<1>5. I.t.reg = 0 BY <1>4, Fields
<1>6. Dbcc BY <1>4, OneAction
<1>7. ~Condition(ccr)["f"] BY DEF Condition
<1>8. a' = a /\ mem' = mem /\ ccr' = ccr BY <1>6 DEF Dbcc
<1>9. PICK c \in 0 .. 1 : c = d[0] /\ c = 2 - k BY <1>3
<1>10. PICK w : w = Insert(c, "w", ((c % Word) - 1) % Word) OBVIOUS
<1>11. c % Word = c /\ w \in Int /\ (c = 1 => w = 0) BY <1>10, LastRounds
<1>12. d' = [d EXCEPT ![0] = w] /\ pc' = IF c # 0 THEN 5 ELSE 7
  <2>1. d' = [d EXCEPT ![0] = Insert(d[0], "w", ((d[0] % Word) - 1) % Word)]
        /\ pc' = IF d[0] % Word # 0 THEN 5 ELSE 7
    BY <1>4, <1>5, <1>6, <1>7 DEF Dbcc, Jump
  <2> QED BY <1>9, <1>10, <1>11, <2>1
<1>13. d' \in [0 .. 3 -> Int] /\ d'[0] = w BY <1>2, <1>11, <1>12
<1>14. Chained(k)' BY <1>1, <1>3, <1>8, ChainKept DEF Chained
<1>15. CASE k = 1
  <2>1. pc' = 5 /\ d'[0] = 1 - 1 BY <1>9, <1>11, <1>12, <1>13, <1>15
  <2>2. \E j \in 0 .. 1 : Chained(j)' /\ d'[0] = 1 - j BY <1>14, <1>15, <2>1
  <2> QED BY <1>1, <1>2, <1>8, <1>13, <2>1, <2>2, ChainKept DEF ChainInv
<1>16. CASE k = 2
  <2>1. pc' = 7 BY <1>9, <1>12, <1>16
  <2> QED BY <1>1, <1>2, <1>8, <1>13, <1>14, <1>16, <2>1, ChainKept DEF ChainInv
<1> QED BY <1>15, <1>16

\* The task on bytes in memory, as a whole.
LEMMA ChainStep ==
  ASSUME Next, task \in Tasks, Kind = "chain", ChainInv
  PROVE  ChainInv'
<1>1. ~Halted /\ (Halted <=> pc \notin 1 .. 6) BY ChainCode, OneAction
<1>2. pc \in 1 .. 4 \/ pc = 5 \/ pc = 6 BY <1>1 DEF ChainInv
<1> QED BY <1>2, ChainStart, ChainDigit, ChainLoop

\* What is asked of it.
ChainDone ==
  LET op == task.program[2]
      r == 256 * mem[4] + mem[5]
  IN  IF op \in {"abcd", "sbcd"}
        THEN TwoDecimals(op, GivenWord(4), GivenWord(0), r)
        ELSE TwoDigits(op, 256, GivenWord(4), GivenWord(0), r)

\* At the end of the program that is so.
LEMMA ChainEnd ==
  ASSUME task \in Tasks, Kind = "chain", ChainInv, Halted
  PROVE  ChainDone
<1>1. PICK op : op = task.program[2] OBVIOUS
<1>2. op \in ChainOps BY <1>1, ChainCode
<1>3. pc = 7 BY ChainCode DEF ChainInv
<1>4. PICK p, q : p = LowByte /\ q = HighByte OBVIOUS
<1>5. mem[5] = p.r /\ mem[4] = q.r /\ ccr = q.f BY <1>3, <1>4 DEF ChainInv, Chained
<1>6. PICK sl, sh, tl, th \in 0 .. 255 :
        sl = Given(1) /\ sh = Given(0) /\ tl = Given(5) /\ th = Given(4)
  <2>1. 0 \in Nat /\ 1 \in Nat /\ 4 \in Nat /\ 5 \in Nat OBVIOUS
  <2>2. \A x \in Nat : Given(x) \in 0 .. 255 BY GivenType
  <2> QED BY <2>1, <2>2
<1>7. p = Digit(op, 256, Fresh, sl, tl) /\ q = Digit(op, 256, p.f, sh, th)
  BY <1>1, <1>4, <1>6 DEF LowByte, HighByte
<1>8. PICK s, t, v : s = 256 * sh + sl /\ t = 256 * th + tl /\ v = 256 * q.r + p.r OBVIOUS
<1>9. GivenWord(0) = s /\ GivenWord(4) = t /\ 256 * mem[4] + mem[5] = v
  <2>1. 0 + 1 = 1 /\ 4 + 1 = 5 OBVIOUS
  <2>2. GivenWord(0) = 256 * Given(0) + Given(1) /\ GivenWord(4) = 256 * Given(4) + Given(5)
    BY <2>1 DEF GivenWord
  <2> QED BY <1>5, <1>6, <1>8, <2>2
<1>10. CASE op \in {"abcd", "sbcd"}
  <2>1. PICK m : m = 256 OBVIOUS
  <2>2. p = Digit(op, m, Fresh, sl, tl) /\ q = Digit(op, m, p.f, sh, th) BY <1>7, <2>1
  <2>3. s = m * sh + sl /\ t = m * th + tl /\ v = m * q.r + p.r BY <1>8, <2>1
  <2>4. sl \in Values(m) /\ sh \in Values(m) /\ tl \in Values(m) /\ th \in Values(m)
    BY <2>1 DEF Values
  <2>5. TwoDecimals(op, t, s, v) BY <1>5, <1>10, <2>1, <2>2, <2>3, <2>4, DecimalsDone, Z3
  <2> QED BY <1>1, <1>9, <1>10, <2>5 DEF ChainDone
<1>11. CASE op \in Extended
  <2>1. op \in SumOps /\ OpOf(op) = op /\ op \notin {"abcd", "sbcd"}
    BY <1>11 DEF Extended, SumOps, OpOf
  <2>2. PICK h \in Nat, m \in Nat : h = 128 /\ h > 0 /\ m = 256 /\ m = 2 * h OBVIOUS
  <2>3. sl \in Values(m) /\ sh \in Values(m) /\ tl \in Values(m) /\ th \in Values(m)
    BY <2>2 DEF Values
  <2>4. PICK o : o = OpOf(op) OBVIOUS
  <2>5. p = Digit(o, m, Fresh, sl, tl) /\ q = Digit(o, m, p.f, sh, th)
    BY <1>7, <2>1, <2>2, <2>4
  <2>6. s = m * sh + sl /\ t = m * th + tl /\ v = m * q.r + p.r BY <1>8, <2>2
  <2>7. TwoDigits(op, m, t, s, v) BY <1>5, <2>1, <2>2, <2>3, <2>4, <2>5, <2>6, DigitsDone
  <2> QED BY <1>1, <1>9, <2>1, <2>2, <2>7 DEF ChainDone
<1> QED BY <1>2, <1>10, <1>11 DEF ChainOps

\* The invariant holds where the program starts.
LEMMA ChainInit ==
  ASSUME Init, Kind = "chain"
  PROVE  ChainInv
<1>1. /\ task \in Tasks /\ d = [r \in 0 .. 3 |-> task.d[r + 1]] /\ pc = 1
      /\ a = [r \in {0, 1, 6, 7} |-> IF r = 7 THEN Stack ELSE 0]
      /\ mem = [x \in 0 .. Stack - 1 |-> IF x < Len(task.bytes) THEN task.bytes[x + 1] ELSE 0]
  BY DEF Init
<1>2. \A x \in 0 .. 7 : mem[x] = Given(x)
  <2>1. \A x \in 0 .. 7 : x \in 0 .. Stack - 1 BY TaskAssumption
  <2> QED BY <1>1, <2>1 DEF Given
<1>3. d \in [0 .. 3 -> Int]
  <2>1. PICK g : g = task.d OBVIOUS
  <2>2. g \in [1 .. 4 -> Values(Long)] BY <1>1, <2>1, TaskAssumption
  <2>3. \A r \in 0 .. 3 : g[r + 1] \in Int
    <3>1. \A r \in 0 .. 3 : r + 1 \in 1 .. 4 OBVIOUS
    <3>2. \A i \in 1 .. 4 : g[i] \in Int BY <2>2 DEF Values
    <3> QED BY <3>1, <3>2
  <2> QED BY <1>1, <2>1, <2>3
<1>4. DOMAIN a = {0, 1, 6, 7} /\ DOMAIN mem = 0 .. Stack - 1 BY <1>1
<1> QED BY <1>1, <1>2, <1>3, <1>4 DEF ChainInv

-----------------------------------------------------------------------------
\* The inductive invariant of SumsExact.
SumsInv ==
  /\ task \in Tasks
  /\ Kind = "chain" => ChainInv
  /\ Kind \in {"pair", "with"} => PairInv

\* Every step keeps it.
LEMMA SumsStep == SumsInv /\ [Next]_vars => SumsInv'
<1> SUFFICES ASSUME SumsInv, [Next]_vars PROVE SumsInv' OBVIOUS
<1>1. CASE Next
  <2>1. task' = task /\ task' \in Tasks /\ Kind' = Kind BY <1>1, KeepsTask DEF SumsInv, Kind
  <2>2. Kind = "chain" => ChainInv' BY <1>1, ChainStep DEF SumsInv
  <2>3. Kind \in {"pair", "with"} => PairInv' BY <1>1, PairStep DEF SumsInv
  <2> QED BY <2>1, <2>2, <2>3 DEF SumsInv
<1>2. CASE UNCHANGED vars
  <2>1. task' = task /\ d' = d /\ a' = a /\ ccr' = ccr /\ mem' = mem /\ pc' = pc
    BY <1>2 DEF vars
  <2>2. Kind' = Kind BY <2>1 DEF Kind
  <2>3. PairInv' <=> PairInv BY <2>1, PairKept DEF PairInv
  <2>4. \A k : Chained(k)' <=> Chained(k) BY <2>1, ChainKept DEF Chained
  <2>5. ChainInv' <=> ChainInv BY <2>1, <2>4, ChainKept DEF ChainInv
  <2> QED BY <2>1, <2>2, <2>3, <2>5 DEF SumsInv
<1> QED BY <1>1, <1>2

\* Whatever the operands, sums, differences and negations of two digits in
\* memory and in registers, chained by X, are exact, with the condition codes of
\* the whole number.
THEOREM SumsAlways == Spec => []SumsExact
<1>1. Init => SumsInv BY ChainInit, PairInit DEF SumsInv, Init
<1>2. SumsInv => SumsExact
  <2>1. SumsExact <=> /\ Done({"chain"}) => ChainDone
                      /\ Done({"pair", "with"}) => PairDone
    BY Zenon DEF SumsExact, ChainDone, PairDone
  <2> QED BY <2>1, ChainEnd, PairEnd DEF SumsInv, Done
<1> QED BY <1>1, <1>2, SumsStep, PTL DEF Spec

-----------------------------------------------------------------------------
(* Division: the programs that divide and put the dividend together again.   *)
\* A number with its sign in half the values above and below zero.
LEMMA SignedOfMod ==
  ASSUME NEW h \in Nat, h > 0, NEW m \in Nat, m = 2 * h, NEW x \in -h .. h - 1
  PROVE  /\ x % m = (IF x < 0 THEN x + m ELSE x) /\ x % m \in Values(m)
         /\ Signed(m, x % m) = x
<1>1. x % m = IF x < 0 THEN x + m ELSE x
  <2>1. CASE x < 0
    <3>1. m > 0 /\ x \in -m .. -1 BY <2>1
    <3> QED BY <2>1, <3>1, ModMinus
  <2>2. CASE x >= 0
    <3>1. m > 0 /\ x \in 0 .. m - 1 BY <2>2
    <3> QED BY <2>2, <3>1, ModBelow
  <2> QED BY <2>1, <2>2
<1>2. PICK y \in Int : y = x % m BY <1>1
<1>3. Signed(m, y) = IF y >= h THEN y - m ELSE y BY TopHalf
<1> QED BY <1>1, <1>2, <1>3 DEF Values

\* Numbers that differ by a multiple of the size are the same to it.
LEMMA SameMod ==
  ASSUME NEW m \in Nat, m > 0, NEW x \in Int, NEW k \in Int
  PROVE  (x + m * k) % m = x % m
<1>1. PICK q \in Int, v \in 0 .. m - 1 : v = x % m /\ x = m * q + v
  <2>1. x \div m \in Int /\ x % m \in 0 .. m - 1 /\ x = m * (x \div m) + (x % m) BY DivMod
  <2> QED BY <2>1
<1>2. x + m * k = m * (q + k) + v
  <2>1. m * (q + k) = m * q + m * k OBVIOUS
  <2>2. m * q \in Int /\ m * k \in Int OBVIOUS
  <2> QED BY <1>1, <2>1, <2>2
<1>3. q + k \in Int OBVIOUS
<1>4. (m * (q + k) + v) % m = v BY <1>3, ModOfSum
<1> QED BY <1>1, <1>2, <1>4

\* A sum may be cut to its size before or after the addition.
LEMMA ModOfMods ==
  ASSUME NEW m \in Nat, m > 0, NEW x \in Int, NEW y \in Int
  PROVE  ((x % m) + (y % m)) % m = (x + y) % m
<1>1. PICK q \in Int, v \in 0 .. m - 1 : v = x % m /\ x = m * q + v
  <2>1. x \div m \in Int /\ x % m \in 0 .. m - 1 /\ x = m * (x \div m) + (x % m) BY DivMod
  <2> QED BY <2>1
<1>2. PICK k \in Int, w \in 0 .. m - 1 : w = y % m /\ y = m * k + w
  <2>1. y \div m \in Int /\ y % m \in 0 .. m - 1 /\ y = m * (y \div m) + (y % m) BY DivMod
  <2> QED BY <2>1
<1>3. x + y = (v + w) + m * (q + k)
  <2>1. m * (q + k) = m * q + m * k OBVIOUS
  <2>2. m * q \in Int /\ m * k \in Int OBVIOUS
  <2> QED BY <1>1, <1>2, <2>1, <2>2
<1>4. ((v + w) + m * (q + k)) % m = (v + w) % m
  <2>1. v + w \in Int /\ q + k \in Int OBVIOUS
  <2> QED BY <2>1, SameMod
<1> QED BY <1>1, <1>2, <1>3, <1>4

\* The size of a number without its sign.
Size(v) == IF v < 0 THEN -v ELSE v

\* The quotient of C's division, rounded to zero, and its remainder (divu.c, divs.c).
Rounded(num, den) == IF den < 0 THEN -Quot(num, -den) ELSE Quot(num, den)
Remains(num, den) == num - den * Rounded(num, den)

\* The sizes of quotient and remainder are those of the sizes divided; the
\* quotient is negative if the signs differ, the remainder has the dividend's.
LEMMA RoundedExact ==
  ASSUME NEW num \in Int, NEW den \in Int, den # 0
  PROVE  /\ Rounded(num, den) \in Int /\ Remains(num, den) \in Int
         /\ Size(Rounded(num, den)) = Size(num) \div Size(den)
         /\ (num < 0) = (den < 0) => Rounded(num, den) >= 0
         /\ (num < 0) # (den < 0) => Rounded(num, den) <= 0
         /\ Size(Remains(num, den)) < Size(den)
         /\ Remains(num, den) # 0 => (Remains(num, den) < 0) = (num < 0)
<1>1. PICK n, k \in Nat : n = Size(num) /\ k = Size(den) /\ k > 0 BY DEF Size
<1>2. PICK w, r \in Nat : w = n \div k /\ n = k * w + r /\ r < k
  <2>1. n \div k \in Int /\ n % k \in 0 .. k - 1 /\ n = k * (n \div k) + (n % k) BY <1>1, DivMod
  <2>2. n \div k >= 0 BY <1>1
  <2> QED BY <2>1, <2>2
<1>3. PICK q : q = Rounded(num, den) OBVIOUS
<1>4. q = IF (num < 0) = (den < 0) THEN w ELSE -w
  <2>1. CASE num < 0 /\ den < 0
    <3>1. n = -num /\ k = -den BY <1>1, <2>1 DEF Size
    <3>2. q = -(-(n \div k)) BY <1>3, <2>1, <3>1 DEF Rounded, Quot
    <3> QED BY <1>2, <2>1, <3>2
  <2>2. CASE num < 0 /\ den > 0
    <3>1. n = -num /\ k = den BY <1>1, <2>2 DEF Size
    <3>2. q = -(n \div k) BY <1>3, <2>2, <3>1 DEF Rounded, Quot
    <3> QED BY <1>2, <2>2, <3>2
  <2>3. CASE num >= 0 /\ den < 0
    <3>1. n = num /\ k = -den BY <1>1, <2>3 DEF Size
    <3>2. q = -(n \div k) BY <1>3, <2>3, <3>1 DEF Rounded, Quot
    <3> QED BY <1>2, <2>3, <3>2
  <2>4. CASE num >= 0 /\ den > 0
    <3>1. n = num /\ k = den BY <1>1, <2>4 DEF Size
    <3>2. q = n \div k BY <1>3, <2>4, <3>1 DEF Rounded, Quot
    <3> QED BY <1>2, <2>4, <3>2
  <2> QED BY <2>1, <2>2, <2>3, <2>4
<1>5. den * q = IF num < 0 THEN -(k * w) ELSE k * w
  <2>1. (-k) * w = -(k * w) /\ k * (-w) = -(k * w) /\ (-k) * (-w) = k * w OBVIOUS
  <2>2. (den < 0 => den = -k) /\ (den > 0 => den = k) BY <1>1 DEF Size
  <2>3. CASE num < 0 /\ den < 0 BY <1>4, <2>1, <2>2, <2>3
  <2>4. CASE num < 0 /\ den > 0 BY <1>4, <2>1, <2>2, <2>4
  <2>5. CASE num >= 0 /\ den < 0 BY <1>4, <2>1, <2>2, <2>5
  <2>6. CASE num >= 0 /\ den > 0 BY <1>4, <2>1, <2>2, <2>6
  <2> QED BY <2>3, <2>4, <2>5, <2>6
<1>6. num - den * q = IF num < 0 THEN -r ELSE r
  <2>1. PICK z \in Int : z = k * w OBVIOUS
  <2>2. num = IF num < 0 THEN -(z + r) ELSE z + r BY <1>1, <1>2, <2>1 DEF Size
  <2> QED BY <1>5, <2>1, <2>2
<1>7. Size(q) = w /\ q \in Int BY <1>4 DEF Size
<1>8. PICK e \in Int : e = Remains(num, den) /\ e = IF num < 0 THEN -r ELSE r
  <2>1. num - den * q \in Int BY <1>6
  <2>2. Remains(num, den) = num - den * q BY <1>3 DEF Remains
  <2> QED BY <1>6, <2>1, <2>2
<1>9. Size(e) = r /\ (e # 0 => (e < 0) = (num < 0)) BY <1>8 DEF Size
<1>10. Size(num) \div Size(den) = w BY <1>1, <1>2
<1>11. /\ (num < 0) = (den < 0) => q >= 0
       /\ (num < 0) # (den < 0) => q <= 0
  BY <1>4
<1> QED BY <1>1, <1>2, <1>7, <1>8, <1>9, <1>3, <1>10, <1>11

\* A quotient fits a word with its sign exactly if its size does.
LEMMA FitsSigned ==
  ASSUME NEW h \in Nat, h > 0, NEW q \in Int, NEW negative \in BOOLEAN,
         ~negative => q >= 0, negative => q <= 0
  PROVE  q \in -h .. h - 1 <=> Size(q) <= (IF negative THEN h ELSE h - 1)
BY DEF Size

\* The words of a long.
LEMMA WordsOf ==
  ASSUME NEW x \in Values(Word), NEW y \in Values(Word), NEW v, v = x * Word + y
  PROVE  v \in Values(Long) /\ v % Word = y /\ v \div Word = x
<1>1. PICK w \in Nat : w = Word /\ w > 0 /\ Long = w * w BY SizesEven
<1>2. x \in 0 .. w - 1 /\ y \in 0 .. w - 1 BY <1>1 DEF Values
<1>3. PICK z \in Int : z = w * x /\ v = z + y
  <2>1. w * x \in Int /\ x * w = w * x BY <1>2
  <2> QED BY <1>1, <2>1
<1>4. v % w = y
  <2>1. (w * x + y) % w = y BY <1>1, <1>2, ModOfSum
  <2> QED BY <1>3, <2>1
<1>5. v \div w = x
  <2>1. v \in Int BY <1>2, <1>3
  <2>2. PICK k \in Int : k = v \div w /\ v = w * k + y
    <3>1. v \div w \in Int /\ v = w * (v \div w) + (v % w) BY <1>1, <2>1, DivMod
    <3> QED BY <1>4, <3>1
  <2>3. PICK e \in Int : e = k - x BY <1>2
  <2>4. w * e = 0
    <3>1. w * k = w * x + w * e BY <1>2, <2>3
    <3>2. w * k \in Int /\ w * x \in Int /\ w * e \in Int BY <1>2, <2>2
    <3>3. w * k = w * x BY <1>2, <1>3, <2>2, <3>2
    <3> QED BY <3>1, <3>2, <3>3
  <2>5. e = 0 BY <1>1, <2>4
  <2> QED BY <1>2, <2>2, <2>3, <2>5
<1>6. v \in 0 .. w * w - 1
  <2>1. PICK u \in Int : u = w - 1 - x /\ u >= 0 BY <1>2
  <2>2. w * x = w * w - w - w * u BY <1>2, <2>1
  <2>3. w * u >= 0 /\ w * u \in Int /\ w * w \in Int BY <2>1
  <2>4. w * x >= 0 BY <1>2
  <2> QED BY <1>2, <1>3, <2>2, <2>3, <2>4
<1> QED BY <1>1, <1>4, <1>5, <1>6 DEF Values

\* Replacing all of a long.
LEMMA InsertLong ==
  ASSUME NEW x \in Values(Long), NEW v \in Int
  PROVE  Insert(x, "l", v) = v /\ x % Long = x
<1>1. PICK m \in Nat : m = Long /\ m > 0 /\ Modulus["l"] = m BY SizesEven
<1>2. x \in 0 .. m - 1 BY <1>1 DEF Values
<1>3. x % m = x BY <1>1, <1>2, ModBelow
<1>4. Insert(x, "l", v) = x - (x % m) + v BY <1>1 DEF Insert
<1> QED BY <1>1, <1>2, <1>3, <1>4

\* Clearing the low word.
LEMMA ClearLow ==
  ASSUME NEW x \in Values(Word), NEW y \in Values(Word)
  PROVE  Insert(x * Word + y, "w", 0) = x * Word
<1>1. (x * Word + y) % Word = y BY WordsOf
<1>2. Insert(x * Word + y, "w", 0) = (x * Word + y) - y + 0
  BY <1>1, SizesEven DEF Insert
<1>3. PICK w \in Nat : w = Word BY SizesEven
<1>4. x * w \in Int /\ y \in Int BY <1>3 DEF Values
<1> QED BY <1>2, <1>3, <1>4

\* A number with its sign, and zero.
LEMMA SignedType ==
  ASSUME NEW h \in Nat, h > 0, NEW m \in Nat, m = 2 * h, NEW v \in Values(m)
  PROVE  /\ Signed(m, v) \in -h .. h - 1 /\ Signed(m, v) % m = v
         /\ Signed(m, v) = 0 <=> v = 0
<1>1. v \in 0 .. m - 1 BY DEF Values
<1>2. PICK x \in -h .. h - 1 : x = Signed(m, v) /\ x = IF v >= h THEN v - m ELSE v
  BY <1>1, TopHalf
<1>3. x % m = IF x < 0 THEN x + m ELSE x BY SignedOfMod
<1> QED BY <1>1, <1>2, <1>3

\* A sign carried from a word to a long.
LEMMA ExtendSigned ==
  ASSUME NEW h \in Nat, h > 0, NEW m \in Nat, m = 2 * h,
         NEW g \in Nat, g >= h, NEW big \in Nat, big = 2 * g, NEW x \in -h .. h - 1
  PROVE  /\ Extend(m, big, x % m) = x % big /\ x % big \in Values(big)
         /\ Signed(big, x % big) = x
<1>1. /\ x % m = (IF x < 0 THEN x + m ELSE x) /\ x % m \in Values(m)
      /\ Signed(m, x % m) = x
  BY SignedOfMod
<1>2. g > 0 /\ x \in -g .. g - 1 OBVIOUS
<1>3. /\ x % big = (IF x < 0 THEN x + big ELSE x) /\ x % big \in Values(big)
      /\ Signed(big, x % big) = x
  BY <1>2, SignedOfMod
<1>4. PICK y \in Int : y = x % m BY <1>1
<1>5. Extend(m, big, y) = IF y >= h THEN big - m + y ELSE y BY TopHalf DEF Extend
<1> QED BY <1>1, <1>3, <1>4, <1>5

\* The instructions of the program that divides, besides OrderOps and AddingOps.
DividingOps == {"move", "divu", "divs", "swap", "ext", "clr", "mulu", "muls"}

\* The action that executes one of them is its own.
LEMMA DividingAction ==
  ASSUME Next, I.op \in DividingOps
  PROVE  /\ I.op = "move" => Move
         /\ I.op = "divu" => (Source # 0 /\ ByWord(DivuOp, d[I.t.reg])) \/ (Source = 0 /\ DivideByZero)
         /\ I.op = "divs" => (Source # 0 /\ ByWord(DivsOp, d[I.t.reg])) \/ (Source = 0 /\ DivideByZero)
         /\ I.op = "swap" => Swap
         /\ I.op = "ext" => Ext
         /\ I.op = "clr" => Clr
         /\ I.op = "mulu" => ByWord(MuluOp, d[I.t.reg] % Word)
         /\ I.op = "muls" => ByWord(MulsOp, d[I.t.reg] % Word)
<1>1. Arithmetic => Ext \/ Mulu \/ Muls \/ Divu \/ Divs \/ DivideByZero
  BY DEF Arithmetic, Add, Addi, Addq, Addx, Sub, Subi, Subq, Subx, Neg, Negx, Abcd, Sbcd,
     Cmp, Cmpi, Cmpm, Cmpa, Adda, Suba, Executing, DividingOps
<1>2. ~Logic
  BY DEF Logic,  AndBits, Andi, OrBits, Ori, EorBits, Eori, NotBits, Tst, Tas, Btst,
     Bset, Bclr, Bchg, Asl, Asr, Lsl, Lsr, Rol, Ror, Roxl, Roxr, Executing, DividingOps
<1>3. Moving => Move \/ Clr \/ Swap
  BY DEF Moving, Movea, Moveq, Exg, MovemStore, MovemLoad, MovepStore,
     MovepLoad, MoveFromSr, MoveToCcr, AndiToCcr, OriToCcr, EoriToCcr, Executing, DividingOps
<1>4. ~Control
  BY DEF Control, Bcc, Dbcc, Scc, Jmp, Lea, Bsr, Jsr, Rts, Rtr, Pea, Link, Unlk, Executing,
     DividingOps
<1>5. Ext \/ Mulu \/ Muls \/ Divu \/ Divs \/ DivideByZero \/ Move \/ Clr \/ Swap
  BY <1>1, <1>2, <1>3, <1>4 DEF Next
<1>6. /\ Mulu => I.op = "mulu" /\ ByWord(MuluOp, d[I.t.reg] % Word)
      /\ Muls => I.op = "muls" /\ ByWord(MulsOp, d[I.t.reg] % Word)
      /\ Divu => I.op = "divu" /\ Source # 0 /\ ByWord(DivuOp, d[I.t.reg])
      /\ Divs => I.op = "divs" /\ Source # 0 /\ ByWord(DivsOp, d[I.t.reg])
  BY Zenon DEF Mulu, Muls, Divu, Divs, Executing
<1>7. /\ Ext => I.op = "ext"
      /\ DivideByZero => (I.op = "divu" \/ I.op = "divs") /\ Source = 0
      /\ Move => I.op = "move"
      /\ Clr => I.op = "clr"
      /\ Swap => I.op = "swap"
  BY Zenon DEF Ext, DivideByZero, Move, Clr, Swap, Executing
<1> QED BY <1>5, <1>6, <1>7, Zenon

\* A division without sign: what is put out fits, and makes the dividend again.
LEMMA UnsignedDivision ==
  ASSUME NEW w \in Nat, w > 0, NEW l \in Nat, l >= w, NEW g \in 0 .. l - 1,
         NEW s \in 1 .. w - 1, NEW q, q = Rounded(g, s), NEW r, r = g - s * q
  PROVE  /\ q \in Nat /\ r \in 0 .. w - 1 /\ q = g \div s /\ r = g % s
         /\ r % w = r /\ r % l = r /\ s * q \in 0 .. l - 1 /\ (s * q) % l = s * q
         /\ q < w => q % w = q
<1>1. q = g \div s
  <2>1. s > 0 /\ g >= 0 OBVIOUS
  <2> QED BY <2>1 DEF Rounded, Quot
<1>2. q \in Int /\ g % s \in 0 .. s - 1 /\ g = s * q + (g % s) BY <1>1, DivMod
<1>3. q >= 0
  <2>1. s \in Nat /\ s > 0 /\ g \in Nat OBVIOUS
  <2> QED BY <1>1, <2>1
<1>4. PICK z \in Int : z = s * q BY <1>2
<1>5. z >= 0 BY <1>2, <1>3, <1>4
<1>6. r = g % s BY <1>2, <1>4
<1>7. r \in 0 .. w - 1 /\ r \in 0 .. l - 1 /\ z \in 0 .. l - 1 BY <1>2, <1>4, <1>5, <1>6
<1>8. r % w = r /\ r % l = r /\ z % l = z
  <2>1. l > 0 OBVIOUS
  <2> QED BY <1>7, <2>1, ModBelow
<1>9. q < w => q % w = q
  <2>1. q < w => q \in 0 .. w - 1 BY <1>2, <1>3
  <2> QED BY <2>1, ModBelow
<1> QED BY <1>1, <1>2, <1>3, <1>4, <1>6, <1>7, <1>8, <1>9

\* A division with sign: a quotient that fits its word and the remainder keep
\* their signs in their words.
LEMMA SignedDivision ==
  ASSUME NEW h \in Nat, h > 0, NEW w \in Nat, w = 2 * h, NEW k \in Nat, k >= h,
         NEW l \in Nat, l = 2 * k, NEW num \in Int, NEW den \in -h .. h - 1, den # 0,
         NEW q, q = Rounded(num, den), NEW r, r = num - den * q
  PROVE  /\ q \in Int /\ r \in -h .. h - 1
         /\ Extend(w, l, r % w) = r % l /\ Signed(l, r % l) = r
         /\ r % w \in Values(w) /\ r % l \in Values(l)
         /\ q \in -h .. h - 1 => q % w \in Values(w) /\ Signed(w, q % w) = q
<1>1. q \in Int /\ r \in Int /\ Size(r) < Size(den)
  <2>1. den \in Int OBVIOUS
  <2>2. r = Remains(num, den) BY DEF Remains
  <2> QED BY <2>1, <2>2, RoundedExact
<1>2. r \in -h .. h - 1 BY <1>1 DEF Size
<1>3. /\ Extend(w, l, r % w) = r % l /\ r % l \in Values(l) /\ Signed(l, r % l) = r
  BY <1>2, ExtendSigned
<1>4. r % w \in Values(w) BY <1>2, SignedOfMod
<1>5. q \in -h .. h - 1 => q % w \in Values(w) /\ Signed(w, q % w) = q BY SignedOfMod
<1> QED BY <1>1, <1>2, <1>3, <1>4, <1>5

-----------------------------------------------------------------------------
\* A task that divides: dividend, divisor, quotient, remainder; whether the
\* quotient fits its word, both as they are put out, the remainder as a long,
\* the product of divisor and quotient as a long.
DivSigned == task.program[2] = "divs"
DivNum == IF DivSigned THEN Signed(Long, GivenD(0)) ELSE GivenD(0)
DivDen == IF DivSigned THEN Signed(Word, GivenD(1) % Word) ELSE GivenD(1) % Word
DivQ == Rounded(DivNum, DivDen)
DivR == DivNum - DivDen * DivQ
DivFits == IF DivSigned THEN DivQ \in -(Word \div 2) .. (Word \div 2) - 1 ELSE DivQ < Word
DivResult == (DivR % Word) * Word + (DivQ % Word)
DivWide == DivR % Long
DivBack == (DivDen * DivQ) % Long

\* What the operators make of the task.
LEMMA DivFacts ==
  ASSUME task \in Tasks, GivenD(0) \in Values(Long), GivenD(1) \in Values(Long), DivDen # 0
  PROVE  /\ DivNum \in Int /\ DivDen \in Int /\ DivQ \in Int /\ DivR \in Int
         /\ DivR % Word \in Values(Word) /\ DivWide \in Values(Long) /\ DivBack \in Values(Long)
         /\ (DivBack + DivWide) % Long = GivenD(0)
         /\ DivFits => DivQ % Word \in Values(Word)
         /\ DivSigned => /\ Extend(Word, Long, DivR % Word) = DivWide
                         /\ Signed(Long, DivWide) = DivR
                         /\ DivFits => Signed(Word, DivQ % Word) = DivQ
         /\ ~DivSigned => /\ DivR % Word = DivWide /\ DivWide = DivR /\ DivBack = DivDen * DivQ
                          /\ DivQ = GivenD(0) \div DivDen /\ DivR = GivenD(0) % DivDen
                          /\ DivQ \in Nat /\ DivDen > 0
                          /\ DivFits => DivQ % Word = DivQ
<1>1. PICK w, h \in Nat : w = Word /\ h > 0 /\ w = 2 * h /\ w >= 512
  <2>1. \E h \in Nat : h > 0 /\ Modulus["w"] = 2 * h BY SizesEven
  <2> QED BY <2>1, SizesEven
<1>2. PICK k, l \in Nat : l = Long /\ l = 2 * k /\ k >= h /\ l >= w
  <2>1. \E k \in Nat : k > 0 /\ Modulus["l"] = 2 * k BY SizesEven
  <2> QED BY <1>1, <2>1, SizesEven
<1>3. PICK g \in Values(l) : g = GivenD(0) BY <1>2
<1>4. PICK s \in Values(w) : s = GivenD(1) % w
  <2>1. GivenD(1) \in Int BY <1>2 DEF Values
  <2>2. w > 0 BY <1>1
  <2> QED BY <2>1, <2>2, DivMod DEF Values
<1>5. PICK num, den : num = DivNum /\ den = DivDen OBVIOUS
<1>6. PICK q, r : q = DivQ /\ r = DivR OBVIOUS
<1>7. q = Rounded(num, den) /\ r = num - den * q /\ den # 0 BY <1>5, <1>6 DEF DivQ, DivR
<1>8. Word \div 2 = h BY <1>1
<1>9. w > 0 /\ l > 0 BY <1>1, <1>2
<1>10. /\ num \in Int /\ den \in Int /\ q \in Int /\ r \in Int /\ num % l = g
       /\ r % w \in Values(w) /\ r % l \in Values(l)
       /\ DivFits => q % w \in Values(w)
       /\ DivSigned => /\ Extend(w, l, r % w) = r % l
                       /\ Signed(l, r % l) = r
                       /\ DivFits => Signed(w, q % w) = q
       /\ ~DivSigned => /\ r % w = r /\ r % l = r /\ (den * q) % l = den * q
                        /\ q = g \div den /\ r = g % den /\ q \in Nat /\ den > 0
                        /\ DivFits => q % w = q
  <2>1. CASE DivSigned
    <3>1. num = Signed(l, g) /\ den = Signed(w, s)
      BY <1>1, <1>2, <1>3, <1>4, <1>5, <2>1 DEF DivNum, DivDen
    <3>2. DivFits <=> q \in -h .. h - 1 BY <1>6, <1>8, <2>1 DEF DivFits
    <3>3. num \in Int /\ num % l = g
      <4>1. k > 0 /\ l = 2 * k BY <1>1, <1>2
      <4>2. Signed(l, g) \in -k .. k - 1 /\ Signed(l, g) % l = g BY <4>1, SignedType
      <4> QED BY <3>1, <4>2
    <3>4. den \in -h .. h - 1
      <4>1. h > 0 /\ w = 2 * h BY <1>1
      <4>2. Signed(w, s) \in -h .. h - 1 BY <4>1, SignedType
      <4> QED BY <3>1, <4>2
    <3>5. h > 0 /\ w = 2 * h /\ k >= h /\ l = 2 * k BY <1>1, <1>2
    <3>6. /\ q \in Int /\ r \in -h .. h - 1
          /\ Extend(w, l, r % w) = r % l /\ Signed(l, r % l) = r
          /\ r % w \in Values(w) /\ r % l \in Values(l)
          /\ q \in -h .. h - 1 => q % w \in Values(w) /\ Signed(w, q % w) = q
      BY <1>7, <3>3, <3>4, <3>5, SignedDivision
    <3> QED BY <2>1, <3>2, <3>3, <3>4, <3>6
  <2>2. CASE ~DivSigned
    <3>1. num = g /\ den = s BY <1>1, <1>3, <1>4, <1>5, <2>2 DEF DivNum, DivDen
    <3>2. DivFits <=> q < w BY <1>1, <1>6, <2>2 DEF DivFits
    <3>3. g \in 0 .. l - 1 /\ s \in 1 .. w - 1 BY <1>7, <3>1 DEF Values
    <3>4. /\ q \in Nat /\ r \in 0 .. w - 1 /\ q = g \div s /\ r = g % s
          /\ r % w = r /\ r % l = r /\ s * q \in 0 .. l - 1 /\ (s * q) % l = s * q
          /\ q < w => q % w = q
      <4>1. w > 0 /\ l >= w /\ q = Rounded(g, s) /\ r = g - s * q BY <1>2, <1>7, <1>9, <3>1
      <4> QED BY <3>3, <4>1, UnsignedDivision
    <3>5. g % l = g BY <1>9, <3>3, ModBelow
    <3>6. r \in Values(l) /\ r \in Values(w) /\ (q < w => q \in Values(w))
      <4>1. q \in Nat /\ r \in 0 .. w - 1 /\ w \in Nat /\ l \in Nat /\ l >= w BY <1>2, <3>4
      <4>2. r \in 0 .. l - 1 /\ (q < w => q \in 0 .. w - 1) BY <4>1
      <4> QED BY <4>1, <4>2 DEF Values
    <3> QED BY <2>2, <3>1, <3>2, <3>3, <3>4, <3>5, <3>6
  <2> QED BY <2>1, <2>2
<1>11. PICK z \in Int : z = den * q BY <1>10
<1>12. z % l \in Values(l) BY <1>9, <1>11, DivMod DEF Values
<1>13. ((z % l) + (r % l)) % l = g
  <2>1. ((z % l) + (r % l)) % l = (z + r) % l BY <1>9, <1>10, ModOfMods
  <2>2. z + r = num BY <1>7, <1>10, <1>11
  <2> QED BY <1>10, <2>1, <2>2
<1>14. DivWide = r % l /\ DivBack = z % l BY <1>2, <1>5, <1>6, <1>11 DEF DivWide, DivBack
<1> QED BY <1>1, <1>2, <1>3, <1>5, <1>6, <1>10, <1>11, <1>12, <1>13, <1>14

\* Either instruction puts the result out, or V if the quotient does not fit.
LEMMA Divides ==
  ASSUME task \in Tasks, GivenD(0) \in Values(Long), GivenD(1) \in Values(Long), DivDen # 0,
         NEW f, NEW res,
         res = IF DivSigned THEN DivsOp(f, GivenD(1) % Word, GivenD(0))
               ELSE DivuOp(f, GivenD(1) % Word, GivenD(0))
  PROVE  res.f.v = ~DivFits /\ res.r = IF DivFits THEN DivResult ELSE GivenD(0)
<1>1. Word \in Nat /\ Word >= 512 BY SizesEven
<1>2. DivNum \in Int /\ DivDen \in Int /\ DivQ \in Int /\ DivR \in Int BY DivFacts
<1>3. CASE DivSigned
  <2>1. PICK q : q = IF DivDen < 0 THEN -Quot(DivNum, -DivDen) ELSE Quot(DivNum, DivDen) OBVIOUS
  <2>2. q = DivQ BY <2>1, Zenon DEF DivQ, Rounded
  <2>3. PICK over : over = (q \notin -(Word \div 2) .. (Word \div 2) - 1) OBVIOUS
  <2>4. over = ~DivFits BY <1>3, <2>2, <2>3 DEF DivFits
  <2>5. res = [r |-> IF over THEN GivenD(0)
                     ELSE ((DivNum - q * DivDen) % Word) * Word + (q % Word),
               f |-> SetDivs(f, q, over)]
    BY <1>3, <2>1, <2>3, Zenon DEF DivsOp, DivNum, DivDen
  <2>6. res.f.v = over BY <2>5 DEF SetDivs
  <2>7. res.r = IF over THEN GivenD(0)
                ELSE ((DivNum - q * DivDen) % Word) * Word + (q % Word)
    BY <2>5
  <2>8. DivNum - q * DivDen = DivR
    <3>1. PICK x, y, z \in Int : x = DivQ /\ y = DivDen /\ z = DivNum BY <1>2
    <3>2. x * y = y * x OBVIOUS
    <3> QED BY <2>2, <3>1, <3>2 DEF DivR
  <2>9. ~over => res.r = DivResult BY <2>2, <2>7, <2>8, Zenon DEF DivResult
  <2> QED BY <2>4, <2>6, <2>7, <2>9
<1>4. CASE ~DivSigned
  <2>1. DivDen = GivenD(1) % Word BY <1>4 DEF DivDen
  <2>2. DivQ = GivenD(0) \div DivDen /\ DivR = GivenD(0) % DivDen /\ DivR % Word = DivR
        /\ DivQ \in Nat /\ (DivFits => DivQ % Word = DivQ)
    BY <1>4, DivFacts
  <2>3. PICK over : over = (DivQ >= Word) OBVIOUS
  <2>4. over = ~DivFits BY <1>1, <1>2, <1>4, <2>3 DEF DivFits
  <2>5. res = [r |-> IF over THEN GivenD(0) ELSE DivR * Word + DivQ,
               f |-> SetDivu(f, Top(Long, DivQ), DivQ, over)]
    BY <1>4, <2>1, <2>2, <2>3, Zenon DEF DivuOp
  <2>6. res.f.v = over BY <2>5 DEF SetDivu
  <2>7. res.r = IF over THEN GivenD(0) ELSE DivR * Word + DivQ BY <2>5
  <2>8. ~over => res.r = DivResult BY <2>2, <2>4, <2>7 DEF DivResult
  <2> QED BY <2>4, <2>6, <2>7, <2>8
<1> QED BY <1>3, <1>4

\* Multiplication by the divisor.
LEMMA Multiplies ==
  ASSUME task \in Tasks, GivenD(0) \in Values(Long), GivenD(1) \in Values(Long), DivDen # 0,
         DivFits, NEW f, NEW res,
         res = IF DivSigned THEN MulsOp(f, GivenD(1) % Word, DivQ % Word)
               ELSE MuluOp(f, GivenD(1) % Word, DivQ % Word)
  PROVE  res.r = DivBack
<1>1. CASE DivSigned
  <2>1. DivDen = Signed(Word, GivenD(1) % Word) /\ Signed(Word, DivQ % Word) = DivQ
    BY <1>1, DivFacts DEF DivDen
  <2>2. res = MoveOp(Long, f, (DivDen * DivQ) % Long) BY <1>1, <2>1, Zenon DEF MulsOp
  <2> QED BY <2>2 DEF MoveOp, DivBack
<1>2. CASE ~DivSigned
  <2>1. DivDen = GivenD(1) % Word /\ DivQ % Word = DivQ /\ DivBack = DivDen * DivQ
    BY <1>2, DivFacts DEF DivDen
  <2>2. res = MoveOp(Long, f, DivDen * DivQ) BY <1>2, <2>1, Zenon DEF MuluOp
  <2> QED BY <2>1, <2>2 DEF MoveOp
<1> QED BY <1>1, <1>2

-----------------------------------------------------------------------------
\* The two instructions that bring the remainder to D3.
FirstOf == IF DivSigned THEN Ins("swap", "l", Imm(0), D(3)) ELSE Ins("clr", "w", Imm(0), D(3))
SecondOf == IF DivSigned THEN Ins("ext", "l", Imm(0), D(3)) ELSE Ins("swap", "l", Imm(0), D(3))

\* The instructions of the program that divides.
LEMMA DivideCode ==
  ASSUME task \in Tasks, Kind = "divide"
  PROVE  /\ \A r \in 0 .. 3 : GivenD(r) \in Values(Long)
         /\ task.program[2] = IF DivSigned THEN "divs" ELSE "divu"
         /\ Halted <=> pc \notin 1 .. 8
         /\ pc = 1 => I = Ins("move", "l", D(0), D(2))
         /\ pc = 2 => I = Ins(task.program[2], "w", D(1), D(2))
         /\ pc = 3 => I = Branch("vs", 10)
         /\ pc = 4 => I = Ins("move", "l", D(2), D(3))
         /\ pc = 5 => I = FirstOf
         /\ pc = 6 => I = SecondOf
         /\ pc = 7 => I = Ins(IF DivSigned THEN "muls" ELSE "mulu", "w", D(1), D(2))
         /\ pc = 8 => I = Ins("add", "l", D(3), D(2))
<1>1. PICK p : p = task.program OBVIOUS
<1>2. p \in ProgramNames /\ p[1] = "divide" /\ Code[p] = Program(p)
      /\ task.d \in [1 .. 4 -> Values(Long)]
  BY <1>1, TaskAssumption DEF Kind
<1>3. \A r \in 0 .. 3 : GivenD(r) \in Values(Long)
  <2>1. \A r \in 0 .. 3 : r + 1 \in 1 .. 4 OBVIOUS
  <2> QED BY <1>2, <2>1 DEF GivenD
<1>4. p \in {"divide"} \X {"divu", "divs"} BY <1>2, SumProgram DEF SumNames
<1>5. PICK op : op = p[2] /\ op \in {"divu", "divs"} /\ p = <<"divide", op>> BY <1>4
<1>6. op = (IF DivSigned THEN "divs" ELSE "divu") BY <1>1, <1>5 DEF DivSigned
<1>7. PICK mul : mul = IF DivSigned THEN "muls" ELSE "mulu" OBVIOUS
<1>8. Program(p) = Divide(op, mul, FirstOf, SecondOf)
  <2>1. CASE op = "divu"
    <3>1. p = <<"divide", "divu">> /\ p # <<"divide", "divs">> BY <1>5, <2>1
    <3>2. Program(p) = Divide("divu", "mulu", Ins("clr", "w", Imm(0), D(3)),
                              Ins("swap", "l", Imm(0), D(3)))
      BY <1>2, <3>1 DEF Program
    <3> QED BY <1>6, <1>7, <2>1, <3>2 DEF FirstOf, SecondOf
  <2>2. CASE op = "divs"
    <3>1. p = <<"divide", "divs">> /\ p # <<"divide", "divu">> BY <1>5, <2>2
    <3>2. Program(p) = Divide("divs", "muls", Ins("swap", "l", Imm(0), D(3)),
                              Ins("ext", "l", Imm(0), D(3)))
      BY <1>2, <3>1 DEF Program
    <3> QED BY <1>6, <1>7, <2>2, <3>2 DEF FirstOf, SecondOf
  <2> QED BY <1>5, <2>1, <2>2
<1>9. PICK c, first, second : c = Listing[p] /\ first = FirstOf /\ second = SecondOf OBVIOUS
<1>10. c = << Ins("move", "l", D(0), D(2)), Ins(op, "w", D(1), D(2)), Branch("vs", 10),
              Ins("move", "l", D(2), D(3)), first, second,
              Ins(mul, "w", D(1), D(2)), Ins("add", "l", D(3), D(2)) >>
  BY <1>2, <1>8, <1>9, Zenon DEF Divide, Listing
<1>11. /\ DOMAIN c = 1 .. 8
       /\ c[1] = Ins("move", "l", D(0), D(2))
       /\ c[2] = Ins(op, "w", D(1), D(2))
       /\ c[3] = Branch("vs", 10)
       /\ c[4] = Ins("move", "l", D(2), D(3))
       /\ c[5] = first
       /\ c[6] = second
       /\ c[7] = Ins(mul, "w", D(1), D(2))
       /\ c[8] = Ins("add", "l", D(3), D(2))
  BY <1>10
<1>12. I = c[pc] /\ (Halted <=> pc \notin DOMAIN c) BY <1>1, <1>9 DEF I, Halted
<1>13. op = task.program[2] BY <1>1, <1>5
<1> QED BY <1>3, <1>6, <1>7, <1>9, <1>11, <1>12, <1>13

\* What the instructions before pc have done; pc is 0 after a division by zero.
DivInv ==
  /\ pc \in 0 .. 10 /\ d \in [0 .. 3 -> Values(Long)]
  /\ d[0] = GivenD(0) /\ d[1] = GivenD(1)
  /\ pc = 0 => DivDen = 0
  /\ pc \in 3 .. 10 => DivDen # 0
  /\ pc = 2 => d[2] = GivenD(0)
  /\ pc = 3 => ccr.v = ~DivFits /\ d[2] = IF DivFits THEN DivResult ELSE GivenD(0)
  /\ pc \in 4 .. 9 => DivFits
  /\ pc = 10 => ~DivFits /\ d[2] = GivenD(0)
  /\ pc \in 4 .. 7 => d[2] = DivResult
  /\ pc = 5 => d[3] = DivResult
  /\ pc = 6 => d[3] = IF DivSigned THEN (DivQ % Word) * Word + (DivR % Word)
                      ELSE (DivR % Word) * Word
  /\ pc \in 7 .. 9 => d[3] = DivWide
  /\ pc = 8 => d[2] = DivBack
  /\ pc = 9 => d[2] = GivenD(0)

\* What only depends on the task stays.
LEMMA DivKept ==
  ASSUME task' = task
  PROVE  /\ \A r : GivenD(r)' = GivenD(r)
         /\ DivSigned' = DivSigned /\ DivDen' = DivDen /\ DivQ' = DivQ /\ DivR' = DivR
         /\ DivFits' = DivFits /\ DivResult' = DivResult
         /\ DivWide' = DivWide /\ DivBack' = DivBack
<1>1. \A r : GivenD(r)' = GivenD(r) BY DEF GivenD
<1>2. DivSigned' = DivSigned BY DEF DivSigned
<1>3. DivNum' = DivNum /\ DivDen' = DivDen BY <1>1, <1>2, Zenon DEF DivNum, DivDen
<1>4. DivQ' = DivQ BY <1>3, Zenon DEF DivQ
<1>5. DivR' = DivR BY <1>3, <1>4, Zenon DEF DivR
<1>6. DivFits' = DivFits BY <1>2, <1>4, Zenon DEF DivFits
<1>7. DivResult' = DivResult /\ DivWide' = DivWide /\ DivBack' = DivBack
  BY <1>3, <1>4, <1>5, Zenon DEF DivResult, DivWide, DivBack
<1> QED BY <1>1, <1>2, <1>3, <1>4, <1>5, <1>6, <1>7

\* A long goes from one register to another.
LEMMA CopiesLong ==
  ASSUME Next, NEW x \in 0 .. 3, NEW y \in 0 .. 3, I = Ins("move", "l", D(x), D(y)),
         d \in [0 .. 3 -> Values(Long)]
  PROVE  d' = [d EXCEPT ![y] = d[x]] /\ pc' = pc + 1 /\ task' = task
<1>1. I.op = "move" /\ I.sz = "l" /\ I.s = D(x) /\ I.t = D(y) BY Fields
<1>2. I.s.mode = "d" /\ I.s.reg = x /\ I.t.mode = "d" /\ I.t.reg = y BY <1>1, Fields
<1>3. Move BY <1>1, DividingAction DEF DividingOps
<1>4. PICK v, u \in Values(Long) : v = d[x] /\ u = d[y] OBVIOUS
<1>5. Source = v
  <2>1. Source = d[x] % Modulus["l"] BY <1>1, <1>2, RegisterOperand DEF Source
  <2>2. v % Long = v
    <3>1. v \in Int BY SizesEven DEF Values
    <3> QED BY <3>1, InsertLong
  <2> QED BY <1>4, <2>1, <2>2, SizesEven
<1>6. Insert(u, "l", v) = v
  <2>1. v \in Int BY SizesEven DEF Values
  <2> QED BY <2>1, InsertLong
<1>7. d' = [d EXCEPT ![y] = Insert(u, "l", v)] BY <1>1, <1>2, <1>3, <1>4, <1>5 DEF Move, Store
<1> QED BY <1>3, <1>4, <1>6, <1>7 DEF Move, Continue

\* The dividend goes to D2, and the result of the division to D3.
LEMMA DivCopy ==
  ASSUME Next, task \in Tasks, Kind = "divide", DivInv, pc \in {1, 4}
  PROVE  DivInv'
<1>1. /\ d \in [0 .. 3 -> Values(Long)] /\ d[0] = GivenD(0) /\ d[1] = GivenD(1)
      /\ pc = 4 => DivDen # 0 /\ DivFits /\ d[2] = DivResult
  BY DEF DivInv
<1>2. PICK x, y \in 0 .. 3 : x = (IF pc = 1 THEN 0 ELSE 2) /\ y = IF pc = 1 THEN 2 ELSE 3
  OBVIOUS
<1>3. I = Ins("move", "l", D(x), D(y)) BY <1>2, DivideCode
<1>4. d' = [d EXCEPT ![y] = d[x]] /\ pc' = pc + 1 /\ task' = task BY <1>1, <1>3, CopiesLong
<1>5. /\ d' \in [0 .. 3 -> Values(Long)] /\ d'[0] = d[0] /\ d'[1] = d[1]
      /\ pc = 1 => d'[2] = d[0]
      /\ pc = 4 => d'[2] = d[2] /\ d'[3] = d[2]
  BY <1>1, <1>2, <1>4
<1>6. CASE pc = 1
  <2>1. pc' = 2 BY <1>4, <1>6
  <2> QED BY <1>1, <1>4, <1>5, <1>6, <2>1, DivKept DEF DivInv
<1>7. CASE pc = 4
  <2>1. pc' = 5 BY <1>4, <1>7
  <2> QED BY <1>1, <1>4, <1>5, <1>7, <2>1, DivKept DEF DivInv
<1> QED BY <1>6, <1>7

\* The operands of an instruction on words.
LEMMA WordSource ==
  ASSUME NEW op, I = Ins(op, "w", D(1), D(2))
  PROVE  I.op = op /\ Source = d[1] % Word /\ AfterSource = a /\ I.t.reg = 2
<1>1. I.op = op /\ I.sz = "w" /\ I.s = D(1) /\ I.t = D(2) BY Fields
<1>2. I.s.mode = "d" /\ I.s.reg = 1 /\ I.t.reg = 2 BY <1>1, Fields
<1> QED BY <1>1, <1>2, RegisterOperand, SizesEven DEF Source, AfterSource

\* The division, or its exception.
LEMMA DivDivides ==
  ASSUME Next, task \in Tasks, Kind = "divide", DivInv, pc = 2
  PROVE  DivInv'
<1>1. /\ d \in [0 .. 3 -> Values(Long)] /\ d[0] = GivenD(0) /\ d[1] = GivenD(1)
      /\ d[2] = GivenD(0)
  BY DEF DivInv
<1>2. GivenD(0) \in Values(Long) /\ GivenD(1) \in Values(Long) BY DivideCode
<1>3. PICK op : op = (IF DivSigned THEN "divs" ELSE "divu") OBVIOUS
<1>4. I = Ins(op, "w", D(1), D(2)) BY <1>3, DivideCode
<1>5. I.op = op /\ Source = GivenD(1) % Word /\ I.t.reg = 2 BY <1>1, <1>4, WordSource
<1>6. I.op \in DividingOps BY <1>3, <1>5 DEF DividingOps
<1>7. task' = task BY KeepsTask
<1>8. (DivDen = 0) = (Source = 0)
  <2>1. CASE DivSigned
    <3>1. PICK w, h \in Nat : w = Word /\ h > 0 /\ w = 2 * h
      <4>1. \E h \in Nat : h > 0 /\ Modulus["w"] = 2 * h BY SizesEven
      <4> QED BY <4>1, SizesEven
    <3>2. PICK s \in Values(w) : s = GivenD(1) % w
      <4>1. GivenD(1) \in Int BY <1>2, SizesEven DEF Values
      <4>2. w > 0 BY <3>1
      <4> QED BY <4>1, <4>2, DivMod DEF Values
    <3>3. Signed(w, s) = 0 <=> s = 0 BY <3>1, SignedType
    <3>4. DivDen = Signed(w, s) BY <2>1, <3>1, <3>2 DEF DivDen
    <3>5. Source = s BY <1>5, <3>1, <3>2
    <3> QED BY <3>3, <3>4, <3>5
  <2>2. CASE ~DivSigned BY <1>5, <2>2 DEF DivDen
  <2> QED BY <2>1, <2>2
<1>9. CASE DivDen = 0
  <2>1. DivideByZero BY <1>3, <1>5, <1>6, <1>8, <1>9, DividingAction
  <2>2. pc' = 0 /\ d' = d BY <2>1 DEF DivideByZero
  <2> QED BY <1>1, <1>7, <1>9, <2>2, DivKept DEF DivInv
<1>10. CASE DivDen # 0
  <2>1. PICK res : res = IF DivSigned THEN DivsOp(ccr, GivenD(1) % Word, GivenD(0))
                         ELSE DivuOp(ccr, GivenD(1) % Word, GivenD(0))
    OBVIOUS
  <2>2. res.f.v = ~DivFits /\ res.r = IF DivFits THEN DivResult ELSE GivenD(0)
    BY <1>2, <1>10, <2>1, Divides
  <2>3. d[I.t.reg] = GivenD(0) BY <1>1, <1>5
  <2>4. d' = [d EXCEPT ![2] = res.r] /\ ccr' = res.f /\ pc' = pc + 1
    <3>1. CASE DivSigned
      <4>1. ByWord(DivsOp, d[I.t.reg]) BY <1>3, <1>5, <1>6, <1>8, <1>10, <3>1, DividingAction
      <4>2. res = DivsOp(ccr, Source, d[I.t.reg]) BY <1>5, <2>1, <2>3, <3>1
      <4> QED BY <1>5, <4>1, <4>2, Zenon DEF ByWord, Continue
    <3>2. CASE ~DivSigned
      <4>1. ByWord(DivuOp, d[I.t.reg]) BY <1>3, <1>5, <1>6, <1>8, <1>10, <3>2, DividingAction
      <4>2. res = DivuOp(ccr, Source, d[I.t.reg]) BY <1>5, <2>1, <2>3, <3>2
      <4> QED BY <1>5, <4>1, <4>2, Zenon DEF ByWord, Continue
    <3> QED BY <3>1, <3>2
  <2>5. res.r \in Values(Long)
    <3>1. CASE DivFits
      <4>1. DivR % Word \in Values(Word) /\ DivQ % Word \in Values(Word)
        BY <1>2, <1>10, <3>1, DivFacts
      <4> QED BY <2>2, <3>1, <4>1, WordsOf DEF DivResult
    <3>2. CASE ~DivFits BY <1>2, <2>2, <3>2
    <3> QED BY <3>1, <3>2
  <2>6. pc' = 3 /\ d' \in [0 .. 3 -> Values(Long)] /\ d'[0] = d[0] /\ d'[1] = d[1]
        /\ d'[2] = res.r
    BY <1>1, <2>4, <2>5
  <2>7. ccr'.v = ~DivFits BY <2>2, <2>4
  <2> QED BY <1>1, <1>7, <1>10, <2>2, <2>6, <2>7, DivKept DEF DivInv
<1> QED BY <1>9, <1>10

\* The branch for a quotient that does not fit.
LEMMA DivBranch ==
  ASSUME Next, task \in Tasks, Kind = "divide", DivInv, pc = 3
  PROVE  DivInv'
<1>1. I.op = "bcc" /\ I.cc = "vs" /\ I.to = 10 BY DivideCode, Fields
<1>2. Bcc BY <1>1, OneAction
<1>3. Condition(ccr)["vs"] = ccr.v BY DEF Condition
<1>4. ccr.v = ~DivFits BY DEF DivInv
<1>5. pc' = (IF DivFits THEN 4 ELSE 10) /\ task' = task /\ d' = d
  <2>1. Condition(ccr)[I.cc] = ~DivFits BY <1>1, <1>3, <1>4
  <2>2. Jump(IF Condition(ccr)[I.cc] THEN I.to ELSE pc + 1) /\ d' = d BY <1>2 DEF Bcc
  <2>3. pc' = (IF ~DivFits THEN I.to ELSE pc + 1) /\ task' = task
    BY <2>1, <2>2, Zenon DEF Jump
  <2> QED BY <1>1, <2>2, <2>3
<1>6. CASE DivFits BY <1>5, <1>6, DivKept DEF DivInv
<1>7. CASE ~DivFits BY <1>5, <1>7, DivKept DEF DivInv
<1> QED BY <1>6, <1>7

\* The action of SWAP, EXT.L and CLR.W on D3.
LEMMA OnD3 ==
  ASSUME Next, NEW op \in {"swap", "ext", "clr"}, NEW sz, sz = (IF op = "clr" THEN "w" ELSE "l"),
         I = Ins(op, sz, Imm(0), D(3)), d \in [0 .. 3 -> Values(Long)],
         NEW v, v = CASE op = "swap" -> (d[3] % Word) * Word + d[3] \div Word
                      [] op = "ext" -> Insert(d[3], "l", Extend(Word, Long, d[3] % Word))
                      [] op = "clr" -> Insert(d[3], "w", 0)
  PROVE  d' = [d EXCEPT ![3] = v] /\ pc' = pc + 1 /\ task' = task
<1>1. I.op = op /\ I.sz = sz /\ I.t = D(3) BY Fields
<1>2. I.t.mode = "d" /\ I.t.reg = 3 BY <1>1, Fields
<1>3. I.op \in DividingOps BY <1>1 DEF DividingOps
<1>4. CASE op = "swap"
  <2>1. Swap BY <1>1, <1>3, <1>4, DividingAction
  <2>2. ToData(3, v, MoveOp(Long, ccr, v).f) BY <1>2, <1>4, <2>1, Zenon DEF Swap
  <2> QED BY <2>2 DEF ToData, Continue
<1>5. CASE op = "ext"
  <2>1. Ext BY <1>1, <1>3, <1>5, DividingAction
  <2>2. PICK x : x = Extend(Word, Long, d[3] % Word) OBVIOUS
  <2>3. I.sz = "l" /\ "l" # "w" BY <1>1, <1>5
  <2>4. ToData(3, Insert(d[3], "l", x), MoveOp(Modulus["l"], ccr, x).f)
    BY <1>2, <2>1, <2>2, <2>3, Zenon DEF Ext
  <2>5. v = Insert(d[3], "l", x) BY <1>5, <2>2
  <2> QED BY <2>4, <2>5 DEF ToData, Continue
<1>6. CASE op = "clr"
  <2>1. Clr BY <1>1, <1>3, <1>6, DividingAction
  <2>2. I.sz = "w" /\ v = Insert(d[3], "w", 0) BY <1>1, <1>6
  <2>3. Store(D(3), "w", 0, a) /\ Continue BY <1>1, <2>1, <2>2, Zenon DEF Clr
  <2>4. D(3).mode = "d" /\ D(3).reg = 3 BY Fields
  <2> QED BY <2>2, <2>3, <2>4 DEF Store, Continue
<1> QED BY <1>4, <1>5, <1>6

\* The remainder comes to D3 as a long.
LEMMA DivRemainder ==
  ASSUME Next, task \in Tasks, Kind = "divide", DivInv, pc \in {5, 6}
  PROVE  DivInv'
<1>1. /\ d \in [0 .. 3 -> Values(Long)] /\ d[0] = GivenD(0) /\ d[1] = GivenD(1)
      /\ DivDen # 0 /\ DivFits /\ d[2] = DivResult
      /\ pc = 5 => d[3] = DivResult
      /\ pc = 6 => d[3] = IF DivSigned THEN (DivQ % Word) * Word + (DivR % Word)
                          ELSE (DivR % Word) * Word
  BY DEF DivInv
<1>2. GivenD(0) \in Values(Long) /\ GivenD(1) \in Values(Long) BY DivideCode
<1>3. PICK x, y \in Values(Word) : x = DivR % Word /\ y = DivQ % Word
  <2>1. DivR % Word \in Values(Word) /\ DivQ % Word \in Values(Word) BY <1>1, <1>2, DivFacts
  <2> QED BY <2>1
<1>4. PICK z \in Values(Long) : z = DivWide
  <2>1. DivWide \in Values(Long) BY <1>1, <1>2, DivFacts
  <2> QED BY <2>1
<1>5. DivResult = x * Word + y BY <1>3 DEF DivResult
<1>6. PICK op : op = IF pc = 5 THEN IF DivSigned THEN "swap" ELSE "clr"
                     ELSE IF DivSigned THEN "ext" ELSE "swap"
  OBVIOUS
<1>7. PICK sz : sz = IF op = "clr" THEN "w" ELSE "l" OBVIOUS
<1>8. I = Ins(op, sz, Imm(0), D(3)) BY <1>6, <1>7, DivideCode DEF FirstOf, SecondOf
<1>9. PICK v : v = CASE op = "swap" -> (d[3] % Word) * Word + d[3] \div Word
                     [] op = "ext" -> Insert(d[3], "l", Extend(Word, Long, d[3] % Word))
                     [] op = "clr" -> Insert(d[3], "w", 0)
  OBVIOUS
<1>10. op \in {"swap", "ext", "clr"} BY <1>6
<1>11. d' = [d EXCEPT ![3] = v] /\ pc' = pc + 1 /\ task' = task
  BY <1>1, <1>7, <1>8, <1>9, <1>10, OnD3
<1>12. CASE pc = 5
  <2>1. v = IF DivSigned THEN y * Word + x ELSE x * Word
    <3>1. CASE DivSigned
      <4>1. (x * Word + y) % Word = y /\ (x * Word + y) \div Word = x BY WordsOf
      <4>2. v = (d[3] % Word) * Word + d[3] \div Word BY <1>6, <1>9, <1>12, <3>1
      <4> QED BY <1>1, <1>5, <1>12, <3>1, <4>1, <4>2
    <3>2. CASE ~DivSigned
      <4>1. v = Insert(d[3], "w", 0) BY <1>6, <1>9, <1>12, <3>2
      <4> QED BY <1>1, <1>5, <1>12, <3>2, <4>1, ClearLow
    <3> QED BY <3>1, <3>2
  <2>2. v \in Values(Long)
    <3>1. CASE DivSigned BY <2>1, <3>1, WordsOf
    <3>2. CASE ~DivSigned
      <4>1. PICK o \in Values(Word) : o = 0
        <5>1. 0 \in Values(Word) BY SizesEven DEF Values
        <5> QED BY <5>1
      <4>2. x * Word \in Int BY SizesEven DEF Values
      <4>3. v = x * Word + o BY <2>1, <3>2, <4>1, <4>2
      <4> QED BY <4>3, WordsOf
    <3> QED BY <3>1, <3>2
  <2>3. pc' = 6 /\ d' \in [0 .. 3 -> Values(Long)] /\ d'[0] = d[0] /\ d'[1] = d[1]
        /\ d'[2] = d[2] /\ d'[3] = v
    BY <1>1, <1>11, <1>12, <2>2
  <2>4. d'[3] = IF DivSigned THEN (DivQ % Word) * Word + (DivR % Word) ELSE (DivR % Word) * Word
    BY <1>3, <2>1, <2>3
  <2> QED BY <1>1, <1>11, <2>3, <2>4, DivKept DEF DivInv
<1>13. CASE pc = 6
  <2>1. v = z
    <3>1. CASE DivSigned
      <4>1. d[3] = y * Word + x BY <1>1, <1>3, <1>13, <3>1
      <4>2. d[3] % Word = x BY <4>1, WordsOf
      <4>3. Extend(Word, Long, x) = z BY <1>1, <1>2, <1>3, <1>4, <3>1, DivFacts
      <4>4. v = Insert(d[3], "l", z) BY <1>6, <1>9, <1>13, <3>1, <4>2, <4>3
      <4>5. z \in Int /\ d[3] \in Values(Long) BY <1>1, SizesEven DEF Values
      <4> QED BY <4>4, <4>5, InsertLong
    <3>2. CASE ~DivSigned
      <4>1. PICK o \in Values(Word) : o = 0
        <5>1. 0 \in Values(Word) BY SizesEven DEF Values
        <5> QED BY <5>1
      <4>2. x * Word \in Int /\ x \in Int BY SizesEven DEF Values
      <4>3. d[3] = x * Word + o BY <1>1, <1>3, <1>13, <3>2, <4>1, <4>2
      <4>4. d[3] % Word = o /\ d[3] \div Word = x BY <4>3, WordsOf
      <4>5. v = (d[3] % Word) * Word + d[3] \div Word BY <1>6, <1>9, <1>13, <3>2
      <4>6. v = o * Word + x BY <4>4, <4>5
      <4>7. v = x BY <4>1, <4>2, <4>6, SizesEven
      <4>8. x = z BY <1>1, <1>2, <1>3, <1>4, <3>2, DivFacts
      <4> QED BY <4>7, <4>8
    <3> QED BY <3>1, <3>2
  <2>2. pc' = 7 /\ d' \in [0 .. 3 -> Values(Long)] /\ d'[0] = d[0] /\ d'[1] = d[1]
        /\ d'[2] = d[2] /\ d'[3] = DivWide
    BY <1>1, <1>4, <1>11, <1>13, <2>1
  <2> QED BY <1>1, <1>11, <2>2, DivKept DEF DivInv
<1> QED BY <1>12, <1>13

\* The quotient is multiplied by the divisor.
LEMMA DivMultiplies ==
  ASSUME Next, task \in Tasks, Kind = "divide", DivInv, pc = 7
  PROVE  DivInv'
<1>1. /\ d \in [0 .. 3 -> Values(Long)] /\ d[0] = GivenD(0) /\ d[1] = GivenD(1)
      /\ DivDen # 0 /\ DivFits /\ d[2] = DivResult /\ d[3] = DivWide
  BY DEF DivInv
<1>2. GivenD(0) \in Values(Long) /\ GivenD(1) \in Values(Long) BY DivideCode
<1>3. PICK x, y \in Values(Word) : x = DivR % Word /\ y = DivQ % Word
  <2>1. DivR % Word \in Values(Word) /\ DivQ % Word \in Values(Word) BY <1>1, <1>2, DivFacts
  <2> QED BY <2>1
<1>4. d[2] % Word = y
  <2>1. d[2] = x * Word + y BY <1>1, <1>3 DEF DivResult
  <2> QED BY <2>1, WordsOf
<1>5. PICK op : op = IF DivSigned THEN "muls" ELSE "mulu" OBVIOUS
<1>6. I = Ins(op, "w", D(1), D(2)) BY <1>5, DivideCode
<1>7. I.op = op /\ Source = GivenD(1) % Word /\ I.t.reg = 2 BY <1>1, <1>6, WordSource
<1>8. I.op \in DividingOps BY <1>5, <1>7 DEF DividingOps
<1>9. PICK res : res = IF DivSigned THEN MulsOp(ccr, GivenD(1) % Word, DivQ % Word)
                       ELSE MuluOp(ccr, GivenD(1) % Word, DivQ % Word)
  OBVIOUS
<1>10. res.r = DivBack BY <1>1, <1>2, <1>9, Multiplies
<1>11. d[I.t.reg] % Word = DivQ % Word BY <1>3, <1>4, <1>7
<1>12. d' = [d EXCEPT ![2] = res.r] /\ pc' = pc + 1 /\ task' = task
  <2>1. CASE DivSigned
    <3>1. ByWord(MulsOp, d[I.t.reg] % Word) BY <1>5, <1>7, <1>8, <2>1, DividingAction
    <3>2. res = MulsOp(ccr, Source, d[I.t.reg] % Word) BY <1>7, <1>9, <1>11, <2>1
    <3> QED BY <1>7, <3>1, <3>2, Zenon DEF ByWord, Continue
  <2>2. CASE ~DivSigned
    <3>1. ByWord(MuluOp, d[I.t.reg] % Word) BY <1>5, <1>7, <1>8, <2>2, DividingAction
    <3>2. res = MuluOp(ccr, Source, d[I.t.reg] % Word) BY <1>7, <1>9, <1>11, <2>2
    <3> QED BY <1>7, <3>1, <3>2, Zenon DEF ByWord, Continue
  <2> QED BY <2>1, <2>2
<1>13. DivBack \in Values(Long) BY <1>1, <1>2, DivFacts
<1>14. pc' = 8 /\ d' \in [0 .. 3 -> Values(Long)] /\ d'[0] = d[0] /\ d'[1] = d[1]
       /\ d'[2] = DivBack /\ d'[3] = d[3]
  BY <1>1, <1>10, <1>12, <1>13
<1> QED BY <1>1, <1>12, <1>14, DivKept DEF DivInv

\* The remainder is added to the product.
LEMMA DivAdds ==
  ASSUME Next, task \in Tasks, Kind = "divide", DivInv, pc = 8
  PROVE  DivInv'
<1>1. /\ d \in [0 .. 3 -> Values(Long)] /\ d[0] = GivenD(0) /\ d[1] = GivenD(1)
      /\ DivDen # 0 /\ DivFits /\ d[2] = DivBack /\ d[3] = DivWide
  BY DEF DivInv
<1>2. GivenD(0) \in Values(Long) /\ GivenD(1) \in Values(Long) BY DivideCode
<1>3. I.op = "add" /\ I.sz = "l" /\ I.s = D(3) /\ I.t = D(2) BY DivideCode, Fields
<1>4. /\ I.s.mode = "d" /\ I.s.reg = 3 /\ I.t.mode = "d" /\ I.t.reg = 2 BY <1>3, Fields
<1>5. PICK s, t \in Values(Long) : s = DivWide /\ t = DivBack
  <2>1. DivWide \in Values(Long) /\ DivBack \in Values(Long) BY <1>1, <1>2, DivFacts
  <2> QED BY <2>1
<1>6. s % Long = s /\ t % Long = t
  <2>1. s \in Int /\ t \in Int BY SizesEven DEF Values
  <2> QED BY <2>1, InsertLong
<1>7. Source = s /\ AfterSource = a
  BY <1>1, <1>3, <1>4, <1>5, <1>6, RegisterOperand, SizesEven DEF Source, AfterSource
<1>8. Operand(I.t, "l", AfterSource) = t
  BY <1>1, <1>4, <1>5, <1>6, RegisterOperand, SizesEven
<1>9. PICK res : res = AddOp(Modulus["l"], ccr, s, t) OBVIOUS
<1>10. (t + s) % Long = GivenD(0) BY <1>1, <1>2, <1>5, DivFacts
<1>11. res.r = GivenD(0) BY <1>9, <1>10, SizesEven DEF AddOp
<1>12. Store(I.t, "l", res.r, AfterSource) /\ Continue
  <2>1. Dyadic(AddOp) BY <1>3, AddingAction DEF AddingOps, SumOps
  <2> QED BY <1>3, <1>7, <1>8, <1>9, <2>1, Zenon DEF Dyadic
<1>13. d' = [d EXCEPT ![2] = GivenD(0)] /\ pc' = pc + 1 /\ task' = task
  <2>1. d' = [d EXCEPT ![2] = Insert(d[2], "l", res.r)] BY <1>4, <1>12 DEF Store
  <2>2. Insert(d[2], "l", res.r) = GivenD(0)
    <3>1. GivenD(0) \in Int BY <1>2, SizesEven DEF Values
    <3>2. d[2] \in Values(Long) BY <1>1, <1>5
    <3> QED BY <1>11, <3>1, <3>2, InsertLong
  <2> QED BY <1>12, <2>1, <2>2 DEF Continue
<1>14. pc' = 9 /\ d' \in [0 .. 3 -> Values(Long)] /\ d'[0] = d[0] /\ d'[1] = d[1]
       /\ d'[2] = GivenD(0) /\ d'[3] = d[3]
  BY <1>1, <1>2, <1>13
<1> QED BY <1>1, <1>13, <1>14, DivKept DEF DivInv

\* The tasks that divide, as a whole.
LEMMA DivStep ==
  ASSUME Next, task \in Tasks, Kind = "divide", DivInv
  PROVE  DivInv'
<1>1. ~Halted /\ (Halted <=> pc \notin 1 .. 8) BY DivideCode, OneAction
<1>2. pc \in {1, 4} \/ pc = 2 \/ pc = 3 \/ pc \in {5, 6} \/ pc = 7 \/ pc = 8 BY <1>1
<1> QED BY <1>2, DivCopy, DivDivides, DivBranch, DivRemainder, DivMultiplies, DivAdds

\* What is asked of them.
DivDone ==
  LET signed == task.program[2] = "divs"
      num == IF signed THEN Signed(Long, GivenD(0)) ELSE GivenD(0)
      den == IF signed THEN Signed(Word, GivenD(1) % Word) ELSE GivenD(1) % Word
      rem == IF signed THEN Signed(Long, d[3]) ELSE d[3]
      q == Size(num) \div Size(den)
      negative == (num < 0) # (den < 0)
      fits == IF signed THEN q <= (IF negative THEN Word \div 2 ELSE Word \div 2 - 1)
              ELSE q < Word
  IN  IF den = 0 THEN pc = 0
      ELSE /\ pc # 0
           /\ (pc = 10) = ~fits
           /\ d[2] = GivenD(0)
           /\ fits => Size(rem) < Size(den) /\ (rem # 0 => (rem < 0) = (num < 0))

\* At the end of the program that is so.
LEMMA DivEnd ==
  ASSUME task \in Tasks, Kind = "divide", DivInv, Halted
  PROVE  DivDone
<1>1. pc \in {0, 9, 10}
  <2>1. pc \notin 1 .. 8 /\ pc \in 0 .. 10 BY DivideCode DEF DivInv
  <2> QED BY <2>1
<1>2. CASE DivDen = 0
  <2>1. pc = 0 BY <1>1, <1>2 DEF DivInv
  <2> QED BY <1>2, <2>1, Zenon DEF DivDone, DivDen, DivSigned
<1>3. CASE DivDen # 0
  <2>1. GivenD(0) \in Values(Long) /\ GivenD(1) \in Values(Long) BY DivideCode
  <2>2. PICK num, den, q \in Int : num = DivNum /\ den = DivDen /\ q = DivQ
    <3>1. DivNum \in Int /\ DivDen \in Int /\ DivQ \in Int BY <1>3, <2>1, DivFacts
    <3> QED BY <3>1
  <2>3. PICK e \in Int : e = DivR /\ e = num - den * q
    <3>1. DivR \in Int BY <1>3, <2>1, DivFacts
    <3> QED BY <2>2, <3>1 DEF DivR
  <2>4. q = Rounded(num, den) /\ den # 0 BY <1>3, <2>2 DEF DivQ
  <2>5. /\ Size(q) = Size(num) \div Size(den)
        /\ (num < 0) = (den < 0) => q >= 0
        /\ (num < 0) # (den < 0) => q <= 0
        /\ Size(e) < Size(den) /\ (e # 0 => (e < 0) = (num < 0))
    <3>1. e = Remains(num, den) BY <2>3, <2>4 DEF Remains
    <3> QED BY <2>4, <3>1, RoundedExact
  <2>6. PICK rem : rem = IF DivSigned THEN Signed(Long, d[3]) ELSE d[3] OBVIOUS
  <2>7. PICK fits : fits = IF DivSigned
                           THEN Size(num) \div Size(den)
                                <= (IF (num < 0) # (den < 0) THEN Word \div 2 ELSE Word \div 2 - 1)
                           ELSE Size(num) \div Size(den) < Word
    OBVIOUS
  <2>8. fits = DivFits
    <3>1. CASE DivSigned
      <4>1. PICK w, h \in Nat : w = Word /\ h > 0 /\ w = 2 * h
        <5>1. \E h \in Nat : h > 0 /\ Modulus["w"] = 2 * h BY SizesEven
        <5> QED BY <5>1, SizesEven
      <4>2. Word \div 2 = h BY <4>1
      <4>3. PICK negative \in BOOLEAN : negative = ((num < 0) # (den < 0)) OBVIOUS
      <4>4. (~negative => q >= 0) /\ (negative => q <= 0) BY <2>5, <4>3
      <4>5. q \in -h .. h - 1 <=> Size(q) <= (IF negative THEN h ELSE h - 1)
        BY <4>1, <4>4, FitsSigned
      <4>6. DivFits = (q \in -h .. h - 1) BY <2>2, <3>1, <4>2 DEF DivFits
      <4>7. fits = (Size(q) <= (IF negative THEN h ELSE h - 1))
        BY <2>5, <2>7, <3>1, <4>2, <4>3
      <4> QED BY <4>5, <4>6, <4>7
    <3>2. CASE ~DivSigned
      <4>1. q >= 0 BY <1>3, <2>1, <2>2, <3>2, DivFacts
      <4>2. Size(q) = q BY <4>1 DEF Size
      <4>3. fits = (q < Word) BY <2>5, <2>7, <3>2, <4>2
      <4> QED BY <2>2, <3>2, <4>3 DEF DivFits
    <3> QED BY <3>1, <3>2
  <2>9. pc # 0 /\ (pc = 10) = ~fits /\ d[2] = GivenD(0) BY <1>1, <1>3, <2>8 DEF DivInv
  <2>10. fits => rem = e
    <3>1. fits => d[3] = DivWide BY <1>1, <1>3, <2>8 DEF DivInv
    <3>2. CASE DivSigned
      <4>1. Signed(Long, DivWide) = DivR BY <1>3, <2>1, <3>2, DivFacts
      <4> QED BY <2>3, <2>6, <3>1, <3>2, <4>1
    <3>3. CASE ~DivSigned
      <4>1. DivWide = DivR BY <1>3, <2>1, <3>3, DivFacts
      <4> QED BY <2>3, <2>6, <3>1, <3>3, <4>1
    <3> QED BY <3>2, <3>3
  <2>11. fits => Size(rem) < Size(den) /\ (rem # 0 => (rem < 0) = (num < 0)) BY <2>5, <2>10
  <2>12. num = DivNum /\ den = DivDen BY <2>2
  <2> QED BY <2>4, <2>6, <2>7, <2>9, <2>11, <2>12, Zenon
          DEF DivDone, DivSigned, DivNum, DivDen
<1> QED BY <1>2, <1>3

\* The invariant holds where the program starts.
LEMMA DivInit ==
  ASSUME Init, Kind = "divide"
  PROVE  DivInv
<1>1. task \in Tasks /\ d = [r \in 0 .. 3 |-> task.d[r + 1]] /\ pc = 1 BY DEF Init
<1>2. \A r \in 0 .. 3 : GivenD(r) \in Values(Long) /\ d[r] = GivenD(r)
  BY <1>1, DivideCode DEF GivenD
<1>3. d \in [0 .. 3 -> Values(Long)] BY <1>1, <1>2
<1>4. d[0] = GivenD(0) /\ d[1] = GivenD(1) BY <1>2
<1> QED BY <1>1, <1>3, <1>4 DEF DivInv

\* The inductive invariant of QuotientsExact.
QuotientsInv == task \in Tasks /\ (Kind = "divide" => DivInv)

\* Every step keeps it.
LEMMA QuotientsStep == QuotientsInv /\ [Next]_vars => QuotientsInv'
<1> SUFFICES ASSUME QuotientsInv, [Next]_vars PROVE QuotientsInv' OBVIOUS
<1>1. CASE Next
  <2>1. task' = task /\ task' \in Tasks /\ Kind' = Kind
    BY <1>1, KeepsTask DEF QuotientsInv, Kind
  <2>2. Kind = "divide" => DivInv' BY <1>1, DivStep DEF QuotientsInv
  <2> QED BY <2>1, <2>2 DEF QuotientsInv
<1>2. CASE UNCHANGED vars
  <2>1. task' = task /\ d' = d /\ ccr' = ccr /\ pc' = pc BY <1>2 DEF vars
  <2>2. Kind' = Kind BY <2>1 DEF Kind
  <2>3. DivInv' <=> DivInv BY <2>1, DivKept DEF DivInv
  <2> QED BY <2>1, <2>2, <2>3 DEF QuotientsInv
<1> QED BY <1>1, <1>2

\* Whatever the operands, a division by a number that is not zero puts out the
\* quotient rounded to zero and the remainder with the dividend's sign, or V and
\* an unchanged register; by zero it ends in its exception.
THEOREM QuotientsAlways == Spec => []QuotientsExact
<1>1. Init => QuotientsInv BY DivInit DEF QuotientsInv, Init
<1>2. QuotientsInv => QuotientsExact
  <2>1. QuotientsExact <=> (Done({"divide"}) => DivDone) BY Zenon DEF QuotientsExact, DivDone, Size
  <2> QED BY <2>1, DivEnd DEF QuotientsInv, Done
<1> QED BY <1>1, <1>2, QuotientsStep, PTL DEF Spec

\* The programs that compute with numbers are exact for all operands.
THEOREM ArithmeticAlways == Spec => []ArithmeticExact
<1>1. ArithmeticExact <=> SumsExact /\ QuotientsExact BY DEF ArithmeticExact
<1> QED BY <1>1, SumsAlways, QuotientsAlways, PTL
=============================================================================
