------------------------------ MODULE Clocked ------------------------------
(***************************************************************************)
(* The clocked core (cpuinstr/, cpu.c from 961 on): the second core of the *)
(* emulator, chosen on the command line, in which some instructions are    *)
(* state machines that run a few clock cycles at a time.                   *)
(*                                                                         *)
(* A step is one call of an instruction's handler; cycles that only pass   *)
(* are added up.  The registers, memory and programs are Guest's, and      *)
(* instructions that are not clocked yet run as they do there, whole.      *)
(* Exceptions and the program-counter modes are left out.                  *)
(***************************************************************************)
EXTENDS Guest

CONSTANT None

VARIABLES
  cur,         \* current_instr
  fetched,     \* words of the instruction at pc that were fetched
  prefetched,  \* where prefetched_instr was read from, None once it was taken
  state,       \* instr_state
  ucode,       \* array of microcycles
  upc,         \* index of the next of them
  ucycles,     \* how many are left
  address,     \* ea_address, and instr_data_ea_addr of MOVEM
  data,        \* ea_data as its high and its low word
  transfers,   \* register halves MOVEM has left
  cycles,      \* history: cycles of the instruction so far
  accesses,    \* history: its accesses, "p" for program, "r" and "w" for memory
  shown        \* history: registers and memory after the last whole instruction

micro == <<ucode, upc, ucycles>>
eaVars == <<micro, address, data>>
clockVars == <<vars, cur, fetched, prefetched, state, eaVars, transfers, cycles, accesses, shown>>

ReadOps == {"add", "sub", "cmp", "neg", "negx", "not", "clr"}
ClockedOps == ReadOps \cup {"lea", "exg", "bcc", "bsr", "movemstore", "movemload"}

-----------------------------------------------------------------------------
(* Words of an instruction.  Branches and absolute addresses have a short     *)
(* and a long form; an index word stays a record.                             *)
Words(sz) == IF sz = "l" THEN 2 ELSE 1
InRegister(e) == e.mode \in {"d", "a"}
Far(e) == "far" \in DOMAIN e
Wide(i) == "wide" \in DOMAIN i

Halves(v) == <<v \div Word, v % Word>>
Whole(w) == w[1] * Word + w[2]

EaWords(e, sz) ==
  CASE e.mode = "off"   -> <<e.offset % Word>>
    [] e.mode = "index" -> <<[index |-> e.index, isz |-> e.isz, offset |-> e.offset]>>
    [] e.mode = "abs"   -> IF Far(e) THEN Halves(e.address) ELSE <<e.address>>
    [] e.mode = "imm"   -> IF sz = "l" THEN Halves(e.value) ELSE <<e.value>>
    [] OTHER            -> <<>>

\* The operand an instruction reaches through its effective address.
FromEa(i) == i.op \in {"cmp", "lea"} \/ (i.op \in {"add", "sub"} /\ i.t.mode = "d")
Ea(i) == IF FromEa(i) THEN i.s ELSE i.t

\* The words behind the opcode.
Extensions(i) ==
  CASE i.op \in {"bcc", "bsr"} -> IF Wide(i) THEN <<i.to>> ELSE <<>>
    [] i.op \in {"movemstore", "movemload"} -> <<i.list>> \o EaWords(i.t, i.sz)
    [] i.op \in ReadOps \cup {"lea"} -> EaWords(Ea(i), i.sz)
    [] OTHER -> <<>>

\* Operands, and what the tables of the core hold: the instructions with the
\* addressing modes that each handler is entered for.
MemoryModes == {"at", "inc", "dec", "off", "index", "abs"}

ProperEa(e, sz, modes) ==
  /\ e.mode \in modes
  /\ e.mode = "d" => e.reg \in 0 .. 3
  /\ e.mode \in {"a", "at", "inc", "dec", "off", "index"} => e.reg \in {0, 1, 6, 7}
  /\ e.mode = "off" => e.offset \in -(Word \div 2) .. Word \div 2 - 1
  /\ e.mode = "index" => e.index \in 0 .. 3 /\ e.isz \in {"w", "l"} /\ e.offset \in -128 .. 127
  /\ e.mode = "abs" => e.address \in 0 .. (IF Far(e) THEN Long - 1 ELSE Word \div 2 - 1)
  /\ e.mode = "imm" => e.value \in Values(Modulus[sz])

Proper(i) ==
  /\ i.op \in ReadOps => i.sz \in {"b", "w", "l"}
  /\ i.op \in {"add", "sub"} =>
       \/ ProperEa(i.t, i.sz, {"d"}) /\ ProperEa(i.s, i.sz, MemoryModes \cup {"d", "a", "imm"})
       \/ ProperEa(i.s, i.sz, {"d"}) /\ ProperEa(i.t, i.sz, MemoryModes)
  /\ i.op = "cmp" =>
       ProperEa(i.t, i.sz, {"d"}) /\ ProperEa(i.s, i.sz, MemoryModes \cup {"d", "a", "imm"})
  /\ i.op \in {"neg", "negx", "not", "clr"} => ProperEa(i.t, i.sz, MemoryModes \cup {"d"})
  /\ i.op = "lea" =>
       ProperEa(i.t, "l", {"a"}) /\ ProperEa(i.s, "l", {"at", "off", "index", "abs"}) /\ i.sz = "l"
  /\ i.op = "exg" => \A e \in {i.s, i.t} : ProperEa(e, "l", {"d", "a"})
  /\ i.op \in {"movemstore", "movemload"} =>
       /\ i.sz \in {"w", "l"}
       /\ i.list \in Seq([mode : {"d"}, reg : 0 .. 3] \cup [mode : {"a"}, reg : {0, 1, 6, 7}])
       /\ i.list # <<>>
       /\ ProperEa(i.t, i.sz, MemoryModes \ (IF i.op = "movemstore" THEN {"inc"} ELSE {"dec"}))

ASSUME CodeAssumption ==
  /\ \A p \in DOMAIN Code : \A n \in DOMAIN Code[p] :
       Code[p][n].op \in ClockedOps => Proper(Code[p][n])
  /\ \A t \in Tasks : t.program \in DOMAIN Code

\* Position of the next word of the program: cpu->pc.
Here ==
  IF fetched > 0 /\ fetched > Len(Extensions(cur)) THEN <<pc + 1, 0>> ELSE <<pc, fetched>>

\* cpu_prefetch, which asserts that nothing was prefetched.
Prefetch == prefetched = None /\ prefetched' = Here

\* A word read and taken at once: cpu_prefetch and fetch_instr.
FetchWord == prefetched = None /\ fetched' = fetched + 1

Uses(n, bus) == cycles' = cycles + n /\ accesses' = accesses \o bus

Go(s) == state' = s /\ UNCHANGED shown

Finish ==
  /\ state' = "finished"
  /\ shown' = [d |-> d', a |-> a', ccr |-> ccr', mem |-> mem', pc |-> Here'[1]]

-----------------------------------------------------------------------------
\* After a reset the first word is prefetched.
ClockInit ==
  /\ Init
  /\ fetched = 0 /\ cur = None /\ prefetched = <<1, 0>>
  /\ state = "finished"
  /\ ucode = <<>> /\ upc = 1 /\ ucycles = 0 /\ address = 0 /\ data = <<0, 0>> /\ transfers = <<>>
  /\ cycles = 0 /\ accesses = <<>>
  /\ shown = [d |-> d, a |-> a, ccr |-> ccr, mem |-> mem, pc |-> 1]

Stopped == shown.pc \notin DOMAIN Listing[task.program]

\* cpu_new_instr: take the prefetched word, which has to be an opcode.
NewInstr ==
  /\ state = "finished" /\ ~Stopped
  /\ prefetched # None /\ prefetched[2] = 0
  /\ cur' = Listing[task.program][prefetched[1]]
  /\ pc' = Here[1] /\ fetched' = Here[2] + 1
  /\ prefetched' = None
  /\ cycles' = 0 /\ accesses' = <<>>
  /\ Go("none")
  /\ UNCHANGED <<task, d, a, ccr, mem, eaVars, transfers>>

\* An instruction of the other core.
RunWhole ==
  /\ state = "none" /\ cur.op \notin ClockedOps
  /\ Next
  /\ fetched' = 0 /\ prefetched' = <<pc', 0>>
  /\ UNCHANGED <<cur, eaVars, transfers, cycles, accesses>>
  /\ Finish

-----------------------------------------------------------------------------
(* Effective addresses (cpuinstr/ea.c, ucode.c)                               *)
\* Mutant: a predecrement takes no time.
MutMicrocode(e) ==
  CASE e.mode \in {"at", "inc", "dec"} -> <<"r", "n", "r", "n">>
    [] e.mode = "off"              -> <<"p", "sa", "r", "n", "r", "n">>
    [] e.mode = "index"            -> <<"n", "p", "idx", "r", "n", "r", "n">>
    [] e.mode = "abs" /\ ~Far(e)   -> <<"p", "sa", "r", "n", "r", "n">>
    [] e.mode = "abs" /\ Far(e)    -> <<"p", "n", "p", "a", "r", "n", "r", "n">>
    [] e.mode = "imm"              -> <<"p", "n", "p", "n">>
    [] OTHER                       -> <<>>

\* The microcycles of an operand, two of them for each word of it at the end.
Microcode(e) ==
  CASE e.mode \in {"at", "inc"}     -> <<"r", "n", "r", "n">>
    [] e.mode = "dec"              -> <<"n", "r", "n", "r", "n">>
    [] e.mode = "off"              -> <<"p", "sa", "r", "n", "r", "n">>
    [] e.mode = "index"            -> <<"n", "p", "idx", "r", "n", "r", "n">>
    [] e.mode = "abs" /\ ~Far(e)   -> <<"p", "sa", "r", "n", "r", "n">>
    [] e.mode = "abs" /\ Far(e)    -> <<"p", "n", "p", "a", "r", "n", "r", "n">>
    [] e.mode = "imm"              -> <<"p", "n", "p", "n">>
    [] OTHER                       -> <<>>

ReadCycles(e, sz) ==
  IF InRegister(e) THEN 0 ELSE IF sz = "l" THEN Len(Microcode(e)) ELSE Len(Microcode(e)) - 2

\* LEA waits another one for an index.
AddressCode(e) == IF e.mode = "index" THEN <<"n", "p", "idx", "n">> ELSE Microcode(e)
AddressCycles(e) == IF e.mode = "index" THEN 4 ELSE Len(Microcode(e)) - 4

Ujump(code, n) == ucode' = code /\ upc' = 1 /\ ucycles' = n

\* Where the microcycles start from: R are the registers after the access.
Base(e, R) ==
  CASE e.mode \in {"at", "inc", "off", "index"} -> a[e.reg]
    [] e.mode = "dec"                           -> R[e.reg]
    [] e.mode = "abs" /\ ~Far(e)                -> 0
    [] OTHER                                    -> address

BeginRead ==
  /\ state = "none" /\ cur.op \in ReadOps
  /\ LET e == Ea(cur)
     IN  /\ a' = Bump(e, cur.sz, a)
         /\ address' = Base(e, a')
         /\ data' = CASE e.mode = "d" -> Halves(d[e.reg])
                      [] e.mode = "a" -> Halves(a[e.reg])
                      [] OTHER        -> <<0, 0>>
         /\ Ujump(Microcode(e), ReadCycles(e, cur.sz))
  /\ Go("read")
  /\ UNCHANGED <<task, d, ccr, mem, pc, cur, fetched, prefetched, transfers, cycles, accesses>>

BeginAddress ==
  /\ state = "none" /\ cur.op = "lea"
  /\ address' = Base(cur.s, a)
  /\ Ujump(AddressCode(cur.s), AddressCycles(cur.s))
  /\ Go("ea")
  /\ UNCHANGED <<vars, cur, fetched, prefetched, data, transfers, cycles, accesses>>

\* A byte, or one word of the operand.
Part == IF cur.sz = "b" THEN "b" ELSE "w"

IndexValue(w) == IF w.isz = "w" THEN SignExtend("w", d[w.index] % Word) ELSE d[w.index]

\* CLR sets its flags while it writes.
CodesWhenWriting == IF state = "write" /\ cur.op = "clr" THEN ClrOp(ccr).f ELSE ccr

\* One microcycle (ustep).  The high word of a write follows the low.
Micro ==
  /\ state \in {"read", "ea", "write"} /\ ucycles # 0
  /\ ucycles' = ucycles - 1 /\ upc' = upc + 1 /\ UNCHANGED ucode
  /\ LET u == ucode[upc]
     IN  /\ \/ u = "n" /\ UNCHANGED <<address, data, mem, fetched>>
            \/ /\ u = "r"
               /\ data' = <<data[2], Peek(address, Part)>>
               /\ address' = address + 2
               /\ UNCHANGED <<mem, fetched>>
            \/ /\ u = "w"
               /\ mem' = Poke(mem, address - 2, Part, data[2])
               /\ address' = address - 2
               /\ data' = <<0, data[1]>>
               /\ UNCHANGED fetched
            \/ /\ u = "p"
               /\ FetchWord
               /\ data' = <<data[2], Extensions(cur)[fetched]>>
               /\ UNCHANGED <<address, mem>>
            \/ /\ u = "a" /\ address' = Whole(data)
               /\ UNCHANGED <<data, mem, fetched>>
            \/ /\ u = "sa" /\ address' = (address + SignExtend("w", data[2])) % Long
               /\ UNCHANGED <<data, mem, fetched>>
            \/ /\ u = "idx"
               /\ address' = (address + IndexValue(data[2]) + data[2].offset) % Long
               /\ UNCHANGED <<data, mem, fetched>>
         /\ Uses(2, IF u \in {"p", "r", "w"} THEN <<u>> ELSE <<>>)
  /\ ccr' = CodesWhenWriting
  /\ Go(state)
  /\ UNCHANGED <<task, d, a, pc, cur, prefetched, transfers>>

-----------------------------------------------------------------------------
(* Instructions that read, compute and write                                  *)
Read ==
  CASE cur.sz = "b" -> data[2] % 256
    [] cur.sz = "w" -> data[2]
    [] cur.sz = "l" -> Whole(data)

\* The flags of NOT are those of the operand.
NotRead(m, f, v) == [r |-> m - 1 - v, f |-> SetMove(f, Top(m, v), v)]

Register(e) == d[e.reg] % Modulus[cur.sz]

Result ==
  LET m == Modulus[cur.sz]
      s == IF FromEa(cur) THEN Read ELSE Register(cur.s)
      t == IF FromEa(cur) THEN Register(cur.t) ELSE Read
  IN  CASE cur.op = "add"  -> AddOp(m, ccr, s, t)
        [] cur.op = "sub"  -> SubOp(m, ccr, s, t)
        [] cur.op = "cmp"  -> CmpOp(m, ccr, s, t)
        [] cur.op = "neg"  -> NegOp(m, ccr, Read)
        [] cur.op = "negx" -> NegxOp(m, ccr, Read)
        [] cur.op = "not"  -> NotRead(m, ccr, Read)
        [] cur.op = "clr"  -> [r |-> 0, f |-> ccr]

\* ea_begin_modify; ADD and SUB to a data register write it themselves.
Modify(r) ==
  IF cur.t.mode = "d"
  THEN /\ d' = [d EXCEPT ![cur.t.reg] = Insert(@, cur.sz, r)]
       /\ Ujump(<<"n", "n", "n">>, IF ~FromEa(cur) /\ cur.sz = "l" THEN 2 ELSE 0)
       /\ UNCHANGED data
  ELSE /\ data' = Halves(r)
       /\ Ujump(<<"w", "n", "w", "n">>, IF cur.sz = "l" THEN 4 ELSE 2)
       /\ UNCHANGED d

\* Computed between the prefetch of the next instruction and the write.
Compute ==
  /\ state = "read" /\ ucycles = 0 /\ cur.op # "cmp"
  /\ Prefetch
  /\ Uses(4, <<"p">>)
  /\ Modify(Result.r)
  /\ ccr' = Result.f
  /\ Go("write")
  /\ UNCHANGED <<task, a, mem, pc, cur, fetched, address, transfers>>

Written ==
  /\ state = "write" /\ ucycles = 0
  /\ ccr' = CodesWhenWriting
  /\ UNCHANGED <<task, d, a, mem, pc, cur, fetched, prefetched, eaVars, transfers, cycles, accesses>>
  /\ Finish

ComparePart ==
  /\ state = "read" /\ ucycles = 0 /\ cur.op = "cmp"
  /\ Prefetch
  /\ Uses(4, <<"p">>)
  /\ ccr' = Result.f
  /\ UNCHANGED <<task, d, a, mem, pc, cur, fetched, eaVars, transfers>>
  /\ IF cur.sz = "l" THEN Go("long") ELSE Finish

CompareLong ==
  /\ state = "long"
  /\ Uses(2, <<>>)
  /\ UNCHANGED <<vars, cur, fetched, prefetched, eaVars, transfers>>
  /\ Finish

LoadAddress ==
  /\ state = "ea" /\ ucycles = 0
  /\ Prefetch
  /\ Uses(4, <<"p">>)
  /\ a' = [a EXCEPT ![cur.t.reg] = address]
  /\ UNCHANGED <<task, d, ccr, mem, pc, cur, fetched, eaVars, transfers>>
  /\ Finish

-----------------------------------------------------------------------------
(* EXG and the branches                                                       *)
BeginExchange ==
  /\ state = "none" /\ cur.op = "exg"
  /\ Prefetch
  /\ Uses(4, <<"p">>)
  /\ Go("exchange")
  /\ UNCHANGED <<vars, cur, fetched, eaVars, transfers>>

Exchange ==
  /\ state = "exchange"
  /\ LET x == cur.s
         y == cur.t
         Value(e) == IF e.mode = "d" THEN d[e.reg] ELSE a[e.reg]
         Swapped(mode, R) ==
           [r \in DOMAIN R |-> CASE [mode |-> mode, reg |-> r] = x -> Value(y)
                                 [] [mode |-> mode, reg |-> r] = y -> Value(x)
                                 [] OTHER -> R[r]]
     IN  d' = Swapped("d", d) /\ a' = Swapped("a", a)
  /\ Uses(2, <<>>)
  /\ UNCHANGED <<task, ccr, mem, pc, cur, fetched, prefetched, eaVars, transfers>>
  /\ Finish

\* The condition is tested, and the word form fetches its displacement.
TakesBranch == cur.op = "bcc" /\ Condition(ccr)[cur.cc]

BeginBranch ==
  /\ state = "none" /\ cur.op \in {"bcc", "bsr"}
  /\ prefetched = None
  /\ IF TakesBranch THEN pc' = cur.to /\ fetched' = 0
     ELSE pc' = pc /\ fetched' = IF Wide(cur) THEN fetched + 1 ELSE fetched
  /\ Uses(2, IF Wide(cur) THEN <<"p">> ELSE <<>>)
  /\ Go(IF cur.op = "bsr" THEN "push high" ELSE IF TakesBranch THEN "refill" ELSE "not taken")
  /\ UNCHANGED <<task, d, a, ccr, mem, cur, prefetched, eaVars, transfers>>

NotTaken ==
  /\ state = "not taken"
  /\ Uses(2, <<>>)
  /\ Go(IF Wide(cur) THEN "refill" ELSE "prefetch")
  /\ UNCHANGED <<vars, cur, fetched, prefetched, eaVars, transfers>>

\* BSR pushes the address of the next instruction, the high word first.
PushHigh ==
  /\ state = "push high"
  /\ a' = [a EXCEPT ![7] = @ - 4]
  /\ mem' = PokeWord(mem, a[7] - 4, Here[1] \div Word)
  /\ Uses(4, <<"w">>)
  /\ Go("push low")
  /\ UNCHANGED <<task, d, ccr, pc, cur, fetched, prefetched, eaVars, transfers>>

PushLow ==
  /\ state = "push low"
  /\ mem' = PokeWord(mem, a[7] + 2, Here[1] % Word)
  /\ pc' = cur.to /\ fetched' = 0
  /\ Uses(4, <<"w">>)
  /\ Go("refill")
  /\ UNCHANGED <<task, d, a, ccr, cur, prefetched, eaVars, transfers>>

\* The first word of a refill is not read, only its time passes.
Refill ==
  /\ state = "refill"
  /\ Uses(4, <<>>)
  /\ Go("prefetch")
  /\ UNCHANGED <<vars, cur, fetched, prefetched, eaVars, transfers>>

-----------------------------------------------------------------------------
(* MOVEM (cpuinstr/movem.c): one word of memory in each step                  *)
Movem == cur.op \in {"movemstore", "movemload"}

FetchMask ==
  /\ state = "none" /\ Movem
  /\ FetchWord
  /\ Uses(4, <<"p">>)
  /\ Go(IF EaWords(cur.t, cur.sz) # <<>> THEN "fetch" ELSE "parse")
  /\ UNCHANGED <<vars, cur, prefetched, eaVars, transfers>>

FetchEa ==
  /\ state = "fetch"
  /\ FetchWord
  /\ Uses(4, <<"p">>)
  /\ Go(IF fetched' > Len(Extensions(cur)) THEN "parse" ELSE "fetch")
  /\ UNCHANGED <<vars, cur, prefetched, eaVars, transfers>>

\* ea_addr of cpuinstr/ea.h, in which the size of an index is the wrong way round.
ListAddress(e) ==
  CASE e.mode \in {"at", "inc", "dec"} -> a[e.reg]
    [] e.mode = "off"   -> (a[e.reg] + e.offset) % Long
    [] e.mode = "index" -> (a[e.reg] + e.offset
                             + (IF e.isz = "l" THEN SignExtend("w", d[e.index] % Word)
                                ELSE d[e.index])) % Long
    [] e.mode = "abs"   -> e.address

\* The register halves of a list, in the order of the registers.
NthHalf(i, n) ==
  IF i.sz = "l" THEN [reg |-> i.list[(n + 1) \div 2], half |-> IF n % 2 = 1 THEN 1 ELSE 2]
  ELSE [reg |-> i.list[n], half |-> 2]

\* Mutant: the list is not reversed for a predecrement.
MutListHalves(i) == [n \in 1 .. Words(i.sz) * Len(i.list) |-> NthHalf(i, n)]

\* A predecrement begins with the last.
ListHalves(i) ==
  LET all == Words(i.sz) * Len(i.list)
  IN  [n \in 1 .. all |-> NthHalf(i, IF i.t.mode = "dec" THEN all + 1 - n ELSE n)]

Parse ==
  /\ state = "parse"
  /\ transfers' = ListHalves(cur)
  /\ address' = ListAddress(cur.t)
  /\ Uses(4, <<>>)
  /\ Go(IF cur.op = "movemload" THEN "load" ELSE "store")
  /\ UNCHANGED <<vars, cur, fetched, prefetched, micro, data>>

\* Bytes of the whole list, for the register of (An)+ and -(An).
ListSize == 2 * Len(ListHalves(cur))

RegisterOf(e) == IF e.mode = "d" THEN d[e.reg] ELSE a[e.reg]

\* A list is not empty: the code moves a word even then.
StoreWord ==
  /\ state = "store" /\ transfers # <<>>
  /\ LET to == IF cur.t.mode = "dec" THEN address - 2 ELSE address
         h == Head(transfers)
     IN  /\ mem' = PokeWord(mem, to, Halves(RegisterOf(h.reg))[h.half])
         /\ address' = IF cur.t.mode = "dec" THEN to ELSE to + 2
  /\ transfers' = Tail(transfers)
  /\ Uses(4, <<"w">>)
  /\ IF Len(transfers) = 1
     THEN /\ a' = IF cur.t.mode = "dec" THEN [a EXCEPT ![cur.t.reg] = @ - ListSize] ELSE a
          /\ Go("prefetch")
     ELSE a' = a /\ Go("store")
  /\ UNCHANGED <<task, d, ccr, pc, cur, fetched, prefetched, micro, data>>

\* A word replaces one half of a register, or with its sign all of it.
Loaded(v, h, w) ==
  IF cur.sz = "w" THEN SignExtend("w", w)
  ELSE IF h = 1 THEN (w * Word) + (v % Word)
  ELSE ((v \div Word) * Word) + w

LoadWord ==
  /\ state = "load" /\ transfers # <<>>
  /\ LET h == Head(transfers)
         v == Loaded(RegisterOf(h.reg), h.half, PeekWord(address))
     IN  IF h.reg.mode = "d"
         THEN d' = [d EXCEPT ![h.reg.reg] = v] /\ a' = a
         ELSE a' = [a EXCEPT ![h.reg.reg] = v] /\ d' = d
  /\ address' = address + 2
  /\ transfers' = Tail(transfers)
  /\ Uses(4, <<"r">>)
  /\ Go(IF Len(transfers) = 1 THEN "extra read" ELSE "load")
  /\ UNCHANGED <<task, ccr, mem, pc, cur, fetched, prefetched, micro, data>>

\* A register that was loaded itself is not moved past the list.
ExtraRead ==
  /\ state = "extra read"
  /\ a' = IF cur.t.mode = "inc" /\ \A n \in DOMAIN cur.list : cur.list[n] # A(cur.t.reg)
          THEN [a EXCEPT ![cur.t.reg] = @ + ListSize] ELSE a
  /\ Uses(4, <<"r">>)
  /\ Go("prefetch")
  /\ UNCHANGED <<task, d, ccr, mem, pc, cur, fetched, prefetched, eaVars, transfers>>

\* Mutant: the next instruction is not prefetched.
MutLastState ==
  /\ state = "prefetch"
  /\ Uses(4, <<"p">>)
  /\ UNCHANGED <<vars, cur, fetched, prefetched, eaVars, transfers>>
  /\ Finish

\* The last state of the branches and of MOVEM.
LastState ==
  /\ state = "prefetch"
  /\ Prefetch
  /\ Uses(4, <<"p">>)
  /\ UNCHANGED <<vars, cur, fetched, eaVars, transfers>>
  /\ Finish

-----------------------------------------------------------------------------
ClockNext ==
  \/ NewInstr \/ RunWhole \/ BeginRead \/ BeginAddress \/ Micro
  \/ Compute \/ Written \/ ComparePart \/ CompareLong \/ LoadAddress
  \/ BeginExchange \/ Exchange \/ BeginBranch \/ NotTaken \/ PushHigh \/ PushLow \/ Refill
  \/ FetchMask \/ FetchEa \/ Parse \/ StoreWord \/ LoadWord \/ ExtraRead \/ LastState

ClockSpec == ClockInit /\ [][ClockNext]_clockVars /\ WF_clockVars(ClockNext)

-----------------------------------------------------------------------------
(* The tables over the handlers: cycles of an operand and of an instruction.  *)
Times(n, bus) == [x \in 1 .. n |-> bus]

EaTime(e, sz) ==
  [d |-> 0, a |-> 0, at |-> 4, inc |-> 4, dec |-> 6, off |-> 8, index |-> 10, abs |-> 8,
   imm |-> 4][e.mode]
  + (IF e.mode = "abs" /\ Far(e) THEN 4 ELSE 0)
  + (IF sz = "l" /\ ~InRegister(e) THEN 4 ELSE 0)

\* LEA and MOVEM find an address without reading it.
PlaceTime(e) ==
  [at |-> 0, inc |-> 0, dec |-> 0, off |-> 4, index |-> 6, abs |-> 4][e.mode]
  + (IF e.mode = "abs" /\ Far(e) THEN 4 ELSE 0)

ToMemory(i) == i.op \in ReadOps \ {"cmp"} /\ i.t.mode # "d"

Tabled(i) ==
  CASE ToMemory(i) -> (IF i.sz = "l" THEN 12 ELSE 8) + EaTime(i.t, i.sz)
    [] i.op \in ReadOps /\ ~ToMemory(i) /\ i.sz # "l" -> 4 + EaTime(Ea(i), i.sz)
    [] i.op \in {"add", "sub"} /\ ~ToMemory(i) /\ i.sz = "l" ->
         (IF InRegister(i.s) \/ i.s.mode = "imm" THEN 8 ELSE 6) + EaTime(i.s, "l")
    [] i.op \in ReadOps \ {"add", "sub"} /\ ~ToMemory(i) /\ i.sz = "l" -> 6 + EaTime(Ea(i), "l")
    [] i.op = "lea" -> 4 + PlaceTime(i.s) + (IF i.s.mode = "index" THEN 2 ELSE 0)
    [] i.op = "exg" -> 6
    [] i.op = "bcc" -> IF Condition(ccr)[i.cc] THEN 10 ELSE IF Wide(i) THEN 12 ELSE 8
    [] i.op = "bsr" -> 18
    [] i.op = "movemstore" -> 8 + PlaceTime(i.t) + 4 * Len(i.list) * Words(i.sz)
    [] i.op = "movemload" -> 12 + PlaceTime(i.t) + 4 * Len(i.list) * Words(i.sz)

\* Program words first, then the operand, the next instruction, and the result.
Bus(i) ==
  LET words == Times(Len(Extensions(i)), "p")
      ea == Ea(i)
      reads == IF InRegister(ea) \/ ea.mode = "imm" THEN 0 ELSE Words(i.sz)
      moved == Words(i.sz) * Len(i.list)
  IN  words \o
      CASE i.op \in ReadOps ->
             Times(reads, "r") \o <<"p">> \o Times(IF ToMemory(i) THEN Words(i.sz) ELSE 0, "w")
        [] i.op \in {"lea", "exg", "bcc"} -> <<"p">>
        [] i.op = "bsr" -> <<"w", "w", "p">>
        [] i.op = "movemstore" -> Times(moved, "w") \o <<"p">>
        [] i.op = "movemload" -> Times(moved + 1, "r") \o <<"p">>

\* BSR has no table: its rows above are what its steps add up to.
TabledOps == ClockedOps \ {"bsr"}

Ended(ops) == state = "finished" /\ cur # None /\ cur.op \in ops

\* Where the cycles are not those of the tables: long results in a data
\* register, and MOVEM.
Slips(i) ==
  \/ i.op \in ReadOps \ {"cmp"} /\ ~ToMemory(i) /\ i.sz = "l"
  \/ i.op \in {"movemstore", "movemload"}

\* Where the accesses are not: a short branch that is taken.
ShortTaken == TakesBranch /\ ~Wide(cur)

\* An instruction that does not slip takes the cycles of its table, and one that
\* is no short branch taken makes its accesses in that order (cpuinstr/: the tables
\* at add.c:23, sub.c:23, cmp.c:11, neg.c:10, negx.c:10, not.c:10, clr.c:10, lea.c:10,
\* exg.c:7, bcc.c:50, movem.c:155).
AsTabled ==
  Ended(TabledOps) =>
    /\ ~Slips(cur) => cycles = Tabled(cur)
    /\ ~ShortTaken => accesses = Bus(cur)

\* What its table and its test say of MOVEM, and the code does not do: MOVEM.L D0-D3,(A0)
\* takes 40 cycles (movem.c:184, tests/test_ccpu_movem.c:113).
MovemTimes == Ended({"movemstore", "movemload"}) => cycles = Tabled(cur)

\* Every handler takes just the words it prefetched and leaves one behind, so
\* that the assertions of cpu_prefetch and fetch_instr never stop the core
\* (cpu.c:467, cpu.c:84), and every instruction reaches its last state.
ClockStops == <>Stopped
=============================================================================
