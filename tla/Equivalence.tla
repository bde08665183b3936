---------------------------- MODULE Equivalence ----------------------------
(* That the clocked core is the other one, spread over the clock: the         *)
(* registers and memory after each instruction (shown) behave as Guest says.  *)
EXTENDS Clocked

Unclocked ==
  INSTANCE Guest WITH Code <- Listing, d <- shown.d, a <- shown.a, ccr <- shown.ccr, mem <- shown.mem, pc <- shown.pc

NotEnds == state = "write" /\ cur.op = "not"

\* The core is "the clocked equivalent version" of the other (cpu.c:1252): what
\* registers, condition codes and memory hold after each instruction is what the
\* instruction does there, however its accesses are spread over the clock.  But
\* NOT leaves the flags of its operand here (cpuinstr/not.c:64), and there those
\* of its result (cpu/not.c:17).
Equivalent == [][NotEnds \/ Unclocked!Next]_(Unclocked!vars)
=============================================================================
