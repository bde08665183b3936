---------------------------- MODULE DelayedCalls ----------------------------
(***************************************************************************)
(* What clock.c promises: a call registered with a delay of n is made in   *)
(* the n-th cycle after this one, once, and calls of one cycle in the      *)
(* order in which they were registered.                                    *)
(***************************************************************************)
EXTENDS Integers, Sequences

CONSTANTS
  Callbacks,
  MaxDelay

VARIABLE due      \* for each number of cycles, the calls to make then

Delays == 0 .. MaxDelay

Init == due = [n \in Delays |-> <<>>]

\* A device registers at most one call for each delay.
Register ==
  \E f \in [Delays -> {<<>>} \cup {<<c>> : c \in Callbacks}] :
    due' = [n \in Delays |-> due[n] \o f[n]]

Call ==
  /\ due[0] # <<>>
  /\ due' = [due EXCEPT ![0] = Tail(@)]

\* A cycle ends only when its calls are made.
Cycle ==
  /\ due[0] = <<>>
  /\ due' = [n \in Delays |-> IF n < MaxDelay THEN due[n + 1] ELSE <<>>]

Next == Register \/ Call \/ Cycle

Spec == Init /\ [][Next]_due
=============================================================================
