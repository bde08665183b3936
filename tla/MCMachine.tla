----------------------------- MODULE MCMachine -----------------------------
(* Instances of Machine for TLC.                                           *)
EXTENDS Machine

SR(s, t, ipl) == [s |-> s, t |-> t, ipl |-> ipl]

\* User and traced code, the highest level below HBL's, and those between HBL,
\* VBL and MFP.
AllLevels == {SR(FALSE, FALSE, 0), SR(TRUE, TRUE, 1), SR(TRUE, FALSE, 2),
              SR(TRUE, FALSE, 4)}

\* Supervisor code at every level that tells the three sources apart.
Supervisor == {SR(TRUE, FALSE, l) : l \in {0, 2, 4, 6}}

\* Traced code among them.
Tracing == Supervisor \cup {SR(TRUE, TRUE, 0)}

AllMasks == SUBSET Sources
OnOff == {{}, Sources}
=============================================================================
