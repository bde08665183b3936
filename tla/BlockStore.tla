----------------------------- MODULE BlockStore -----------------------------
(***************************************************************************)
(* What the disk system promises a driver: disks addressed by track, side  *)
(* and sector, a hard disk addressed by block, and requests that move      *)
(* whole runs of sectors at once or report that they did not.              *)
(***************************************************************************)
EXTENDS Integers

CONSTANTS
  Drives, Tracks, Sectors, Sides, RamBlocks, HardBlocks,
  Requests,     \* records: unit, drive, track, side, sector, block, op, n, at
  None

VARIABLES
  disks,        \* contents by drive and sector address; only inserted disks
  memory,
  hard,
  request,      \* the request being served, or None
  answer,       \* what became of it: "none" yet, "moved", "failed", "blank"
  told          \* what the last caller was told: TRUE for success

vars == <<disks, memory, hard, request, answer, told>>

Addresses == (0 .. Tracks - 1) \X (0 .. Sides - 1) \X (1 .. Sectors)

Ram == 0 .. RamBlocks - 1

\* Sectors follow one another along a track, then on the other side, then inward.
After(a) ==
  IF a[3] < Sectors THEN <<a[1], a[2], a[3] + 1>>
  ELSE IF a[2] < Sides - 1 THEN <<a[1], a[2] + 1, 1>>
  ELSE <<a[1] + 1, 0, 1>>

Along(a, n) ==
  LET at[i \in 0 .. n] == IF i = 0 THEN a ELSE After(at[i - 1]) IN at

Start(r) == <<r.track, r.side, r.sector>>

\* The last sector of a disk is not served.
Last == <<Tracks - 1, Sides - 1, Sectors>>

Served(r, i) ==
  /\ r.drive \in DOMAIN disks
  /\ \A j \in 0 .. i : Along(Start(r), i)[j] \in Addresses \ {Last}

Moved(r) == {i \in 0 .. r.n - 1 : Served(r, i)}

Init == request = None /\ answer = "none" /\ told = FALSE

\* A driver asks for one thing at a time.
Ask ==
  /\ request = None
  /\ request' \in Requests
  /\ answer' = "none"
  /\ UNCHANGED <<disks, memory, hard, told>>

\* All that can be moved is moved in one step.
MoveFloppy ==
  /\ request # None /\ request.unit = "floppy" /\ answer = "none"
  /\ LET r == request
         sectors == Along(Start(r), r.n)
     IN  /\ answer' = IF r.drive \in DOMAIN disks /\ Moved(r) = 0 .. r.n - 1
                      THEN "moved" ELSE "failed"
         /\ IF r.op = "read"
            THEN /\ memory' = [b \in Ram |->
                       IF b - r.at \in Moved(r) THEN disks[r.drive][sectors[b - r.at]]
                       ELSE memory[b]]
                 /\ UNCHANGED disks
            ELSE /\ disks' = [d \in DOMAIN disks |-> [a \in Addresses |->
                       IF d = r.drive /\ \E i \in Moved(r) : sectors[i] = a
                       THEN memory[r.at + (CHOOSE i \in Moved(r) : sectors[i] = a)]
                       ELSE disks[d][a]]]
                 /\ UNCHANGED memory
  /\ UNCHANGED <<hard, request, told>>

\* The hard disk moves all of the request or nothing at all.
MoveHard ==
  /\ request # None /\ request.unit = "hard" /\ answer = "none"
  /\ \/ /\ answer' = "blank"
        /\ UNCHANGED <<memory, hard>>
     \/ LET r == request
        IN  /\ answer' = "moved"
            /\ r.ctrl = 0 /\ r.block + r.n <= HardBlocks
            /\ IF r.op = "read"
               THEN /\ memory' = [b \in Ram |-> IF b - r.at \in 0 .. r.n - 1
                                                THEN hard[r.block + b - r.at] ELSE memory[b]]
                    /\ UNCHANGED hard
               ELSE /\ hard' = [b \in DOMAIN hard |-> IF b - r.block \in 0 .. r.n - 1
                                                THEN memory[r.at + b - r.block] ELSE hard[b]]
                    /\ UNCHANGED memory
  /\ UNCHANGED <<disks, request, told>>

\* The driver is told: success of a floppy request means that all was moved.
Tell ==
  /\ request # None
  /\ answer # "none"
  /\ told' \in BOOLEAN
  /\ request.unit = "floppy" => (told' <=> answer = "moved")
  /\ request' = None
  /\ answer' = "none"
  /\ UNCHANGED <<disks, memory, hard>>

Next == Ask \/ MoveFloppy \/ MoveHard \/ Tell

Spec == Init /\ [][Next]_vars
=============================================================================
