------------------------------- MODULE MCDisk -------------------------------
(***************************************************************************)
(* Requests and contents for the model checker: a two-sided disk in drive  *)
(* A, none in drive B, and a hard disk.                                    *)
(***************************************************************************)
EXTENDS DiskDriver

\* Tracks beside the disk are asked for as well: one past the end, which the
\* code's seek takes for the last, and two past the end.
FloppyRequests ==
  [unit : {"floppy"}, drive : {"A"}, track : 0 .. Tracks + 1, side : 0 .. Sides - 1,
   sector : 1 .. Sectors, op : {"read", "write"}, n : {1, 2}, at : {0}]
  \cup [unit : {"floppy"}, drive : {"B"}, track : {0}, side : {0}, sector : {1},
        op : {"read", "write"}, n : {1}, at : {0}]

HardRequests ==
  {r \in [unit : {"hard"}, ctrl : {0, 1}, block : {0, 1, HardBlocks}, op : {"read", "write"},
          n : {1, 2}, at : {1}] :
     r.op = "write" => r.block + r.n <= HardBlocks}

AllRequests == FloppyRequests \cup HardRequests

AllContents ==
  {Header, Absent} \cup (Inserted \X Disk) \cup ({"ram"} \X Ram)
    \cup ({"hard"} \X (0 .. HardBlocks - 1))
=============================================================================
