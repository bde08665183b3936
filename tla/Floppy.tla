------------------------------- MODULE Floppy -------------------------------
(***************************************************************************)
(* The floppy drives and the memory their sectors are copied to and from   *)
(* (floppy.c, with floppy_st.c for the image of an inserted disk).         *)
(*                                                                         *)
(* Memory and images are functions from block numbers to contents; a block *)
(* is the 512 bytes of a sector and transfers start at a block's address.  *)
(* Every inserted disk is a raw image with the geometry of the constants.  *)
(***************************************************************************)
EXTENDS Integers

CONSTANTS
  Inserted,    \* drives with a disk, among "A" and "B"
  Tracks, Sectors, Sides,   \* geometry: tracks of a side, sectors of a track
  MaxHead,     \* 86 in the code: the last track the head can be stepped to
  RamBlocks,   \* blocks of memory
  Contents,    \* contents of a block
  Header,      \* contents of a block that a read-address command wrote into
  Absent       \* what a read of missing memory gives

ASSUME FloppyAssumption ==
  /\ Inserted \subseteq {"A", "B"}
  /\ Tracks \in Nat \ {0} /\ Sectors \in Nat \ {0} /\ Sides \in {1, 2}
  /\ MaxHead \in 0 .. 255 /\ MaxHead >= Tracks - 1
  /\ RamBlocks \in Nat \ {0}
  /\ {Header, Absent} \subseteq Contents

VARIABLES
  active,      \* active_device
  head,        \* sel_trk of each drive
  sector,      \* sel_sec of each drive
  side,        \* sel_side: the two drives always have the same
  image,       \* raw_data of each inserted disk
  memory

floppyVars == <<active, head, sector, side, image, memory>>

Drives == {"A", "B"}
Ram == 0 .. RamBlocks - 1

\* The blocks of an image.
Size == Tracks * Sectors * Sides
Disk == 0 .. Size - 1

FloppyTypeOK ==
  /\ active \in Drives \cup {"off"}
  /\ head \in [Drives -> 0 .. MaxHead]
  /\ sector \in [Drives -> 0 .. 255]
  /\ side \in {0, 1}
  /\ image \in [Inserted -> [Disk -> Contents]]
  /\ memory \in [Ram -> Contents]

\* The drives are static storage and none is selected.
FloppyInit ==
  /\ active = "off"
  /\ head = [d \in Drives |-> 0]
  /\ sector = [d \in Drives |-> 0]
  /\ side = 0

-----------------------------------------------------------------------------
(* Port A of the sound chip selects drive and side *)

\* Both select lines low count as drive A.
Selected(lines) ==
  CASE lines = 3 -> "off"
    [] lines = 1 -> "B"
    [] OTHER     -> "A"

SelectDrive(line0, lines) ==
  /\ side' = 1 - line0
  /\ active' = Selected(lines)
  /\ UNCHANGED <<head, sector, image, memory>>

Ready == active \in Inserted

CurrentTrack == IF Ready THEN head[active] ELSE 0

\* floppy_sector
SelectSector(s) ==
  sector' = IF Ready THEN [sector EXCEPT ![active] = s] ELSE sector

-----------------------------------------------------------------------------
(* Seeking *)

\* Where a seek leaves the head; one past the end is no error.
Seek(t) == [to |-> IF t >= Tracks THEN Tracks - 1 ELSE t, ok |-> t <= Tracks]

\* A step is limited by the drive and not by the disk.
Step(direction) ==
  LET t == head[active] + direction
  IN  [to |-> IF t < 0 THEN 0 ELSE IF t > MaxHead THEN MaxHead ELSE t, ok |-> TRUE]

MoveHead(t) == head' = [head EXCEPT ![active] = t]

-----------------------------------------------------------------------------
(* Transfers *)

\* The sector under the head, as a block of the image: tracks of a two-sided
\* disk alternate sides.  Sector 0 of track 0 lies before the image.
Position(s) == head[active] * Sides * Sectors + side * Sectors + (s - 1)

\* The code compares with the size less one sector, and without sign: the
\* last sector of an image is out of reach, and so is what lies before it.
InImage(p) == p \in 0 .. Size - 2

\* How many of `count` sectors from p a transfer copies before it leaves the image.
Reachable(p, count) ==
  IF ~InImage(p) THEN 0
  ELSE IF p + count <= Size - 1 THEN count
  ELSE Size - 1 - p

\* Memory once `n` blocks of `from`, starting at p, were copied to block b.
CopyIn(from, p, b, n) ==
  [x \in Ram |-> IF x \in b .. b + n - 1 THEN from[p + x - b] ELSE memory[x]]

Fetch(b) == IF b \in Ram THEN memory[b] ELSE Absent

\* A disk's blocks once `n` blocks of memory, starting at b, were copied to p.
CopyOut(to, p, b, n) ==
  [x \in DOMAIN to |-> IF x \in p .. p + n - 1 THEN Fetch(b + x - p) ELSE to[x]]

\* A transfer between memory at block b and the selected sector.  It copies
\* what it can reach; an empty drive copies nothing.
ReadCount(count) == IF Ready THEN Reachable(Position(sector[active]), count) ELSE 0

ReadSectors(b, count) ==
  /\ memory' = IF Ready
               THEN CopyIn(image[active], Position(sector[active]), b, ReadCount(count))
               ELSE memory
  /\ UNCHANGED image

\* Sector 0 is written as sector 1.
WriteFrom == Position(IF sector[active] < 1 THEN 1 ELSE sector[active])

WriteCount(count) == IF Ready THEN Reachable(WriteFrom, count) ELSE 0

WriteSectors(b, count) ==
  /\ image' = IF Ready
              THEN [image EXCEPT ![active] =
                      CopyOut(@, WriteFrom, b, WriteCount(count))]
              ELSE image
  /\ UNCHANGED memory

\* Reports on success: an empty drive has the dummy functions, which fail.
TransferOk(moved, count) == Ready /\ moved = count

\* Six bytes at block b, whatever drive is selected.
ReadAddress(b) ==
  /\ memory' = IF b \in Ram THEN [memory EXCEPT ![b] = Header] ELSE memory
  /\ UNCHANGED image
=============================================================================
