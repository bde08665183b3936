---------------------------- MODULE MCDiskGuest -----------------------------
(***************************************************************************)
(* What a guest writes to the hard disk and to the port, for TLC.          *)
(***************************************************************************)
EXTENDS DiskGuest

OneHardCommand == {[ctrl |-> 0, op |-> "read"]}

DriveAOnOff == {<<0, 2>>, <<0, 3>>}
=============================================================================
