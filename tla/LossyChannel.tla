---------------------------- MODULE LossyChannel ----------------------------
(***************************************************************************)
(* What the keyboard promises the guest: the bytes arrive in the order in  *)
(* which they were sent, each at most once, and a byte is lost only when   *)
(* the channel holds Capacity bytes already, or by a reset.                *)
(***************************************************************************)
EXTENDS Integers, Sequences

CONSTANTS Messages,    \* the sequences of bytes sent at once
          Capacity,    \* bytes the channel is sure to hold
          Acks,        \* what the sender says of its own reset
          Nothing

VARIABLES chan,        \* bytes on their way
          got          \* the byte the receiver read last

Init == chan = <<>> /\ got = Nothing

\* What does not fit is cut off at the end.
Send(m) ==
  /\ \E k \in 0 .. Len(m) :
       /\ chan' = chan \o SubSeq(m, 1, k)
       /\ k < Len(m) => Len(chan') >= Capacity
  /\ UNCHANGED got

Receive ==
  /\ chan # <<>>
  /\ got' = Head(chan)
  /\ chan' = Tail(chan)

\* A read with nothing there repeats the last byte or returns an empty one.
Reread == got' \in {got, Nothing} /\ UNCHANGED chan

\* The sender restarts; the byte under way may still arrive.
SenderReset(ack) ==
  /\ \E k \in 0 .. 1 : k <= Len(chan) /\ chan' = SubSeq(chan, 1, k) \o ack
  /\ UNCHANGED got

\* The receiver drops the byte that has arrived, if there is one.
ReceiverReset ==
  /\ chan' \in {chan} \cup (IF chan = <<>> THEN {} ELSE {Tail(chan)})
  /\ UNCHANGED got

Next ==
  \/ \E m \in Messages : Send(m)
  \/ Receive \/ Reread
  \/ \E a \in Acks : SenderReset(a)
  \/ ReceiverReset

Spec == Init /\ [][Next]_<<chan, got>>
=============================================================================
