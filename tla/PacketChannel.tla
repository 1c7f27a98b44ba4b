--------------------------- MODULE PacketChannel ---------------------------
(***************************************************************************)
(* What one direction of a memif queue pair promises to the application:   *)
(* packets accepted by WritePacket on the tx queue come out of ReadPacket  *)
(* on the peer's rx queue, each exactly once and in order.  The packets in *)
(* Exact come out unchanged; nothing is promised about the contents of the *)
(* others.                                                                 *)
(***************************************************************************)
EXTENDS Sequences

CONSTANTS
  Packets,    \* what an application may hand to WritePacket
  Exact,      \* those that are transferred unchanged
  Contents    \* what ReadPacket may store in the caller's slice

VARIABLES
  q,     \* packets accepted and not yet handed to the reader
  out    \* the packet ReadPacket returned last

Init == q = <<>> /\ out = <<>>

Send(p) == q' = Append(q, p) /\ UNCHANGED out

Receive ==
  /\ q # <<>>
  /\ out' \in IF Head(q) \in Exact THEN {Head(q)} ELSE Contents
  /\ q' = Tail(q)

Next == (\E p \in Packets : Send(p)) \/ Receive

\* The reader is served as long as something is waiting; writers need not come.
Spec == Init /\ [][Next]_<<q, out>> /\ WF_<<q, out>>(Receive)
=============================================================================
