----------------------------- MODULE DuplexPort -----------------------------
(***************************************************************************)
(* Both directions of a queue pair.  MemifRing, with WriterIsServer, is    *)
(* the client's rx ring; this module adds the client's own WritePacket on  *)
(* its tx ring.  initializeQueues gives slot j of the tx ring and slot j   *)
(* of the rx ring the same buffer offset, so both rings use buf.           *)
(*                                                                         *)
(* The server empties the tx ring before the client's next WritePacket,    *)
(* which is why no index of that ring but its head is kept.                *)
(***************************************************************************)
EXTENDS MemifRing

VARIABLE txslot    \* head of the tx ring

dvars == <<vars, txslot>>

DuplexInit == Init /\ txslot = 0

\* WritePacket of the client on the tx ring, for a packet of one buffer.
Transmit(p) ==
  /\ Len(p) <= BufSize
  /\ buf' = [buf EXCEPT ![Mask(txslot)] = CopyTo(@, p, Len(p))]
  /\ txslot' = Trunc(txslot + 1)
  /\ UNCHANGED <<head, tail, desc, evt, wvars, rvars, hvars>>

DuplexNext ==
  \/ Next /\ UNCHANGED txslot
  \/ \E p \in Packets : Transmit(p)

DuplexSpec == DuplexInit /\ [][DuplexNext]_dvars
=============================================================================
