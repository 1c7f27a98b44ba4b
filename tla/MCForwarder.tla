---------------------------- MODULE MCForwarder ----------------------------
(***************************************************************************)
(* A small instance of Forwarder: two memif ports, both served by one rx   *)
(* core and each by a tx core of its own.                                  *)
(***************************************************************************)
EXTENDS Forwarder, Bitwise

CONSTANTS m1, m2, m3, u1, u2, arp

ThreeMbufs == {m1, m2, m3}
Udp     == {u1, u2}
Other   == {arp}
OneQueue == [f \in Flows |-> 0]

\* u1 and u2 come from different hosts.
Hashes  == [f \in UdpFlows |-> IF f = u1 THEN 6 ELSE 9]

And2(a, b) == a & b
=============================================================================
