----------------------------- MODULE Forwarder -----------------------------
(***************************************************************************)
(* The DPDK forwarder beside the Go library: rx cores take packets from    *)
(* the NIC and sort them into memif ports (UDP) or the control ring (all   *)
(* else), tx cores bring packets from the memif ports to the NIC, and tx   *)
(* core 0 also serves the control port.  Packets are mbufs of one pool;    *)
(* every handover of an mbuf is a step.                                    *)
(*                                                                         *)
(* DPDK is external: a burst sent to a device is accepted up to some       *)
(* packet, a tx buffer is flushed when it is full, and its default error   *)
(* callback frees what was not accepted.  force_quit is never set.         *)
(***************************************************************************)
EXTENDS Integers, Sequences, FiniteSets, SequencesExt

CONSTANTS
  Mbufs,               \* the mbufs of mbuf_pool
  NumMemif,            \* num_memif
  NumRxCore,           \* num_rx_core
  NumTxCore,           \* num_tx_core
  BurstSize,           \* BURST_SIZE
  CtrlRingSize,        \* SCHED_RX_RING_SZ
  UdpFlows,            \* flows of UDP packets
  OtherFlows,          \* flows of other packets
  Rss,                 \* NIC queue of each flow
  SrcHash,             \* rte_hash_crc_4byte of the source address of a UDP flow
  BitAnd(_, _),        \* C's &
  MaxPackets           \* bound: packets arriving at the NIC

ASSUME ForwarderAssumption ==
  /\ IsFiniteSet(Mbufs) /\ {NumMemif, NumRxCore, NumTxCore} \subseteq Nat \ {0}
  /\ NumMemif % NumRxCore = 0 /\ NumMemif % NumTxCore = 0
  /\ BurstSize \in Nat \ {0} /\ CtrlRingSize \in Nat \ {0}
  /\ UdpFlows \cap OtherFlows = {}
  /\ Rss \in [UdpFlows \cup OtherFlows -> 0 .. NumRxCore - 1]
  /\ SrcHash \in [UdpFlows -> Nat] /\ MaxPackets \in Nat
  /\ LET mask == NumMemif \div NumRxCore - 1 IN
       \A f \in UdpFlows : BitAnd(SrcHash[f], mask) \in 0 .. mask

Flows   == UdpFlows \cup OtherFlows
RxCores == 0 .. NumRxCore - 1
TxCores == 0 .. NumTxCore - 1

\* num_memif_per_rx and num_memif_per_tx
PerRx == NumMemif \div NumRxCore
PerTx == NumMemif \div NumTxCore
Ports == 0 .. PerRx - 1     \* memif ports of an rx core

\* Sizes of the tx buffers: of one memif port, and of a NIC queue.
MemifBufSize == BurstSize * 2
EthBufSize   == BurstSize * 2 * PerTx

\* An rte_ring keeps one slot empty.
CtrlRingCap == CtrlRingSize - 1

VARIABLES
  pool,        \* free mbufs
  nicRx,       \* packets the NIC has received, per rx queue: the mbuf, the flow
               \* and when the packet arrived
  rxPkts,      \* pkts[] of an rx core, from the next one to classify
  memifBuf,    \* tx_buffer[] of an rx core, one per memif port
  ctrlRing,    \* ctrl_ring_rx
  txIdx,       \* memif port a tx core polls next; PerTx .. PerTx + 1 for control
  txPkts,      \* pkts[] of a tx core, from the next one to buffer
  ethBuf,      \* tx_buffer of a tx core
  device,      \* mbufs handed to the NIC or to the control port
  lost,        \* mbufs nobody can free any more (history)
  arrived,     \* packets that have arrived (history)
  newest       \* stamp of the last packet of a flow given to a memif (history)

vars == <<pool, nicRx, rxPkts, memifBuf, ctrlRing, txIdx, txPkts,
          ethBuf, device, lost, arrived, newest>>

Init ==
  /\ pool = Mbufs
  /\ nicRx = [c \in RxCores |-> <<>>]
  /\ rxPkts = [c \in RxCores |-> <<>>]
  /\ memifBuf = [c \in RxCores |-> [i \in Ports |-> <<>>]]
  /\ ctrlRing = <<>>
  /\ txIdx = [c \in TxCores |-> 0]
  /\ txPkts = [c \in TxCores |-> <<>>]
  /\ ethBuf = [c \in TxCores |-> <<>>]
  /\ device = {} /\ lost = {} /\ arrived = 0
  /\ newest = [f \in Flows |-> 0]

\* The first n of s, and the rest.
First(s, n) == SubSeq(s, 1, n)
Rest(s, n)  == SubSeq(s, n + 1, Len(s))
Burst(s)    == IF Len(s) < BurstSize THEN Len(s) ELSE BurstSize

\* The pool hands out any free mbuf; which one makes no difference.
Alloc(n) == First(SetToSeq(pool), n)

-----------------------------------------------------------------------------
(* RX cores                                                                *)

\* A packet arrives and is put into a free mbuf.
Arrive(f) ==
  /\ arrived < MaxPackets /\ pool # {}
  /\ LET m == Head(Alloc(1)) IN
       /\ pool' = pool \ {m}
       /\ nicRx' = [nicRx EXCEPT ![Rss[f]] =
                      Append(@, [mbuf |-> m, flow |-> f, stamp |-> arrived + 1])]
  /\ arrived' = arrived + 1
  /\ UNCHANGED <<rxPkts, memifBuf, ctrlRing, txIdx, txPkts, ethBuf, device, lost,
                 newest>>

\* A memif port in server role copies the packets it accepts and frees their
\* mbufs; the error callback of the tx buffer frees the others.
Flushed(accepted, all) ==
  /\ newest' = [f \in Flows |->
       LET sent == {p.stamp : p \in {q \in accepted : q.flow = f}} IN
       IF sent = {} THEN newest[f] ELSE Max(sent)]
  /\ pool' = pool \cup {p.mbuf : p \in all}

\* Flush the buffers of some ports of core c, each of which accepts a prefix.
FlushMemif(c, ports) ==
  /\ \E n \in [ports -> 0 .. MemifBufSize - 1] :
       /\ \A i \in ports : n[i] <= Len(memifBuf[c][i])
       /\ Flushed(UNION {Range(First(memifBuf[c][i], n[i])) : i \in ports},
                  UNION {Range(memifBuf[c][i]) : i \in ports})
  /\ memifBuf' = [memifBuf EXCEPT ![c] =
                    [i \in Ports |-> IF i \in ports THEN <<>> ELSE @[i]]]

\* Mutant: only the first port's buffer is drained.
RxDrainFirst(c) ==
  /\ rxPkts[c] = <<>>
  /\ FlushMemif(c, {0})
  /\ UNCHANGED <<nicRx, rxPkts, ctrlRing, txIdx, txPkts, ethBuf, device, lost,
                 arrived>>

\* The drain timer has expired at the top of the loop: all buffers are flushed.
RxDrain(c) ==
  /\ rxPkts[c] = <<>>
  /\ FlushMemif(c, Ports)
  /\ UNCHANGED <<nicRx, rxPkts, ctrlRing, txIdx, txPkts, ethBuf, device, lost,
                 arrived>>

RxBurst(c) ==
  /\ rxPkts[c] = <<>> /\ nicRx[c] # <<>>
  /\ LET n == Burst(nicRx[c]) IN
       /\ rxPkts' = [rxPkts EXCEPT ![c] = First(nicRx[c], n)]
       /\ nicRx' = [nicRx EXCEPT ![c] = Rest(@, n)]
  /\ UNCHANGED <<pool, memifBuf, ctrlRing, txIdx, txPkts, ethBuf,
                 device, lost, arrived, newest>>

\* Mutant: a full buffer is not flushed.
TxBufferMemifKeeps(c, i, p) ==
  /\ memifBuf' = [memifBuf EXCEPT ![c][i] = Append(@, p)]
  /\ UNCHANGED <<pool, newest>>

\* rte_eth_tx_buffer to memif port i of core c.
TxBufferMemif(c, i, p) ==
  LET buf == Append(memifBuf[c][i], p) IN
  IF Len(buf) < MemifBufSize
  THEN memifBuf' = [memifBuf EXCEPT ![c][i] = buf] /\ UNCHANGED <<pool, newest>>
  ELSE /\ \E n \in 0 .. Len(buf) : Flushed(Range(First(buf, n)), Range(buf))
       /\ memifBuf' = [memifBuf EXCEPT ![c][i] = <<>>]

\* Mutant: the port is chosen by the packet, not by the flow.
MemifOfPacket(p) == BitAnd(p.stamp, PerRx - 1)

\* The core's memif port for a packet.
MemifOf(p) == BitAnd(SrcHash[p.flow], PerRx - 1)

\* rte_ring_enqueue, whose result is ignored.
EnqueueCtrl(m) ==
  IF Len(ctrlRing) < CtrlRingCap
  THEN ctrlRing' = Append(ctrlRing, m) /\ UNCHANGED lost
  ELSE lost' = lost \cup {m} /\ UNCHANGED ctrlRing

\* Mutant: a UDP packet is queued for the control port as well.
ClassifyBoth(c) ==
  /\ rxPkts[c] # <<>>
  /\ LET p == Head(rxPkts[c]) IN
       /\ IF p.flow \in UdpFlows
          THEN TxBufferMemif(c, MemifOf(p), p)
          ELSE UNCHANGED <<pool, newest, memifBuf>>
       /\ EnqueueCtrl(p.mbuf)
  /\ rxPkts' = [rxPkts EXCEPT ![c] = Tail(@)]
  /\ UNCHANGED <<nicRx, txIdx, txPkts, ethBuf, device, arrived>>

\* memif_pre_classify_pkts
Classify(c) ==
  /\ rxPkts[c] # <<>>
  /\ LET p == Head(rxPkts[c]) IN
       IF p.flow \in UdpFlows
       THEN TxBufferMemif(c, MemifOf(p), p) /\ UNCHANGED <<ctrlRing, lost>>
       ELSE EnqueueCtrl(p.mbuf) /\ UNCHANGED <<pool, newest, memifBuf>>
  /\ rxPkts' = [rxPkts EXCEPT ![c] = Tail(@)]
  /\ UNCHANGED <<nicRx, txIdx, txPkts, ethBuf, device, arrived>>

-----------------------------------------------------------------------------
(* TX cores                                                                *)

\* The NIC accepts the first n of buf and keeps them until they are sent.
FlushEth(c, buf, n) ==
  /\ device' = device \cup Range(First(buf, n))
  /\ pool' = pool \cup Range(Rest(buf, n))
  /\ ethBuf' = [ethBuf EXCEPT ![c] = <<>>]

\* The drain timer has expired at the top of the loop.
TxDrain(c) ==
  /\ txIdx[c] = 0 /\ txPkts[c] = <<>>
  /\ \E n \in 0 .. Len(ethBuf[c]) : FlushEth(c, ethBuf[c], n)
  /\ UNCHANGED <<nicRx, rxPkts, memifBuf, ctrlRing, txIdx, txPkts,
                 lost, arrived, newest>>

\* rte_eth_rx_burst of up to BURST_SIZE packets from an application or from the
\* kernel into fresh mbufs; the loop goes to idx.
TxReceive(c, idx) ==
  /\ \E n \in 0 .. Burst(SetToSeq(pool)) :
       /\ txPkts' = [txPkts EXCEPT ![c] = Alloc(n)]
       /\ pool' = pool \ Range(Alloc(n))
  /\ txIdx' = [txIdx EXCEPT ![c] = idx]
  /\ UNCHANGED <<nicRx, rxPkts, memifBuf, ctrlRing, ethBuf, device,
                 lost, arrived, newest>>

\* Only core 0 goes on to the control port after its last memif port.
TxMemif(c) ==
  /\ txIdx[c] < PerTx /\ txPkts[c] = <<>>
  /\ TxReceive(c, IF txIdx[c] = PerTx - 1 /\ c # 0 THEN 0 ELSE txIdx[c] + 1)

TxBufferEth(c) ==
  /\ txPkts[c] # <<>>
  /\ LET buf == Append(ethBuf[c], Head(txPkts[c])) IN
       IF Len(buf) < EthBufSize
       THEN ethBuf' = [ethBuf EXCEPT ![c] = buf] /\ UNCHANGED <<pool, device>>
       ELSE \E n \in 0 .. Len(buf) : FlushEth(c, buf, n)
  /\ txPkts' = [txPkts EXCEPT ![c] = Tail(@)]
  /\ UNCHANGED <<nicRx, rxPkts, memifBuf, ctrlRing, txIdx, lost,
                 arrived, newest>>

\* A burst of the control ring goes to the control port; what it does not
\* accept is freed.
CtrlOut ==
  /\ txIdx[0] = PerTx /\ txPkts[0] = <<>>
  /\ LET k == Burst(ctrlRing) IN
       /\ \E n \in 0 .. k :
            /\ device' = device \cup Range(First(ctrlRing, n))
            /\ pool' = pool \cup Range(Rest(First(ctrlRing, k), n))
       /\ ctrlRing' = Rest(ctrlRing, k)
  /\ txIdx' = [txIdx EXCEPT ![0] = PerTx + 1]
  /\ UNCHANGED <<nicRx, rxPkts, memifBuf, txPkts, ethBuf, lost, arrived,
                 newest>>

\* A burst of the control port goes to NIC queue 0.
CtrlIn ==
  /\ txIdx[0] = PerTx + 1 /\ txPkts[0] = <<>>
  /\ TxReceive(0, 0)

\* The NIC or the kernel has sent the packet of m.
Sent(m) ==
  /\ m \in device
  /\ device' = device \ {m} /\ pool' = pool \cup {m}
  /\ UNCHANGED <<nicRx, rxPkts, memifBuf, ctrlRing, txIdx, txPkts,
                 ethBuf, lost, arrived, newest>>

-----------------------------------------------------------------------------
Rx(c) == RxBurst(c) \/ Classify(c)
Tx(c) == TxMemif(c) \/ TxBufferEth(c) \/ (c = 0 /\ (CtrlOut \/ CtrlIn))

Next ==
  \/ \E f \in Flows : Arrive(f)
  \/ \E c \in RxCores : Rx(c) \/ RxDrain(c)
  \/ \E c \in TxCores : Tx(c) \/ TxDrain(c)
  \/ \E m \in Mbufs : Sent(m)

\* Cores run, devices send, and time passes, so that a core that comes back to
\* the top of its loop again and again finds the drain timer expired.
Spec ==
  /\ Init /\ [][Next]_vars
  /\ \A c \in RxCores : WF_vars(Rx(c)) /\ SF_vars(RxDrain(c))
  /\ \A c \in TxCores : WF_vars(Tx(c)) /\ SF_vars(TxDrain(c))
  /\ \A m \in Mbufs : WF_vars(Sent(m))

-----------------------------------------------------------------------------
(* Properties                                                              *)

Packets == [mbuf : Mbufs, flow : Flows, stamp : 1 .. MaxPackets]

\* The packets an rx core has.
RxHeld(c) == Range(nicRx[c]) \cup Range(rxPkts[c])
               \cup UNION {Range(memifBuf[c][i]) : i \in Ports}

TypeOK ==
  /\ pool \subseteq Mbufs /\ device \subseteq Mbufs /\ lost \subseteq Mbufs
  /\ \A c \in RxCores :
       /\ RxHeld(c) \subseteq Packets
       /\ Len(rxPkts[c]) <= BurstSize
       /\ \A i \in Ports : Len(memifBuf[c][i]) < MemifBufSize
  /\ Range(ctrlRing) \subseteq Mbufs /\ Len(ctrlRing) <= CtrlRingCap
  /\ \A c \in TxCores :
       /\ Range(txPkts[c]) \cup Range(ethBuf[c]) \subseteq Mbufs
       /\ txIdx[c] \in 0 .. (IF c = 0 THEN PerTx + 1 ELSE PerTx - 1)
       /\ Len(txPkts[c]) <= BurstSize /\ Len(ethBuf[c]) < EthBufSize

\* Who can hold an mbuf, by the variable, core and port: a queue, or a set.
Queues == ({"nicRx", "rxPkts"} \X RxCores \X {0}) \cup ({"memifBuf"} \X RxCores \X Ports)
            \cup ({"txPkts", "ethBuf"} \X TxCores \X {0}) \cup {<<"ctrlRing", 0, 0>>}
Holders == Queues \cup ({"pool", "device", "lost"} \X {0} \X {0})

\* The mbufs of a sequence of packets, of a queue and of a holder.
MbufSeq(s) == [n \in DOMAIN s |-> s[n].mbuf]

Queue(h) ==
  CASE h[1] = "nicRx"    -> MbufSeq(nicRx[h[2]])
    [] h[1] = "rxPkts"   -> MbufSeq(rxPkts[h[2]])
    [] h[1] = "memifBuf" -> MbufSeq(memifBuf[h[2]][h[3]])
    [] h[1] = "txPkts"   -> txPkts[h[2]]
    [] h[1] = "ethBuf"   -> ethBuf[h[2]]
    [] h[1] = "ctrlRing" -> ctrlRing

Contents(h) ==
  CASE h[1] = "pool"   -> pool
    [] h[1] = "device" -> device
    [] h[1] = "lost"   -> lost
    [] OTHER           -> Range(Queue(h))

\* Each mbuf has one holder, so none is freed twice or sent while another core
\* works on it, and none leaks except where a full control ring refused it.
Accounted ==
  /\ \A h \in Queues : IsInjective(Queue(h))
  /\ \A m \in Mbufs : \E h \in Holders : {k \in Holders : m \in Contents(k)} = {h}

\* The packets of a flow reach its application in the order of their arrival,
\* although they wait in buffers that are flushed at different times.
FlowOrder ==
  \A c \in RxCores : \A p \in RxHeld(c) : p.stamp > newest[p.flow]

\* Every mbuf in use is free again some time, also at low traffic and with the
\* control ring served by one core, unless it was lost.
Returns == \A m \in Mbufs : m \notin pool ~> (m \in pool \/ m \in lost)
=============================================================================
