SPECIFICATION Spec
CONSTANTS
  m1 = m1
  m2 = m2
  m3 = m3
  u1 = u1
  u2 = u2
  arp = arp
  Mbufs <- ThreeMbufs
  NumMemif = 2
  NumRxCore = 1
  NumTxCore = 2
  BurstSize = 1
  CtrlRingSize = 2
  UdpFlows <- Udp
  OtherFlows <- Other
  Rss <- OneQueue
  SrcHash <- Hashes
  BitAnd <- And2
  MaxPackets = 3
INVARIANT TypeOK
INVARIANT Accounted
INVARIANT FlowOrder
PROPERTY Returns
