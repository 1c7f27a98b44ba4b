SPECIFICATION Spec
CONSTANTS
  WriterIsServer = FALSE
  RingSize = 4
  IndexMod = 8
  LenMod = 8
  BufSize = 2
  ReadCap = 6
  EventDriven = TRUE
  Byte <- Bytes
  Packets <- Mixed
INVARIANT TypeOK
INVARIANT IndexInv
INVARIANT Exclusive
INVARIANT NoIncompleteChain
PROPERTY ChannelSpec
PROPERTY NoWedge
