SPECIFICATION Spec
CONSTANTS
  WriterIsServer = TRUE
  RingSize = 4
  IndexMod = 8
  LenMod = 8
  BufSize = 2
  ReadCap = 6
  EventDriven = TRUE
  Byte <- Bytes
  Packets <- Mixed
INVARIANT IndexInv
INVARIANT Exclusive
INVARIANT NoIncompleteChain
PROPERTY ChannelSpec
PROPERTY NoWedge
INVARIANT OfferedSlotsFull
