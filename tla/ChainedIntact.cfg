SPECIFICATION Spec
CONSTANTS
  WriterIsServer = FALSE
  RingSize = 2
  IndexMod = 4
  LenMod = 8
  BufSize = 2
  ReadCap = 8
  EventDriven = FALSE
  Byte <- Bytes
  Packets <- TwoBuffers
INVARIANT Intact
