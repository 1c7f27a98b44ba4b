SPECIFICATION DuplexSpec
CONSTANTS
  WriterIsServer = TRUE
  RingSize = 2
  IndexMod = 4
  LenMod = 8
  BufSize = 2
  ReadCap = 8
  EventDriven = FALSE
  Byte <- Bytes
  Packets <- OneBuffer
INVARIANT Intact
