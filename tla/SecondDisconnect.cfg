SPECIFICATION Spec
CHECK_DEADLOCK FALSE
CONSTANTS
  c1 = c1
  c2 = c2
  Clients = {c1, c2}
  Server = Server
  NoSecret = NoSecret
  MaxConns = 2
  MaxRing = 255
  DefaultCallback = TRUE
  Id <- OneId
  Secret <- NoSecrets
  Pairs <- OnePair
  Results <- Ok
  Quitters <- JustC1
  Mortal <- None
INVARIANT CallbackRepeats
