SPECIFICATION Spec
CHECK_DEADLOCK FALSE
CONSTANTS
  c1 = c1
  c2 = c2
  Clients = {c1, c2}
  Server = Server
  NoSecret = NoSecret
  MaxConns = 2
  MaxRing = 255
  DefaultCallback = FALSE
  Id <- OneId
  Secret <- NoSecrets
  Pairs <- MixedPairs
  Results <- OkOrError
  Quitters <- All
  Mortal <- All
INVARIANT TypeOK
INVARIANT PortExclusive
INVARIANT LockStep
INVARIANT QueuesMatch
INVARIANT ConnectedUsable
INVARIANT ServerFirst
INVARIANT CloseFrees
PROPERTY Settles
