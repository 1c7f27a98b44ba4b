SPECIFICATION Spec
CHECK_DEADLOCK FALSE
CONSTANTS
  c1 = c1
  c2 = c2
  Clients = {c1, c2}
  Server = Server
  NoSecret = NoSecret
  MaxConns = 1
  MaxRing = 255
  DefaultCallback = TRUE
  Id <- OneId
  Secret <- NoSecrets
  Pairs <- OnePair
  Results <- Ok
  Quitters <- None
  Mortal <- JustC1
INVARIANT SurvivesHup
