SPECIFICATION Spec
CHECK_DEADLOCK FALSE
CONSTANTS
  w1 = w1
  w2 = w2
  Senders <- TwoWorkers
  Receivers <- None
  MaxStarts = 2
  SeparateReader = TRUE
INVARIANT WaitsForWorkers
