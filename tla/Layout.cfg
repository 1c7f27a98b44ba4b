SPECIFICATION Spec
CHECK_DEADLOCK FALSE
CONSTANT Configs <- AllRings
INVARIANT FirstPairInPlace
INVARIANT HeadersIntact
INVARIANT BuffersBehindRings
