SPECIFICATION Spec
CHECK_DEADLOCK FALSE
CONSTANT Configs <- TwoPairs
INVARIANT DescriptorsInPlace
