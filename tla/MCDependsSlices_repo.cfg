SPECIFICATION Spec
CONSTANT Shapes <- MCShapes
INVARIANT EveryoneDependsOnPrime NoOverwrite
PROPERTY SlicesAreLists
CHECK_DEADLOCK FALSE
