SPECIFICATION Spec
CONSTANT Shapes <- MCSevenMachines
INVARIANT EveryoneDependsOnPrime
CHECK_DEADLOCK FALSE
