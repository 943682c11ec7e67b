SPECIFICATION FairSpec
CONSTANTS
  Nodes = {n1, n2, n3}
  PrimeNode = n1
  Agents = {n3}
  None = None
  Faults = {"step", "flap", "api"}
INVARIANTS TypeOK OneCluster ReturnMeans
PROPERTIES ReturnsWhenStable
CHECK_DEADLOCK FALSE
