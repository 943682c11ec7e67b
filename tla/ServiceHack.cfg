SPECIFICATION FairSpec
CONSTANTS
  Writers = {w1, w2, w3}
  MaxCreates = 2
  Faults = {"config", "client", "api", "delete"}
INVARIANTS TypeOK NoLostWrites DoneMeansSet
PROPERTY ReturnsWhenStable
CHECK_DEADLOCK FALSE
