SPECIFICATION Spec
CONSTANTS
  Units <- MCUnits
  Commands = {"up", "preview", "destroy"}
  Faults <- AllFaults
  MaxRuns = 3
INVARIANTS TypeOK NoOrphans UpMeansUsable
CHECK_DEADLOCK FALSE
