SPECIFICATION FairSpec
CONSTANTS
  Config <- Single
  Shipped = {"rke2"}
  IsK8s = TRUE
  Online = TRUE
  UseHelmfiles = TRUE
  Helmfiles <- KubeVipNexusCanary
  Faults = {"resource"}
PROPERTIES CommandsEnd
CHECK_DEADLOCK FALSE
