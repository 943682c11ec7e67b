SPECIFICATION FairSpec
CONSTANTS
  Config <- Single
  Shipped = {"rke2", "images"}
  IsK8s = TRUE
  Online = TRUE
  UseHelmfiles = TRUE
  Helmfiles <- KubeVipNexusCanary
  Faults = {"artifact", "resource"}
INVARIANTS K8sAfterInputs HelmfilesInOrder
PROPERTIES RegisteredOnce UpUnlessFailure
CHECK_DEADLOCK FALSE
