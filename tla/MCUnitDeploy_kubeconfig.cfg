SPECIFICATION Spec
CONSTANTS
  Config <- Single
  Shipped = {"rke2"}
  IsK8s = TRUE
  Online = TRUE
  UseHelmfiles = TRUE
  Helmfiles <- KubeVipThenRancher
  Faults = {}
INVARIANTS HelmfileHasKubeconfig
CHECK_DEADLOCK FALSE
