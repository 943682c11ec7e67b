SPECIFICATION Spec
CONSTANTS
  Config <- AgentFirst
  Shipped = {"rke2"}
  IsK8s = TRUE
  Online = FALSE
  UseHelmfiles = FALSE
  Helmfiles <- NoHelmfiles
  Faults = {}
INVARIANTS
  TypeOK K8sAfterInputs SshConfigAfterVMs JoinAfterPrime OneCommandPerNode
CHECK_DEADLOCK FALSE
