---------------------------- MODULE MCUnitDeploy ----------------------------
(* UnitDeploy on instances like the stacks of the repository.                *)
EXTENDS UnitDeploy

Node(name, count) == [name |-> name, count |-> count]

\* The agent comes first, so that its files are shipped before a prime node
\* is known, and a second control plane node joins.
AgentFirst == <<Node("agent", 1), Node("default", 2)>>

Single == <<Node("default", 1)>>

NoHelmfiles == << >>
KubeVipThenRancher == <<"kube-vip", "rancher">>
\* Pulumi.nexus.yaml, where the chart's service needs the hack.
KubeVipNexusCanary == <<"kube-vip", "nexus", "canary">>
=============================================================================
