-------------------------- MODULE RemoteK8sProofs ---------------------------
(* Proofs about RemoteK8s, for any number of nodes, any choice of agents, any *)
(* failed steps and any flapping of the nodes and the api server.            *)
EXTENDS RemoteK8s, TLAPS

Role(m) == IF m \in Agents THEN "agent" ELSE "server"

\* The steps at which a command has written its config, run install.sh,
\* started its service and linked its kubeconfig.
Started == {"profile", "symlink", "wait", "cleanup", "ok"}
Installed == {"service"} \cup Started
Configured == {"install"} \cup Installed
Linked == {"wait", "cleanup", "ok"}

\* What the command has done so far.  The properties speak of commands that
\* have returned; what they promise is put in place one step at a time.
Progress ==
  \A m \in Nodes :
    /\ step[m] \in Configured => upstream[m] = ServerLine(m)
    /\ step[m] \in Installed => installed[m] = Role(m)
    /\ step[m] \in Started => cluster[m] = PrimeNode
    /\ step[m] \in Linked /\ m \notin Agents => kubeconfig[m]
    /\ cluster[m] # None => installed[m] = Role(m)
    /\ step[m] # "ok" => artifacts[m]

\* install.sh is run once, before the service is started.
NotYetIn ==
  \A m \in Nodes :
    step[m] \in {"idle", "sysctl", "config", "install"} => cluster[m] = None

K8sInv == TypeOK /\ OneCluster /\ NotYetIn /\ Progress

\* Nothing is done in the beginning.
LEMMA InitK8sInv == Init => K8sInv
<1> SUFFICES ASSUME Init PROVE K8sInv
  OBVIOUS
<1>1. TypeOK
  BY NodesAssumption DEF Init, TypeOK, Steps, Returned
<1>2. OneCluster /\ NotYetIn
  BY DEF Init, OneCluster, NotYetIn
<1>3. Progress
  BY DEF Init, Progress, Configured, Installed, Started, Linked
<1> QED
  BY <1>1, <1>2, <1>3 DEF K8sInv

\* A node that starts its service joins the prime node's cluster.
LEMMA JoinsPrime ==
  ASSUME K8sInv, NEW m \in Nodes, step[m] = "service", JoinedCluster(m) # None
  PROVE  JoinedCluster(m) = PrimeNode
<1>1. upstream[m] = ServerLine(m)
  BY DEF K8sInv, Progress, Configured, Installed
<1>2. CASE m = PrimeNode
  BY <1>1, <1>2 DEF ServerLine, JoinedCluster
<1>3. CASE m # PrimeNode
  BY <1>1, <1>3, NodesAssumption DEF ServerLine, JoinedCluster, K8sInv, OneCluster
<1> QED
  BY <1>2, <1>3

\* A step of a node's command keeps the invariant.
LEMMA CommandStep ==
  ASSUME K8sInv, NEW m \in Nodes, K8s(m) \/ StepError(m) \/ LateError(m)
  PROVE  K8sInv'
<1> USE NodesAssumption DEF K8sInv
<1> USE DEF Goto, Skip
<1>1. CASE Begin(m)
  <2>1. TypeOK' /\ OneCluster'
    BY <1>1 DEF Begin, TypeOK, OneCluster, Steps, Returned
  <2>2. NotYetIn'
    BY <1>1 DEF Begin, TypeOK, NotYetIn
  <2>3. Progress'
    BY <1>1 DEF Begin, TypeOK, Progress, Configured, Installed, Started, Linked
  <2> QED
    BY <2>1, <2>2, <2>3
<1>2. CASE StepError(m)
  <2>1. TypeOK' /\ OneCluster'
    BY <1>2 DEF StepError, TypeOK, OneCluster, Steps, Returned
  <2>2. NotYetIn'
    BY <1>2 DEF StepError, TypeOK, NotYetIn
  <2>3. Progress'
    BY <1>2 DEF StepError, TypeOK, Progress, Configured, Installed, Started, Linked
  <2> QED
    BY <2>1, <2>2, <2>3
<1>3. CASE Sysctl(m) \/ Profile(m) \/ PollReady(m)
  <2>1. TypeOK' /\ OneCluster'
    BY <1>3 DEF Sysctl, Profile, PollReady, TypeOK, OneCluster,
                Steps, Returned
  <2>2. NotYetIn'
    BY <1>3 DEF Sysctl, Profile, PollReady, TypeOK, NotYetIn
  <2>3. Progress'
    BY <1>3 DEF Sysctl, Profile, PollReady, TypeOK, Progress,
                Configured, Installed, Started, Linked
  <2> QED
    BY <2>1, <2>2, <2>3
<1>4. CASE WriteConfig(m)
  <2>1. TypeOK' /\ OneCluster'
    BY <1>4 DEF WriteConfig, ServerLine, TypeOK, OneCluster, Steps, Returned
  <2>2. NotYetIn'
    BY <1>4 DEF WriteConfig, TypeOK, NotYetIn
  <2>3. Progress'
    BY <1>4 DEF WriteConfig, TypeOK, Progress, Configured, Installed, Started,
                Linked
  <2> QED
    BY <2>1, <2>2, <2>3
<1>5. CASE InstallSh(m)
  <2>1. TypeOK' /\ OneCluster'
    BY <1>5 DEF InstallSh, TypeOK, OneCluster, Steps, Returned
  <2>2. NotYetIn'
    BY <1>5 DEF InstallSh, TypeOK, NotYetIn
  <2>3. Progress'
    BY <1>5 DEF InstallSh, Role, TypeOK, Progress, Configured, Installed, Started,
                Linked
  <2> QED
    BY <2>1, <2>2, <2>3
<1>6. CASE StartService(m)
  <2>0. JoinedCluster(m) = PrimeNode
    BY <1>6, JoinsPrime DEF StartService, UpstreamAnswers, JoinedCluster
  <2>1. TypeOK' /\ OneCluster'
    BY <1>6, <2>0 DEF StartService, TypeOK, OneCluster, Steps, Returned
  <2>2. NotYetIn'
    BY <1>6 DEF StartService, TypeOK, NotYetIn
  <2>3. Progress'
    BY <1>6, <2>0 DEF StartService, TypeOK, Progress, Configured, Installed,
                      Started, Linked
  <2> QED
    BY <2>1, <2>2, <2>3
<1>7. CASE Symlink(m)
  <2>1. TypeOK' /\ OneCluster'
    BY <1>7 DEF Symlink, TypeOK, OneCluster, Steps, Returned
  <2>2. NotYetIn'
    BY <1>7 DEF Symlink, TypeOK, NotYetIn
  <2>3. Progress'
    BY <1>7 DEF Symlink, TypeOK, Progress, Configured, Installed, Started, Linked
  <2> QED
    BY <2>1, <2>2, <2>3
<1>8. CASE Cleanup(m)
  <2>1. TypeOK' /\ OneCluster'
    BY <1>8 DEF Cleanup, TypeOK, OneCluster, Steps, Returned
  <2>2. NotYetIn'
    BY <1>8 DEF Cleanup, TypeOK, NotYetIn
  <2>3. Progress'
    BY <1>8 DEF Cleanup, TypeOK, Progress, Configured, Installed, Started, Linked
  <2> QED
    BY <2>1, <2>2, <2>3
<1>9. CASE LateError(m)
  <2>0. step[m] = "service" => JoinedCluster(m) \in {None, PrimeNode}
    BY JoinsPrime
  <2>1. TypeOK' /\ OneCluster'
    <3>1. CASE step[m] = "service"
      <4>1. /\ step' = [step EXCEPT ![m] = "failed"]
            /\ cluster' = [cluster EXCEPT ![m] = JoinedCluster(m)]
            /\ UNCHANGED <<kubeconfig, upstream, installed, artifacts, ready, api>>
        BY <1>9, <3>1 DEF LateError
      <4> QED
        BY <2>0, <3>1, <4>1 DEF TypeOK, OneCluster, Steps, Returned
    <3>2. CASE step[m] = "symlink"
      <4>1. /\ step' = [step EXCEPT ![m] = "failed"]
            /\ kubeconfig' = [kubeconfig EXCEPT ![m] = TRUE]
            /\ UNCHANGED <<cluster, upstream, installed, artifacts, ready, api>>
        BY <1>9, <3>2 DEF LateError
      <4> QED
        BY <4>1 DEF TypeOK, OneCluster, Steps, Returned
    <3> QED
      BY <1>9, <3>1, <3>2 DEF LateError
  <2>2. NotYetIn'
    BY <1>9 DEF LateError, TypeOK, NotYetIn
  <2>3. Progress'
    BY <1>9 DEF LateError, TypeOK, Progress, Configured, Installed, Started, Linked
  <2> QED
    BY <2>1, <2>2, <2>3
<1> QED
  BY <1>1, <1>2, <1>3, <1>4, <1>5, <1>6, <1>7, <1>8, <1>9 DEF K8s

\* The environment changes only what the invariant does not depend on.
LEMMA EnvironmentStep ==
  ASSUME K8sInv,
         (\E m \in Nodes : NodeReady(m) \/ NodeNotReady(m)) \/ ApiServer
  PROVE  K8sInv'
<1>1. /\ step' = step /\ upstream' = upstream /\ installed' = installed
      /\ artifacts' = artifacts /\ kubeconfig' = kubeconfig
      /\ cluster' = cluster
  BY DEF NodeReady, NodeNotReady, ApiServer
<1>2. ready' \in [Nodes -> BOOLEAN] /\ api' \in BOOLEAN
  BY DEF NodeReady, NodeNotReady, ApiServer, K8sInv, TypeOK
<1>3. TypeOK'
  BY <1>1, <1>2 DEF K8sInv, TypeOK
<1>4. OneCluster' /\ NotYetIn' /\ Progress'
  BY <1>1 DEF K8sInv, OneCluster, NotYetIn, Progress, ServerLine, Role
<1> QED
  BY <1>3, <1>4 DEF K8sInv

\* Every step keeps the invariant.
LEMMA NextK8sInv == K8sInv /\ [Next]_vars => K8sInv'
<1> SUFFICES ASSUME K8sInv, [Next]_vars PROVE K8sInv'
  OBVIOUS
<1>1. CASE UNCHANGED vars
  BY <1>1 DEF vars, K8sInv, TypeOK, OneCluster, NotYetIn, Progress, ServerLine,
              Role
<1> QED
  BY <1>1, CommandStep, EnvironmentStep DEF Next

\* The invariant implies what the runs check.
LEMMA K8sInvImplies == K8sInv => TypeOK /\ OneCluster /\ ReturnMeans
BY DEF K8sInv, ReturnMeans, Progress, Role, Started, Linked

\* Every reachable state is well typed, for any set of nodes and any roles.
THEOREM TypeCorrect == Spec => []TypeOK
<1>1. K8sInv => TypeOK
  BY DEF K8sInv
<1> QED
  BY <1>1, InitK8sInv, NextK8sInv, PTL DEF Spec

\* However many nodes run "remote k8s", whatever fails and in whatever order
\* they get on, they never form a second cluster.
THEOREM NeverTwoClusters == Spec => []OneCluster
BY InitK8sInv, NextK8sInv, K8sInvImplies, PTL DEF Spec

\* For any nodes and roles, and although the clean-up may fail unnoticed: a
\* member of the cluster runs the role it was given, nil means membership and,
\* on a server, a kubeconfig, and an error leaves the artifacts.
THEOREM ReturnIsMembership == Spec => []ReturnMeans
BY InitK8sInv, NextK8sInv, K8sInvImplies, PTL DEF Spec
=============================================================================
