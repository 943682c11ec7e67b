----------------------------- MODULE RemoteK8s ------------------------------
(***************************************************************************)
(* pkg/cmd/remote: "remote k8s", run on every node of a unit, turns it into *)
(* a node of one rke2 cluster.  The prime node is told --prime and founds   *)
(* the cluster; the others are told --upstream <prime>, agents --worker as  *)
(* well.  pkg/providers/libvirt starts the prime node's command first and   *)
(* the others, all at once, when it has succeeded.                          *)
(*                                                                          *)
(* One action per file written or command run: each may fail, and the       *)
(* command then returns.  External: rke2 (what starting its service does),  *)
(* the kubelet's Ready condition and the api server, which come and go.     *)
(***************************************************************************)
EXTENDS Naturals

CONSTANTS
  Nodes,
  PrimeNode,  \* runs "remote k8s --prime --vip ..."
  Agents,     \* run "remote k8s --worker --upstream prime"
  None,       \* no node
  Faults      \* subset of {"step", "flap", "api"}

ASSUME NodesAssumption ==
  /\ PrimeNode \in Nodes
  /\ Agents \subseteq Nodes \ {PrimeNode}
  /\ None \notin Nodes
  /\ Faults \subseteq {"step", "flap", "api"}

VARIABLES
  step,       \* step[n]: the next step of n's command
  upstream,   \* upstream[n]: the "server:" line of n's config.yaml
  installed,  \* installed[n]: what install.sh set up
  artifacts,  \* artifacts[n]: /tmp/rke2 is there, or some of it
  kubeconfig, \* kubeconfig[n]: the link /root/.kube/config is there
  cluster,    \* cluster[n]: the node that founded the cluster n is in, or None
  ready,      \* ready[n]: n's Ready condition
  api         \* the api server answers

vars == <<step, upstream, installed, artifacts, kubeconfig, cluster, ready, api>>

Returned == {"ok", "failed"}
Steps == {"idle", "sysctl", "config", "install", "service", "profile",
          "symlink", "wait", "cleanup"} \cup Returned

TypeOK ==
  /\ step \in [Nodes -> Steps]
  /\ upstream \in [Nodes -> Nodes \cup {None}]
  /\ installed \in [Nodes -> {"nothing", "server", "agent"}]
  /\ artifacts \in [Nodes -> BOOLEAN]
  /\ kubeconfig \in [Nodes -> BOOLEAN]
  /\ cluster \in [Nodes -> Nodes \cup {None}]
  /\ ready \in [Nodes -> BOOLEAN]
  /\ api \in BOOLEAN

\* The inputs are in place: UnitDeploy shows that they are before any node's
\* command starts.
Init ==
  /\ step = [m \in Nodes |-> "idle"]
  /\ upstream = [m \in Nodes |-> None]
  /\ installed = [m \in Nodes |-> "nothing"]
  /\ artifacts = [m \in Nodes |-> TRUE]
  /\ kubeconfig = [m \in Nodes |-> FALSE]
  /\ cluster = [m \in Nodes |-> None]
  /\ ready = [m \in Nodes |-> FALSE]
  /\ api = TRUE

-----------------------------------------------------------------------------
(* The command.                                                             *)

Goto(m, from, to) == step[m] = from /\ step' = [step EXCEPT ![m] = to]

\* A step that leaves no trace the model keeps.
Skip(m, from, to) ==
  /\ Goto(m, from, to)
  /\ UNCHANGED <<upstream, installed, artifacts, kubeconfig, cluster, ready, api>>

\* Mutant: all nodes start at once.
MayBeginAtOnce(m) == TRUE

\* The order in which libvirt.Unit lets the engine run the commands: what
\* JoinAfterPrime of UnitDeploy says, and UnitDeployProofs proves, of the lists
\* that Unit hands to DependsOn.
MayBegin(m) == m = PrimeNode \/ step[PrimeNode] = "ok"

Begin(m) == MayBegin(m) /\ Skip(m, "idle", "sysctl")

Sysctl(m) == Skip(m, "sysctl", "config")

\* Mutant: a control plane node gets no server line.
ServerLineOfAgents(m) == IF m \in Agents THEN PrimeNode ELSE None

\* Mutant: the empty default of --upstream is written for the prime node.
ServerLineAlways(m) == IF m = PrimeNode THEN "" ELSE PrimeNode

\* "Everyone but the prime node goes to the prime node for setup".
ServerLine(m) == IF m = PrimeNode THEN None ELSE PrimeNode

WriteConfig(m) ==
  /\ Goto(m, "config", "install")
  /\ upstream' = [upstream EXCEPT ![m] = ServerLine(m)]
  /\ UNCHANGED <<installed, artifacts, kubeconfig, cluster, ready, api>>

\* Mutant: INSTALL_RKE2_TYPE is not passed on.
InstallShServer(m) ==
  /\ artifacts[m]
  /\ Goto(m, "install", "service")
  /\ installed' = [installed EXCEPT ![m] = "server"]
  /\ UNCHANGED <<upstream, artifacts, kubeconfig, cluster, ready, api>>

InstallSh(m) ==
  /\ artifacts[m]
  /\ Goto(m, "install", "service")
  /\ installed' = [installed EXCEPT ![m] = IF m \in Agents THEN "agent" ELSE "server"]
  /\ UNCHANGED <<upstream, artifacts, kubeconfig, cluster, ready, api>>

\* systemctl enable --now: a server without a server line founds a cluster;
\* everyone else joins the cluster of its upstream.
JoinedCluster(m) ==
  IF upstream[m] = None THEN m ELSE cluster[upstream[m]]

\* A service that is to join waits for its upstream to answer, and systemctl,
\* which is run without a timeout, waits for the service.
UpstreamAnswers(m) == upstream[m] = None \/ (api /\ JoinedCluster(m) # None)

StartService(m) ==
  /\ UpstreamAnswers(m)
  /\ Goto(m, "service", IF m \in Agents THEN "cleanup" ELSE "profile")
  /\ cluster' = [cluster EXCEPT ![m] = JoinedCluster(m)]
  /\ UNCHANGED <<upstream, installed, artifacts, kubeconfig, ready, api>>

Profile(m) == Skip(m, "profile", "symlink")

\* Then the client is built from the kubeconfig and the wait starts.
Symlink(m) ==
  /\ ~kubeconfig[m]
  /\ Goto(m, "symlink", "wait")
  /\ kubeconfig' = [kubeconfig EXCEPT ![m] = TRUE]
  /\ UNCHANGED <<upstream, installed, artifacts, cluster, ready, api>>

\* Mutant: the loop waits for every node, those that wait for this one too.
PollAllReady(m) ==
  /\ api
  /\ \A k \in Nodes : ready[k]
  /\ Skip(m, "wait", "cleanup")

\* One turn of the loop in which the list arrives and has this node Ready.
\* The other turns change nothing but the counters that are printed.
PollReady(m) == api /\ ready[m] /\ Skip(m, "wait", "cleanup")

\* Any step but the last two may fail, and the command returns the error.
StepError(m) ==
  /\ "step" \in Faults
  /\ step[m] \in {"sysctl", "config", "install", "service", "profile", "symlink"}
  /\ step' = [step EXCEPT ![m] = "failed"]
  /\ UNCHANGED <<upstream, installed, artifacts, kubeconfig, cluster, ready, api>>

\* The step had its effect all the same: systemctl gave up on a service that
\* joined, or the client could not be made from the kubeconfig just linked.
LateError(m) ==
  /\ "step" \in Faults
  /\ \/ /\ UpstreamAnswers(m)
        /\ Goto(m, "service", "failed")
        /\ cluster' = [cluster EXCEPT ![m] = JoinedCluster(m)]
        /\ UNCHANGED kubeconfig
     \/ /\ Goto(m, "symlink", "failed")
        /\ kubeconfig' = [kubeconfig EXCEPT ![m] = TRUE]
        /\ UNCHANGED cluster
  /\ UNCHANGED <<upstream, installed, artifacts, ready, api>>

\* os.RemoveAll("/tmp/rke2"), whose error is not looked at: the command
\* returns nil also when some of the artifacts are left.
Cleanup(m) ==
  /\ Goto(m, "cleanup", "ok")
  /\ \E left \in BOOLEAN :
       /\ left => "step" \in Faults
       /\ artifacts' = [artifacts EXCEPT ![m] = left]
  /\ UNCHANGED <<upstream, installed, kubeconfig, cluster, ready, api>>

K8s(m) ==
  \/ Begin(m) \/ Sysctl(m) \/ WriteConfig(m) \/ InstallSh(m)
  \/ StartService(m) \/ Profile(m) \/ Symlink(m) \/ PollReady(m) \/ Cleanup(m)

-----------------------------------------------------------------------------
(* The environment (external).                                              *)

NodeReady(m) ==
  /\ cluster[m] # None /\ ~ready[m]
  /\ ready' = [ready EXCEPT ![m] = TRUE]
  /\ UNCHANGED <<step, upstream, installed, artifacts, kubeconfig, cluster, api>>

NodeNotReady(m) ==
  /\ "flap" \in Faults
  /\ ready[m]
  /\ ready' = [ready EXCEPT ![m] = FALSE]
  /\ UNCHANGED <<step, upstream, installed, artifacts, kubeconfig, cluster, api>>

ApiServer ==
  /\ "api" \in Faults
  /\ api' = ~api
  /\ UNCHANGED <<step, upstream, installed, artifacts, kubeconfig, cluster, ready>>

Next ==
  \/ \E m \in Nodes : \/ K8s(m) \/ StepError(m) \/ LateError(m)
                     \/ NodeReady(m) \/ NodeNotReady(m)
  \/ ApiServer

Spec == Init /\ [][Next]_vars

\* A command runs on while it can; a node of the cluster becomes Ready unless
\* it has been already.  The api server and the kubelets may still flap.
FairSpec ==
  /\ Spec
  /\ \A m \in Nodes : WF_vars(K8s(m)) /\ WF_vars(NodeReady(m))

-----------------------------------------------------------------------------
(* Properties.                                                              *)

\* The nodes form one cluster, the prime node's: no order of starts and no
\* failed step makes a second node found one of its own.
OneCluster == \A m \in Nodes : cluster[m] \in {None, PrimeNode}

\* What a node is in for: whoever is in the cluster, also by a command that
\* failed late, runs the role it was given; a command that returned nil has
\* made its node a member, and a server's has its kubeconfig; a command that
\* failed leaves the install artifacts in place for another try.
ReturnMeans ==
  \A m \in Nodes :
    /\ cluster[m] # None => installed[m] = IF m \in Agents THEN "agent" ELSE "server"
    /\ step[m] = "ok" => cluster[m] = PrimeNode /\ (m \in Agents \/ kubeconfig[m])
    /\ step[m] = "failed" => artifacts[m]

\* The command has no timeout, systemctl and the wait for Ready have none
\* either, and each node waits for the prime node's.  Still, a command that
\* has begun returns once the api server answers and, on a server, the Ready
\* condition of a node that joined stops flapping: no command is started that
\* waits for an upstream which was never set up.
ReturnsWhenStable ==
  \A m \in Nodes :
    /\ <>[]api
    /\ m \in Agents \/ <>[](cluster[m] # None => ready[m])
    => (step[m] = "sysctl" ~> step[m] \in Returned)
=============================================================================
