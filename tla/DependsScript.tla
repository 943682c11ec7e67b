---------------------------- MODULE DependsScript ----------------------------
(***************************************************************************)
(* What libvirt.Unit does with its lists of resources, in the order it does *)
(* it: the appends, the one assignment, and the calls of pulumi.DependsOn.  *)
(* LineAt gives for every position in Unit the step that is taken there and *)
(* the position after it; DependsLists says what a step means where a list  *)
(* is a value, DependsSlices where it is a Go slice.                        *)
(***************************************************************************)
EXTENDS Naturals, Sequences

\* A unit, as far as its lists tell: the number of inputs with a Remote.Dest,
\* the machines of the configs "default" and "agent", in this order.
Shape == [shipped : Nat, defaults : Nat \ {0}, agents : Nat, k8s : BOOLEAN,
          online : BOOLEAN, helmfiles : Seq(STRING)]

CONSTANT Shapes   \* the units of the instance

ASSUME ShapesAssumption == Shapes \subseteq Shape

MachinesOf(sh) == sh.defaults + sh.agents

ListNames == {"vmDepends", "fileDepends", "pkgInstalls", "k8sDepends",
              "defaultInstalls", "workerInstalls"}

\* A resource: a kind, the number of its machine or helmfile, or 0, and the
\* number of its input, or 0.
Res(kind, i, j) == [kind |-> kind, i |-> i, j |-> j]
Prime == Res("k8sPrime", 1, 0)

\* The list holds the resource.
Has(list, r) == \E n \in 1 .. Len(list) : list[n] = r

-----------------------------------------------------------------------------
(* The steps.                                                               *)

\* list = append(list, r)
Append1(list, r) ==
  [op |-> "append", list |-> list, other |-> list, res |-> r]

\* list = append(list, other...)
AppendAll(list, other) ==
  [op |-> "appendAll", list |-> list, other |-> other, res |-> Prime]

\* list := other
Assign(list, other) ==
  [op |-> "assign", list |-> list, other |-> other, res |-> Prime]

\* r is registered with pulumi.DependsOn(list).
DependsOn(r, list) ==
  [op |-> "hand", list |-> list, other |-> list, res |-> r]

\* What is handed over, with v for the resource r.
Register(given, r, v) ==
  [x \in DOMAIN given \cup {r} |-> IF x = r THEN v ELSE given[x]]

\* A position: a label, the machine or the helmfile of the loop, and the input.
At(label, i, j) == [at |-> label, i |-> i, j |-> j]
End == At("end", 0, 0)

\* The step of a position and the position after it.
Line(step, next) == [step |-> step, next |-> next]

-----------------------------------------------------------------------------
(* libvirt.Unit.  An operator named To... is the head of a loop or of an if. *)

Start == At("remoteOk", 1, 0)

ToInput(sh, i, j) ==
  IF j <= sh.shipped THEN At("installFile", i, j) ELSE At("vmSetup", i, 0)

\* Mutant: a machine that no config has is set up as well.
ToMachineOffByOne(sh, i) ==
  IF i <= MachinesOf(sh) + 1 THEN At("remoteOk", i, 0) ELSE At("sshConfig", 0, 0)

ToMachine(sh, i) ==
  IF i <= MachinesOf(sh) THEN At("remoteOk", i, 0) ELSE At("sshConfig", 0, 0)

\* The body of the loop over a config's machines.  fileDepends is not reset:
\* a machine brings the files of the machines before it along once more.
Machine(sh, i, j) ==
  [remoteOk |->
     Line(Append1("vmDepends", Res("remoteOk", i, 0)),
          At(IF sh.online THEN "zypperIn" ELSE "cloudInit", i, 0)),
   zypperIn |->
     Line(DependsOn(Res("zypperInOpenIscsi", i, 0), "vmDepends"),
          At("zypperInDone", i, 0)),
   zypperInDone |->
     Line(Append1("pkgInstalls", Res("zypperInOpenIscsi", i, 0)),
          At("enableIscsi", i, 0)),
   enableIscsi |->
     Line(Append1("pkgInstalls", Res("enableIscsi", i, 0)),
          At("cloudInit", i, 0)),
   cloudInit |->
     Line(DependsOn(Res("cloud-init.log", i, 0), "vmDepends"),
          At("cloudInitOutput", i, 0)),
   cloudInitOutput |->
     Line(DependsOn(Res("cloud-init-output.log", i, 0), "vmDepends"),
          ToInput(sh, i, 1)),
   installFile |->
     Line(Append1("fileDepends", Res("installFile", i, j)),
          ToInput(sh, i, j + 1)),
   vmSetup |->
     Line(Append1("vmDepends", Res("vmSetup", i, 0)), At("vmFiles", i, 0)),
   vmFiles |->
     Line(AppendAll("vmDepends", "fileDepends"), ToMachine(sh, i + 1))]

ToOnline(sh) == IF sh.online THEN At("pkgs", 0, 0) ELSE End

ToK8s(sh) == IF sh.k8s THEN At("prime", 0, 0) ELSE ToOnline(sh)

AllMachines(sh) ==
  [sshConfig |->
     Line(DependsOn(Res("sshConfig", 0, 0), "vmDepends"), At("assign", 0, 0)),
   assign |-> Line(Assign("k8sDepends", "vmDepends"), ToK8s(sh))]

\* The other control plane nodes come before the workers.
ToWorker(sh, i) ==
  IF i <= MachinesOf(sh) THEN At("worker", i, 0) ELSE At("joined", 0, 0)

ToAdmin(sh, i) ==
  IF i <= sh.defaults THEN At("admin", i, 0) ELSE ToWorker(sh, i)

\* Mutant: the prime install is not added to what everyone waits for.
PrimeInstallAlone(sh) ==
  [prime |-> Line(DependsOn(Prime, "k8sDepends"), At("kubeconfig", 0, 0)),
   kubeconfig |->
     Line(DependsOn(Res("kubeconfig", 0, 0), "k8sDepends"), ToAdmin(sh, 2))]

\* "Everyone depends on the prime install being setup and Ready"
PrimeInstall(sh) ==
  [prime |-> Line(DependsOn(Prime, "k8sDepends"), At("primeDone", 0, 0)),
   primeDone |-> Line(Append1("k8sDepends", Prime), At("kubeconfig", 0, 0)),
   kubeconfig |->
     Line(DependsOn(Res("kubeconfig", 0, 0), "k8sDepends"), ToAdmin(sh, 2))]

Joins(sh, i) ==
  [admin |->
     Line(DependsOn(Res("k8sAdmin", i, 0), "k8sDepends"), At("adminDone", i, 0)),
   adminDone |->
     Line(Append1("defaultInstalls", Res("k8sAdmin", i, 0)), ToAdmin(sh, i + 1)),
   worker |->
     Line(DependsOn(Res("k8sWorker", i, 0), "k8sDepends"), At("workerDone", i, 0)),
   workerDone |->
     Line(Append1("workerInstalls", Res("k8sWorker", i, 0)), ToWorker(sh, i + 1))]

\* Mutant: the joins are added to vmDepends, but not what they waited for.
JoinedNodesOnly(sh) ==
  [joined |->
     Line(AppendAll("vmDepends", "defaultInstalls"), At("joinedWorkers", 0, 0)),
   joinedWorkers |->
     Line(AppendAll("vmDepends", "workerInstalls"), ToOnline(sh))]

JoinedNodes(sh) ==
  [joined |->
     Line(AppendAll("vmDepends", "k8sDepends"), At("joinedAdmins", 0, 0)),
   joinedAdmins |->
     Line(AppendAll("vmDepends", "defaultInstalls"), At("joinedWorkers", 0, 0)),
   joinedWorkers |->
     Line(AppendAll("vmDepends", "workerInstalls"), ToOnline(sh))]

\* A unit that is not called "upstream" has no helmfiles here.
IsHacked(sh, m) == sh.helmfiles[m] \in {"ai", "nexus"}

ToHelmfile(sh, m) ==
  IF m <= Len(sh.helmfiles)
  THEN At(IF IsHacked(sh, m) THEN "hack" ELSE "helmfileApply", m, 0)
  ELSE End

ToApplied(sh, m) ==
  IF IsHacked(sh, m) THEN At("hackDone", m, 0)
  ELSE IF sh.helmfiles[m] = "kube-vip" THEN At("kubeVipFile", m, 0)
  ELSE ToHelmfile(sh, m + 1)

Packages(sh) ==
  [pkgs |-> Line(AppendAll("vmDepends", "pkgInstalls"), ToHelmfile(sh, 1))]

\* The body of the loop over the helmfiles.
Helmfile(sh, m) ==
  [hack |->
     Line(DependsOn(Res("hack", m, 0), "vmDepends"), At("helmfileApply", m, 0)),
   helmfileApply |->
     Line(DependsOn(Res("helmfileApply", m, 0), "vmDepends"),
          At("helmfileApplyDone", m, 0)),
   helmfileApplyDone |->
     Line(Append1("vmDepends", Res("helmfileApply", m, 0)), ToApplied(sh, m)),
   hackDone |->
     Line(Append1("vmDepends", Res("hack", m, 0)), ToHelmfile(sh, m + 1)),
   kubeVipFile |->
     Line(DependsOn(Res("kubeVipFile", m, 0), "k8sDepends"),
          At("kubeVipFileDone", m, 0)),
   kubeVipFileDone |->
     Line(Append1("vmDepends", Res("kubeVipFile", m, 0)), ToHelmfile(sh, m + 1))]

LineAt(sh, p) ==
  CASE p.at \in DOMAIN Machine(sh, p.i, p.j) -> Machine(sh, p.i, p.j)[p.at]
    [] p.at \in DOMAIN AllMachines(sh) -> AllMachines(sh)[p.at]
    [] p.at \in DOMAIN PrimeInstall(sh) -> PrimeInstall(sh)[p.at]
    [] p.at \in DOMAIN Joins(sh, p.i) -> Joins(sh, p.i)[p.at]
    [] p.at \in DOMAIN JoinedNodes(sh) -> JoinedNodes(sh)[p.at]
    [] p.at \in DOMAIN Packages(sh) -> Packages(sh)[p.at]
    [] p.at \in DOMAIN Helmfile(sh, p.i) -> Helmfile(sh, p.i)[p.at]
=============================================================================
