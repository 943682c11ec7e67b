---------------------------- MODULE DependsProofs ----------------------------
(***************************************************************************)
(* Proofs about DependsSlices, for every set of units.  The slices of       *)
(* libvirt.Unit behave as lists of their own, and everyone depends on the   *)
(* prime install, exactly as long as the append of k8sDepends to vmDepends  *)
(* does not find room in the array that the two share (NoOverwrite); and it *)
(* finds none in a unit without a cluster, or in a small one.               *)
(***************************************************************************)
EXTENDS DependsSlices, TLAPS, WellFoundedInduction

\* The types of the model: resources, slices, positions and steps.
Kinds == {"", "remoteOk", "zypperInOpenIscsi", "enableIscsi", "cloud-init.log",
          "cloud-init-output.log", "installFile", "vmSetup", "sshConfig", "k8sPrime",
          "kubeconfig", "k8sAdmin", "k8sWorker", "hack", "helmfileApply", "kubeVipFile"}
Resource == [kind : Kinds, i : Nat, j : Nat]
Slice == [arr : Nat, len : Nat]

\* The labels of the parts of Unit.
MachineAt == {"remoteOk", "zypperIn", "zypperInDone", "enableIscsi", "cloudInit",
              "cloudInitOutput", "installFile", "vmSetup", "vmFiles"}
BeforeK8sAt == {"sshConfig", "assign"}
PrimeAt == {"prime", "primeDone"}
JoiningAt == {"kubeconfig", "admin", "adminDone", "worker", "workerDone", "joined"}
JoinedAt == {"joinedAdmins", "joinedWorkers"}
OnlineAt == {"pkgs", "hack", "helmfileApply", "helmfileApplyDone", "hackDone",
             "kubeVipFile", "kubeVipFileDone"}
Labels == MachineAt \cup BeforeK8sAt \cup PrimeAt \cup JoiningAt \cup JoinedAt
            \cup OnlineAt \cup {"end"}
Position == [at : Labels, i : Nat, j : Nat]

StepType == [op : {"append", "appendAll", "assign", "hand"},
             list : ListNames, other : ListNames, res : Resource]

-----------------------------------------------------------------------------
(* The script.                                                              *)

\* The part of Unit that a label belongs to.
LEMMA LineParts ==
  ASSUME NEW sh, NEW p
  PROVE  /\ p.at \in MachineAt => LineAt(sh, p) = Machine(sh, p.i, p.j)[p.at]
         /\ p.at \in BeforeK8sAt => LineAt(sh, p) = AllMachines(sh)[p.at]
         /\ p.at \in PrimeAt \cup {"kubeconfig"} =>
              LineAt(sh, p) = PrimeInstall(sh)[p.at]
         /\ p.at \in JoiningAt \ {"kubeconfig", "joined"} =>
              LineAt(sh, p) = Joins(sh, p.i)[p.at]
         /\ p.at \in JoinedAt \cup {"joined"} => LineAt(sh, p) = JoinedNodes(sh)[p.at]
         /\ p.at = "pkgs" => LineAt(sh, p) = Packages(sh)[p.at]
         /\ p.at \in OnlineAt \ {"pkgs"} => LineAt(sh, p) = Helmfile(sh, p.i)[p.at]
<1>1. DOMAIN Machine(sh, p.i, p.j) = MachineAt
  BY DEF Machine, MachineAt
<1>2. DOMAIN AllMachines(sh) = BeforeK8sAt
  BY DEF AllMachines, BeforeK8sAt
<1>3. DOMAIN PrimeInstall(sh) = PrimeAt \cup {"kubeconfig"}
  BY DEF PrimeInstall, PrimeAt
<1>4. DOMAIN Joins(sh, p.i) = JoiningAt \ {"kubeconfig", "joined"}
  BY DEF Joins, JoiningAt
<1>5. DOMAIN JoinedNodes(sh) = JoinedAt \cup {"joined"}
  BY DEF JoinedNodes, JoinedAt
<1>6. DOMAIN Packages(sh) = {"pkgs"}
  BY DEF Packages
<1>7. DOMAIN Helmfile(sh, p.i) = OnlineAt \ {"pkgs"}
  BY DEF Helmfile, OnlineAt
<1> QED
  BY <1>1, <1>2, <1>3, <1>4, <1>5, <1>6, <1>7
  DEF LineAt, MachineAt, BeforeK8sAt, PrimeAt, JoiningAt, JoinedAt, OnlineAt

\* Only the install of the prime node is appended to k8sDepends, and vmDepends
\* is left alone while the nodes join.
StepFits(p, s) ==
  /\ s.op \in {"append", "appendAll"} =>
       /\ s.list = "k8sDepends" =>
            p.at = "primeDone" /\ s.op = "append" /\ s.res = Prime
       /\ s.list \in {"vmDepends", "fileDepends"} =>
            p.at \in MachineAt \cup JoinedAt \cup OnlineAt \cup {"joined"}
       /\ p.at = "primeDone" => s.list = "k8sDepends"
       /\ p.at = "joined" => s.list = "vmDepends" /\ s.op = "appendAll"
                              /\ s.other = "k8sDepends"
  /\ p.at = "assign" <=> s.op = "assign"
  /\ s.op = "assign" => s.list = "k8sDepends" /\ s.other = "vmDepends"
  /\ p.at = "prime" => s.op = "hand"
  /\ s.op = "hand" =>
       /\ s.list \in {"vmDepends", "k8sDepends"}
       /\ p.at \notin {"primeDone", "joined"}
       /\ s.res.kind \in {"kubeconfig", "k8sAdmin", "k8sWorker"} =>
            p.at \in JoiningAt /\ s.list = "k8sDepends"
       /\ s.res.kind = "kubeVipFile" => p.at \in OnlineAt /\ s.list = "k8sDepends"
       /\ p.at \in JoiningAt => s.list = "k8sDepends"
  /\ p.at \in MachineAt =>
       /\ s.op = "append" => s.res.kind # "k8sPrime"
       /\ s.op = "appendAll" => s.list = "vmDepends" /\ s.other = "fileDepends"
  /\ p.at = "remoteOk" => s.op = "append" /\ s.list = "vmDepends"
  /\ p.at = "kubeconfig" => s.op = "hand" /\ s.res.kind = "kubeconfig"

\* The parts of Unit follow each other; the cluster is left out of a unit that
\* is not of the kind k8s.
NextFits(sh, p, n) ==
  /\ p.at \in BeforeK8sAt => n.at \notin MachineAt
  /\ p.at = "sshConfig" => n.at = "assign"
  /\ p.at = "assign" /\ n.at # "prime" => ~sh.k8s /\ n.at \in OnlineAt \cup {"end"}
  /\ n.at = "prime" => p.at = "assign" /\ sh.k8s
  /\ n.at = "primeDone" <=> p.at = "prime"
  /\ n.at = "kubeconfig" <=> p.at = "primeDone"
  /\ n.at \in JoiningAt <=> p.at \in (JoiningAt \ {"joined"}) \cup {"primeDone"}
  /\ n.at \in JoinedAt => p.at \in JoinedAt \cup {"joined"}
  /\ p.at \in JoinedAt \cup {"joined"} => n.at \in JoinedAt \cup OnlineAt \cup {"end"}
  /\ p.at \in OnlineAt => n.at \in OnlineAt \cup {"end"}
  /\ p.at \in MachineAt => n.at \in MachineAt \cup {"sshConfig"}

\* The steps of Unit have the type of a step.
LEMMA StepTyped ==
  /\ Prime \in Resource
  /\ \A list \in ListNames, other \in ListNames, r \in Resource :
       /\ Append1(list, r) \in StepType
       /\ AppendAll(list, other) \in StepType
       /\ Assign(list, other) \in StepType
       /\ DependsOn(r, list) \in StepType
<1>1. Prime \in Resource
  BY DEF Prime, Res, Resource, Kinds
<1> QED
  BY <1>1 DEF Append1, AppendAll, Assign, DependsOn, StepType

\* The resources of Unit have the type of a resource.
LEMMA ResourceTyped ==
  ASSUME NEW i \in Nat, NEW j \in Nat
  PROVE  /\ Res("remoteOk", i, j) \in Resource
         /\ Res("zypperInOpenIscsi", i, j) \in Resource
         /\ Res("enableIscsi", i, j) \in Resource
         /\ Res("cloud-init.log", i, j) \in Resource
         /\ Res("cloud-init-output.log", i, j) \in Resource
         /\ Res("installFile", i, j) \in Resource
         /\ Res("vmSetup", i, j) \in Resource
         /\ Res("sshConfig", i, j) \in Resource
         /\ Res("kubeconfig", i, j) \in Resource
         /\ Res("k8sAdmin", i, j) \in Resource
         /\ Res("k8sWorker", i, j) \in Resource
         /\ Res("hack", i, j) \in Resource
         /\ Res("helmfileApply", i, j) \in Resource
         /\ Res("kubeVipFile", i, j) \in Resource
BY DEF Res, Resource, Kinds

\* What the lines of the loop over the machines do.
LEMMA MachineLines ==
  ASSUME NEW sh, NEW p, NEW i, NEW j, i = p.i, j = p.j, NEW s, NEW n,
         s = LineAt(sh, p).step, n = LineAt(sh, p).next
  PROVE  /\ p.at = "remoteOk" =>
              /\ s = Append1("vmDepends", Res("remoteOk", i, 0))
              /\ n = At(IF sh.online THEN "zypperIn" ELSE "cloudInit", i, 0)
         /\ p.at = "zypperIn" =>
              /\ s = DependsOn(Res("zypperInOpenIscsi", i, 0), "vmDepends")
              /\ n = At("zypperInDone", i, 0)
         /\ p.at = "zypperInDone" =>
              /\ s = Append1("pkgInstalls", Res("zypperInOpenIscsi", i, 0))
              /\ n = At("enableIscsi", i, 0)
         /\ p.at = "enableIscsi" =>
              /\ s = Append1("pkgInstalls", Res("enableIscsi", i, 0))
              /\ n = At("cloudInit", i, 0)
         /\ p.at = "cloudInit" =>
              /\ s = DependsOn(Res("cloud-init.log", i, 0), "vmDepends")
              /\ n = At("cloudInitOutput", i, 0)
         /\ p.at = "cloudInitOutput" =>
              /\ s = DependsOn(Res("cloud-init-output.log", i, 0), "vmDepends")
              /\ n = ToInput(sh, i, 1)
         /\ p.at = "installFile" =>
              /\ s = Append1("fileDepends", Res("installFile", i, j))
              /\ n = ToInput(sh, i, j + 1)
         /\ p.at = "vmSetup" =>
              /\ s = Append1("vmDepends", Res("vmSetup", i, 0))
              /\ n = At("vmFiles", i, 0)
         /\ p.at = "vmFiles" =>
              /\ s = AppendAll("vmDepends", "fileDepends")
              /\ n = ToMachine(sh, i + 1)
<1>1. p.at \in MachineAt => LineAt(sh, p) = Machine(sh, i, j)[p.at]
  BY LineParts
<1>2. p.at \in MachineAt =>
        s = Machine(sh, i, j)[p.at].step /\ n = Machine(sh, i, j)[p.at].next
  BY <1>1
<1>3. CASE p.at \in {"remoteOk", "zypperIn", "zypperInDone"}
  BY <1>2, <1>3 DEF Machine, MachineAt, Line
<1>4. CASE p.at \in {"enableIscsi", "cloudInit", "cloudInitOutput"}
  BY <1>2, <1>4 DEF Machine, MachineAt, Line
<1>5. CASE p.at \in {"installFile", "vmSetup", "vmFiles"}
  BY <1>2, <1>5 DEF Machine, MachineAt, Line
<1> QED
  BY <1>3, <1>4, <1>5

\* The lines of the loops over the nodes that join.
LEMMA JoinLines ==
  ASSUME NEW sh, NEW p, NEW s, NEW n,
         s = LineAt(sh, p).step, n = LineAt(sh, p).next
  PROVE  /\ p.at = "admin" =>
              /\ s = DependsOn(Res("k8sAdmin", p.i, 0), "k8sDepends")
              /\ n = At("adminDone", p.i, 0)
         /\ p.at = "adminDone" =>
              /\ s = Append1("defaultInstalls", Res("k8sAdmin", p.i, 0))
              /\ n = ToAdmin(sh, p.i + 1)
         /\ p.at = "worker" =>
              /\ s = DependsOn(Res("k8sWorker", p.i, 0), "k8sDepends")
              /\ n = At("workerDone", p.i, 0)
         /\ p.at = "workerDone" =>
              /\ s = Append1("workerInstalls", Res("k8sWorker", p.i, 0))
              /\ n = ToWorker(sh, p.i + 1)
<1>1. p.at \in JoiningAt \ {"kubeconfig", "joined"} => LineAt(sh, p) = Joins(sh, p.i)[p.at]
  BY LineParts
<1> QED
  BY <1>1 DEF Joins, JoiningAt, Line

\* The lines of the loop over the helmfiles.
LEMMA HelmfileLines ==
  ASSUME NEW sh, NEW p, NEW s, NEW n,
         s = LineAt(sh, p).step, n = LineAt(sh, p).next
  PROVE  /\ p.at = "hack" =>
              /\ s = DependsOn(Res("hack", p.i, 0), "vmDepends")
              /\ n = At("helmfileApply", p.i, 0)
         /\ p.at = "helmfileApply" =>
              /\ s = DependsOn(Res("helmfileApply", p.i, 0), "vmDepends")
              /\ n = At("helmfileApplyDone", p.i, 0)
         /\ p.at = "helmfileApplyDone" =>
              /\ s = Append1("vmDepends", Res("helmfileApply", p.i, 0))
              /\ n = ToApplied(sh, p.i)
         /\ p.at = "hackDone" =>
              /\ s = Append1("vmDepends", Res("hack", p.i, 0))
              /\ n = ToHelmfile(sh, p.i + 1)
         /\ p.at = "kubeVipFile" =>
              /\ s = DependsOn(Res("kubeVipFile", p.i, 0), "k8sDepends")
              /\ n = At("kubeVipFileDone", p.i, 0)
         /\ p.at = "kubeVipFileDone" =>
              /\ s = Append1("vmDepends", Res("kubeVipFile", p.i, 0))
              /\ n = ToHelmfile(sh, p.i + 1)
<1>1. p.at \in OnlineAt \ {"pkgs"} => LineAt(sh, p) = Helmfile(sh, p.i)[p.at]
  BY LineParts
<1> QED
  BY <1>1 DEF Helmfile, OnlineAt, Line

\* The lines of the loop over the machines fit.
LEMMA MachineFits ==
  ASSUME NEW sh \in Shape, NEW p \in Position, p.at \in MachineAt, NEW s, NEW n,
         s = LineAt(sh, p).step, n = LineAt(sh, p).next
  PROVE  s \in StepType /\ n \in Position /\ StepFits(p, s) /\ NextFits(sh, p, n)
<1>1. PICK i, j : i = p.i /\ j = p.j
  OBVIOUS
<1>2. i \in Nat /\ j \in Nat /\ i + 1 \in Nat /\ j + 1 \in Nat
  BY <1>1 DEF Position
<1>3. s \in StepType
  <2> USE <1>1, <1>2, MachineLines, StepTyped, ResourceTyped DEF ListNames
  <2>1. CASE p.at \in {"remoteOk", "zypperIn", "zypperInDone"}
    BY <2>1
  <2>2. CASE p.at \in {"enableIscsi", "cloudInit", "cloudInitOutput"}
    BY <2>2
  <2>3. CASE p.at \in {"installFile", "vmSetup", "vmFiles"}
    BY <2>3
  <2> QED
    BY <2>1, <2>2, <2>3 DEF MachineAt
<1>4. \E l \in MachineAt \cup {"sshConfig"}, a \in Nat, b \in Nat : n = At(l, a, b)
  BY <1>1, <1>2, MachineLines DEF MachineAt, ToInput, ToMachine
<1>5. n \in Position /\ n.at \in MachineAt \cup {"sshConfig"}
  BY <1>4 DEF At, Position, Labels, BeforeK8sAt
<1>6. /\ s.op = "append" =>
           /\ s.list \in {"vmDepends", "fileDepends", "pkgInstalls"}
           /\ s.res.kind \in {"remoteOk", "zypperInOpenIscsi", "enableIscsi",
                              "installFile", "vmSetup"}
      /\ s.op = "appendAll" => s.list = "vmDepends" /\ s.other = "fileDepends"
      /\ s.op = "hand" =>
           /\ s.list = "vmDepends" /\ p.at # "remoteOk"
           /\ s.res.kind \in {"zypperInOpenIscsi", "cloud-init.log", "cloud-init-output.log"}
      /\ s.op \in {"append", "appendAll", "hand"}
      /\ p.at = "remoteOk" => s.op = "append" /\ s.list = "vmDepends"
  <2> USE <1>1, MachineLines DEF Append1, AppendAll, DependsOn, Res
  <2>1. CASE p.at \in {"remoteOk", "zypperIn", "zypperInDone"}
    BY <2>1
  <2>2. CASE p.at \in {"enableIscsi", "cloudInit", "cloudInitOutput"}
    BY <2>2
  <2>3. CASE p.at \in {"installFile", "vmSetup", "vmFiles"}
    BY <2>3
  <2> QED
    BY <2>1, <2>2, <2>3 DEF MachineAt
<1>7. StepFits(p, s)
  BY <1>6 DEF StepFits, MachineAt, PrimeAt, JoiningAt
<1>8. NextFits(sh, p, n)
  BY <1>5 DEF NextFits, MachineAt, BeforeK8sAt, PrimeAt, JoiningAt, JoinedAt, OnlineAt
<1> QED
  BY <1>3, <1>5, <1>7, <1>8

\* The lines of the loops over the nodes that join fit.
LEMMA JoinFits ==
  ASSUME NEW sh \in Shape, NEW p \in Position, NEW s, NEW n,
         p.at \in JoiningAt \ {"kubeconfig", "joined"},
         s = LineAt(sh, p).step, n = LineAt(sh, p).next
  PROVE  s \in StepType /\ n \in Position /\ StepFits(p, s) /\ NextFits(sh, p, n)
<1>1. p.i \in Nat /\ p.i + 1 \in Nat
  BY DEF Position
<1>2. s \in StepType
  BY <1>1, JoinLines, StepTyped, ResourceTyped DEF ListNames, JoiningAt
<1>3. \E l \in JoiningAt \ {"kubeconfig"}, a \in Nat : n = At(l, a, 0)
  BY <1>1, JoinLines DEF JoiningAt, ToAdmin, ToWorker
<1>4. n \in Position /\ n.at \in JoiningAt \ {"kubeconfig"}
  BY <1>3 DEF At, Position, Labels, JoiningAt
<1>5. /\ s.op = "append" => s.list \in {"defaultInstalls", "workerInstalls"}
      /\ s.op = "hand" =>
           s.list = "k8sDepends" /\ s.res.kind \in {"k8sAdmin", "k8sWorker"}
      /\ s.op \in {"append", "hand"}
  BY JoinLines DEF JoiningAt, Append1, DependsOn, Res
<1>6. StepFits(p, s)
  BY <1>5 DEF StepFits, MachineAt, PrimeAt, JoiningAt, JoinedAt, OnlineAt
<1>7. NextFits(sh, p, n)
  BY <1>4 DEF NextFits, MachineAt, BeforeK8sAt, PrimeAt, JoiningAt, JoinedAt, OnlineAt
<1> QED
  BY <1>2, <1>4, <1>6, <1>7

\* The lines of the loop over the helmfiles fit.
LEMMA HelmfileFits ==
  ASSUME NEW sh \in Shape, NEW p \in Position, p.at \in OnlineAt \ {"pkgs"}, NEW s, NEW n,
         s = LineAt(sh, p).step, n = LineAt(sh, p).next
  PROVE  s \in StepType /\ n \in Position /\ StepFits(p, s) /\ NextFits(sh, p, n)
<1>1. p.i \in Nat /\ p.i + 1 \in Nat
  BY DEF Position
<1>2. s \in StepType
  BY <1>1, HelmfileLines, StepTyped, ResourceTyped DEF ListNames, OnlineAt
<1>3. \A m \in Nat :
        \E l \in OnlineAt \cup {"end"}, a \in Nat : ToHelmfile(sh, m) = At(l, a, 0)
  BY DEF ToHelmfile, End, OnlineAt
<1>4. \E l \in OnlineAt \cup {"end"}, a \in Nat : ToApplied(sh, p.i) = At(l, a, 0)
  BY <1>1, <1>3 DEF ToApplied, OnlineAt
<1>5. \E l \in OnlineAt \cup {"end"}, a \in Nat : n = At(l, a, 0)
  <2>1. CASE p.at \in {"hackDone", "kubeVipFileDone"}
    BY <1>1, <1>3, <2>1, HelmfileLines
  <2>2. CASE p.at = "helmfileApplyDone"
    BY <1>4, <2>2, HelmfileLines
  <2>3. CASE p.at \in {"hack", "helmfileApply", "kubeVipFile"}
    BY <1>1, <2>3, HelmfileLines DEF OnlineAt
  <2> QED
    BY <2>1, <2>2, <2>3 DEF OnlineAt
<1>6. n \in Position /\ n.at \in OnlineAt \cup {"end"}
  BY <1>5 DEF At, Position, Labels
<1>7. /\ s.op = "append" => s.list = "vmDepends"
      /\ s.op = "hand" =>
           /\ s.list \in {"vmDepends", "k8sDepends"}
           /\ s.res.kind \in {"hack", "helmfileApply", "kubeVipFile"}
           /\ s.res.kind = "kubeVipFile" => s.list = "k8sDepends"
      /\ s.op \in {"append", "hand"}
  BY HelmfileLines DEF OnlineAt, Append1, DependsOn, Res
<1>8. StepFits(p, s)
  BY <1>7 DEF StepFits, MachineAt, PrimeAt, JoiningAt, JoinedAt, OnlineAt
<1>9. NextFits(sh, p, n)
  BY <1>6 DEF NextFits, MachineAt, BeforeK8sAt, PrimeAt, JoiningAt, JoinedAt, OnlineAt
<1> QED
  BY <1>2, <1>6, <1>8, <1>9

\* Every line of Unit fits.
LEMMA LineFits ==
  ASSUME NEW sh \in Shape, NEW p \in Position, p.at # "end"
  PROVE  /\ LineAt(sh, p).step \in StepType
         /\ LineAt(sh, p).next \in Position
         /\ StepFits(p, LineAt(sh, p).step)
         /\ NextFits(sh, p, LineAt(sh, p).next)
<1> DEFINE s == LineAt(sh, p).step
           n == LineAt(sh, p).next
<1> USE DEF Line, At, End, MachineAt, BeforeK8sAt, PrimeAt, JoiningAt, JoinedAt, OnlineAt
<1>0. p.i \in Nat /\ p.j \in Nat /\ p.i + 1 \in Nat /\ p.j + 1 \in Nat /\ p.at \in Labels
  BY DEF Position
<1>1. CASE p.at \in MachineAt
  BY <1>1, MachineFits
<1>2. CASE p.at \in BeforeK8sAt
  <2>1. LineAt(sh, p) = AllMachines(sh)[p.at]
    BY <1>2, LineParts
  <2>2. s \in StepType
    BY <1>0, <1>2, <2>1, StepTyped, ResourceTyped DEF AllMachines, ListNames
  <2>3. n \in Position
    BY <1>0, <1>2, <2>1 DEF AllMachines, ToK8s, ToOnline, Position, Labels
  <2>4. StepFits(p, s)
    BY <1>2, <2>1
    DEF AllMachines, StepFits, Append1, AppendAll, Assign, DependsOn, Res, Prime
  <2>5. NextFits(sh, p, n)
    BY <1>2, <2>1 DEF AllMachines, ToK8s, ToOnline, NextFits
  <2> QED
    BY <2>2, <2>3, <2>4, <2>5
<1>3. CASE p.at \in PrimeAt \cup {"kubeconfig"}
  <2>1. LineAt(sh, p) = PrimeInstall(sh)[p.at]
    BY <1>3, LineParts
  <2>2. s \in StepType
    BY <1>0, <1>3, <2>1, StepTyped, ResourceTyped DEF PrimeInstall, ListNames
  <2>3. n \in Position
    BY <1>0, <1>3, <2>1 DEF PrimeInstall, ToAdmin, ToWorker, Position, Labels
  <2>4. StepFits(p, s)
    BY <1>3, <2>1
    DEF PrimeInstall, StepFits, Append1, AppendAll, Assign, DependsOn, Res, Prime
  <2>5. NextFits(sh, p, n)
    BY <1>3, <2>1 DEF PrimeInstall, ToAdmin, ToWorker, NextFits
  <2> QED
    BY <2>2, <2>3, <2>4, <2>5
<1>4. CASE p.at \in JoiningAt \ {"kubeconfig", "joined"}
  BY <1>4, JoinFits
<1>5. CASE p.at \in JoinedAt \cup {"joined"}
  <2>1. LineAt(sh, p) = JoinedNodes(sh)[p.at]
    BY <1>5, LineParts
  <2>2. s \in StepType
    BY <1>0, <1>5, <2>1, StepTyped, ResourceTyped DEF JoinedNodes, ListNames
  <2>3. n \in Position
    BY <1>0, <1>5, <2>1 DEF JoinedNodes, ToOnline, Position, Labels
  <2>4. StepFits(p, s)
    BY <1>5, <2>1
    DEF JoinedNodes, StepFits, Append1, AppendAll, Assign, DependsOn, Res, Prime
  <2>5. NextFits(sh, p, n)
    BY <1>5, <2>1 DEF JoinedNodes, ToOnline, NextFits
  <2> QED
    BY <2>2, <2>3, <2>4, <2>5
<1>6. CASE p.at = "pkgs"
  <2>1. LineAt(sh, p) = Packages(sh)[p.at]
    BY <1>6, LineParts
  <2>2. s \in StepType
    BY <1>0, <1>6, <2>1, StepTyped, ResourceTyped DEF Packages, ListNames
  <2>3. n \in Position
    BY <1>0, <1>6, <2>1 DEF Packages, ToHelmfile, Position, Labels
  <2>4. StepFits(p, s)
    BY <1>6, <2>1
    DEF Packages, StepFits, Append1, AppendAll, Assign, DependsOn, Res, Prime
  <2>5. NextFits(sh, p, n)
    BY <1>6, <2>1 DEF Packages, ToHelmfile, NextFits
  <2> QED
    BY <2>2, <2>3, <2>4, <2>5
<1>7. CASE p.at \in OnlineAt \ {"pkgs"}
  BY <1>7, HelmfileFits
<1> QED
  BY <1>0, <1>1, <1>2, <1>3, <1>4, <1>5, <1>6, <1>7 DEF Labels

-----------------------------------------------------------------------------
(* How an array grows.                                                      *)

\* A set of numbers that is not empty has a least one.
LEMMA MinOf ==
  ASSUME NEW S, S \subseteq Nat, S # {}
  PROVE  Min(S) \in S /\ \A y \in S : Min(S) <= y
<1> DEFINE Less == {ss \in Nat \X Nat : ss[1] < ss[2]}
<1>1. IsWellFoundedOn(Less, Nat)
  BY NatLessThanWellFounded DEF OpToRel
<1>2. PICK x \in S : \A y \in S : ~(<<y, x>> \in Less)
  <2> HIDE DEF Less
  <2> QED
    BY <1>1, WFMin
<1>3. \A y \in S : x <= y
  <2>1. \A y \in S : ~(y < x)
    BY <1>2
  <2> QED
    BY <2>1
<1> QED
  BY <1>3 DEF Min

\* A capacity that is rounded up is not less than what was asked for.
LEMMA RoundUpEnough ==
  ASSUME NEW n \in Nat
  PROVE  RoundUp(n) \in Nat /\ RoundUp(n) >= n
<1>1. CASE n <= 2047
  <2> DEFINE S == {c \in Capacities : c >= n}
  <2>1. Capacities \subseteq Nat
    BY SMT DEF Capacities
  <2>2. \E m \in Capacities : m >= n
    BY <1>1, SMT DEF Capacities
  <2>3. S \subseteq Nat /\ S # {}
    BY <2>1, <2>2
  <2>4. Min(S) \in S
    <3> HIDE DEF S
    <3> QED BY <2>3, MinOf, Zenon
  <2>5. RoundUp(n) = Min(S)
    BY <1>1, SMT DEF RoundUp
  <2> QED
    BY <2>1, <2>4, <2>5
<1>2. CASE n > 2047
  <2>1. RoundUp(n) = 512 * ((n + 511) \div 512)
    BY <1>2, SMT DEF RoundUp
  <2> QED
    BY <2>1, SMT
<1> QED
  BY <1>1, <1>2, SMT

\* A quarter more is a quarter more.
LEMMA QuarterMore ==
  ASSUME NEW c \in Nat
  PROVE  Quarter(c) \in Nat /\ 4 * Quarter(c) >= 5 * c + 765
BY SMT DEF Quarter

\* growslice never gets an array that is too short for the append.
LEMMA GrowEnough ==
  ASSUME NEW cap \in Nat, NEW need \in Nat
  PROVE  Grow(cap, need) \in Nat /\ Grow(cap, need) >= need
<1> DEFINE c1 == Quarter(cap)
           c2 == Quarter(c1)
           c3 == Quarter(c2)
           c4 == Quarter(c3)
           S == {c \in {c1, c2, c3, c4} : c >= need}
<1>1. /\ c1 \in Nat /\ 4 * c1 >= 5 * cap + 765
      /\ c2 \in Nat /\ 4 * c2 >= 5 * c1 + 765
      /\ c3 \in Nat /\ 4 * c3 >= 5 * c2 + 765
      /\ c4 \in Nat /\ 4 * c4 >= 5 * c3 + 765
  BY QuarterMore
<1> DEFINE n == IF need > 2 * cap THEN need ELSE IF cap < 256 THEN 2 * cap ELSE Min(S)
<1>2. n \in Nat /\ n >= need
  <2>1. CASE need > 2 * cap
    BY <2>1
  <2>2. CASE need <= 2 * cap /\ cap < 256
    BY <2>2, SMT
  <2>3. CASE need <= 2 * cap /\ cap >= 256
    <3> HIDE DEF c1, c2, c3, c4
    <3>1. c4 >= 2 * cap
      BY <1>1, SMT
    <3>2. c4 \in S
      BY <1>1, <2>3, <3>1, SMT
    <3>3. S \subseteq Nat
      BY <1>1
    <3>4. Min(S) \in S
      <4> HIDE DEF S
      <4> QED BY <3>2, <3>3, MinOf
    <3> QED
      BY <1>1, <2>3, <3>4, SMT
  <2> QED
    BY <2>1, <2>2, <2>3, SMT
<1>3. Grow(cap, need) = RoundUp(n)
  BY DEF Grow
<1> HIDE DEF n
<1> QED
  BY <1>2, <1>3, RoundUpEnough

\* A small array is not rounded up to more than its double: at most to m, for
\* a capacity m.
LEMMA RoundUpAtMost ==
  ASSUME NEW n \in Nat, NEW m \in Capacities, m >= n
  PROVE  RoundUp(n) <= m
<1> DEFINE S == {c \in Capacities : c >= n}
<1>1. Capacities \subseteq Nat
  BY SMT DEF Capacities
<1>2. m \in S
  OBVIOUS
<1>3. S \subseteq Nat
  BY <1>1
<1>4. Min(S) <= m
  <2> HIDE DEF S
  <2>1. S # {}
    BY <1>2, Zenon
  <2>2. \A y \in S : Min(S) <= y
    BY <1>3, <2>1, MinOf, Zenon
  <2> QED
    BY <1>2, <2>2, Zenon
<1>5. RoundUp(n) = Min(S)
  <2>1. m <= 2047
    BY SMT DEF Capacities
  <2>2. n <= 2047
    BY <1>1, <2>1, SMT
  <2> QED
    BY <2>2, SMT DEF RoundUp
<1> QED
  BY <1>4, <1>5

\* An append that leaves at most 18 elements leaves at most double the room.
LEMMA GrowSmall ==
  ASSUME NEW cap \in Nat, NEW need \in Nat, cap < need, need <= 18
  PROVE  Grow(cap, need) <= 2 * need
<1>1. CASE need > 2 * cap
  <2>1. Grow(cap, need) = RoundUp(need)
    BY <1>1 DEF Grow
  <2>2. PICK m \in Capacities : m >= need /\ m <= need + 1
    <3>1. CASE need <= 16
      <4>1. need \in Capacities
        BY <3>1, SMT DEF Capacities
      <4> QED
        BY <4>1
    <3>2. CASE need = 17 \/ need = 18
      <4>1. 18 \in Capacities
        BY SMT DEF Capacities
      <4> QED
        BY <3>2, <4>1
    <3> QED
      BY <3>1, <3>2
  <2>3. Capacities \subseteq Nat
    BY SMT DEF Capacities
  <2>4. RoundUp(need) <= m
    BY <2>2, RoundUpAtMost, SMT
  <2>5. RoundUp(need) \in Nat
    BY RoundUpEnough
  <2> QED
    BY <2>1, <2>2, <2>3, <2>4, <2>5
<1>2. CASE need <= 2 * cap
  <2>1. Grow(cap, need) = RoundUp(2 * cap)
    BY <1>2, SMT DEF Grow
  <2>2. PICK m \in Capacities : m >= 2 * cap /\ m <= 2 * cap + 1
    <3>1. CASE cap <= 16
      <4>1. 2 * cap \in Capacities
        BY <1>2, <3>1, SMT DEF Capacities
      <4> QED
        BY <4>1
    <3>2. CASE cap = 17
      <4>1. 35 \in Capacities
        BY SMT DEF Capacities
      <4> QED
        BY <3>2, <4>1, SMT
    <3> QED
      BY <3>1, <3>2
  <2>3. Capacities \subseteq Nat
    BY SMT DEF Capacities
  <2>4. RoundUp(2 * cap) <= m
    BY <2>2, RoundUpAtMost, SMT
  <2>5. RoundUp(2 * cap) \in Nat
    BY RoundUpEnough
  <2> QED
    BY <2>1, <2>2, <2>3, <2>4, <2>5
<1> QED
  BY <1>1, <1>2

-----------------------------------------------------------------------------
(* Arrays and slices.                                                       *)

\* The arrays, and reading in one that is not the present one.
Heaps == Seq(Seq(Resource))

\* Read and Cap, of a heap that is not the present one.
ReadIn(h, s) == IF s.arr = 0 THEN << >> ELSE SubSeq(h[s.arr], 1, s.len)
CapIn(h, s) == IF s.arr = 0 THEN 0 ELSE Len(h[s.arr])

Fits(h, s) == s \in Slice /\ s.arr <= Len(h) /\ s.len <= CapIn(h, s)

\* What a slice reads as.
LEMMA ReadFacts ==
  ASSUME NEW h \in Heaps, NEW s, Fits(h, s)
  PROVE  /\ ReadIn(h, s) \in Seq(Resource)
         /\ Len(ReadIn(h, s)) = s.len
         /\ \A n \in 1 .. s.len :
              s.arr \in 1 .. Len(h) /\ ReadIn(h, s)[n] = h[s.arr][n]
         /\ s.arr = 0 => s.len = 0
<1>1. CASE s.arr = 0
  BY <1>1 DEF ReadIn, Fits, CapIn, Slice
<1>2. CASE s.arr # 0
  <2>1. s.arr \in 1 .. Len(h) /\ s.len \in Nat /\ s.len <= Len(h[s.arr])
    BY <1>2 DEF Fits, CapIn, Slice, Heaps
  <2>2. h[s.arr] \in Seq(Resource)
    BY <2>1 DEF Heaps
  <2> QED
    BY <1>2, <2>1, <2>2 DEF ReadIn
<1> QED
  BY <1>1, <1>2

\* Two sequences of one length and the same elements are the same.
LEMMA SameSeq ==
  ASSUME NEW S, NEW a \in Seq(S), NEW b \in Seq(S), Len(a) = Len(b),
         \A n \in 1 .. Len(a) : a[n] = b[n]
  PROVE  a = b
OBVIOUS

\* A slice reads the same in a heap that has kept its elements.
LEMMA ReadSame ==
  ASSUME NEW h \in Heaps, NEW g \in Heaps, NEW s, Fits(h, s), Len(h) <= Len(g),
         s.arr # 0 => Len(g[s.arr]) = Len(h[s.arr]),
         \A n \in 1 .. s.len : g[s.arr][n] = h[s.arr][n]
  PROVE  Fits(g, s) /\ ReadIn(g, s) = ReadIn(h, s)
<1>1. Fits(g, s)
  BY DEF Fits, CapIn, Heaps, Slice
<1>2. \A n \in 1 .. s.len : ReadIn(g, s)[n] = ReadIn(h, s)[n]
  BY <1>1, ReadFacts
<1>3. /\ ReadIn(g, s) \in Seq(Resource) /\ Len(ReadIn(g, s)) = s.len
      /\ ReadIn(h, s) \in Seq(Resource) /\ Len(ReadIn(h, s)) = s.len
  BY <1>1, ReadFacts
<1> QED
  BY <1>1, <1>2, <1>3, SameSeq

\* The array that append leaves.
LEMMA WrittenFacts ==
  ASSUME NEW old \in Seq(Resource), NEW vals \in Seq(Resource),
         NEW len \in Nat, len <= Len(old),
         NEW cap \in Nat, cap >= len + Len(vals)
  PROVE  /\ Written(old, len, vals, cap) \in Seq(Resource)
         /\ Len(Written(old, len, vals, cap)) = cap
         /\ \A n \in 1 .. len : Written(old, len, vals, cap)[n] = old[n]
         /\ \A n \in 1 .. Len(vals) : Written(old, len, vals, cap)[len + n] = vals[n]
<1> DEFINE new == Written(old, len, vals, cap)
<1>1. Unset \in Resource
  BY DEF Unset, Res, Resource, Kinds
<1>2. \A m \in 1 .. cap :
        new[m] = IF m > len /\ m <= len + Len(vals) THEN vals[m - len]
                 ELSE IF m <= Len(old) THEN old[m] ELSE Unset
  BY DEF Written
<1>3. \A m \in 1 .. cap : new[m] \in Resource
  <2> SUFFICES ASSUME NEW m \in 1 .. cap PROVE new[m] \in Resource
    OBVIOUS
  <2> HIDE DEF new
  <2>1. CASE m > len /\ m <= len + Len(vals)
    <3>1. m - len \in 1 .. Len(vals)
      BY <2>1
    <3>2. vals[m - len] \in Resource
      BY <3>1
    <3> QED
      BY <1>2, <2>1, <3>2
  <2>2. CASE ~(m > len /\ m <= len + Len(vals)) /\ m <= Len(old)
    <3>1. old[m] \in Resource
      BY <2>2
    <3> QED
      BY <1>2, <2>2, <3>1
  <2> QED
    BY <1>1, <1>2, <2>1, <2>2
<1>4. new = [m \in 1 .. cap |-> new[m]]
  BY DEF Written
<1>5. new \in Seq(Resource) /\ Len(new) = cap
  <2> HIDE DEF new
  <2> QED
    BY <1>3, <1>4
<1> HIDE DEF new
<1>6. \A n \in 1 .. len : new[n] = old[n]
  <2> SUFFICES ASSUME NEW n \in 1 .. len PROVE new[n] = old[n]
    OBVIOUS
  <2>1. n \in 1 .. cap /\ ~(n > len) /\ n <= Len(old)
    OBVIOUS
  <2> QED
    BY <1>2, <2>1
<1>7. \A n \in 1 .. Len(vals) : new[len + n] = vals[n]
  <2> SUFFICES ASSUME NEW n \in 1 .. Len(vals) PROVE new[len + n] = vals[n]
    OBVIOUS
  <2>1. len + n \in 1 .. cap /\ len + n > len /\ len + n <= len + Len(vals)
        /\ (len + n) - len = n
    OBVIOUS
  <2> QED
    BY <1>2, <2>1
<1> QED
  BY <1>5, <1>6, <1>7 DEF new

\* What append does to a slice s of the heap h.
Extended(h, s, vals, g, t) ==
  /\ g \in Heaps /\ Fits(g, t)
  /\ t.len = s.len + Len(vals)
  /\ ReadIn(g, t) = ReadIn(h, s) \o vals
  /\ \/ /\ t.arr = s.arr /\ t.len <= CapIn(h, s)
        /\ Len(g) = Len(h)
     \/ /\ t.arr = Len(h) + 1 /\ t.len > CapIn(h, s)
        /\ Len(g) = Len(h) + 1
        /\ Len(g[t.arr]) = Grow(CapIn(h, s), t.len)
  /\ \A a \in 1 .. Len(h) :
       /\ Len(g[a]) = Len(h[a])
       /\ \A n \in 1 .. Len(h[a]) :
            a # s.arr \/ t.arr # s.arr \/ n <= s.len => g[a][n] = h[a][n]

\* The array new holds what the slice s held, and vals behind it.
Holding(new, h, s, vals) ==
  /\ \A n \in 1 .. s.len : new[n] = h[s.arr][n]
  /\ \A n \in 1 .. Len(vals) : new[s.len + n] = vals[n]

\* What a slice holds after an append.
LEMMA AppendedRead ==
  ASSUME NEW h \in Heaps, NEW s, Fits(h, s), NEW vals \in Seq(Resource),
         NEW g \in Heaps, NEW t, Fits(g, t), t.arr # 0, t.len = s.len + Len(vals),
         Holding(g[t.arr], h, s, vals)
  PROVE  ReadIn(g, t) = ReadIn(h, s) \o vals
<1> USE DEF Holding
<1>0. s.len \in Nat /\ Len(vals) \in Nat /\ t.len \in Nat
  BY DEF Fits, Slice
<1>1. /\ ReadIn(g, t) \in Seq(Resource) /\ Len(ReadIn(g, t)) = t.len
      /\ \A n \in 1 .. t.len : ReadIn(g, t)[n] = g[t.arr][n]
  BY ReadFacts
<1>2. /\ ReadIn(h, s) \in Seq(Resource) /\ Len(ReadIn(h, s)) = s.len
      /\ \A n \in 1 .. s.len : ReadIn(h, s)[n] = h[s.arr][n]
  BY ReadFacts
<1>3. /\ ReadIn(h, s) \o vals \in Seq(Resource)
      /\ Len(ReadIn(h, s) \o vals) = t.len
  BY <1>2
<1>4. \A n \in 1 .. t.len : ReadIn(g, t)[n] = (ReadIn(h, s) \o vals)[n]
  <2> SUFFICES ASSUME NEW n \in 1 .. t.len
               PROVE  g[t.arr][n] = (ReadIn(h, s) \o vals)[n]
    BY <1>1
  <2>1. CASE n <= s.len
    <3>1. n \in 1 .. s.len
      BY <1>0, <2>1
    <3>2. (ReadIn(h, s) \o vals)[n] = ReadIn(h, s)[n]
      BY <1>0, <1>2, <3>1
    <3> QED
      BY <1>2, <3>1, <3>2
  <2>2. CASE n > s.len
    <3>1. n - s.len \in 1 .. Len(vals) /\ s.len + (n - s.len) = n
      BY <1>0, <2>2
    <3>2. g[t.arr][n] = vals[n - s.len]
      <4>1. g[t.arr][s.len + (n - s.len)] = vals[n - s.len]
        BY <3>1
      <4> QED
        BY <3>1, <4>1
    <3>3. (ReadIn(h, s) \o vals)[n] = vals[n - s.len]
      BY <1>0, <1>2, <2>2
    <3> QED
      BY <3>2, <3>3
  <2>3. n <= s.len \/ n > s.len
    BY <1>0
  <2> QED
    BY <2>1, <2>2, <2>3
<1> QED
  BY <1>1, <1>3, <1>4, SameSeq

\* The array that append writes, or copies to, holds what it should.
LEMMA WrittenHolds ==
  ASSUME NEW h \in Heaps, NEW s, Fits(h, s), NEW vals \in Seq(Resource),
         NEW old \in Seq(Resource), Len(old) = CapIn(h, s),
         s.arr # 0 => old = h[s.arr],
         NEW cap \in Nat, cap >= s.len + Len(vals)
  PROVE  /\ Written(old, s.len, vals, cap) \in Seq(Resource)
         /\ Len(Written(old, s.len, vals, cap)) = cap
         /\ Holding(Written(old, s.len, vals, cap), h, s, vals)
<1>1. s.len \in Nat /\ s.len <= Len(old)
  BY DEF Fits, Slice
<1>2. s.arr = 0 => s.len = 0
  BY ReadFacts
<1>3. PICK len : len = s.len
  OBVIOUS
<1>4. /\ Written(old, len, vals, cap) \in Seq(Resource)
      /\ Len(Written(old, len, vals, cap)) = cap
      /\ \A n \in 1 .. len : Written(old, len, vals, cap)[n] = old[n]
      /\ \A n \in 1 .. Len(vals) : Written(old, len, vals, cap)[len + n] = vals[n]
  <2>1. len \in Nat /\ len <= Len(old) /\ cap >= len + Len(vals)
    BY <1>1, <1>3
  <2> QED
    BY <2>1, WrittenFacts
<1>5. Holding(Written(old, len, vals, cap), h, s, vals)
  BY <1>1, <1>2, <1>3, <1>4 DEF Holding
<1> QED
  BY <1>3, <1>4, <1>5

\* An append in place.
LEMMA ExtendInPlace ==
  ASSUME NEW h \in Heaps, NEW s, Fits(h, s), NEW vals \in Seq(Resource),
         s.arr # 0, s.len + Len(vals) <= CapIn(h, s),
         NEW new \in Seq(Resource), Len(new) = CapIn(h, s), Holding(new, h, s, vals),
         NEW t \in Slice, t.arr = s.arr, t.len = s.len + Len(vals)
  PROVE  Extended(h, s, vals, [h EXCEPT ![s.arr] = new], t)
<1>1. PICK g : g = [h EXCEPT ![s.arr] = new]
  OBVIOUS
<1>2. /\ s.arr \in 1 .. Len(h) /\ s.len \in Nat /\ s.len <= Len(h[s.arr])
      /\ CapIn(h, s) = Len(h[s.arr])
      /\ h[s.arr] \in Seq(Resource) /\ Len(h[s.arr]) \in Nat /\ Len(vals) \in Nat
  BY DEF Fits, CapIn, Slice, Heaps
<1>3. g \in Heaps
  BY <1>1, <1>2 DEF Heaps
<1>4. /\ Len(g) = Len(h) /\ g[s.arr] = new /\ g[t.arr] = new
      /\ \A a \in 1 .. Len(h) : a # s.arr => g[a] = h[a]
  BY <1>1, <1>2 DEF Heaps
<1>5. Fits(g, t)
  BY <1>2, <1>4 DEF Fits, CapIn
<1>6. ReadIn(g, t) = ReadIn(h, s) \o vals
  BY <1>3, <1>4, <1>5, AppendedRead
<1>7. \A a \in 1 .. Len(h) :
         /\ Len(g[a]) = Len(h[a])
         /\ \A n \in 1 .. Len(h[a]) :
              a # s.arr \/ t.arr # s.arr \/ n <= s.len => g[a][n] = h[a][n]
  BY <1>2, <1>4 DEF Holding
<1>8. Extended(h, s, vals, g, t)
  BY <1>2, <1>3, <1>4, <1>5, <1>6, <1>7 DEF Extended
<1> QED
  BY <1>1, <1>8

\* An append that copies.
LEMMA ExtendCopies ==
  ASSUME NEW h \in Heaps, NEW s, Fits(h, s), NEW vals \in Seq(Resource),
         s.len + Len(vals) > CapIn(h, s),
         NEW new \in Seq(Resource), Len(new) >= s.len + Len(vals),
         Len(new) = Grow(CapIn(h, s), s.len + Len(vals)),
         Holding(new, h, s, vals),
         NEW t \in Slice, t.arr = Len(h) + 1, t.len = s.len + Len(vals)
  PROVE  Extended(h, s, vals, Append(h, new), t)
<1>1. PICK g : g = Append(h, new)
  OBVIOUS
<1>2. /\ s.arr \in 0 .. Len(h) /\ s.len \in Nat /\ Len(h) \in Nat /\ Len(vals) \in Nat
      /\ t.arr \in 1 .. Len(h) + 1 /\ s.arr # t.arr
  BY DEF Fits, Slice, Heaps
<1>3. g \in Heaps
  BY <1>1 DEF Heaps
<1>4. /\ Len(g) = Len(h) + 1 /\ g[t.arr] = new
      /\ \A a \in 1 .. Len(h) : g[a] = h[a]
  BY <1>1 DEF Heaps
<1>5. Fits(g, t)
  BY <1>2, <1>4 DEF Fits, CapIn
<1>6. ReadIn(g, t) = ReadIn(h, s) \o vals
  <2>1. t.arr # 0 /\ Holding(g[t.arr], h, s, vals)
    BY <1>2, <1>4
  <2> QED
    BY <1>3, <1>5, <2>1, AppendedRead
<1>7. Extended(h, s, vals, g, t)
  BY <1>2, <1>3, <1>4, <1>5, <1>6 DEF Extended
<1> QED
  BY <1>1, <1>7

\* What append does to the heap and to its own slice.
LEMMA ExtendEffect ==
  ASSUME heap \in Heaps, slices \in [ListNames -> Slice], NEW list \in ListNames,
         Fits(heap, slices[list]), NEW vals \in Seq(Resource), Extend(list, vals)
  PROVE  /\ Extended(heap, slices[list], vals, heap', slices'[list])
         /\ slices' = [slices EXCEPT ![list] = slices'[list]]
         /\ slices' \in [ListNames -> Slice]
<1>1. PICK s : s = slices[list]
  OBVIOUS
<1>2. PICK h : h = heap
  OBVIOUS
<1>3. PICK old : old = IF s.arr = 0 THEN << >> ELSE h[s.arr]
  OBVIOUS
<1>4. /\ h \in Heaps /\ Fits(h, s) /\ s \in Slice /\ s.len \in Nat /\ s.arr \in Nat
      /\ Cap(s) = CapIn(h, s) /\ Len(vals) \in Nat
  BY <1>1, <1>2 DEF Cap, CapIn, Slice
<1>5. /\ old \in Seq(Resource) /\ Len(old) = CapIn(h, s) /\ CapIn(h, s) \in Nat
      /\ s.arr # 0 => old = h[s.arr]
  BY <1>3, <1>4 DEF Fits, CapIn, Heaps
<1>6. CASE /\ s.len + Len(vals) <= CapIn(h, s)
           /\ heap' = IF s.arr = 0 THEN h
                      ELSE [h EXCEPT ![s.arr] = Written(old, s.len, vals, CapIn(h, s))]
           /\ slices' = [slices EXCEPT ![list].len = s.len + Len(vals)]
  <2>1. PICK t : t = [s EXCEPT !.len = s.len + Len(vals)]
    OBVIOUS
  <2>2. t \in Slice /\ t.arr = s.arr /\ t.len = s.len + Len(vals)
    <3>1. s = [arr |-> s.arr, len |-> s.len] /\ s.len + Len(vals) \in Nat
      BY <1>4 DEF Slice
    <3>2. t = [arr |-> s.arr, len |-> s.len + Len(vals)]
      BY <2>1, <3>1
    <3> QED
      BY <1>4, <3>1, <3>2 DEF Slice
  <2>3. slices' = [slices EXCEPT ![list] = t] /\ slices'[list] = t
    BY <1>1, <1>6, <2>1
  <2>4. CASE s.arr # 0
    <3>1. PICK new : new = Written(old, s.len, vals, CapIn(h, s))
      OBVIOUS
    <3>2. new \in Seq(Resource) /\ Len(new) = CapIn(h, s) /\ Holding(new, h, s, vals)
      BY <1>4, <1>5, <1>6, <3>1, WrittenHolds
    <3>3. heap' = [h EXCEPT ![s.arr] = new]
      BY <1>6, <2>4, <3>1
    <3>4. Extended(h, s, vals, [h EXCEPT ![s.arr] = new], t)
      BY <1>4, <1>6, <2>2, <2>4, <3>2, ExtendInPlace
    <3> QED
      BY <1>1, <1>2, <2>2, <2>3, <3>3, <3>4
  <2>5. CASE s.arr = 0
    <3>1. s.len = 0 /\ Len(vals) = 0 /\ t = s /\ heap' = h
      BY <1>4, <1>6, <2>2, <2>5 DEF CapIn, Slice
    <3>2. ReadIn(h, s) \o vals = ReadIn(h, s)
      BY <2>5, <3>1 DEF ReadIn
    <3>3. Extended(h, s, vals, h, s)
      BY <1>4, <1>6, <3>1, <3>2 DEF Extended
    <3> QED
      BY <1>1, <1>2, <2>2, <2>3, <3>1, <3>3
  <2> QED
    BY <2>4, <2>5
<1>7. CASE /\ s.len + Len(vals) > CapIn(h, s)
           /\ heap' = Append(h, Written(old, s.len, vals,
                                        Grow(CapIn(h, s), s.len + Len(vals))))
           /\ slices' = [slices EXCEPT ![list] = [arr |-> Len(heap'),
                                                  len |-> s.len + Len(vals)]]
  <2>1. PICK cap : cap = Grow(CapIn(h, s), s.len + Len(vals))
    OBVIOUS
  <2>2. cap \in Nat /\ cap >= s.len + Len(vals)
    <3>1. s.len + Len(vals) \in Nat
      BY <1>4
    <3> QED
      BY <1>5, <2>1, <3>1, GrowEnough
  <2>3. PICK new : new = Written(old, s.len, vals, cap)
    OBVIOUS
  <2>4. new \in Seq(Resource) /\ Len(new) = cap /\ Holding(new, h, s, vals)
    BY <1>4, <1>5, <2>2, <2>3, WrittenHolds
  <2>5. heap' = Append(h, new)
    BY <1>7, <2>1, <2>3
  <2>6. Len(heap') = Len(h) + 1 /\ Len(h) \in Nat
    BY <1>4, <2>5 DEF Heaps
  <2>7. PICK t : t = [arr |-> Len(h) + 1, len |-> s.len + Len(vals)]
    OBVIOUS
  <2>8. t \in Slice /\ t.arr = Len(h) + 1 /\ t.len = s.len + Len(vals)
    BY <1>4, <2>6, <2>7 DEF Slice
  <2>9. slices' = [slices EXCEPT ![list] = t] /\ slices'[list] = t
    BY <1>7, <2>6, <2>7
  <2>10. Extended(h, s, vals, Append(h, new), t)
    BY <1>4, <1>7, <2>1, <2>2, <2>4, <2>8, ExtendCopies
  <2> QED
    BY <1>1, <1>2, <2>5, <2>8, <2>9, <2>10
<1> QED
  BY <1>1, <1>2, <1>3, <1>4, <1>6, <1>7 DEF Extend

-----------------------------------------------------------------------------
(* Who may append to a shared array.                                        *)

\* The two lists that share an array after the assignment k8sDepends := vmDepends.
Shared == {"vmDepends", "k8sDepends"}

\* Every slice, a list or one that pulumi keeps, lies inside its array.
AllFit ==
  /\ heap \in Heaps
  /\ slices \in [ListNames -> Slice]
  /\ \A l \in ListNames : Fits(heap, slices[l])
  /\ \A r \in DOMAIN handed : Fits(heap, handed[r])

\* Of the lists, vmDepends and k8sDepends alone may share an array.
Apart ==
  \A l \in ListNames, m \in ListNames :
    l # m /\ slices[l].arr = slices[m].arr /\ slices[l].arr # 0
    => l \in Shared /\ m \in Shared

\* A slice s that shares its array with t does not reach beyond t.
Below(s, t) == s.arr = t.arr => s.len <= t.len

\* No slice of the array reaches behind the end of the list l: the list may be
\* appended to in place.
Owner(l) ==
  /\ \A m \in ListNames : Below(slices[m], slices[l])
  /\ \A r \in DOMAIN handed : Below(handed[r], slices[l])

\* A slice that ends before the one that is appended to keeps what it holds, and
\* so does every slice when the append copies.
LEMMA OthersKeep ==
  ASSUME NEW h \in Heaps, NEW s, Fits(h, s), NEW vals \in Seq(Resource), NEW g, NEW t,
         Extended(h, s, vals, g, t), NEW x, Fits(h, x), Below(x, s) \/ t.arr # s.arr
  PROVE  Fits(g, x) /\ ReadIn(g, x) = ReadIn(h, x)
<1>1. /\ g \in Heaps /\ Len(h) \in Nat /\ Len(h) <= Len(g)
      /\ x.arr \in Nat /\ x.len \in Nat /\ x.arr <= Len(h) /\ s.len \in Nat
      /\ x.arr = 0 => x.len = 0
      /\ x.arr # 0 => x.len <= Len(h[x.arr]) /\ Len(h[x.arr]) \in Nat
  <2>1. g \in Heaps /\ Len(h) \in Nat /\ Len(h) <= Len(g)
    BY DEF Extended, Heaps
  <2> QED
    BY <2>1 DEF Heaps, Fits, Slice, CapIn
<1>2. x.arr # 0 => Len(g[x.arr]) = Len(h[x.arr])
  BY <1>1 DEF Extended
<1>3. ASSUME NEW n \in 1 .. x.len
      PROVE  g[x.arr][n] = h[x.arr][n]
  <2>1. x.arr \in 1 .. Len(h) /\ n \in 1 .. Len(h[x.arr])
    BY <1>1
  <2>2. x.arr # s.arr \/ t.arr # s.arr \/ n <= s.len
    BY <1>1 DEF Below
  <2> QED
    BY <2>1, <2>2 DEF Extended
<1> QED
  BY <1>1, <1>2, <1>3, ReadSame

\* What an append leaves alone.
LEMMA ExtendKeeps ==
  ASSUME AllFit, Apart, NEW list \in ListNames, NEW vals \in Seq(Resource),
         Extend(list, vals), handed' = handed,
         \/ Owner(list)
         \/ slices[list].len + Len(vals) > Cap(slices[list])
  PROVE  /\ AllFit' /\ Apart' /\ Owner(list)'
         /\ slices'[list].arr \in {slices[list].arr, Len(heap) + 1}
         /\ ReadIn(heap', slices'[list]) = ReadIn(heap, slices[list]) \o vals
         /\ \A l \in ListNames \ {list} :
              /\ slices'[l] = slices[l]
              /\ ReadIn(heap', slices[l]) = ReadIn(heap, slices[l])
              /\ Owner(l) /\ (slices'[list].arr # slices[l].arr \/ slices[l].arr = 0)
                 => Owner(l)'
         /\ \A r \in DOMAIN handed : ReadIn(heap', handed[r]) = ReadIn(heap, handed[r])
<1>1. /\ heap \in Heaps /\ slices \in [ListNames -> Slice]
      /\ \A l \in ListNames : Fits(heap, slices[l]) /\ slices[l].arr \in Nat
           /\ slices[l].len \in Nat /\ slices[l].arr <= Len(heap)
      /\ \A r \in DOMAIN handed : Fits(heap, handed[r]) /\ handed[r].arr \in Nat
           /\ handed[r].len \in Nat /\ handed[r].arr <= Len(heap)
      /\ Len(heap) \in Nat /\ Len(vals) \in Nat
  BY DEF AllFit, Fits, Slice, Heaps
<1>2. PICK s : s = slices[list]
  OBVIOUS
<1>3. PICK t : t = slices'[list]
  OBVIOUS
<1>4. /\ Extended(heap, s, vals, heap', t)
      /\ slices' = [slices EXCEPT ![list] = t]
      /\ slices' \in [ListNames -> Slice]
  BY <1>1, <1>2, <1>3, ExtendEffect
<1>5. /\ heap' \in Heaps /\ Fits(heap', t) /\ t.len = s.len + Len(vals)
      /\ ReadIn(heap', t) = ReadIn(heap, s) \o vals
      /\ \/ t.arr = s.arr /\ t.len <= CapIn(heap, s)
         \/ t.arr = Len(heap) + 1 /\ t.len > CapIn(heap, s)
  BY <1>4 DEF Extended
<1>6. \A l \in ListNames \ {list} : slices'[l] = slices[l]
  BY <1>1, <1>4
<1>7. CapIn(heap, s) = Cap(s) /\ Fits(heap, s) /\ s.arr \in Nat /\ s.len \in Nat
      /\ s.arr <= Len(heap) /\ CapIn(heap, s) \in Nat
  BY <1>1, <1>2 DEF CapIn, Cap, Heaps
<1>8. Owner(list) \/ t.arr # s.arr
  BY <1>1, <1>2, <1>5, <1>7
<1>9. \A l \in ListNames : l # list =>
        Fits(heap', slices[l]) /\ ReadIn(heap', slices[l]) = ReadIn(heap, slices[l])
  <2> SUFFICES ASSUME NEW l \in ListNames, l # list
               PROVE  /\ Fits(heap', slices[l])
                      /\ ReadIn(heap', slices[l]) = ReadIn(heap, slices[l])
    OBVIOUS
  <2>1. Below(slices[l], s) \/ t.arr # s.arr
    BY <1>2, <1>8 DEF Owner
  <2> QED
    BY <1>1, <1>4, <1>7, <2>1, OthersKeep
<1>10. \A r \in DOMAIN handed :
        Fits(heap', handed[r]) /\ ReadIn(heap', handed[r]) = ReadIn(heap, handed[r])
  <2> SUFFICES ASSUME NEW r \in DOMAIN handed
               PROVE  /\ Fits(heap', handed[r])
                      /\ ReadIn(heap', handed[r]) = ReadIn(heap, handed[r])
    OBVIOUS
  <2>1. Below(handed[r], s) \/ t.arr # s.arr
    BY <1>2, <1>8 DEF Owner
  <2> QED
    BY <1>1, <1>4, <1>7, <2>1, OthersKeep
<1>11. AllFit'
  BY <1>3, <1>4, <1>5, <1>6, <1>9, <1>10 DEF AllFit
<1>12. Apart'
  <2> SUFFICES ASSUME NEW l \in ListNames, NEW m \in ListNames, l # m,
                      slices'[l].arr = slices'[m].arr, slices'[l].arr # 0
               PROVE  l \in Shared /\ m \in Shared
    BY DEF Apart
  <2>1. CASE l # list /\ m # list
    BY <1>6, <2>1 DEF Apart
  <2>2. CASE l = list
    BY <1>1, <1>2, <1>3, <1>5, <1>6, <2>2 DEF Apart
  <2>3. CASE m = list
    BY <1>1, <1>2, <1>3, <1>5, <1>6, <2>3 DEF Apart
  <2> QED
    BY <2>1, <2>2, <2>3
<1>13. Owner(list)'
  <2>1. \A m \in ListNames : Below(slices'[m], t)
    <3> SUFFICES ASSUME NEW m \in ListNames PROVE Below(slices'[m], t)
      OBVIOUS
    <3>1. CASE m = list
      BY <1>3, <1>5, <1>7, <3>1 DEF Below
    <3>2. CASE m # list /\ t.arr = s.arr
      <4>1. Below(slices[m], s)
        BY <1>2, <1>8, <3>2 DEF Owner
      <4> QED
        BY <1>1, <1>5, <1>6, <1>7, <3>2, <4>1 DEF Below
    <3>3. CASE m # list /\ t.arr # s.arr
      BY <1>1, <1>5, <1>6, <3>3 DEF Below
    <3> QED
      BY <3>1, <3>2, <3>3
  <2>2. \A r \in DOMAIN handed : Below(handed[r], t)
    <3> SUFFICES ASSUME NEW r \in DOMAIN handed PROVE Below(handed[r], t)
      OBVIOUS
    <3>1. CASE t.arr = s.arr
      <4>1. Below(handed[r], s)
        BY <1>2, <1>8, <3>1 DEF Owner
      <4> QED
        BY <1>1, <1>5, <1>7, <3>1, <4>1 DEF Below
    <3>2. CASE t.arr # s.arr
      BY <1>1, <1>5, <3>2 DEF Below
    <3> QED
      BY <3>1, <3>2
  <2> QED
    BY <1>3, <2>1, <2>2 DEF Owner
<1>14. ASSUME NEW l \in ListNames \ {list}, Owner(l),
              t.arr # slices[l].arr \/ slices[l].arr = 0
       PROVE  Owner(l)'
  <2>1. slices'[l] = slices[l]
    BY <1>6
  <2>2. Below(t, slices[l])
    <3>1. CASE t.arr # slices[l].arr
      BY <3>1 DEF Below
    <3>2. CASE t.arr = 0
      <4>1. t.len = 0
        BY <1>5, <3>2 DEF Fits, CapIn, Slice
      <4> QED
        BY <1>1, <4>1 DEF Below
    <3> QED
      BY <1>14, <3>1, <3>2
  <2>3. \A m \in ListNames : Below(slices'[m], slices[l])
    BY <1>3, <1>6, <1>14, <2>2 DEF Owner
  <2>4. \A r \in DOMAIN handed : Below(handed[r], slices[l])
    BY <1>14 DEF Owner
  <2> QED
    BY <2>1, <2>3, <2>4 DEF Owner
<1> QED
  BY <1>2, <1>3, <1>5, <1>6, <1>9, <1>10, <1>11, <1>12, <1>13, <1>14

-----------------------------------------------------------------------------
(* Slices are lists.                                                        *)

\* Every list may append in place, as nothing in its array reaches beyond it; but
\* while the nodes join, vmDepends is a part of the array of k8sDepends.
Sharing ==
  /\ \A l \in ListNames \ Shared : Owner(l)
  /\ \/ pos.at \in JoiningAt /\ slices["vmDepends"].arr = slices["k8sDepends"].arr
     \/ Owner("vmDepends")
  /\ pos.at \in PrimeAt => slices["k8sDepends"] = slices["vmDepends"]

\* The inductive invariant of the refinement.
SliceInv ==
  /\ shape \in Shape /\ pos \in Position
  /\ AllFit /\ Apart /\ Sharing

\* The lists as values, and what was handed over as values.
AbsLists == [l \in ListNames |-> Read(slices[l])]
AbsHanded == [r \in DOMAIN handed |-> Read(handed[r])]

\* Read is ReadIn of the present heap.
LEMMA ReadNow ==
  /\ \A s : Read(s) = ReadIn(heap, s)
  /\ \A s : CapIn(heap, s) = Cap(s)
  /\ AbsLists = [l \in ListNames |-> ReadIn(heap, slices[l])]
  /\ AbsLists' = [l \in ListNames |-> ReadIn(heap', slices'[l])]
  /\ AbsHanded = [r \in DOMAIN handed |-> ReadIn(heap, handed[r])]
  /\ AbsHanded' = [r \in DOMAIN handed' |-> ReadIn(heap', handed'[r])]
BY DEF Read, ReadIn, Cap, CapIn, AbsLists, AbsHanded

\* The numbers of a slice that fits.
LEMMA FitsTyped ==
  ASSUME NEW h \in Heaps, NEW s, Fits(h, s)
  PROVE  /\ s.arr \in Nat /\ s.len \in Nat /\ s.arr <= Len(h)
         /\ CapIn(h, s) \in Nat /\ Len(h) \in Nat
BY DEF Fits, Slice, CapIn, Heaps

\* An append that Unit makes.
LEMMA AppendStep ==
  ASSUME SliceInv, NoOverwrite, NEW s \in StepType, StepFits(pos, s),
         pos' \in Position, NextFits(shape, pos, pos'), shape' = shape,
         s.op \in {"append", "appendAll"}, NEW vals,
         vals = IF s.op = "append" THEN <<s.res>> ELSE Read(slices[s.other]),
         Extend(s.list, vals), handed' = handed
  PROVE  /\ SliceInv'
         /\ AbsLists' = [AbsLists EXCEPT ![s.list] = @ \o vals]
         /\ AbsHanded' = AbsHanded
<1>1. PICK list : list = s.list
  OBVIOUS
<1>2. list \in ListNames /\ s.other \in ListNames /\ s.res \in Resource
  BY <1>1 DEF StepType
<1>3. "vmDepends" \in ListNames /\ "k8sDepends" \in ListNames /\ Shared \subseteq ListNames
  BY DEF ListNames, Shared
<1>4. /\ AllFit /\ Apart /\ Sharing /\ heap \in Heaps
      /\ \A l \in ListNames : Fits(heap, slices[l])
  BY DEF SliceInv, AllFit
<1>5. vals \in Seq(Resource)
  <2>1. Read(slices[s.other]) \in Seq(Resource)
    BY <1>2, <1>4, ReadFacts, ReadNow
  <2> QED
    BY <1>2, <2>1
<1>6. Owner(list) \/ slices[list].len + Len(vals) > Cap(slices[list])
  <2>1. CASE list \notin Shared
    BY <1>2, <1>4, <2>1 DEF Sharing
  <2>2. CASE list = "k8sDepends"
    <3>1. pos.at = "primeDone"
      BY <1>1, <2>2 DEF StepFits
    <3>2. Owner("vmDepends") /\ slices["k8sDepends"] = slices["vmDepends"]
      BY <1>4, <3>1 DEF Sharing, JoiningAt, PrimeAt
    <3> QED
      BY <2>2, <3>2 DEF Owner
  <2>3. CASE list = "vmDepends" /\ Owner("vmDepends")
    BY <2>3
  <2>4. CASE list = "vmDepends" /\ ~Owner("vmDepends")
    <3>1. pos.at \in JoiningAt /\ slices["vmDepends"].arr = slices["k8sDepends"].arr
      BY <1>4, <2>4 DEF Sharing
    <3>2. pos.at = "joined"
      BY <1>1, <2>4, <3>1 DEF StepFits, MachineAt, JoiningAt, JoinedAt, OnlineAt
    <3>3. s.op = "appendAll" /\ s.other = "k8sDepends"
      BY <3>2 DEF StepFits
    <3>4. PICK k, v : k = slices["k8sDepends"] /\ v = slices["vmDepends"]
      OBVIOUS
    <3>5. Fits(heap, k) /\ Fits(heap, v)
      BY <1>3, <1>4, <3>4
    <3>6. k.len \in Nat /\ v.len \in Nat /\ Cap(v) \in Nat /\ Len(vals) = k.len
      <4>1. vals = ReadIn(heap, k) /\ CapIn(heap, v) = Cap(v)
        BY <3>3, <3>4, ReadNow
      <4>2. k.len \in Nat /\ v.len \in Nat /\ CapIn(heap, v) \in Nat
        BY <1>4, <3>5, FitsTyped
      <4>3. Len(ReadIn(heap, k)) = k.len
        BY <1>4, <3>5, ReadFacts
      <4> QED
        BY <4>1, <4>2, <4>3
    <3>7. ~(v.len + k.len <= Cap(v))
      BY <3>1, <3>2, <3>4 DEF NoOverwrite
    <3>8. v.len + k.len > Cap(v)
      BY <3>6, <3>7
    <3> QED
      BY <2>4, <3>4, <3>6, <3>8
  <2> QED
    BY <2>1, <2>2, <2>3, <2>4 DEF Shared
<1>7. /\ AllFit' /\ Apart' /\ Owner(list)'
      /\ slices'[list].arr \in {slices[list].arr, Len(heap) + 1}
      /\ ReadIn(heap', slices'[list]) = ReadIn(heap, slices[list]) \o vals
      /\ \A l \in ListNames \ {list} :
           /\ slices'[l] = slices[l]
           /\ ReadIn(heap', slices[l]) = ReadIn(heap, slices[l])
           /\ Owner(l) /\ (slices'[list].arr # slices[l].arr \/ slices[l].arr = 0)
              => Owner(l)'
      /\ \A r \in DOMAIN handed : ReadIn(heap', handed[r]) = ReadIn(heap, handed[r])
  BY <1>1, <1>2, <1>4, <1>5, <1>6, ExtendKeeps
<1>8. ASSUME NEW l \in ListNames \ {list}, l \notin Shared \/ list \notin Shared
      PROVE  slices'[list].arr # slices[l].arr \/ slices[l].arr = 0
  <2>1. slices[l].arr \in Nat /\ slices[l].arr <= Len(heap) /\ Len(heap) \in Nat
    BY <1>4 DEF Fits, Slice, Heaps
  <2>2. CASE slices'[list].arr = slices[list].arr
    BY <1>2, <1>4, <1>8, <2>2 DEF Apart
  <2>3. CASE slices'[list].arr = Len(heap) + 1
    BY <2>1, <2>3
  <2> QED
    BY <1>7, <2>2, <2>3
<1>9. Sharing'
  <2>1. \A l \in ListNames \ Shared : Owner(l)'
    <3> SUFFICES ASSUME NEW l \in ListNames \ Shared PROVE Owner(l)'
      OBVIOUS
    <3>1. CASE l = list
      BY <1>7, <3>1
    <3>2. CASE l # list
      BY <1>4, <1>7, <1>8, <3>2 DEF Sharing
    <3> QED
      BY <3>1, <3>2
  <2>2. \/ pos'.at \in JoiningAt /\ slices'["vmDepends"].arr = slices'["k8sDepends"].arr
        \/ Owner("vmDepends")'
    <3>1. CASE list = "vmDepends"
      BY <1>7, <3>1
    <3>2. CASE list = "k8sDepends"
      <4>1. pos.at = "primeDone"
        BY <1>1, <3>2 DEF StepFits
      <4>2. pos'.at \in JoiningAt /\ Owner("vmDepends")
        BY <1>4, <4>1 DEF NextFits, Sharing, JoiningAt
      <4>3. slices'["vmDepends"] = slices["vmDepends"]
        BY <1>3, <1>7, <3>2
      <4>4. CASE slices'["k8sDepends"].arr = slices["vmDepends"].arr
        BY <4>2, <4>3, <4>4
      <4>5. CASE slices'["k8sDepends"].arr # slices["vmDepends"].arr
        BY <1>3, <1>7, <3>2, <4>2, <4>5
      <4> QED
        BY <4>4, <4>5
    <3>3. CASE list \notin Shared /\ Owner("vmDepends")
      BY <1>3, <1>7, <1>8, <3>3 DEF Shared
    <3>4. CASE list \notin Shared /\ ~Owner("vmDepends")
      <4>1. pos.at \in JoiningAt /\ slices["vmDepends"].arr = slices["k8sDepends"].arr
        BY <1>4, <3>4 DEF Sharing
      <4>2. pos.at # "joined"
        BY <1>1, <3>4 DEF StepFits, Shared
      <4>3. pos'.at \in JoiningAt
        BY <4>1, <4>2 DEF NextFits
      <4> QED
        BY <1>3, <1>7, <3>4, <4>1, <4>3 DEF Shared
    <3> QED
      BY <3>1, <3>2, <3>3, <3>4 DEF Shared
  <2>3. pos'.at \notin PrimeAt
    BY DEF PrimeAt, NextFits, StepFits
  <2> QED
    BY <2>1, <2>2, <2>3 DEF Sharing
<1>10. AbsLists' = [AbsLists EXCEPT ![s.list] = @ \o vals]
  <2>1. /\ AbsLists = [l \in ListNames |-> ReadIn(heap, slices[l])]
        /\ AbsLists' = [l \in ListNames |-> ReadIn(heap', slices'[l])]
    BY ReadNow
  <2>2. \A l \in ListNames :
          ReadIn(heap', slices'[l]) = IF l = list THEN ReadIn(heap, slices[list]) \o vals
                                      ELSE ReadIn(heap, slices[l])
    BY <1>7
  <2> QED
    BY <1>1, <1>2, <2>1, <2>2
<1>11. AbsHanded' = AbsHanded
  BY <1>7, ReadNow
<1> QED
  BY <1>7, <1>9, <1>10, <1>11 DEF SliceInv

\* k8sDepends := vmDepends
LEMMA AssignStep ==
  ASSUME SliceInv, NEW s \in StepType, StepFits(pos, s),
         pos' \in Position, NextFits(shape, pos, pos'), shape' = shape,
         s.op = "assign", slices' = [slices EXCEPT ![s.list] = slices[s.other]],
         heap' = heap, handed' = handed
  PROVE  /\ SliceInv'
         /\ AbsLists' = [AbsLists EXCEPT ![s.list] = AbsLists[s.other]]
         /\ AbsHanded' = AbsHanded
<1>1. s.list = "k8sDepends" /\ s.other = "vmDepends" /\ pos.at = "assign"
  BY DEF StepFits
<1>2. "vmDepends" \in ListNames /\ "k8sDepends" \in ListNames
  BY DEF ListNames
<1>3. /\ AllFit /\ Apart /\ Sharing /\ slices \in [ListNames -> Slice]
      /\ Owner("vmDepends")
  BY <1>1 DEF SliceInv, AllFit, Sharing, JoiningAt
<1>4. /\ slices' \in [ListNames -> Slice]
      /\ slices'["k8sDepends"] = slices["vmDepends"]
      /\ \A l \in ListNames \ {"k8sDepends"} : slices'[l] = slices[l]
  BY <1>1, <1>2, <1>3
<1>5. AllFit'
  BY <1>2, <1>3, <1>4 DEF AllFit
<1>6. Apart'
  <2> SUFFICES ASSUME NEW l \in ListNames, NEW m \in ListNames, l # m,
                      slices'[l].arr = slices'[m].arr, slices'[l].arr # 0
               PROVE  l \in Shared /\ m \in Shared
    BY DEF Apart
  <2>1. CASE l # "k8sDepends" /\ m # "k8sDepends"
    BY <1>3, <1>4, <2>1 DEF Apart
  <2>2. CASE l = "k8sDepends"
    BY <1>2, <1>3, <1>4, <2>2 DEF Apart, Shared
  <2>3. CASE m = "k8sDepends"
    BY <1>2, <1>3, <1>4, <2>3 DEF Apart, Shared
  <2> QED
    BY <2>1, <2>2, <2>3
<1>7. \A l \in ListNames \ {"k8sDepends"} : Owner(l) => Owner(l)'
  BY <1>2, <1>4 DEF Owner
<1>8. Sharing'
  BY <1>2, <1>3, <1>4, <1>7 DEF Sharing, Shared
<1>9. AbsLists' = [AbsLists EXCEPT ![s.list] = AbsLists[s.other]]
  BY <1>1, <1>2, <1>4, ReadNow
<1>10. AbsHanded' = AbsHanded
  BY ReadNow
<1> QED
  BY <1>5, <1>6, <1>8, <1>9, <1>10 DEF SliceInv

\* A resource is registered with pulumi.DependsOn.
LEMMA HandStep ==
  ASSUME SliceInv, NEW s \in StepType, StepFits(pos, s),
         pos' \in Position, NextFits(shape, pos, pos'), shape' = shape,
         s.op = "hand", handed' = Register(handed, s.res, slices[s.list]),
         heap' = heap, slices' = slices
  PROVE  /\ SliceInv'
         /\ AbsLists' = AbsLists
         /\ AbsHanded' = Register(AbsHanded, s.res, AbsLists[s.list])
<1>1. /\ s.list \in Shared /\ s.list \in ListNames
      /\ pos.at \notin {"primeDone", "joined", "assign"}
  BY DEF StepFits, Shared, ListNames
<1>2. /\ DOMAIN handed' = DOMAIN handed \cup {s.res}
      /\ \A r \in DOMAIN handed' :
           handed'[r] = IF r = s.res THEN slices[s.list] ELSE handed[r]
  BY DEF Register
<1>3. AllFit /\ Apart /\ Sharing
  BY DEF SliceInv
<1>4. AllFit'
  BY <1>1, <1>2, <1>3 DEF AllFit
<1>5. Apart'
  BY <1>3 DEF Apart
<1>6. \A l \in ListNames : Owner(l) => Owner(l)'
  BY <1>1, <1>2 DEF Owner
<1>7. Sharing'
  <2>1. pos'.at \in PrimeAt => pos.at \in PrimeAt
    BY <1>1 DEF NextFits, PrimeAt
  <2>2. pos.at \in JoiningAt => pos'.at \in JoiningAt
    BY <1>1 DEF NextFits
  <2>3. "vmDepends" \in ListNames
    BY DEF ListNames
  <2> QED
    BY <1>3, <1>6, <2>1, <2>2, <2>3 DEF Sharing
<1>8. AbsLists' = AbsLists
  BY ReadNow
<1>9. AbsHanded' = Register(AbsHanded, s.res, AbsLists[s.list])
  <2>1. AbsLists[s.list] = ReadIn(heap, slices[s.list])
    BY <1>1, ReadNow
  <2> QED
    BY <1>2, <2>1, ReadNow DEF Register
<1> QED
  BY <1>4, <1>5, <1>7, <1>8, <1>9 DEF SliceInv

\* The script of the abstract specification is the same.
LEMMA SameScript ==
  ASSUME NEW sh, NEW p
  PROVE  Lists!LineAt(sh, p) = LineAt(sh, p)
<1> USE DEF Lists!Line, Lists!At, Lists!Res, Lists!Prime, Lists!End, Lists!Append1,
            Lists!AppendAll, Lists!DependsOn, Lists!Assign, Lists!MachinesOf, Line, At,
            Res, Prime, End, Append1, AppendAll, DependsOn, Assign, MachinesOf
<1>1. Lists!Machine(sh, p.i, p.j) = Machine(sh, p.i, p.j)
  BY DEF Machine, ToInput, ToMachine, Lists!Machine, Lists!ToInput, Lists!ToMachine
<1>2. Lists!AllMachines(sh) = AllMachines(sh)
  BY DEF AllMachines, ToK8s, ToOnline, Lists!AllMachines, Lists!ToK8s, Lists!ToOnline
<1>3. Lists!PrimeInstall(sh) = PrimeInstall(sh)
  BY DEF PrimeInstall, ToAdmin, ToWorker, Lists!PrimeInstall, Lists!ToAdmin, Lists!ToWorker
<1>4. Lists!Joins(sh, p.i) = Joins(sh, p.i)
  BY DEF Joins, ToAdmin, ToWorker, Lists!Joins, Lists!ToAdmin, Lists!ToWorker
<1>5. Lists!JoinedNodes(sh) = JoinedNodes(sh)
  BY DEF JoinedNodes, ToOnline, Lists!JoinedNodes, Lists!ToOnline
<1>6. Lists!Packages(sh) = Packages(sh)
  BY DEF Packages, ToHelmfile, IsHacked, Lists!Packages, Lists!ToHelmfile, Lists!IsHacked
<1>7. Lists!Helmfile(sh, p.i) = Helmfile(sh, p.i)
  BY DEF Helmfile, ToHelmfile, ToApplied, IsHacked, Lists!Helmfile, Lists!ToHelmfile,
    Lists!ToApplied, Lists!IsHacked
<1> QED
  BY <1>1, <1>2, <1>3, <1>4, <1>5, <1>6, <1>7 DEF LineAt, Lists!LineAt

\* A step of Unit keeps the invariant, and is one of the abstract specification.
LEMMA SliceStep ==
  ASSUME SliceInv, Next, NoOverwrite
  PROVE  SliceInv' /\ Lists!Next
<1>1. PICK s : s = LineAt(shape, pos).step
  OBVIOUS
<1>2. /\ shape \in Shape /\ pos \in Position /\ pos.at # "end" /\ shape' = shape
      /\ pos' = LineAt(shape, pos).next
  BY DEF SliceInv, Next
<1>3. /\ s \in StepType /\ StepFits(pos, s)
      /\ pos' \in Position /\ NextFits(shape, pos, pos')
  BY <1>1, <1>2, LineFits
<1>4. s.op \in {"append", "appendAll", "assign", "hand"}
      /\ s.list \in ListNames /\ s.other \in ListNames
  BY <1>3 DEF StepType
<1>5. Step(s)
  BY <1>1 DEF Next
<1>6. SliceInv' /\ Lists!Step(s)
  <2>1. CASE s.op \in {"append", "appendAll"}
    <3>1. PICK vals : vals = IF s.op = "append" THEN <<s.res>> ELSE Read(slices[s.other])
      OBVIOUS
    <3>2. Extend(s.list, vals) /\ handed' = handed
      BY <1>5, <2>1, <3>1 DEF Step
    <3>3. /\ SliceInv'
          /\ AbsLists' = [AbsLists EXCEPT ![s.list] = @ \o vals]
          /\ AbsHanded' = AbsHanded
      BY <1>2, <1>3, <2>1, <3>1, <3>2, AppendStep
    <3>4. s.op = "appendAll" => vals = AbsLists[s.other]
      BY <1>4, <3>1 DEF AbsLists
    <3> QED
      BY <2>1, <3>1, <3>3, <3>4 DEF Lists!Step, Lists!Extend, AbsLists, AbsHanded
  <2>2. CASE s.op = "assign"
    <3>1. /\ slices' = [slices EXCEPT ![s.list] = slices[s.other]]
          /\ heap' = heap /\ handed' = handed
      BY <1>5, <2>2 DEF Step
    <3>2. /\ SliceInv'
          /\ AbsLists' = [AbsLists EXCEPT ![s.list] = AbsLists[s.other]]
          /\ AbsHanded' = AbsHanded
      BY <1>2, <1>3, <2>2, <3>1, AssignStep
    <3> QED
      BY <2>2, <3>2 DEF Lists!Step, AbsLists, AbsHanded
  <2>3. CASE s.op = "hand"
    <3>1. /\ handed' = Register(handed, s.res, slices[s.list])
          /\ heap' = heap /\ slices' = slices
      BY <1>5, <2>3 DEF Step
    <3>2. /\ SliceInv'
          /\ AbsLists' = AbsLists
          /\ AbsHanded' = Register(AbsHanded, s.res, AbsLists[s.list])
      BY <1>2, <1>3, <2>3, <3>1, HandStep
    <3> QED
      BY <2>3, <3>2 DEF Lists!Step, Lists!Register, Register, AbsLists, AbsHanded
  <2> QED
    BY <1>4, <2>1, <2>2, <2>3
<1>7. Lists!Next
  BY <1>1, <1>2, <1>6, SameScript DEF Lists!Next
<1> QED
  BY <1>6, <1>7

\* The invariant holds at first.
LEMMA SliceStart == Init => SliceInv /\ Lists!Init
<1> SUFFICES ASSUME Init PROVE SliceInv /\ Lists!Init
  OBVIOUS
<1>1. shape \in Shape /\ pos \in Position /\ pos.at = "remoteOk"
  BY ShapesAssumption DEF Init, Start, At, Position, Labels, MachineAt
<1>2. /\ heap = << >> /\ slices = [l \in ListNames |-> Nil] /\ handed = << >>
      /\ Nil \in Slice /\ Nil.arr = 0 /\ Nil.len = 0
  BY DEF Init, Nil, Slice
<1>3. DOMAIN handed = {}
  BY <1>2
<1>4. heap \in Heaps /\ Len(heap) = 0
  BY <1>2 DEF Heaps
<1>5. Fits(heap, Nil)
  BY <1>2, <1>4 DEF Fits, CapIn
<1>6. AllFit
  BY <1>2, <1>3, <1>4, <1>5 DEF AllFit
<1>7. Apart
  BY <1>2 DEF Apart
<1>8. \A l \in ListNames : Owner(l)
  BY <1>2, <1>3 DEF Owner, Below
<1>9. Sharing
  BY <1>1, <1>8 DEF Sharing, PrimeAt, ListNames
<1>10. AbsLists = [l \in ListNames |-> << >>]
  BY <1>2 DEF AbsLists, Read
<1>11. AbsHanded = << >>
  BY <1>2, <1>3 DEF AbsHanded
<1> QED
  BY <1>1, <1>6, <1>7, <1>9, <1>10, <1>11
  DEF SliceInv, Init, Lists!Init, Lists!Start, Start, Lists!At, At, AbsLists, AbsHanded,
      Lists!ListNames, ListNames

\* SlicesAreLists, while NoOverwrite: the slices of libvirt.Unit, two of which share
\* an array from the assignment to k8sDepends on, implement lists that are values,
\* and so does what pulumi.DependsOn was handed and reads later.
THEOREM SlicesRefineLists == Spec /\ []NoOverwrite => SlicesAreLists
<1>1. Init => SliceInv /\ Lists!Init
  BY SliceStart
<1>2. SliceInv /\ NoOverwrite /\ [Next]_vars => SliceInv' /\ [Lists!Next]_Lists!vars
  <2> SUFFICES ASSUME SliceInv, NoOverwrite, [Next]_vars
               PROVE  SliceInv' /\ [Lists!Next]_Lists!vars
    OBVIOUS
  <2>1. CASE Next
    BY <2>1, SliceStep
  <2>2. CASE UNCHANGED vars
    <3>1. UNCHANGED Lists!vars
      BY <2>2 DEF vars, Lists!vars, Read
    <3>2. SliceInv'
      BY <2>2 DEF vars, SliceInv, AllFit, Apart, Sharing, Owner
    <3> QED
      BY <3>1, <3>2
  <2> QED
    BY <2>1, <2>2
<1> QED
  BY <1>1, <1>2, PTL DEF Spec, SlicesAreLists, Lists!Spec

-----------------------------------------------------------------------------
(* Everyone depends on the prime install.                                   *)

\* Where the prime install has been appended to k8sDepends.
PrimeAppended ==
  pos.at \in JoiningAt \cup JoinedAt \/ (shape.k8s /\ pos.at \in OnlineAt)

\* The inductive invariant of EveryoneDependsOnPrime.
PrimeInv ==
  /\ EveryoneDependsOnPrime
  /\ PrimeAppended => Has(Read(slices["k8sDepends"]), Prime)

\* What a list has it keeps when it is appended to, and it has what is appended.
LEMMA HasAppended ==
  ASSUME NEW a \in Seq(Resource), NEW b \in Seq(Resource), NEW r
  PROVE  Has(a \o b, r) <=> Has(a, r) \/ Has(b, r)
<1>1. /\ Len(a \o b) = Len(a) + Len(b) /\ Len(a) \in Nat /\ Len(b) \in Nat
      /\ \A n \in 1 .. Len(a) : (a \o b)[n] = a[n]
  OBVIOUS
<1>2. \A n \in 1 .. Len(b) : (a \o b)[Len(a) + n] = b[n]
  OBVIOUS
<1>3. Has(a, r) => Has(a \o b, r)
  BY <1>1 DEF Has
<1>4. Has(b, r) => Has(a \o b, r)
  <2> SUFFICES ASSUME NEW n \in 1 .. Len(b), b[n] = r PROVE Has(a \o b, r)
    BY DEF Has
  <2>1. Len(a) + n \in 1 .. Len(a \o b) /\ (a \o b)[Len(a) + n] = r
    BY <1>1, <1>2
  <2> QED
    BY <2>1 DEF Has
<1>5. Has(a \o b, r) => Has(a, r) \/ Has(b, r)
  <2> SUFFICES ASSUME NEW n \in 1 .. Len(a \o b), (a \o b)[n] = r
               PROVE  Has(a, r) \/ Has(b, r)
    BY DEF Has
  <2>1. CASE n <= Len(a)
    BY <1>1, <2>1 DEF Has
  <2>2. CASE n > Len(a)
    <3>1. n - Len(a) \in 1 .. Len(b) /\ Len(a) + (n - Len(a)) = n
      BY <1>1, <2>2
    <3>2. b[n - Len(a)] = r
      <4>1. (a \o b)[Len(a) + (n - Len(a))] = b[n - Len(a)]
        BY <1>2, <3>1
      <4> QED
        BY <3>1, <4>1
    <3> QED
      BY <3>1, <3>2 DEF Has
  <2>3. n <= Len(a) \/ n > Len(a)
    BY <1>1
  <2> QED
    BY <2>1, <2>2, <2>3
<1> QED
  BY <1>3, <1>4, <1>5

\* Both kinds of reading, of a heap whose slices fit.
LEMMA ReadsTyped ==
  ASSUME AllFit
  PROVE  /\ \A l \in ListNames : Read(slices[l]) \in Seq(Resource)
         /\ \A l \in ListNames : Len(Read(slices[l])) = slices[l].len
<1>1. heap \in Heaps /\ \A l \in ListNames : Fits(heap, slices[l])
  BY DEF AllFit
<1> QED
  BY <1>1, ReadNow, ReadFacts

\* A step of Unit, in terms of the lists as values.
AbsStep(s) ==
  \/ /\ s.op = "append"
     /\ AbsLists' = [AbsLists EXCEPT ![s.list] = @ \o <<s.res>>]
     /\ AbsHanded' = AbsHanded
  \/ /\ s.op = "appendAll"
     /\ AbsLists' = [AbsLists EXCEPT ![s.list] = @ \o AbsLists[s.other]]
     /\ AbsHanded' = AbsHanded
  \/ /\ s.op = "assign"
     /\ AbsLists' = [AbsLists EXCEPT ![s.list] = AbsLists[s.other]]
     /\ AbsHanded' = AbsHanded
  \/ /\ s.op = "hand"
     /\ AbsHanded' = Register(AbsHanded, s.res, AbsLists[s.list])
     /\ AbsLists' = AbsLists

\* Such a step.
LEMMA ValueStep ==
  ASSUME SliceInv, Next, NoOverwrite
  PROVE  \E s \in StepType :
           /\ StepFits(pos, s) /\ NextFits(shape, pos, pos') /\ shape' = shape
           /\ Step(s) /\ AbsStep(s)
<1>1. PICK s : s = LineAt(shape, pos).step
  OBVIOUS
<1>2. shape \in Shape /\ pos \in Position /\ pos.at # "end" /\ shape' = shape
      /\ pos' = LineAt(shape, pos).next /\ Step(s)
  BY <1>1 DEF SliceInv, Next
<1>3. s \in StepType /\ StepFits(pos, s) /\ NextFits(shape, pos, pos')
  BY <1>1, <1>2, LineFits
<1>4. Lists!Next
  BY SliceStep
<1>5. Lists!Step(s)
  BY <1>1, <1>4, SameScript DEF Lists!Next
<1>6. AbsStep(s)
  BY <1>5
  DEF AbsStep, AbsLists, AbsHanded, Lists!Step, Lists!Extend, Lists!Register, Register
<1> QED
  BY <1>2, <1>3, <1>6

\* What everyone depends on, in terms of the values.
LEMMA EveryoneValue ==
  /\ EveryoneDependsOnPrime <=>
       \A r \in DOMAIN AbsHanded :
         r.kind \in {"kubeconfig", "k8sAdmin", "k8sWorker"}
           \/ (r.kind = "kubeVipFile" /\ shape.k8s)
         => Has(AbsHanded[r], Prime)
  /\ EveryoneDependsOnPrime' <=>
       \A r \in DOMAIN AbsHanded' :
         r.kind \in {"kubeconfig", "k8sAdmin", "k8sWorker"}
           \/ (r.kind = "kubeVipFile" /\ shape'.k8s)
         => Has(AbsHanded'[r], Prime)
BY DEF EveryoneDependsOnPrime, AbsHanded

\* A step of Unit keeps the prime install where it is.
LEMMA PrimeStep ==
  ASSUME SliceInv, PrimeInv, Next, NoOverwrite
  PROVE  PrimeInv'
<1>1. PICK s \in StepType :
        /\ StepFits(pos, s) /\ NextFits(shape, pos, pos') /\ shape' = shape
        /\ Step(s) /\ AbsStep(s)
  BY ValueStep
<1>2. s.list \in ListNames /\ s.other \in ListNames /\ s.res \in Resource
  BY DEF StepType
<1>3. "k8sDepends" \in ListNames
  BY DEF ListNames
<1>4. \A l \in ListNames : AbsLists[l] \in Seq(Resource)
  BY ReadsTyped DEF AbsLists, SliceInv
<1>5. /\ Read(slices["k8sDepends"]) = AbsLists["k8sDepends"]
      /\ Read(slices["k8sDepends"])' = AbsLists'["k8sDepends"]
  BY <1>3 DEF AbsLists
<1>6. pos \in Position /\ pos.at # "end"
  BY DEF SliceInv, Next
<1>7. PrimeAppended' => PrimeAppended \/ pos.at = "primeDone"
  BY <1>1, <1>6 DEF PrimeAppended, NextFits, Position, Labels, MachineAt, BeforeK8sAt,
    PrimeAt, JoiningAt, JoinedAt, OnlineAt
<1>8. ASSUME PrimeAppended' PROVE Has(AbsLists'["k8sDepends"], Prime)
  <2>1. CASE pos.at = "primeDone"
    <3>1. s.op = "append" /\ s.list = "k8sDepends" /\ s.res = Prime
      BY <1>1, <2>1 DEF StepFits, StepType
    <3>2. AbsLists'["k8sDepends"] = AbsLists["k8sDepends"] \o <<Prime>>
      BY <1>1, <1>3, <3>1 DEF AbsStep, AbsLists
    <3>3. <<Prime>> \in Seq(Resource) /\ Has(<<Prime>>, Prime)
      BY <1>2, <3>1 DEF Has
    <3>4. PICK a : a = AbsLists["k8sDepends"]
      OBVIOUS
    <3>5. Has(a \o <<Prime>>, Prime)
      BY <1>3, <1>4, <3>3, <3>4, HasAppended
    <3> QED
      BY <3>2, <3>4, <3>5
  <2>2. CASE pos.at # "primeDone"
    <3>1. PrimeAppended
      BY <1>7, <1>8, <2>2
    <3>2. Has(AbsLists["k8sDepends"], Prime)
      BY <1>5, <3>1 DEF PrimeInv
    <3>3. pos.at # "assign"
      BY <3>1 DEF PrimeAppended, JoiningAt, JoinedAt, OnlineAt
    <3>4. s.op = "hand" \/ s.list # "k8sDepends"
      BY <1>1, <2>2, <3>3 DEF StepFits, StepType
    <3>5. AbsLists'["k8sDepends"] = AbsLists["k8sDepends"]
      BY <1>1, <1>2, <1>3, <3>4 DEF AbsStep, AbsLists
    <3> QED
      BY <3>2, <3>5
  <2> QED
    BY <2>1, <2>2
<1>9. EveryoneDependsOnPrime'
  <2>1. CASE s.op # "hand"
    <3>1. AbsHanded' = AbsHanded
      BY <1>1, <2>1 DEF AbsStep
    <3> QED
      BY <1>1, <3>1, EveryoneValue DEF PrimeInv
  <2>2. CASE s.op = "hand"
    <3>1. AbsHanded' = Register(AbsHanded, s.res, AbsLists[s.list])
      BY <1>1, <2>2 DEF AbsStep
    <3>2. \/ s.res.kind \in {"kubeconfig", "k8sAdmin", "k8sWorker"}
          \/ s.res.kind = "kubeVipFile" /\ shape.k8s
          => Has(AbsLists[s.list], Prime)
      <4> SUFFICES ASSUME \/ s.res.kind \in {"kubeconfig", "k8sAdmin", "k8sWorker"}
                          \/ s.res.kind = "kubeVipFile" /\ shape.k8s
                   PROVE  Has(AbsLists[s.list], Prime)
        OBVIOUS
      <4>1. s.list = "k8sDepends" /\ PrimeAppended
        BY <1>1, <2>2 DEF StepFits, PrimeAppended
      <4> QED
        BY <1>5, <4>1 DEF PrimeInv
    <3> QED
      BY <1>1, <3>1, <3>2, EveryoneValue DEF PrimeInv, Register
  <2> QED
    BY <2>1, <2>2
<1> QED
  BY <1>5, <1>8, <1>9 DEF PrimeInv

\* EveryoneDependsOnPrime, while NoOverwrite: in every unit, whenever pulumi reads
\* what it was handed for a node that joins, or for a kubeconfig, it finds there the
\* install of the prime node.
THEOREM PrimeWhileNoOverwrite == Spec /\ []NoOverwrite => []EveryoneDependsOnPrime
<1>1. Init => SliceInv /\ PrimeInv
  <2> SUFFICES ASSUME Init PROVE SliceInv /\ PrimeInv
    OBVIOUS
  <2>1. DOMAIN handed = {} /\ pos.at = "remoteOk"
    BY DEF Init, Start, At
  <2> QED
    BY <2>1, SliceStart
    DEF PrimeInv, EveryoneDependsOnPrime, PrimeAppended, JoiningAt, JoinedAt, OnlineAt
<1>2. SliceInv /\ PrimeInv /\ NoOverwrite /\ [Next]_vars => SliceInv' /\ PrimeInv'
  <2> SUFFICES ASSUME SliceInv, PrimeInv, NoOverwrite, [Next]_vars
               PROVE  SliceInv' /\ PrimeInv'
    OBVIOUS
  <2>1. CASE Next
    BY <2>1, SliceStep, PrimeStep
  <2>2. CASE UNCHANGED vars
    BY <2>2 DEF vars, SliceInv, AllFit, Apart, Sharing, Owner, PrimeInv, PrimeAppended,
      EveryoneDependsOnPrime, Read
  <2> QED
    BY <2>1, <2>2
<1>3. PrimeInv => EveryoneDependsOnPrime
  BY DEF PrimeInv
<1> QED
  BY <1>1, <1>2, <1>3, PTL DEF Spec

-----------------------------------------------------------------------------
(* Until the joins are collected.                                           *)

\* The labels behind the append of k8sDepends to vmDepends.
LateAt == JoinedAt \cup OnlineAt \cup {"end"}

\* Until this append: vmDepends does not hold the prime install, k8sDepends holds
\* one more, and pulumi keeps the slice of k8sDepends for the kubeconfig.
EarlyInv ==
  /\ ~Has(Read(slices["vmDepends"]), Prime)
  /\ ~Has(Read(slices["fileDepends"]), Prime)
  /\ pos.at # "remoteOk" => slices["vmDepends"].len > 0
  /\ pos.at \in JoiningAt => slices["k8sDepends"].len = slices["vmDepends"].len + 1
  /\ pos.at \in JoiningAt \ {"kubeconfig"} =>
       \E r \in DOMAIN handed :
         r.kind = "kubeconfig" /\ handed[r] = slices["k8sDepends"]

\* A step before the joins are collected.
LEMMA EarlyStep ==
  ASSUME SliceInv, EarlyInv, Next, pos.at \notin LateAt \cup {"joined"}
  PROVE  SliceInv' /\ EarlyInv'
<1>1. NoOverwrite
  BY DEF NoOverwrite
<1>2. SliceInv'
  BY <1>1, SliceStep
<1>3. PICK s \in StepType :
        /\ StepFits(pos, s) /\ NextFits(shape, pos, pos') /\ shape' = shape
        /\ Step(s) /\ AbsStep(s)
  BY <1>1, ValueStep
<1>4. /\ s.list \in ListNames /\ s.other \in ListNames /\ s.res \in Resource
      /\ s.op \in {"append", "appendAll", "assign", "hand"}
  BY DEF StepType
<1>5. /\ "k8sDepends" \in ListNames /\ "vmDepends" \in ListNames
      /\ "fileDepends" \in ListNames
  BY DEF ListNames
<1>6. \A l \in ListNames :
        /\ AbsLists[l] \in Seq(Resource) /\ AbsLists[l] = Read(slices[l])
        /\ Len(AbsLists[l]) = slices[l].len /\ slices[l].len \in Nat
  BY ReadsTyped DEF AbsLists, SliceInv
<1>7. \A l \in ListNames :
        /\ AbsLists'[l] \in Seq(Resource) /\ AbsLists'[l] = Read(slices[l])'
        /\ Len(AbsLists'[l]) = slices'[l].len /\ slices'[l].len \in Nat
  <2>1. AllFit'
    BY <1>2 DEF SliceInv
  <2>2. \A l \in ListNames : Fits(heap', slices'[l]) /\ heap' \in Heaps
    BY <2>1 DEF AllFit
  <2>3. \A l \in ListNames : AbsLists'[l] = ReadIn(heap', slices'[l])
    BY ReadNow
  <2>4. \A l \in ListNames : AbsLists'[l] = Read(slices[l])'
    BY DEF AbsLists
  <2> QED
    BY <2>2, <2>3, <2>4, ReadFacts
<1>8. pos \in Position /\ pos.at \in Labels /\ pos.at # "end"
  BY DEF SliceInv, Next, Position
<1>9. pos.at \in MachineAt \/ (s.op = "hand" \/ s.list \notin {"vmDepends", "fileDepends"})
  BY <1>3, <1>4, <1>8 DEF StepFits, LateAt
<1>10. CASE pos.at \notin MachineAt
  <2>1. /\ AbsLists'["vmDepends"] = AbsLists["vmDepends"]
        /\ AbsLists'["fileDepends"] = AbsLists["fileDepends"]
    BY <1>3, <1>4, <1>5, <1>9, <1>10 DEF AbsStep, AbsLists
  <2>2. slices'["vmDepends"].len = slices["vmDepends"].len
    BY <1>5, <1>6, <1>7, <2>1
  <2>3. pos'.at \in JoiningAt => slices'["k8sDepends"].len = slices'["vmDepends"].len + 1
    <3> SUFFICES ASSUME pos'.at \in JoiningAt
                 PROVE  slices'["k8sDepends"].len = slices["vmDepends"].len + 1
      BY <2>2
    <3>1. CASE pos.at = "primeDone"
      <4>1. s.op = "append" /\ s.list = "k8sDepends" /\ s.res = Prime
        BY <1>3, <1>4, <3>1 DEF StepFits
      <4>2. slices["k8sDepends"] = slices["vmDepends"]
        BY <3>1 DEF SliceInv, Sharing, PrimeAt
      <4>3. PICK a : a = AbsLists["k8sDepends"]
        OBVIOUS
      <4>4. AbsLists'["k8sDepends"] = a \o <<Prime>>
        BY <1>3, <1>5, <4>1, <4>3 DEF AbsStep, AbsLists
      <4>5. Len(a \o <<Prime>>) = Len(a) + 1
        BY <1>4, <1>5, <1>6, <4>1, <4>3
      <4> QED
        BY <1>5, <1>6, <1>7, <4>2, <4>3, <4>4, <4>5
    <3>2. CASE pos.at # "primeDone"
      <4>1. pos.at \in JoiningAt
        BY <1>3, <3>2 DEF NextFits
      <4>2. s.op = "hand" \/ s.list # "k8sDepends"
        BY <1>3, <1>4, <4>1 DEF StepFits, JoiningAt
      <4>3. AbsLists'["k8sDepends"] = AbsLists["k8sDepends"]
        BY <1>3, <1>4, <1>5, <4>2 DEF AbsStep, AbsLists
      <4> QED
        BY <1>5, <1>6, <1>7, <4>1, <4>3 DEF EarlyInv
    <3> QED
      BY <3>1, <3>2
  <2>4. pos'.at \in JoiningAt \ {"kubeconfig"} =>
          \E r \in DOMAIN handed' :
            r.kind = "kubeconfig" /\ handed'[r] = slices'["k8sDepends"]
    <3> SUFFICES ASSUME pos'.at \in JoiningAt \ {"kubeconfig"}
                 PROVE  \E r \in DOMAIN handed' :
                          r.kind = "kubeconfig" /\ handed'[r] = slices'["k8sDepends"]
      OBVIOUS
    <3>1. pos.at \in JoiningAt /\ pos.at # "primeDone"
      BY <1>3 DEF NextFits, JoiningAt
    <3>2. CASE s.op = "hand"
      <4>1. /\ s.list = "k8sDepends" /\ slices' = slices
            /\ handed' = Register(handed, s.res, slices["k8sDepends"])
        BY <1>3, <3>1, <3>2 DEF StepFits, Step
      <4>2. CASE pos.at = "kubeconfig"
        <5>1. s.res.kind = "kubeconfig"
          BY <1>3, <4>2 DEF StepFits
        <5>2. s.res \in DOMAIN handed' /\ handed'[s.res] = slices'["k8sDepends"]
          BY <4>1 DEF Register
        <5> QED
          BY <5>1, <5>2
      <4>3. CASE pos.at # "kubeconfig"
        <5>1. PICK r \in DOMAIN handed :
                r.kind = "kubeconfig" /\ handed[r] = slices["k8sDepends"]
          BY <3>1, <4>3 DEF EarlyInv
        <5>2. r \in DOMAIN handed' /\ handed'[r] = slices'["k8sDepends"]
          BY <4>1, <5>1 DEF Register
        <5> QED
          BY <5>1, <5>2
      <4> QED
        BY <4>2, <4>3
    <3>3. CASE s.op # "hand"
      <4>1. pos.at # "kubeconfig" /\ s.list # "k8sDepends" /\ s.op \in {"append", "appendAll"}
        BY <1>3, <1>4, <3>1, <3>3 DEF StepFits, JoiningAt
      <4>2. /\ slices'["k8sDepends"] = slices["k8sDepends"]
            /\ handed' = handed
        BY <1>3, <1>4, <1>5, <4>1 DEF Step, Extend, SliceInv, AllFit
      <4> QED
        BY <3>1, <4>1, <4>2 DEF EarlyInv
    <3> QED
      BY <3>2, <3>3
  <2>5. slices["vmDepends"].len > 0
    BY <1>10 DEF EarlyInv, MachineAt
  <2> QED
    BY <1>2, <1>5, <1>6, <1>7, <2>1, <2>2, <2>3, <2>4, <2>5 DEF EarlyInv
<1>11. CASE pos.at \in MachineAt
  <2>1. pos'.at \notin JoiningAt
    BY <1>3, <1>11 DEF NextFits, MachineAt, JoiningAt
  <2>2. PICK v, f : v = AbsLists["vmDepends"] /\ f = AbsLists["fileDepends"]
    OBVIOUS
  <2>3. /\ v \in Seq(Resource) /\ f \in Seq(Resource) /\ ~Has(v, Prime) /\ ~Has(f, Prime)
        /\ Len(v) \in Nat /\ (pos.at # "remoteOk" => Len(v) > 0)
    BY <1>5, <1>6, <2>2 DEF EarlyInv
  <2>4. CASE s.op = "append"
    <3>1. PICK b : b = <<s.res>>
      OBVIOUS
    <3>2. b \in Seq(Resource) /\ Len(b) = 1 /\ ~Has(b, Prime)
      <4>1. s.res # Prime
        BY <1>3, <1>11, <2>4 DEF StepFits, Prime, Res
      <4> QED
        BY <1>4, <3>1, <4>1 DEF Has
    <3>3. ~Has(v \o b, Prime) /\ ~Has(f \o b, Prime) /\ Len(v \o b) = Len(v) + 1
      <4>1. ~Has(v \o b, Prime)
        BY <2>3, <3>2, HasAppended
      <4>2. ~Has(f \o b, Prime)
        BY <2>3, <3>2, HasAppended
      <4>3. Len(v \o b) = Len(v) + Len(b)
        <5>1. v \in Seq(Resource) /\ b \in Seq(Resource)
          BY <2>3, <3>2
        <5> QED
          BY <5>1
      <4> QED
        BY <3>2, <4>1, <4>2, <4>3
    <3>4. /\ AbsLists'["vmDepends"] = IF s.list = "vmDepends" THEN v \o b ELSE v
          /\ AbsLists'["fileDepends"] = IF s.list = "fileDepends" THEN f \o b ELSE f
      BY <1>3, <1>5, <2>2, <2>4, <3>1 DEF AbsStep, AbsLists
    <3>5. pos.at = "remoteOk" => s.list = "vmDepends"
      BY <1>3 DEF StepFits
    <3>6. ~Has(AbsLists'["vmDepends"], Prime) /\ ~Has(AbsLists'["fileDepends"], Prime)
          /\ Len(AbsLists'["vmDepends"]) > 0
      BY <2>3, <3>3, <3>4, <3>5
    <3> QED
      BY <1>2, <1>5, <1>7, <2>1, <3>6 DEF EarlyInv
  <2>5. CASE s.op = "appendAll"
    <3>1. s.list = "vmDepends" /\ s.other = "fileDepends" /\ pos.at # "remoteOk"
      BY <1>3, <1>11, <2>5 DEF StepFits
    <3>2. ~Has(v \o f, Prime) /\ Len(v \o f) = Len(v) + Len(f) /\ Len(f) \in Nat
      BY <2>3, HasAppended
    <3>3. AbsLists'["vmDepends"] = v \o f /\ AbsLists'["fileDepends"] = f
      BY <1>3, <1>5, <2>2, <2>5, <3>1 DEF AbsStep, AbsLists
    <3>4. ~Has(AbsLists'["vmDepends"], Prime) /\ ~Has(AbsLists'["fileDepends"], Prime)
          /\ Len(AbsLists'["vmDepends"]) > 0
      BY <2>3, <3>1, <3>2, <3>3
    <3> QED
      BY <1>2, <1>5, <1>7, <2>1, <3>4 DEF EarlyInv
  <2>6. CASE s.op = "hand"
    <3>1. AbsLists' = AbsLists /\ pos.at # "remoteOk"
      BY <1>3, <2>6 DEF AbsStep, StepFits
    <3>2. ~Has(AbsLists'["vmDepends"], Prime) /\ ~Has(AbsLists'["fileDepends"], Prime)
          /\ Len(AbsLists'["vmDepends"]) > 0
      BY <2>2, <2>3, <3>1
    <3> QED
      BY <1>2, <1>5, <1>7, <2>1, <3>2 DEF EarlyInv
  <2>7. s.op # "assign"
    BY <1>3, <1>11 DEF StepFits, MachineAt
  <2> QED
    BY <1>4, <2>4, <2>5, <2>6, <2>7
<1> QED
  BY <1>10, <1>11

\* The append of k8sDepends to vmDepends in an array that both share writes the
\* first of the machines over the prime install.
LEMMA JoinedOverwrites ==
  ASSUME SliceInv, EarlyInv, Next, ~NoOverwrite
  PROVE  ~EveryoneDependsOnPrime'
<1>1. PICK v, k : v = slices["vmDepends"] /\ k = slices["k8sDepends"]
  OBVIOUS
<1>2. /\ pos.at = "joined" /\ v.arr = k.arr /\ v.len + k.len <= Cap(v)
      /\ k.len = v.len + 1 /\ v.len > 0
  BY <1>1 DEF NoOverwrite, EarlyInv, JoiningAt
<1>3. PICK r \in DOMAIN handed : r.kind = "kubeconfig" /\ handed[r] = k
  BY <1>1, <1>2 DEF EarlyInv, JoiningAt
<1>4. PICK s : s = LineAt(shape, pos).step
  OBVIOUS
<1>5. /\ s \in StepType /\ StepFits(pos, s) /\ Step(s)
      /\ s.op \in {"append", "appendAll", "assign", "hand"}
  BY <1>4, LineFits DEF SliceInv, Next, StepType
<1>6. s.op = "appendAll" /\ s.list = "vmDepends" /\ s.other = "k8sDepends"
  BY <1>2, <1>5 DEF StepFits
<1>7. Extend("vmDepends", Read(k)) /\ handed' = handed
  BY <1>1, <1>5, <1>6 DEF Step
<1>8. /\ heap \in Heaps /\ slices \in [ListNames -> Slice]
      /\ Fits(heap, v) /\ Fits(heap, k) /\ "vmDepends" \in ListNames
  BY <1>1 DEF SliceInv, AllFit, ListNames
<1>9. /\ Read(k) = ReadIn(heap, k) /\ Read(v) = ReadIn(heap, v) /\ Cap(v) = CapIn(heap, v)
      /\ ReadIn(heap', k) = Read(handed[r])'
  BY <1>3, <1>7, ReadNow DEF Read, ReadIn
<1>10. /\ v.arr \in Nat /\ v.len \in Nat /\ k.len \in Nat /\ v.arr <= Len(heap)
       /\ CapIn(heap, v) \in Nat /\ Len(heap) \in Nat /\ k.arr \in Nat
  BY <1>8, FitsTyped
<1>11. PICK a, b : a = ReadIn(heap, v) /\ b = ReadIn(heap, k)
  OBVIOUS
<1>12. /\ a \in Seq(Resource) /\ Len(a) = v.len
       /\ \A n \in 1 .. v.len : a[n] = heap[v.arr][n]
       /\ ~Has(a, Prime)
  BY <1>1, <1>8, <1>9, <1>11, ReadFacts DEF EarlyInv
<1>13. /\ b \in Seq(Resource) /\ Len(b) = k.len
       /\ \A n \in 1 .. k.len : b[n] = heap[k.arr][n]
  BY <1>8, <1>11, ReadFacts
<1>14. b[1] = a[1] /\ a[1] # Prime
  BY <1>2, <1>10, <1>12, <1>13 DEF Has
<1>15. PICK t : t = slices'["vmDepends"]
  OBVIOUS
<1>16. Extended(heap, v, b, heap', t)
  BY <1>1, <1>7, <1>8, <1>9, <1>11, <1>13, <1>15, ExtendEffect
<1>17. /\ heap' \in Heaps /\ Fits(heap', t) /\ t.len = v.len + k.len
       /\ ReadIn(heap', t) = a \o b /\ t.arr = v.arr
  BY <1>2, <1>9, <1>10, <1>11, <1>13, <1>16 DEF Extended
<1>18. Fits(heap', k)
  <2>1. k.len <= t.len /\ k.arr = t.arr
    BY <1>2, <1>10, <1>17
  <2>2. /\ t.len \in Nat /\ CapIn(heap', t) \in Nat /\ t.arr <= Len(heap')
        /\ t.len <= CapIn(heap', t)
    BY <1>17, FitsTyped DEF Fits
  <2>3. CapIn(heap', k) = CapIn(heap', t)
    BY <2>1 DEF CapIn
  <2> QED
    BY <1>8, <1>10, <2>1, <2>2, <2>3 DEF Fits
<1>19. PICK c : c = ReadIn(heap', k)
  OBVIOUS
<1>20. /\ Len(c) = k.len
       /\ \A n \in 1 .. k.len : c[n] = heap'[k.arr][n]
  BY <1>17, <1>18, <1>19, ReadFacts
<1>21. \A n \in 1 .. t.len : (a \o b)[n] = heap'[t.arr][n]
  BY <1>17, ReadFacts
<1>22. \A n \in 1 .. k.len : c[n] # Prime
  <2> SUFFICES ASSUME NEW n \in 1 .. k.len PROVE c[n] # Prime
    OBVIOUS
  <2>1. c[n] = (a \o b)[n]
    <3>1. n \in 1 .. t.len /\ k.arr = t.arr
      BY <1>2, <1>10, <1>17
    <3> QED
      BY <1>20, <1>21, <3>1
  <2>2. CASE n <= v.len
    <3>1. (a \o b)[n] = a[n] /\ n \in 1 .. Len(a)
      BY <1>10, <1>12, <1>13, <2>2
    <3> QED
      BY <1>12, <2>1, <3>1 DEF Has
  <2>3. CASE n = v.len + 1
    <3>1. (a \o b)[n] = b[1]
      BY <1>2, <1>10, <1>12, <1>13, <2>3
    <3> QED
      BY <1>14, <2>1, <3>1
  <2> QED
    BY <1>2, <1>10, <2>2, <2>3
<1>23. ~Has(Read(handed[r])', Prime)
  BY <1>9, <1>19, <1>20, <1>22 DEF Has
<1> QED
  BY <1>3, <1>7, <1>23 DEF EveryoneDependsOnPrime


\* As long as vmDepends is short its array has at most double its length.
SmallInv ==
  slices["vmDepends"].len <= 18 => Cap(slices["vmDepends"]) <= 2 * slices["vmDepends"].len

\* An append keeps vmDepends so.
LEMMA SmallExtend ==
  ASSUME AllFit, SmallInv, NEW list \in ListNames, NEW vals \in Seq(Resource),
         Extend(list, vals)
  PROVE  SmallInv'
<1>1. PICK v, t : v = slices["vmDepends"] /\ t = slices'["vmDepends"]
  OBVIOUS
<1>2. /\ heap \in Heaps /\ slices \in [ListNames -> Slice] /\ Fits(heap, v)
      /\ Fits(heap, slices[list]) /\ "vmDepends" \in ListNames
  BY <1>1 DEF AllFit, ListNames
<1>3. /\ v.arr \in Nat /\ v.len \in Nat /\ v.arr <= Len(heap) /\ Len(heap) \in Nat
      /\ CapIn(heap, v) \in Nat /\ Len(vals) \in Nat
  BY <1>2, FitsTyped
<1>4. CapIn(heap, v) = Cap(v) /\ CapIn(heap', t) = Cap(slices["vmDepends"])'
  BY <1>1 DEF CapIn, Cap
<1>5. /\ Extended(heap, slices[list], vals, heap', slices'[list])
      /\ slices' = [slices EXCEPT ![list] = slices'[list]]
  BY <1>2, ExtendEffect
<1>6. \A a \in 1 .. Len(heap) : Len(heap'[a]) = Len(heap[a])
  BY <1>5 DEF Extended
<1>7. CapIn(heap', v) = CapIn(heap, v)
  BY <1>3, <1>6 DEF CapIn
<1>8. v.len <= 18 => CapIn(heap, v) <= 2 * v.len
  BY <1>1, <1>4 DEF SmallInv
<1>9. t.len <= 18 => CapIn(heap', t) <= 2 * t.len
  <2>1. CASE list # "vmDepends"
    <3>1. t = v
      BY <1>1, <1>2, <1>5, <2>1
    <3> QED
      BY <1>7, <1>8, <3>1
  <2>2. CASE list = "vmDepends"
    <3>1. Extended(heap, v, vals, heap', t)
      BY <1>1, <1>5, <2>2
    <3>2. t.len = v.len + Len(vals) /\ t.len \in Nat
      BY <1>3, <3>1 DEF Extended
    <3>3. CASE t.arr = v.arr
      <4>1. CapIn(heap', t) = CapIn(heap, v)
        BY <1>7, <3>3 DEF CapIn
      <4> QED
        BY <1>3, <1>8, <3>2, <4>1
    <3>4. CASE t.arr = Len(heap) + 1
      <4>1. CapIn(heap, v) < t.len /\ Len(heap'[t.arr]) = Grow(CapIn(heap, v), t.len)
        BY <1>3, <3>1, <3>2, <3>4 DEF Extended
      <4>2. CapIn(heap', t) = Grow(CapIn(heap, v), t.len)
        BY <1>3, <3>4, <4>1 DEF CapIn
      <4> QED
        BY <1>3, <3>2, <4>1, <4>2, GrowSmall
    <3> QED
      BY <3>1, <3>3, <3>4 DEF Extended
  <2> QED
    BY <2>1, <2>2
<1> QED
  BY <1>1, <1>4, <1>9 DEF SmallInv

\* What holds until the joins have been collected, overwrite or not.
BeforeInv ==
  /\ shape \in Shape /\ pos \in Position
  /\ pos.at \in LateAt \/ (SliceInv /\ EarlyInv /\ SmallInv)

\* A step before the joins are collected keeps vmDepends small.
LEMMA SmallStep ==
  ASSUME SliceInv, SmallInv, Next
  PROVE  SmallInv'
<1>1. PICK s : s = LineAt(shape, pos).step
  OBVIOUS
<1>2. s \in StepType /\ Step(s) /\ AllFit
  BY <1>1, LineFits DEF SliceInv, Next
<1>3. /\ s.list \in ListNames /\ s.other \in ListNames /\ s.res \in Resource
      /\ s.op \in {"append", "appendAll", "assign", "hand"}
  BY <1>2 DEF StepType
<1>4. CASE s.op \in {"append", "appendAll"}
  <2>1. PICK vals : vals = IF s.op = "append" THEN <<s.res>> ELSE Read(slices[s.other])
    OBVIOUS
  <2>2. vals \in Seq(Resource)
    <3>1. Read(slices[s.other]) \in Seq(Resource)
      BY <1>2, <1>3, ReadsTyped
    <3> QED
      BY <1>3, <2>1, <3>1
  <2>3. Extend(s.list, vals)
    BY <1>2, <1>4, <2>1 DEF Step
  <2> QED
    BY <1>2, <1>3, <2>2, <2>3, SmallExtend
<1>5. CASE s.op \in {"assign", "hand"}
  <2>1. heap' = heap /\ slices'["vmDepends"] = slices["vmDepends"]
    <3>1. StepFits(pos, s)
      BY <1>1, LineFits DEF SliceInv, Next
    <3>2. slices \in [ListNames -> Slice] /\ "vmDepends" \in ListNames
      BY <1>2 DEF AllFit, ListNames
    <3>3. s.op = "assign" => s.list = "k8sDepends"
      BY <3>1 DEF StepFits
    <3> QED
      BY <1>2, <1>5, <3>2, <3>3 DEF Step
  <2> QED
    BY <2>1 DEF SmallInv, Cap
<1> QED
  BY <1>3, <1>4, <1>5

\* It is an invariant.
LEMMA BeforeInvariant == Spec => []BeforeInv
<1>1. Init => BeforeInv
  <2> SUFFICES ASSUME Init PROVE SliceInv /\ EarlyInv /\ SmallInv
    BY DEF BeforeInv, SliceInv
  <2>1. pos.at = "remoteOk"
    BY DEF Init, Start, At
  <2>2. \A l \in ListNames : Read(slices[l]) = << >>
    BY DEF Init, Nil, Read
  <2>3. "vmDepends" \in ListNames /\ "fileDepends" \in ListNames /\ ~Has(<< >>, Prime)
    BY DEF ListNames, Has
  <2>4. SmallInv
    BY <2>3 DEF Init, SmallInv, Cap, Nil
  <2> QED
    BY <2>1, <2>2, <2>3, <2>4, SliceStart DEF EarlyInv, JoiningAt
<1>2. BeforeInv /\ [Next]_vars => BeforeInv'
  <2> SUFFICES ASSUME BeforeInv, [Next]_vars PROVE BeforeInv'
    OBVIOUS
  <2>1. CASE UNCHANGED vars
    BY <2>1 DEF vars, BeforeInv, SliceInv, AllFit, Apart, Sharing, Owner, EarlyInv, Read,
      SmallInv, Cap
  <2>2. CASE Next /\ pos.at \in LateAt \cup {"joined"}
    <3>1. /\ pos' \in Position /\ shape' = shape
          /\ NextFits(shape, pos, pos') /\ pos.at # "end"
      BY <2>2, LineFits DEF Next, BeforeInv
    <3>2. pos'.at \in LateAt
      BY <2>2, <3>1 DEF NextFits, LateAt
    <3> QED
      BY <3>1, <3>2 DEF BeforeInv
  <2>3. CASE Next /\ pos.at \notin LateAt \cup {"joined"}
    <3>1. SliceInv /\ EarlyInv /\ SmallInv
      BY <2>3 DEF BeforeInv
    <3>2. SliceInv' /\ EarlyInv' /\ SmallInv'
      BY <2>3, <3>1, EarlyStep, SmallStep
    <3> QED
      BY <3>2 DEF BeforeInv, SliceInv
  <2> QED
    BY <2>1, <2>2, <2>3
<1> QED
  BY <1>1, <1>2, PTL DEF Spec

\* NoOverwrite is no more than it takes for EveryoneDependsOnPrime: where the append
\* of k8sDepends to vmDepends does find room in the shared array, the step itself
\* writes over the prime install in what pulumi keeps for the kubeconfig.
THEOREM OverwriteLosesPrime ==
  Spec => [][~NoOverwrite => ~EveryoneDependsOnPrime']_vars
<1>1. BeforeInv /\ [Next]_vars => [~NoOverwrite => ~EveryoneDependsOnPrime']_vars
  <2> SUFFICES ASSUME BeforeInv, Next, ~NoOverwrite PROVE ~EveryoneDependsOnPrime'
    OBVIOUS
  <2>1. pos.at \notin LateAt
    BY DEF NoOverwrite, LateAt, JoinedAt, OnlineAt
  <2> QED
    BY <2>1, JoinedOverwrites DEF BeforeInv
<1> QED
  BY <1>1, BeforeInvariant, PTL DEF Spec

\* NoOverwrite, in every unit whose vmDepends holds at most 18 resources: growslice
\* at most doubles what is needed, and twice vmDepends and one more do not fit.
THEOREM SmallUnitsAreSafe ==
  Spec => [](slices["vmDepends"].len <= 18 => NoOverwrite)
<1>1. BeforeInv => (slices["vmDepends"].len <= 18 => NoOverwrite)
  <2> SUFFICES ASSUME BeforeInv, slices["vmDepends"].len <= 18, ~NoOverwrite
               PROVE  FALSE
    OBVIOUS
  <2>1. PICK v, k : v = slices["vmDepends"] /\ k = slices["k8sDepends"]
    OBVIOUS
  <2>2. pos.at = "joined" /\ v.len + k.len <= Cap(v)
    BY <2>1 DEF NoOverwrite
  <2>3. SliceInv /\ EarlyInv /\ SmallInv
    BY <2>2 DEF BeforeInv, LateAt, JoinedAt, OnlineAt
  <2>4. heap \in Heaps /\ Fits(heap, v) /\ CapIn(heap, v) = Cap(v)
    BY <2>1, <2>3, ReadNow DEF SliceInv, AllFit, ListNames
  <2>5. v.len \in Nat /\ Cap(v) \in Nat
    BY <2>4, FitsTyped
  <2>6. k.len = v.len + 1 /\ Cap(v) <= 2 * v.len
    BY <2>1, <2>2, <2>3 DEF EarlyInv, SmallInv, JoiningAt
  <2> QED
    BY <2>2, <2>5, <2>6
<1> QED
  BY <1>1, BeforeInvariant, PTL

-----------------------------------------------------------------------------
(* The length of vmDepends.                                                 *)

\* Twice the length of vmDepends after the loop over the machines: each of them
\* adds two resources and the files of all the machines up to it.
TwiceLength(sh) ==
  4 * MachinesOf(sh) + sh.shipped * (MachinesOf(sh) * (MachinesOf(sh) + 1))

\* The lengths of fileDepends, and twice that of vmDepends, in the loop.
FilesAt(sh, p) ==
  sh.shipped * (p.i - 1) + (IF p.at = "installFile" THEN p.j - 1
                            ELSE IF p.at \in {"vmSetup", "vmFiles"} THEN sh.shipped ELSE 0)
TwiceAt(sh, p) ==
  4 * (p.i - 1) + sh.shipped * ((p.i - 1) * p.i)
    + (IF p.at = "remoteOk" THEN 0 ELSE IF p.at = "vmFiles" THEN 4 ELSE 2)

\* Until the joins are collected the lengths are known.
LengthInv ==
  /\ pos.at \in MachineAt =>
       /\ pos.i \in 1 .. MachinesOf(shape)
       /\ pos.at = "installFile" => pos.j \in 1 .. shape.shipped
       /\ slices["fileDepends"].len = FilesAt(shape, pos)
       /\ 2 * slices["vmDepends"].len = TwiceAt(shape, pos)
  /\ pos.at \in BeforeK8sAt \cup PrimeAt \cup JoiningAt =>
       2 * slices["vmDepends"].len = TwiceLength(shape)
  /\ pos.at \in PrimeAt \cup JoiningAt => shape.k8s

\* One machine more, in FilesAt and in TwiceAt.
LEMMA OneMore ==
  ASSUME NEW f \in Nat, NEW i \in Nat \ {0}
  PROVE  /\ f * ((i + 1) - 1) = f * (i - 1) + f
         /\ f * (((i + 1) - 1) * (i + 1)) = f * ((i - 1) * i) + 2 * (f * (i - 1) + f)
         /\ f * (i * (i + 1)) = f * ((i - 1) * i) + 2 * (f * (i - 1) + f)
         /\ f * (i - 1) \in Nat /\ f * ((i - 1) * i) \in Nat
<1>1. PICK k \in Nat : i = k + 1 /\ i - 1 = k /\ (i + 1) - 1 = k + 1
  BY i - 1 \in Nat
<1>2. f * (k + 1) = f * k + f
  OBVIOUS
<1>3. (k + 1) * (k + 2) = k * (k + 1) + 2 * (k + 1)
  OBVIOUS
<1>4. f * ((k + 1) * (k + 2)) = f * (k * (k + 1)) + f * (2 * (k + 1))
  <2>1. PICK a, b \in Int : a = k * (k + 1) /\ b = 2 * (k + 1)
    OBVIOUS
  <2>2. f * (a + b) = f * a + f * b
    BY <2>1
  <2> QED
    BY <1>3, <2>1, <2>2
<1>5. f * (2 * (k + 1)) = 2 * (f * k + f)
  OBVIOUS
<1>6. f * k \in Nat /\ f * (k * (k + 1)) \in Nat
  OBVIOUS
<1>7. i + 1 = k + 2
  BY <1>1
<1> QED
  BY <1>1, <1>2, <1>4, <1>5, <1>6, <1>7

\* An append changes the length of its list, and of no other.
LEMMA ExtendLength ==
  ASSUME AllFit, NEW list \in ListNames, NEW vals \in Seq(Resource), Extend(list, vals)
  PROVE  /\ slices'[list].len = slices[list].len + Len(vals)
         /\ \A l \in ListNames \ {list} : slices'[l].len = slices[l].len
<1>1. /\ heap \in Heaps /\ slices \in [ListNames -> Slice] /\ Fits(heap, slices[list])
  BY DEF AllFit
<1>2. /\ Extended(heap, slices[list], vals, heap', slices'[list])
      /\ slices' = [slices EXCEPT ![list] = slices'[list]]
  BY <1>1, ExtendEffect
<1> QED
  BY <1>1, <1>2 DEF Extended

\* A step in the loop over the machines.
LEMMA MachineLength ==
  ASSUME SliceInv, LengthInv, Next, pos.at \in MachineAt
  PROVE  LengthInv'
<1>1. PICK s, n, i, j, f, m :
        /\ s = LineAt(shape, pos).step /\ n = LineAt(shape, pos).next
        /\ i = pos.i /\ j = pos.j /\ f = shape.shipped /\ m = MachinesOf(shape)
  OBVIOUS
<1>2. PICK v, d : v = slices["vmDepends"].len /\ d = slices["fileDepends"].len
  OBVIOUS
<1>3. PICK a, b : a = f * (i - 1) /\ b = f * ((i - 1) * i)
  OBVIOUS
<1>4. /\ f \in Nat /\ m \in Nat /\ i \in Nat \ {0} /\ j \in Nat /\ v \in Nat /\ d \in Nat
      /\ i <= m /\ (pos.at = "installFile" => j \in 1 .. f)
  <2>1. shape \in Shape /\ pos \in Position /\ AllFit
    BY DEF SliceInv
  <2>2. f \in Nat /\ m \in Nat /\ pos.i \in Nat /\ j \in Nat
    BY <1>1, <2>1 DEF Shape, Position, MachinesOf
  <2>3. slices["vmDepends"] \in Slice /\ slices["fileDepends"] \in Slice
    BY <2>1 DEF AllFit, ListNames
  <2>4. v \in Nat /\ d \in Nat
    BY <1>2, <2>3 DEF Slice
  <2>5. i \in 1 .. m /\ (pos.at = "installFile" => j \in 1 .. f)
    BY <1>1 DEF LengthInv
  <2> QED
    BY <1>1, <2>2, <2>4, <2>5
<1>5. /\ a \in Nat /\ b \in Nat /\ f * ((i + 1) - 1) = a + f
      /\ f * (((i + 1) - 1) * (i + 1)) = b + 2 * (a + f)
      /\ f * (i * (i + 1)) = b + 2 * (a + f)
  BY <1>3, <1>4, OneMore
<1>6. /\ d = a + (IF pos.at = "installFile" THEN j - 1
                  ELSE IF pos.at \in {"vmSetup", "vmFiles"} THEN f ELSE 0)
      /\ 2 * v = 4 * (i - 1) + b
                   + (IF pos.at = "remoteOk" THEN 0 ELSE IF pos.at = "vmFiles" THEN 4 ELSE 2)
  BY <1>1, <1>2, <1>3 DEF LengthInv, FilesAt, TwiceAt
<1>7. /\ AllFit /\ s \in StepType /\ Step(s) /\ pos' = n /\ shape' = shape
      /\ n \in Position /\ NextFits(shape, pos, n)
  BY <1>1, LineFits DEF SliceInv, Next, MachineAt
<1>8. PICK w, e : w = slices'["vmDepends"].len /\ e = slices'["fileDepends"].len
  OBVIOUS
\* What the step adds.
<1>9. /\ w = v + (IF pos.at \in {"remoteOk", "vmSetup"} THEN 1
                  ELSE IF pos.at = "vmFiles" THEN d ELSE 0)
      /\ e = d + (IF pos.at = "installFile" THEN 1 ELSE 0)
  <2>1. /\ "vmDepends" \in ListNames /\ "fileDepends" \in ListNames
        /\ "pkgInstalls" \in ListNames
    BY DEF ListNames
  <2>2. CASE pos.at \in {"zypperIn", "cloudInit", "cloudInitOutput"}
    <3>1. s.op = "hand"
      BY <1>1, <2>2, MachineLines DEF DependsOn
    <3>2. slices' = slices
      BY <1>7, <3>1 DEF Step
    <3> QED
      BY <1>2, <1>4, <1>8, <2>2, <3>2
  <2>3. CASE pos.at \in {"remoteOk", "vmSetup", "installFile", "zypperInDone", "enableIscsi"}
    <3>1. /\ s.op = "append"
          /\ s.list = (IF pos.at \in {"remoteOk", "vmSetup"} THEN "vmDepends"
                       ELSE IF pos.at = "installFile" THEN "fileDepends" ELSE "pkgInstalls")
      BY <1>1, <2>3, MachineLines DEF Append1
    <3>2. Extend(s.list, <<s.res>>) /\ s.list \in ListNames
      BY <1>7, <2>1, <3>1 DEF Step
    <3>3. <<s.res>> \in Seq(Resource) /\ Len(<<s.res>>) = 1
      BY <1>7 DEF StepType
    <3>4. /\ slices'[s.list].len = slices[s.list].len + 1
          /\ \A l \in ListNames \ {s.list} : slices'[l].len = slices[l].len
      BY <1>7, <3>2, <3>3, ExtendLength
    <3> QED
      BY <1>2, <1>4, <1>8, <2>1, <2>3, <3>1, <3>4
  <2>4. CASE pos.at = "vmFiles"
    <3>1. s.op = "appendAll" /\ s.list = "vmDepends" /\ s.other = "fileDepends"
      BY <1>1, <2>4, MachineLines DEF AppendAll
    <3>2. PICK vals : vals = Read(slices["fileDepends"])
      OBVIOUS
    <3>3. vals \in Seq(Resource) /\ Len(vals) = d
      BY <1>2, <1>7, <2>1, <3>2, ReadsTyped
    <3>4. Extend("vmDepends", vals)
      BY <1>7, <3>1, <3>2 DEF Step
    <3>5. w = v + d /\ e = d
      BY <1>2, <1>7, <1>8, <2>1, <3>3, <3>4, ExtendLength
    <3> QED
      BY <1>4, <2>4, <3>5
  <2> QED
    BY <2>2, <2>3, <2>4 DEF MachineAt
<1>10. n.at \in MachineAt \cup {"sshConfig"}
  BY <1>7 DEF NextFits
\* Where the step leads.
<1>11. CASE pos.at \in MachineAt \ {"cloudInitOutput", "installFile", "vmFiles"}
  <2>1. \E l \in MachineAt \ {"remoteOk", "installFile", "vmSetup"} :
          n = At(l, i, 0) /\ (l = "vmFiles" <=> pos.at = "vmSetup")
    <3>1. CASE pos.at \in {"remoteOk", "zypperIn", "zypperInDone"}
      BY <1>1, <3>1, MachineLines DEF MachineAt
    <3>2. CASE pos.at \in {"enableIscsi", "cloudInit", "vmSetup"}
      BY <1>1, <3>2, MachineLines DEF MachineAt
    <3> QED
      BY <1>11, <3>1, <3>2 DEF MachineAt
  <2>2. /\ n.i = i /\ n.at \in MachineAt \ {"remoteOk", "installFile", "vmSetup"}
        /\ n.at = "vmFiles" <=> pos.at = "vmSetup"
    BY <2>1 DEF At
  <2>3. FilesAt(shape, n) = e /\ TwiceAt(shape, n) = 2 * w
    <3>1. /\ FilesAt(shape, n) = a + (IF n.at = "vmFiles" THEN f ELSE 0)
          /\ TwiceAt(shape, n) = 4 * (i - 1) + b + (IF n.at = "vmFiles" THEN 4 ELSE 2)
      BY <1>1, <1>3, <2>2 DEF FilesAt, TwiceAt
    <3>2. CASE pos.at = "vmSetup"
      BY <1>4, <1>5, <1>6, <1>9, <2>2, <3>1, <3>2
    <3>3. CASE pos.at # "vmSetup"
      <4>1. e = a /\ 2 * w = 4 * (i - 1) + b + 2
        BY <1>4, <1>5, <1>6, <1>9, <1>11, <3>3
      <4> QED
        BY <1>4, <1>5, <2>2, <3>1, <3>3, <4>1
    <3> QED
      BY <3>2, <3>3
  <2> QED
    BY <1>1, <1>4, <1>7, <1>8, <2>2, <2>3
    DEF LengthInv, MachineAt, BeforeK8sAt, PrimeAt, JoiningAt
<1>12. CASE pos.at \in {"cloudInitOutput", "installFile"}
  <2>1. PICK k \in Nat \ {0} : k = (IF pos.at = "installFile" THEN j + 1 ELSE 1)
    BY <1>4
  <2>2. n = ToInput(shape, i, k)
    BY <1>1, <1>12, <2>1, MachineLines
  <2>3. /\ n.i = i
        /\ \/ k <= f /\ n.at = "installFile" /\ n.j = k
           \/ k > f /\ n.at = "vmSetup"
    BY <1>1, <1>4, <2>1, <2>2 DEF ToInput, At
  <2>4. e = a + (k - 1) /\ k <= f + 1 /\ 2 * w = 4 * (i - 1) + b + 2
    BY <1>4, <1>5, <1>6, <1>9, <1>12, <2>1
  <2>5. FilesAt(shape, n) = e /\ TwiceAt(shape, n) = 2 * w
    BY <1>1, <1>3, <1>4, <1>5, <2>1, <2>3, <2>4 DEF FilesAt, TwiceAt
  <2> QED
    BY <1>1, <1>4, <1>7, <1>8, <2>1, <2>3, <2>5
    DEF LengthInv, MachineAt, BeforeK8sAt, PrimeAt, JoiningAt
<1>13. CASE pos.at = "vmFiles"
  <2>1. n = ToMachine(shape, i + 1)
    BY <1>1, <1>13, MachineLines
  <2>2. d = a + f /\ 2 * w = 4 * i + b + 2 * (a + f) /\ e = d
    BY <1>4, <1>5, <1>6, <1>9, <1>13
  <2>3. CASE i + 1 <= m
    <3>1. n.at = "remoteOk" /\ n.i = i + 1
      BY <1>1, <2>1, <2>3 DEF ToMachine, At
    <3>2. FilesAt(shape, n) = e /\ TwiceAt(shape, n) = 2 * w
      BY <1>1, <1>4, <1>5, <2>2, <3>1 DEF FilesAt, TwiceAt
    <3> QED
      BY <1>1, <1>4, <1>7, <1>8, <2>3, <3>1, <3>2
      DEF LengthInv, MachineAt, BeforeK8sAt, PrimeAt, JoiningAt
  <2>4. CASE ~(i + 1 <= m)
    <3>1. n.at = "sshConfig" /\ m = i
      BY <1>1, <1>4, <2>1, <2>4 DEF ToMachine, At
    <3>2. TwiceLength(shape) = 2 * w
      BY <1>1, <1>4, <1>5, <2>2, <3>1 DEF TwiceLength
    <3> QED
      BY <1>7, <1>8, <3>1, <3>2 DEF LengthInv, MachineAt, PrimeAt, JoiningAt
  <2> QED
    BY <2>3, <2>4
<1> QED
  BY <1>11, <1>12, <1>13 DEF MachineAt

\* A step between the loop over the machines and the joins.
LEMMA LengthStep ==
  ASSUME SliceInv, LengthInv, Next, pos.at \notin LateAt \cup {"joined"}
  PROVE  LengthInv'
<1>1. CASE pos.at \in MachineAt
  BY <1>1, MachineLength
<1>2. CASE pos.at \in BeforeK8sAt \cup PrimeAt \cup (JoiningAt \ {"joined"})
  <2>1. PICK s : s = LineAt(shape, pos).step
    OBVIOUS
  <2>2. /\ AllFit /\ s \in StepType /\ Step(s) /\ shape' = shape
        /\ StepFits(pos, s) /\ NextFits(shape, pos, pos')
    BY <2>1, LineFits DEF SliceInv, Next
  <2>3. /\ s.list \in ListNames /\ s.other \in ListNames /\ s.res \in Resource
        /\ s.op \in {"append", "appendAll", "assign", "hand"} /\ "vmDepends" \in ListNames
    BY <2>2 DEF StepType, ListNames
  <2>4. slices'["vmDepends"].len = slices["vmDepends"].len
    <3>1. CASE s.op \in {"append", "appendAll"}
      <4>1. PICK vals : vals = IF s.op = "append" THEN <<s.res>> ELSE Read(slices[s.other])
        OBVIOUS
      <4>2. vals \in Seq(Resource)
        <5>1. Read(slices[s.other]) \in Seq(Resource)
          BY <2>2, <2>3, ReadsTyped
        <5> QED
          BY <2>3, <4>1, <5>1
      <4>3. Extend(s.list, vals)
        BY <2>2, <3>1, <4>1 DEF Step
      <4>4. s.list # "vmDepends"
        BY <1>2, <2>2, <3>1
        DEF StepFits, MachineAt, BeforeK8sAt, PrimeAt, JoiningAt, JoinedAt, OnlineAt
      <4> QED
        BY <2>2, <2>3, <4>2, <4>3, <4>4, ExtendLength
    <3>2. CASE s.op = "assign"
      <4>1. s.list = "k8sDepends" /\ slices \in [ListNames -> Slice]
        BY <2>2, <3>2 DEF StepFits, AllFit
      <4> QED
        BY <2>2, <2>3, <3>2, <4>1 DEF Step
    <3>3. CASE s.op = "hand"
      BY <2>2, <3>3 DEF Step
    <3> QED
      BY <2>3, <3>1, <3>2, <3>3
  <2>5. pos'.at \notin MachineAt
    BY <1>2, <2>2
    DEF NextFits, MachineAt, BeforeK8sAt, PrimeAt, JoiningAt, JoinedAt, OnlineAt
  <2>6. pos'.at \in PrimeAt \cup JoiningAt => shape.k8s
    BY <1>2, <2>2 DEF NextFits, LengthInv, PrimeAt, JoiningAt, BeforeK8sAt
  <2>7. 2 * slices["vmDepends"].len = TwiceLength(shape)
    BY <1>2 DEF LengthInv
  <2>8. TwiceLength(shape)' = TwiceLength(shape)
    BY <2>2
  <2> QED
    BY <2>2, <2>4, <2>5, <2>6, <2>7, <2>8 DEF LengthInv
<1> QED
  BY <1>1, <1>2 DEF SliceInv, Position, Labels, LateAt

\* The lengths are known until the joins are collected.
LEMMA LengthInvariant == Spec => [](pos.at \in LateAt \/ LengthInv)
<1>1. Init => LengthInv
  <2> SUFFICES ASSUME Init PROVE LengthInv
    OBVIOUS
  <2>1. /\ shape \in Shape /\ pos.at = "remoteOk" /\ pos.i = 1
        /\ slices["vmDepends"].len = 0 /\ slices["fileDepends"].len = 0
    BY ShapesAssumption DEF Init, Start, At, Nil, ListNames
  <2>2. shape.shipped \in Nat /\ MachinesOf(shape) \in Nat /\ MachinesOf(shape) >= 1
    BY <2>1 DEF Shape, MachinesOf
  <2>3. FilesAt(shape, pos) = 0 /\ TwiceAt(shape, pos) = 0
    BY <2>1, <2>2 DEF FilesAt, TwiceAt
  <2> QED
    BY <2>1, <2>2, <2>3 DEF LengthInv, BeforeK8sAt, PrimeAt, JoiningAt
<1>2. /\ BeforeInv /\ (pos.at \in LateAt \/ LengthInv) /\ [Next]_vars
      => (pos.at \in LateAt \/ LengthInv)'
  <2> SUFFICES ASSUME BeforeInv, pos.at \in LateAt \/ LengthInv, [Next]_vars
               PROVE  (pos.at \in LateAt \/ LengthInv)'
    OBVIOUS
  <2>1. CASE UNCHANGED vars
    BY <2>1 DEF vars, LengthInv
  <2>2. CASE Next /\ pos.at \in LateAt \cup {"joined"}
    <3>1. NextFits(shape, pos, pos') /\ pos.at # "end"
      BY <2>2, LineFits DEF Next, BeforeInv
    <3> QED
      BY <2>2, <3>1 DEF NextFits, LateAt
  <2>3. CASE Next /\ pos.at \notin LateAt \cup {"joined"}
    BY <2>3, LengthStep DEF BeforeInv
  <2> QED
    BY <2>1, <2>2, <2>3
<1> QED
  BY <1>1, <1>2, BeforeInvariant, PTL DEF Spec

\* NoOverwrite, SlicesAreLists and EveryoneDependsOnPrime, for every set of units in
\* which a cluster of m machines that are each shipped f inputs has
\* 2 * m + f * m * (m + 1) / 2 <= 18: this is how many resources vmDepends holds when
\* the joins are collected.  A unit that is no cluster may be of any size.
THEOREM SmallClustersAreSafe ==
  (\A sh \in Shapes : sh.k8s => TwiceLength(sh) <= 36)
    => (Spec => []NoOverwrite /\ SlicesAreLists /\ []EveryoneDependsOnPrime)
<1> SUFFICES ASSUME \A sh \in Shapes : sh.k8s => TwiceLength(sh) <= 36
             PROVE  Spec => []NoOverwrite /\ SlicesAreLists /\ []EveryoneDependsOnPrime
  OBVIOUS
<1>1. Spec => [](shape \in Shapes)
  <2>1. Init => shape \in Shapes
    BY DEF Init
  <2>2. shape \in Shapes /\ [Next]_vars => (shape \in Shapes)'
    BY DEF Next, vars
  <2> QED
    BY <2>1, <2>2, PTL DEF Spec
<1>2. /\ shape \in Shapes /\ BeforeInv /\ (pos.at \in LateAt \/ LengthInv)
      /\ (slices["vmDepends"].len <= 18 => NoOverwrite)
      => NoOverwrite
  <2> SUFFICES ASSUME shape \in Shapes, BeforeInv, pos.at \in LateAt \/ LengthInv, ~NoOverwrite
               PROVE  slices["vmDepends"].len <= 18
    OBVIOUS
  <2>1. pos.at = "joined"
    BY DEF NoOverwrite
  <2>2. LengthInv /\ SliceInv
    BY <2>1 DEF LateAt, JoinedAt, OnlineAt, BeforeInv
  <2>3. 2 * slices["vmDepends"].len = TwiceLength(shape) /\ TwiceLength(shape) <= 36
    BY <2>1, <2>2 DEF LengthInv, JoiningAt
  <2>4. slices["vmDepends"].len \in Nat
    BY <2>2 DEF SliceInv, AllFit, ListNames, Slice
  <2> QED
    BY <2>3, <2>4
<1>3. Spec => []NoOverwrite
  BY <1>1, <1>2, BeforeInvariant, LengthInvariant, SmallUnitsAreSafe, PTL
<1> QED
  BY <1>3, SlicesRefineLists, PrimeWhileNoOverwrite, PTL
=============================================================================
