-------------------------- MODULE UnitDeployProofs --------------------------
(* Proofs about UnitDeploy, for every unit: any configs, counts, inputs and  *)
(* helmfiles, any interleaving with the engine, any failures.                *)
EXTENDS UnitDeploy, TLAPS

\* A machine is a config and an index below the config's count.
LEMMA VMsAre ==
  /\ Len(Config) \in Nat /\ DOMAIN Config = 1 .. Len(Config)
  /\ \A d \in DOMAIN Config : Config[d].count \in Nat
  /\ \A d \in DOMAIN Config, i \in Nat :
       i < Config[d].count => <<d, i>> \in VMs
  /\ \A v \in VMs : /\ v = <<v[1], v[2]>> /\ v[1] \in DOMAIN Config
                    /\ v[2] \in Nat /\ v[2] < Config[v[1]].count
<1>1. Len(Config) \in Nat /\ DOMAIN Config = 1 .. Len(Config)
  BY ConfigAssumption
<1>2. ASSUME NEW d \in DOMAIN Config PROVE Config[d].count \in Nat
  <2>1. Config[d] \in [name : STRING, count : Nat]
    <3>1. ASSUME NEW S, Config \in Seq(S) PROVE Config[d] \in S
      BY <1>1, <3>1
    <3> QED
      BY <3>1, ConfigAssumption
  <2> QED
    BY <2>1
<1>3. \A d \in DOMAIN Config, i \in Nat :
        i < Config[d].count => <<d, i>> \in VMs
  <2> SUFFICES ASSUME NEW d \in DOMAIN Config, NEW i \in Nat,
                      i < Config[d].count
               PROVE  <<d, i>> \in VMs
    OBVIOUS
  <2>1. i \in 0 .. Config[d].count - 1
    BY <1>2
  <2>2. <<d, i>> \in {d} \X (0 .. Config[d].count - 1)
    BY <2>1
  <2> QED
    BY <2>2 DEF VMs
<1>4. ASSUME NEW v \in VMs
      PROVE  /\ v = <<v[1], v[2]>> /\ v[1] \in DOMAIN Config
             /\ v[2] \in Nat /\ v[2] < Config[v[1]].count
  <2>1. PICK d \in DOMAIN Config : v \in {d} \X (0 .. Config[d].count - 1)
    BY DEF VMs
  <2> QED
    BY <1>2, <2>1
<1> QED
  BY <1>1, <1>2, <1>3, <1>4

\* The resources that the program names are resources.
LEMMA ResourcesAre ==
  /\ \A k \in SharedKinds : Shared(k) \in Resources
  /\ \A d \in DOMAIN Config : BaseVolume(d) \in Resources
  /\ \A k \in MachineKinds \cup OnlineKinds, v \in VMs : OfVM(k, v) \in Resources
  /\ \A v \in VMs, l \in Logs : CopyLog(v, l) \in Resources
  /\ \A v \in VMs, f \in Shipped :
       CopyInput(v, f) \in Resources /\ InstallFile(v, f) \in Resources
  /\ {SshConfig, Kubeconfig, KubeVipFile} \subseteq Resources
  /\ \A v \in VMs : {Prime(v), Admin(v), Worker(v)} \subseteq Resources
  /\ \A h \in HelmfileNames \cap Hacked : Hack(h) \in Resources
  /\ \A h \in HelmfileNames : HelmfileApply(h) \in Resources
BY DEF Resources, K8sCommands

\* What a machine's resources depend on are resources.
LEMMA VMDepsType ==
  ASSUME NEW v \in VMs, vmDepends \subseteq Resources
  PROVE  \A r \in DOMAIN VMDeps(v) : VMDeps(v)[r] \subseteq Resources
<1>1. v[1] \in DOMAIN Config
  BY VMsAre
<1>2. \A k \in SharedKinds : Shared(k) \in Resources
  BY ResourcesAre
<1>3. BaseVolume(v[1]) \in Resources
  BY <1>1, ResourcesAre
<1>4. \A k \in MachineKinds \cup OnlineKinds : OfVM(k, v) \in Resources
  BY ResourcesAre
<1>5. \A f \in Shipped : CopyInput(v, f) \in Resources
  BY ResourcesAre
<1> SUFFICES ASSUME NEW r \in VMResources(v)
             PROVE  DependsOf(v, r) \subseteq Resources
  BY DEF VMDeps
<1>6. CASE \E k \in MachineKinds \cup OnlineKinds : r = OfVM(k, v)
  <2>0. PICK k \in MachineKinds \cup OnlineKinds : r = <<k, v, "">>
    BY <1>6 DEF OfVM
  <2>1. r[1] \in MachineKinds \cup OnlineKinds
    BY <2>0
  <2> QED
    BY <2>1, <1>2, <1>3, <1>4 DEF DependsOf, SharedKinds, MachineKinds, OnlineKinds
<1>7. CASE \E l \in Logs : r = CopyLog(v, l)
  BY <1>4, <1>7 DEF DependsOf, CopyLog, MachineKinds
<1>8. CASE \E f \in Shipped : r = CopyInput(v, f)
  <2>1. r[1] = "copyInput"
    BY <1>8 DEF CopyInput
  <2> QED
    BY <2>1, <1>4 DEF DependsOf, MachineKinds
<1>9. CASE \E f \in Shipped : r = InstallFile(v, f)
  <2>1. r[1] = "installFile" /\ r[3] \in Shipped
    BY <1>9 DEF InstallFile
  <2> QED
    BY <2>1, <1>4, <1>5 DEF DependsOf, MachineKinds
<1> QED
  BY <1>6, <1>7, <1>8, <1>9 DEF VMResources

\* What is registered of a machine before an error is part of what would be.
LEMMA VMPrefixesAre == \A v : \A S \in VMPrefixes(v) : S \subseteq VMResources(v)
<1> SUFFICES ASSUME NEW v PROVE \A S \in VMPrefixes(v) : S \subseteq VMResources(v)
  OBVIOUS
<1>1. CopyLog(v, "cloud-init.log") \in VMResources(v)
  BY DEF VMResources, Logs
<1>2. ASSUME NEW F \in SUBSET Shipped
      PROVE  {CopyInput(v, f) : f \in F} \cup {InstallFile(v, f) : f \in F}
               \subseteq VMResources(v)
  BY DEF VMResources
<1> QED
  BY <1>1, <1>2 DEF VMPrefixes

\* Registering resources with dependencies among the resources is well typed.
LEMMA RegisterType ==
  ASSUME TypeOK, NEW D, Register(D),
         \A r \in DOMAIN D : D[r] \subseteq Resources
  PROVE  /\ deps' \in [Resources -> SUBSET Resources]
         /\ status' \in [Resources ->
                           {"none", "pending", "skipped", "done", "failed"}]
BY DEF TypeOK, Register

\* The same for one resource.
LEMMA RegisterOneType ==
  ASSUME TypeOK, NEW r, NEW S \in SUBSET Resources, RegisterOne(r, S)
  PROVE  /\ deps' \in [Resources -> SUBSET Resources]
         /\ status' \in [Resources ->
                           {"none", "pending", "skipped", "done", "failed"}]
BY RegisterType DEF RegisterOne

-----------------------------------------------------------------------------
(* The inductive invariant.  What a k8s command waits for was put on a list  *)
(* by another iteration of another loop, so the invariant follows the lists: *)
(* first what the loop over the machines has collected, then that the k8s    *)
(* commands were registered with all of it, then what the engine has done.   *)

\* What machine v must have before any node runs its k8s command.
Needs(v) == {InstallFile(v, f) : f \in Shipped} \cup {OfVM("remoteOk", v)}

AfterLoop == {"sshConfig", "k8sPrime", "kubeconfig", "admins", "workers",
              "online", "helmfile", "returned"}
PrimeRegistered == {"kubeconfig", "admins", "workers", "online", "helmfile",
                    "returned", "error"}

\* The loop over the machines is past v.
Past(v) ==
  \/ pc \in AfterLoop
  \/ v[1] < c
  \/ pc = "vm" /\ v[1] = c /\ v[2] < idx

JoinCommands == {Kubeconfig} \cup UNION {{Admin(v), Worker(v)} : v \in VMs}

IsPrime(v) == Config[v[1]].name = "default" /\ v[2] = 0

\* What the program has collected.
ListsInv ==
  /\ pc \in AfterLoop => c = Len(Config) + 1
  /\ \A v \in VMs : Past(v) => Needs(v) \subseteq vmDepends
  /\ \A v \in VMs : Past(v) /\ IsPrime(v) => prime = v
  /\ pc \in {"k8sPrime", "kubeconfig", "admins", "workers"} =>
       \A v \in VMs : Needs(v) \subseteq k8sDepends
  /\ pc \in {"kubeconfig", "admins", "workers"} => Prime(prime) \in k8sDepends

\* What the k8s commands were registered with.
GraphInv ==
  /\ pc \notin PrimeRegistered =>
       \A r \in K8sCommands \cup {Kubeconfig} : status[r] = "none"
  /\ \A r \in K8sCommands : status[r] # "none" =>
       \A v \in VMs : Needs(v) \subseteq deps[r]
  /\ \A r \in JoinCommands : status[r] # "none" =>
       prime \in VMs /\ Prime(prime) \in deps[r]

\* What the engine has done.
EngineInv ==
  /\ \A r \in K8sCommands : status[r] \in {"done", "failed"} =>
       \A v \in VMs : Done(Needs(v))
  /\ \A r \in JoinCommands : status[r] \in {"done", "failed"} =>
       status[Prime(prime)] = "done"

OrderInv == TypeOK /\ ListsInv /\ GraphInv /\ EngineInv

\* A machine's needs are resources, and none is a k8s command.
LEMMA NeedsAre ==
  /\ \A v \in VMs : Needs(v) \subseteq Resources
  /\ K8sCommands \cup JoinCommands \subseteq Resources
  /\ \A v \in VMs : \A r \in Needs(v) : r[1] \in {"installFile", "remoteOk"}
  /\ \A r \in K8sCommands : r[1] \in {"k8sPrime", "k8sAdmin", "k8sWorker"}
  /\ \A r \in JoinCommands : r[1] \in {"kubeconfig", "k8sAdmin", "k8sWorker"}
<1>1. \A v \in VMs : Needs(v) \subseteq Resources
  BY ResourcesAre DEF Needs, MachineKinds
<1>2. K8sCommands \cup JoinCommands \subseteq Resources
  BY ResourcesAre DEF K8sCommands, JoinCommands
<1>3. ASSUME NEW v \in VMs, NEW r \in Needs(v)
      PROVE  r[1] \in {"installFile", "remoteOk"}
  <2>1. CASE \E f \in Shipped : r = <<"installFile", v, f>>
    <3>1. PICK f \in Shipped : r = <<"installFile", v, f>>
      BY <2>1
    <3> QED
      BY <3>1
  <2>2. CASE r = <<"remoteOk", v, "">>
    BY <2>2
  <2> QED
    BY <2>1, <2>2 DEF Needs, InstallFile, OfVM
<1>4. ASSUME NEW r \in K8sCommands
      PROVE  r[1] \in {"k8sPrime", "k8sAdmin", "k8sWorker"}
  <2>1. PICK v \in VMs : r \in {Prime(v), Admin(v), Worker(v)}
    BY DEF K8sCommands
  <2>2. CASE r = Prime(v)
    BY <2>2 DEF Prime
  <2>3. CASE r = Admin(v)
    BY <2>3 DEF Admin
  <2>4. CASE r = Worker(v)
    BY <2>4 DEF Worker
  <2> QED
    BY <2>1, <2>2, <2>3, <2>4
<1>5. ASSUME NEW r \in JoinCommands
      PROVE  r[1] \in {"kubeconfig", "k8sAdmin", "k8sWorker"}
  <2>1. CASE r = Kubeconfig
    BY <2>1 DEF Kubeconfig, Shared
  <2>2. CASE \E v \in VMs : r \in {Admin(v), Worker(v)}
    <3>1. PICK v \in VMs : r \in {Admin(v), Worker(v)}
      BY <2>2
    <3>2. CASE r = Admin(v)
      BY <3>2 DEF Admin
    <3>3. CASE r = Worker(v)
      BY <3>3 DEF Worker
    <3> QED
      BY <3>1, <3>2, <3>3
  <2> QED
    BY <2>1, <2>2 DEF JoinCommands
<1> QED
  BY <1>1, <1>2, <1>3, <1>4, <1>5

\* After the loop the first machine of "default" is the prime node.
LEMMA PrimeIsVM == ListsInv /\ pc \in AfterLoop => prime \in VMs
<1> SUFFICES ASSUME ListsInv, pc \in AfterLoop PROVE prime \in VMs
  OBVIOUS
<1>1. PICK d \in DOMAIN Config : Config[d].name = "default" /\ Config[d].count > 0
  BY ConfigAssumption
<1>2. <<d, 0>> \in VMs
  BY <1>1, VMsAre
<1> QED
  BY <1>1, <1>2 DEF ListsInv, Past, IsPrime

\* What an action registers has one of its kinds.
LEMMA RegisteredKinds ==
  /\ \A r \in {Shared(k) : k \in SharedKinds} : r[1] \in SharedKinds
  /\ \A v : \A r \in VMResources(v) :
       r[1] \in MachineKinds \cup OnlineKinds
                  \cup {"copyLog", "copyInput", "installFile"}
  /\ \A h : \A r \in DOMAIN HelmfileDeps(h) :
       r[1] \in {"helmfileApply", "hack", "kubeVipFile"}
  /\ \A r \in Admins : r[1] = "k8sAdmin" /\ \E v \in Members("default") : r = Admin(v)
  /\ \A r \in Workers : r[1] = "k8sWorker"
                           /\ \E v \in Members("agent") : r = Worker(v)
<1>1. \A r \in {Shared(k) : k \in SharedKinds} : r[1] \in SharedKinds
  <2> SUFFICES ASSUME NEW k \in SharedKinds PROVE Shared(k)[1] = k
    OBVIOUS
  <2> QED
    BY DEF Shared
<1>2. ASSUME NEW v, NEW r \in VMResources(v)
      PROVE  r[1] \in MachineKinds \cup OnlineKinds
                        \cup {"copyLog", "copyInput", "installFile"}
  <2>1. CASE \E k \in MachineKinds \cup OnlineKinds : r = <<k, v, "">>
    <3>1. PICK k \in MachineKinds \cup OnlineKinds : r = <<k, v, "">>
      BY <2>1
    <3> QED
      BY <3>1
  <2>2. CASE \E l \in Logs : r = <<"copyLog", v, l>>
    <3>1. PICK l \in Logs : r = <<"copyLog", v, l>>
      BY <2>2
    <3> QED
      BY <3>1
  <2>3. CASE \E f \in Shipped : \/ r = <<"copyInput", v, f>>
                                \/ r = <<"installFile", v, f>>
    <3>1. PICK f \in Shipped : \/ r = <<"copyInput", v, f>>
                               \/ r = <<"installFile", v, f>>
      BY <2>3
    <3> QED
      BY <3>1
  <2> QED
    BY <2>1, <2>2, <2>3 DEF VMResources, OfVM, CopyLog, CopyInput, InstallFile
<1>3. ASSUME NEW h, NEW r \in DOMAIN HelmfileDeps(h)
      PROVE  r[1] \in {"helmfileApply", "hack", "kubeVipFile"}
  <2>1. CASE r = HelmfileApply(h)
    BY <2>1 DEF HelmfileApply
  <2>3. CASE r = KubeVipFile
    BY <2>3 DEF KubeVipFile, Shared
  <2>2. CASE r \in {Hack(x) : x \in {h} \cap Hacked}
    <3>1. PICK x \in {h} \cap Hacked : r = <<"hack", NoVM, x>>
      BY <2>2 DEF Hack
    <3> QED
      BY <3>1
  <2> QED
    BY <2>1, <2>2, <2>3 DEF HelmfileDeps, HelmfileResources
<1>4. ASSUME NEW r \in Admins
      PROVE  r[1] = "k8sAdmin" /\ \E v \in Members("default") : r = Admin(v)
  <2>1. PICK v \in Members("default") : r = Admin(v)
    BY DEF Admins
  <2> QED
    BY <2>1 DEF Admin
<1>5. ASSUME NEW r \in Workers
      PROVE  r[1] = "k8sWorker" /\ \E v \in Members("agent") : r = Worker(v)
  <2>1. PICK v \in Members("agent") : r = Worker(v)
    BY DEF Workers
  <2> QED
    BY <2>1 DEF Worker
<1> QED
  BY <1>1, <1>2, <1>3, <1>4, <1>5

-----------------------------------------------------------------------------
(* Steps of the program.                                                     *)

\* A step of the program keeps the state well typed.
LEMMA UnitType ==
  ASSUME TypeOK, ListsInv, Unit
  PROVE  TypeOK'
<1> USE VMsAre DEF TypeOK, ProgramSteps
<1>1. CASE SetupShared
  <2>1. deps' \in [Resources -> SUBSET Resources] /\
        status' \in [Resources ->
                       {"none", "pending", "skipped", "done", "failed"}]
    BY <1>1, RegisterType DEF SetupShared
  <2> QED
    BY <1>1, <2>1 DEF SetupShared, Goto
<1>2. CASE UnitConfig
  <2>1. {Shared("provider"), Shared("vmpool")} \subseteq Resources
    BY ResourcesAre DEF SharedKinds
  <2>2. deps' \in [Resources -> SUBSET Resources] /\
        status' \in [Resources ->
                       {"none", "pending", "skipped", "done", "failed"}]
    BY <1>2, <2>1, RegisterOneType DEF UnitConfig
  <2>3. /\ pc' = "vm" /\ idx' = 0 /\ c' = c /\ c \in DOMAIN Config
        /\ Config[c].count \in Nat
    BY <1>2 DEF UnitConfig, Goto
  <2>4. 0 <= Config[c].count
    BY <2>3
  <2> QED
    BY <1>2, <2>2, <2>3, <2>4 DEF UnitConfig
<1>3. CASE ArtifactError \/ NextConfig \/ EndConfigs \/ EndHelmfiles
  BY <1>3 DEF ArtifactError, Abandon, NextConfig, EndConfigs, EndHelmfiles, Goto
<1>4. CASE UnitVM
  <2> DEFINE v == <<c, idx>>
  <2>1. /\ pc' = "vm" /\ idx' = idx + 1 /\ c' = c /\ n' = n
        /\ c \in DOMAIN Config /\ idx < Config[c].count /\ v \in VMs
        /\ k8sDepends' = k8sDepends /\ services' = services
    BY <1>4 DEF UnitVM, MoreVMs, Installs, IsSpecial
  <2>2. deps' \in [Resources -> SUBSET Resources] /\
        status' \in [Resources ->
                       {"none", "pending", "skipped", "done", "failed"}]
    BY <1>4, <2>1, VMDepsType, RegisterType DEF UnitVM, MoreVMs, Installs, IsSpecial
  <2>3. /\ {InstallFile(v, f) : f \in Shipped} \subseteq Resources
        /\ {OfVM("remoteOk", v), OfVM("vmSetup", v)} \subseteq Resources
        /\ {OfVM(k, v) : k \in OnlineKinds} \subseteq Resources
    BY <2>1, ResourcesAre DEF MachineKinds
  <2>4. {vmDepends', fileDepends', pkgInstalls'} \subseteq SUBSET Resources
    BY <1>4, <2>3 DEF UnitVM, MoreVMs, Installs, IsSpecial
  <2>5. /\ prime' \in VMs \cup {NoVM}
        /\ unitMap' \in [{Config[d].name : d \in DOMAIN Config} -> SUBSET VMs]
    <3>1. CASE Config[c].name = "default" /\ idx = 0
      BY <1>4, <2>1, <3>1 DEF UnitVM, MoreVMs, Installs, IsSpecial
    <3>2. CASE ~(Config[c].name = "default" /\ idx = 0)
      <4>1. /\ prime' = prime
            /\ unitMap' = [unitMap EXCEPT ![Config[c].name] = @ \cup {v}]
        BY <1>4, <3>2 DEF UnitVM, MoreVMs, Installs, IsSpecial
      <4> QED
        BY <2>1, <4>1
    <3> QED
      BY <3>1, <3>2
  <2>6. Config[c].count \in Nat /\ idx + 1 <= Config[c].count /\ idx + 1 \in Nat
    BY <2>1
  <2> QED
    BY <2>1, <2>2, <2>4, <2>5, <2>6
<1>5. CASE UnitSshConfig
  <2>1. vmDepends \cup {OfVM("domain", v) : v \in VMs} \subseteq Resources
    BY ResourcesAre DEF MachineKinds
  <2>2. deps' \in [Resources -> SUBSET Resources] /\
        status' \in [Resources ->
                       {"none", "pending", "skipped", "done", "failed"}]
    BY <1>5, <2>1, RegisterOneType DEF UnitSshConfig
  <2> QED
    BY <1>5, <2>2 DEF UnitSshConfig, Goto
<1>6. ASSUME pc \in AfterLoop
      PROVE  /\ OfVM("domain", prime) \in Resources
             /\ Prime(prime) \in Resources
  BY <1>6, PrimeIsVM, ResourcesAre DEF MachineKinds
<1>7. CASE UnitK8sPrime
  <2>1. deps' \in [Resources -> SUBSET Resources] /\
        status' \in [Resources ->
                       {"none", "pending", "skipped", "done", "failed"}]
    BY <1>6, <1>7, RegisterOneType DEF UnitK8sPrime, Goto, AfterLoop
  <2> QED
    BY <1>6, <1>7, <2>1 DEF UnitK8sPrime, Goto, AfterLoop
<1>8. CASE UnitKubeconfig
  <2>1. deps' \in [Resources -> SUBSET Resources] /\
        status' \in [Resources ->
                       {"none", "pending", "skipped", "done", "failed"}]
    BY <1>6, <1>8, RegisterOneType DEF UnitKubeconfig, Goto, AfterLoop
  <2> QED
    BY <1>8, <2>1 DEF UnitKubeconfig, Goto
<1>9. CASE UnitAdmins \/ UnitWorkers
  <2>0. \A name : Members(name) \subseteq VMs
    BY DEF Members
  <2>1. Admins \cup Workers \subseteq Resources
    BY <2>0, ResourcesAre DEF Admins, Workers
  <2>2. ASSUME NEW r \in Admins \cup Workers
        PROVE  r[2] \in VMs
    <3>1. CASE r \in Admins
      <4>1. PICK v \in VMs : r = <<"k8sAdmin", v, "">>
        BY <2>0, <3>1 DEF Admins, Admin
      <4> QED
        BY <4>1
    <3>2. CASE r \in Workers
      <4>1. PICK v \in VMs : r = <<"k8sWorker", v, "">>
        BY <2>0, <3>2 DEF Workers, Worker
      <4> QED
        BY <4>1
    <3> QED
      BY <2>2, <3>1, <3>2
  <2>3. ASSUME NEW S \in SUBSET (Admins \cup Workers)
        PROVE  \A r \in DOMAIN Joins(S) : Joins(S)[r] \subseteq Resources
    BY <1>6, <1>9, <2>2, ResourcesAre
    DEF Joins, UnitAdmins, UnitWorkers, Goto, AfterLoop, MachineKinds
  <2>4. deps' \in [Resources -> SUBSET Resources] /\
        status' \in [Resources ->
                       {"none", "pending", "skipped", "done", "failed"}]
    BY <1>9, <2>3, RegisterType DEF UnitAdmins, UnitWorkers
  <2> QED
    BY <1>9, <2>1, <2>4 DEF UnitAdmins, UnitWorkers, Goto
<1>10. CASE UnitOnline
  BY <1>10 DEF UnitOnline, Goto
<1>11. CASE UnitHelmfile
  <2> DEFINE h == Helmfiles[n]
  <2>0. Len(Helmfiles) \in Nat /\ DOMAIN Helmfiles = 1 .. Len(Helmfiles)
    BY UnitAssumption
  <2>1. n \in DOMAIN Helmfiles /\ n + 1 \in 1 .. Len(Helmfiles) + 1
    BY <1>11, <2>0 DEF UnitHelmfile
  <2>2. h \in HelmfileNames
    BY <2>1 DEF HelmfileNames
  <2>3. DOMAIN HelmfileDeps(h) \subseteq Resources
    BY <2>2, ResourcesAre DEF HelmfileDeps, HelmfileResources
  <2>4. \A r \in DOMAIN HelmfileDeps(h) : HelmfileDeps(h)[r] \subseteq Resources
    BY <1>6, <1>11 DEF HelmfileDeps, HelmfileResources, UnitHelmfile, AfterLoop
  <2>5. deps' \in [Resources -> SUBSET Resources] /\
        status' \in [Resources ->
                       {"none", "pending", "skipped", "done", "failed"}]
    BY <1>11, <2>4, RegisterType DEF UnitHelmfile
  <2> QED
    BY <1>11, <2>1, <2>3, <2>5 DEF UnitHelmfile
<1>12. CASE UnitVMError
  <2> DEFINE v == <<c, idx>>
  <2>1. /\ pc = "vm" /\ c \in DOMAIN Config /\ idx < Config[c].count /\ v \in VMs
    BY <1>12 DEF UnitVMError, MoreVMs, Abandon, Goto
  <2>2. PICK S \in VMPrefixes(v) : Register([r \in S |-> DependsOf(v, r)])
    BY <1>12 DEF UnitVMError
  <2> DEFINE D == [r \in S |-> DependsOf(v, r)]
  <2>3. \A r \in DOMAIN D : D[r] \subseteq Resources
    BY <2>1, VMPrefixesAre, VMDepsType DEF VMDeps
  <2>4. deps' \in [Resources -> SUBSET Resources] /\
        status' \in [Resources ->
                       {"none", "pending", "skipped", "done", "failed"}]
    <3> HIDE DEF D
    <3>1. Register(D)
      BY <2>2 DEF D
    <3> QED
      BY <2>3, <3>1, RegisterType
  <2> QED
    BY <1>12, <2>4 DEF UnitVMError, Abandon, Goto
<1>13. CASE UnitHelmfileError
  <2>1. deps' \in [Resources -> SUBSET Resources] /\
        status' \in [Resources ->
                       {"none", "pending", "skipped", "done", "failed"}]
    BY <1>13, RegisterOneType DEF UnitHelmfileError
  <2> QED
    BY <1>13, <2>1 DEF UnitHelmfileError, Abandon, Goto
<1> QED
  BY <1>1, <1>2, <1>3, <1>4, <1>5, <1>7, <1>8, <1>9, <1>10, <1>11, <1>12, <1>13
  DEF Unit

\* A step of the program keeps the lists complete: the loop adds each
\* machine's needs, and no later step takes anything away.
LEMMA UnitLists ==
  ASSUME TypeOK, ListsInv, Unit
  PROVE  ListsInv'
<1> USE VMsAre DEF TypeOK, ListsInv, AfterLoop
<1>1. CASE SetupShared \/ UnitConfig
  <2>1. /\ c' = c /\ vmDepends' = vmDepends /\ prime' = prime
        /\ pc \notin AfterLoop /\ pc' \notin AfterLoop /\ pc # "vm"
        /\ pc' = "vm" => idx' = 0
    BY <1>1 DEF SetupShared, UnitConfig, Goto
  <2>2. \A v \in VMs : Past(v)' => Past(v)
    BY <2>1 DEF Past
  <2> QED
    BY <2>1, <2>2
<1>2. CASE UnitVM
  <2> DEFINE w == <<c, idx>>
  <2>1. /\ pc = "vm" /\ pc' = "vm" /\ c' = c /\ idx' = idx + 1
        /\ c \in DOMAIN Config /\ idx < Config[c].count /\ w \in VMs
    BY <1>2 DEF UnitVM, MoreVMs, Installs, IsSpecial
  <2>2. vmDepends \cup Needs(w) \subseteq vmDepends'
    BY <1>2 DEF UnitVM, MoreVMs, Installs, IsSpecial, Needs
  <2>3. ASSUME NEW v \in VMs, Past(v)' PROVE Past(v) \/ v = w
    <3>1. v[1] < c \/ (v[1] = c /\ v[2] < idx + 1)
      BY <2>1, <2>3 DEF Past
    <3>2. CASE v[1] = c /\ v[2] = idx
      BY <3>2
    <3> QED
      BY <2>1, <3>1, <3>2 DEF Past
  <2>4. ASSUME NEW v \in VMs, Past(v)', IsPrime(v) PROVE prime' = v
    <3>1. CASE v = w
      <4>1. Config[c].name = "default" /\ idx = 0
        BY <2>4, <3>1 DEF IsPrime
      <4> QED
        BY <1>2, <3>1, <4>1 DEF UnitVM, MoreVMs, Installs, IsSpecial
    <3>2. CASE v # w
      <4>1. Past(v) /\ prime = v
        BY <2>3, <2>4, <3>2
      <4>2. ~(Config[c].name = "default" /\ idx = 0)
        <5> SUFFICES ASSUME Config[c].name = "default", idx = 0 PROVE FALSE
          OBVIOUS
        <5>1. v[1] = c /\ v[2] = 0
          BY <2>1, <2>4, ConfigAssumption DEF IsPrime
        <5> QED
          BY <3>2, <5>1
      <4> QED
        BY <1>2, <4>1, <4>2 DEF UnitVM, MoreVMs, Installs, IsSpecial
    <3> QED
      BY <3>1, <3>2
  <2>5. ASSUME NEW v \in VMs, Past(v)' PROVE Needs(v) \subseteq vmDepends'
    <3>1. CASE v = w
      BY <2>2, <3>1
    <3>2. CASE Past(v)
      BY <2>2, <3>2
    <3> QED
      BY <2>3, <2>5, <3>1, <3>2
  <2>6. \A v \in VMs : Past(v)' /\ IsPrime(v) => prime' = v
    BY <2>4
  <2>7. \A v \in VMs : Past(v)' => Needs(v) \subseteq vmDepends'
    BY <2>5
  <2> HIDE DEF w, TypeOK
  <2> QED
    BY <2>1, <2>6, <2>7 DEF IsPrime, Needs
<1>3. CASE NextConfig
  <2>1. /\ pc = "vm" /\ pc' = "config" /\ c' = c + 1 /\ idx = Config[c].count
        /\ vmDepends' = vmDepends /\ prime' = prime /\ c \in DOMAIN Config
    BY <1>3 DEF NextConfig, Goto
  <2>2. ASSUME NEW v \in VMs, Past(v)' PROVE Past(v)
    <3>1. v[1] < c + 1
      BY <2>1, <2>2 DEF Past
    <3>2. v[1] < c \/ v[1] = c
      BY <2>1, <3>1
    <3> QED
      BY <2>1, <3>2 DEF Past
  <2> QED
    BY <2>1, <2>2
<1>4. CASE EndConfigs
  <2>1. /\ pc = "config" /\ pc' = "sshConfig" /\ c' = c /\ c = Len(Config) + 1
        /\ vmDepends' = vmDepends /\ prime' = prime
    BY <1>4 DEF EndConfigs, Goto
  <2>2. \A v \in VMs : Past(v)
    BY <2>1 DEF Past
  <2> QED
    BY <2>1, <2>2
<1>5. CASE UnitSshConfig \/ UnitK8sPrime \/ UnitKubeconfig \/ UnitAdmins
           \/ UnitWorkers \/ UnitOnline \/ UnitHelmfile \/ EndHelmfiles
  <2>1. /\ pc \in AfterLoop /\ pc' \in AfterLoop /\ c' = c /\ prime' = prime
        /\ vmDepends \subseteq vmDepends'
    BY <1>5 DEF UnitSshConfig, UnitK8sPrime, UnitKubeconfig, UnitAdmins,
                UnitWorkers, UnitOnline, UnitHelmfile, EndHelmfiles, Goto
  <2>2. \A v \in VMs : Past(v) /\ Past(v)'
    BY <2>1 DEF Past
  <2>3. pc' \in {"k8sPrime", "kubeconfig", "admins", "workers"} =>
          \A v \in VMs : Needs(v) \subseteq k8sDepends'
    BY <1>5, <2>2 DEF UnitSshConfig, UnitK8sPrime, UnitKubeconfig, UnitAdmins,
                UnitWorkers, UnitOnline, UnitHelmfile, EndHelmfiles, Goto
  <2>4. pc' \in {"kubeconfig", "admins", "workers"} =>
          Prime(prime') \in k8sDepends'
    BY <1>5 DEF UnitSshConfig, UnitK8sPrime, UnitKubeconfig, UnitAdmins,
                UnitWorkers, UnitOnline, UnitHelmfile, EndHelmfiles, Goto
  <2> QED
    BY <2>1, <2>2, <2>3, <2>4 DEF IsPrime, Needs
<1>6. CASE ArtifactError \/ UnitVMError \/ UnitHelmfileError
  <2>1. /\ pc' = "error" /\ c' = c /\ vmDepends' = vmDepends /\ prime' = prime
    BY <1>6 DEF ArtifactError, UnitVMError, UnitHelmfileError, Abandon, Goto
  <2>2. \A v \in VMs : Past(v)' => Past(v)
    BY <2>1 DEF Past
  <2> QED
    BY <2>1, <2>2
<1> QED
  BY <1>1, <1>2, <1>3, <1>4, <1>5, <1>6 DEF Unit

\* Registering D changes D's resources and no other.
LEMMA RegisterFrame ==
  ASSUME NEW D, Register(D), NEW r \in Resources
  PROVE  /\ r \notin DOMAIN D => deps'[r] = deps[r] /\ status'[r] = status[r]
         /\ r \in DOMAIN D => deps'[r] = D[r] /\ status'[r] \in {"pending", "skipped"}
BY DEF Register

\* Registering resources other than the k8s commands, and after the loop
\* other than what these wait for, keeps the order.
LEMMA QuietRegister ==
  ASSUME OrderInv, NEW D, Register(D),
         \A r \in DOMAIN D :
           r[1] \notin {"k8sPrime", "k8sAdmin", "k8sWorker", "kubeconfig"},
         pc \in PrimeRegistered =>
           /\ prime' = prime
           /\ \A r \in DOMAIN D : r[1] \notin {"installFile", "remoteOk"},
         pc' \notin PrimeRegistered => pc \notin PrimeRegistered
  PROVE  GraphInv' /\ EngineInv'
<1>1. \A r \in K8sCommands \cup JoinCommands :
        r \in Resources /\ status'[r] = status[r] /\ deps'[r] = deps[r]
  BY NeedsAre, RegisterFrame
<1>2. pc \in PrimeRegistered =>
        \A v \in VMs : \A r \in Needs(v) : status'[r] = status[r]
  BY NeedsAre, RegisterFrame
<1>3. pc \in PrimeRegistered =>
        /\ prime' = prime
        /\ prime \in VMs => status'[Prime(prime)] = status[Prime(prime)]
  <2>1. prime \in VMs => Prime(prime) \in K8sCommands
    BY DEF K8sCommands
  <2> QED
    BY <1>1, <2>1
<1>4. pc \notin PrimeRegistered =>
        \A r \in K8sCommands \cup JoinCommands : status[r] = "none"
  BY DEF OrderInv, GraphInv, JoinCommands, K8sCommands
<1>5. Kubeconfig \in JoinCommands
  BY DEF JoinCommands
<1>6. GraphInv'
  BY <1>1, <1>3, <1>4, <1>5 DEF GraphInv, OrderInv
<1>7. EngineInv'
  <2>1. CASE pc \in PrimeRegistered
    BY <1>1, <1>2, <1>3, <2>1 DEF EngineInv, GraphInv, OrderInv, Done
  <2>2. CASE pc \notin PrimeRegistered
    BY <1>1, <1>4, <2>2 DEF EngineInv
  <2> QED
    BY <2>1, <2>2
<1> QED
  BY <1>6, <1>7

\* Registering k8s commands with everything they wait for keeps the order.
LEMMA K8sRegister ==
  ASSUME OrderInv, NEW D, Register(D),
         \A r \in DOMAIN D :
           /\ r[1] \in {"k8sPrime", "k8sAdmin", "k8sWorker", "kubeconfig"}
           /\ \A v \in VMs : Needs(v) \subseteq D[r]
           /\ r \in JoinCommands => Prime(prime) \in D[r],
         (\A r \in JoinCommands : status[r] = "none") \/ Prime(prime) \notin DOMAIN D,
         prime \in VMs, prime' = prime,
         pc' \in PrimeRegistered
  PROVE  GraphInv' /\ EngineInv'
<1>1. \A r \in K8sCommands \cup JoinCommands :
        /\ r \in Resources
        /\ r \notin DOMAIN D => status'[r] = status[r] /\ deps'[r] = deps[r]
        /\ r \in DOMAIN D => status'[r] \in {"pending", "skipped"}
                             /\ deps'[r] = D[r]
  BY NeedsAre, RegisterFrame
<1>2. \A v \in VMs : \A r \in Needs(v) : status'[r] = status[r]
  BY NeedsAre, RegisterFrame
<1>3. GraphInv'
  BY <1>1 DEF GraphInv, OrderInv, Needs
<1>4. \A r \in K8sCommands : status'[r] \in {"done", "failed"} =>
        \A v \in VMs : Done(Needs(v))'
  BY <1>1, <1>2 DEF EngineInv, OrderInv, Done
<1>5. ASSUME NEW r \in JoinCommands, status'[r] \in {"done", "failed"}
      PROVE  status'[Prime(prime)] = "done"
  <2>1. r \notin DOMAIN D /\ status[r] \in {"done", "failed"}
    BY <1>1, <1>5
  <2>2. status[Prime(prime)] = "done" /\ Prime(prime) \notin DOMAIN D
    BY <2>1 DEF EngineInv, OrderInv
  <2>3. Prime(prime) \in K8sCommands
    BY DEF K8sCommands
  <2> QED
    BY <1>1, <2>2, <2>3
<1> QED
  BY <1>3, <1>4, <1>5 DEF EngineInv

\* A step of the program registers the k8s commands with all they wait for.
LEMMA UnitGraph ==
  ASSUME OrderInv, Unit
  PROVE  GraphInv' /\ EngineInv'
<1>0. TypeOK /\ ListsInv
  BY DEF OrderInv
<1>1. CASE SetupShared
  <2> DEFINE D == [r \in {Shared(k) : k \in SharedKinds} |-> {}]
  <2>1. Register(D) /\ pc = "shared" /\ pc' = "config"
    BY <1>1 DEF SetupShared, Goto
  <2>2. \A r \in DOMAIN D : r[1] \in SharedKinds
    BY RegisteredKinds
  <2> HIDE DEF D
  <2> QED
    BY <2>1, <2>2, QuietRegister DEF SharedKinds, PrimeRegistered
<1>2. CASE UnitConfig
  <2> DEFINE D == [x \in {BaseVolume(c)} |->
                     {Shared("provider"), Shared("vmpool")}]
  <2>1. Register(D) /\ pc = "config" /\ pc' = "vm"
    BY <1>2 DEF UnitConfig, Goto, RegisterOne
  <2>2. \A r \in DOMAIN D : r[1] = "baseVolume"
    <3>1. BaseVolume(c)[1] = "baseVolume"
      BY DEF BaseVolume
    <3> QED
      BY <3>1
  <2> HIDE DEF D
  <2> QED
    BY <2>1, <2>2, QuietRegister DEF PrimeRegistered
<1>3. CASE UnitVM
  <2>1. Register(VMDeps(<<c, idx>>)) /\ pc = "vm" /\ pc' = "vm"
    BY <1>3 DEF UnitVM
  <2>2. \A r \in DOMAIN VMDeps(<<c, idx>>) :
          r[1] \notin {"k8sPrime", "k8sAdmin", "k8sWorker", "kubeconfig"}
    BY RegisteredKinds DEF VMDeps, MachineKinds, OnlineKinds
  <2> QED
    BY <2>1, <2>2, QuietRegister DEF PrimeRegistered
<1>4. CASE UnitSshConfig
  <2> DEFINE D == [x \in {SshConfig} |->
                     vmDepends \cup {OfVM("domain", v) : v \in VMs}]
  <2>1. /\ Register(D) /\ pc = "sshConfig" /\ prime' = prime
    BY <1>4 DEF UnitSshConfig, Goto, RegisterOne
  <2>2. \A r \in DOMAIN D : r[1] = "sshConfig"
    <3>1. SshConfig[1] = "sshConfig"
      BY DEF SshConfig, Shared
    <3> QED
      BY <3>1
  <2> HIDE DEF D
  <2> QED
    BY <2>1, <2>2, QuietRegister DEF PrimeRegistered
<1>5. CASE UnitHelmfile
  <2>1. /\ Register(HelmfileDeps(Helmfiles[n]))
        /\ pc = "helmfile" /\ pc' = "helmfile" /\ prime' = prime
    BY <1>5 DEF UnitHelmfile
  <2>2. \A r \in DOMAIN HelmfileDeps(Helmfiles[n]) :
          r[1] \in {"helmfileApply", "hack", "kubeVipFile"}
    BY RegisteredKinds
  <2> QED
    BY <2>1, <2>2, QuietRegister DEF PrimeRegistered
<1>6. CASE UnitK8sPrime
  <2> DEFINE D == [x \in {Prime(prime)} |->
                     k8sDepends \cup {OfVM("domain", prime)}]
  <2>1. /\ Register(D) /\ pc = "k8sPrime" /\ pc' = "kubeconfig"
        /\ prime' = prime
    BY <1>6 DEF UnitK8sPrime, Goto, RegisterOne
  <2>2. \A v \in VMs : Needs(v) \subseteq k8sDepends
    BY <1>0, <2>1 DEF ListsInv
  <2>3. \A r \in JoinCommands : status[r] = "none"
    BY <2>1 DEF OrderInv, GraphInv, JoinCommands, K8sCommands, PrimeRegistered
  <2>4. \A r \in DOMAIN D : r[1] = "k8sPrime" /\ r \notin JoinCommands
    <3>1. Prime(prime)[1] = "k8sPrime"
      BY DEF Prime
    <3> QED
      BY <3>1, NeedsAre
  <2>5. \A r \in DOMAIN D : \A v \in VMs : Needs(v) \subseteq D[r]
    BY <2>2
  <2> HIDE DEF D
  <2> QED
    BY <1>0, <2>1, <2>3, <2>4, <2>5, K8sRegister, PrimeIsVM
       DEF PrimeRegistered, AfterLoop
<1>7. ASSUME pc \in {"kubeconfig", "admins", "workers"}
      PROVE  /\ \A v \in VMs : Needs(v) \subseteq k8sDepends
             /\ Prime(prime) \in k8sDepends
  BY <1>0, <1>7 DEF ListsInv
<1>8. CASE UnitKubeconfig
  <2> DEFINE D == [x \in {Kubeconfig} |->
                     k8sDepends \cup {OfVM("domain", prime)}]
  <2>1. /\ Register(D) /\ pc = "kubeconfig" /\ pc' = "admins"
        /\ prime' = prime
    BY <1>8 DEF UnitKubeconfig, Goto, RegisterOne
  <2>2. \A r \in DOMAIN D : r[1] = "kubeconfig"
    <3>1. Kubeconfig[1] = "kubeconfig"
      BY DEF Kubeconfig, Shared
    <3> QED
      BY <3>1
  <2>3. Prime(prime)[1] = "k8sPrime"
    BY DEF Prime
  <2>4. \A r \in DOMAIN D : /\ \A v \in VMs : Needs(v) \subseteq D[r]
                            /\ Prime(prime) \in D[r]
    BY <1>7, <2>1
  <2>5. Prime(prime) \notin DOMAIN D
    BY <2>2, <2>3
  <2> HIDE DEF D
  <2> QED
    BY <1>0, <2>1, <2>2, <2>4, <2>5, K8sRegister, PrimeIsVM
       DEF PrimeRegistered, AfterLoop
<1>9. CASE UnitAdmins \/ UnitWorkers
  <2>1. PICK S \in {Admins, Workers} : Register(Joins(S))
    BY <1>9 DEF UnitAdmins, UnitWorkers
  <2>2. /\ pc \in {"admins", "workers"} /\ pc' \in {"workers", "online"}
        /\ prime' = prime
    BY <1>9 DEF UnitAdmins, UnitWorkers, Goto
  <2>3. \A r \in DOMAIN Joins(S) : r[1] \in {"k8sAdmin", "k8sWorker"}
    BY RegisteredKinds DEF Joins
  <2>4. \A r \in DOMAIN Joins(S) :
          /\ \A v \in VMs : Needs(v) \subseteq Joins(S)[r]
          /\ Prime(prime) \in Joins(S)[r]
    BY <1>7, <2>2 DEF Joins
  <2>5. Prime(prime)[1] = "k8sPrime"
    BY DEF Prime
  <2>6. Prime(prime) \notin DOMAIN Joins(S)
    BY <2>3, <2>5
  <2> QED
    BY <1>0, <2>1, <2>2, <2>3, <2>4, <2>6, K8sRegister, PrimeIsVM
    DEF PrimeRegistered, AfterLoop
<1>10. CASE ArtifactError \/ NextConfig \/ EndConfigs \/ UnitOnline \/ EndHelmfiles
  <2>1. /\ deps' = deps /\ status' = status /\ prime' = prime
        /\ pc' \notin PrimeRegistered => pc \notin PrimeRegistered
    BY <1>10 DEF ArtifactError, Abandon, NextConfig, EndConfigs, UnitOnline,
                 EndHelmfiles, Goto, PrimeRegistered
  <2> QED
    BY <2>1 DEF OrderInv, GraphInv, EngineInv, Done
<1>11. CASE UnitVMError
  <2>1. PICK S \in VMPrefixes(<<c, idx>>) :
          Register([r \in S |-> DependsOf(<<c, idx>>, r)])
    BY <1>11 DEF UnitVMError
  <2> DEFINE D == [r \in S |-> DependsOf(<<c, idx>>, r)]
  <2>2. Register(D) /\ pc = "vm" /\ pc' = "error"
    BY <1>11, <2>1 DEF UnitVMError, Abandon, Goto
  <2>3. \A r \in DOMAIN D :
          r[1] \notin {"k8sPrime", "k8sAdmin", "k8sWorker", "kubeconfig"}
    BY VMPrefixesAre, RegisteredKinds DEF MachineKinds, OnlineKinds
  <2> HIDE DEF D
  <2> QED
    BY <2>2, <2>3, QuietRegister DEF PrimeRegistered
<1>12. CASE UnitHelmfileError
  <2> DEFINE D == [x \in {HelmfileApply(Helmfiles[n])} |-> vmDepends]
  <2>1. Register(D) /\ pc = "helmfile" /\ pc' = "error" /\ prime' = prime
    BY <1>12 DEF UnitHelmfileError, Abandon, Goto, RegisterOne
  <2>2. \A r \in DOMAIN D : r[1] = "helmfileApply"
    <3>1. HelmfileApply(Helmfiles[n])[1] = "helmfileApply"
      BY DEF HelmfileApply
    <3> QED
      BY <3>1
  <2> HIDE DEF D
  <2> QED
    BY <2>1, <2>2, QuietRegister DEF PrimeRegistered
<1> QED
  BY <1>1, <1>2, <1>3, <1>4, <1>5, <1>6, <1>8, <1>9, <1>10, <1>11, <1>12 DEF Unit

-----------------------------------------------------------------------------
(* Steps of the engine.                                                      *)

\* The engine registers nothing, undoes nothing, and ends only what it is at
\* work on.
LEMMA EngineMoves ==
  ASSUME TypeOK, Engine
  PROVE  \A r \in Resources :
           /\ status[r] = "none" <=> status'[r] = "none"
           /\ status[r] = "done" => status'[r] = "done"
           /\ status'[r] \in {"done", "failed"} =>
                status[r] \in {"done", "failed"} \/ InFlight(r)
<1> DEFINE Moves ==
      \A r \in Resources :
        /\ status[r] = "none" <=> status'[r] = "none"
        /\ status[r] = "done" => status'[r] = "done"
        /\ status'[r] \in {"done", "failed"} =>
             status[r] \in {"done", "failed"} \/ InFlight(r)
<1>1. ASSUME NEW r \in Resources, Finish(r) PROVE Moves
  BY <1>1 DEF Finish, InFlight, TypeOK
<1>2. ASSUME NEW r \in Resources, FailResource(r) PROVE Moves
  BY <1>2 DEF FailResource, InFlight, TypeOK
<1>3. ASSUME NEW h, CreateService(h) PROVE Moves
  BY <1>3 DEF CreateService
<1> QED
  BY <1>1, <1>2, <1>3 DEF Engine

\* A step of the engine keeps the order: it finishes or fails only what has
\* all its dependencies done, and undoes nothing.
LEMMA EngineStep ==
  ASSUME OrderInv, Engine
  PROVE  OrderInv'
<1>0. TypeOK /\ ListsInv /\ GraphInv /\ EngineInv
  BY DEF OrderInv
<1>1. program' = program /\ deps' = deps
  BY DEF Engine, Finish, FailResource, CreateService
<1>2. /\ pc' = pc /\ c' = c /\ idx' = idx /\ n' = n /\ vmDepends' = vmDepends
      /\ fileDepends' = fileDepends /\ pkgInstalls' = pkgInstalls
      /\ k8sDepends' = k8sDepends /\ prime' = prime /\ unitMap' = unitMap
  BY <1>1 DEF program
<1>3. TypeOK'
  <2>1. ASSUME NEW r \in Resources, Finish(r) \/ FailResource(r)
        PROVE  /\ status' \in [Resources ->
                     {"none", "pending", "skipped", "done", "failed"}]
               /\ services' = services
    BY <1>0, <2>1 DEF Finish, FailResource, TypeOK
  <2>2. ASSUME NEW h \in Hacked \cap HelmfileNames, CreateService(h)
        PROVE  status' = status /\ services' \subseteq Hacked
    BY <1>0, <2>2 DEF CreateService, TypeOK
  <2>3. /\ status' \in [Resources ->
                          {"none", "pending", "skipped", "done", "failed"}]
        /\ services' \subseteq Hacked
    BY <1>0, <2>1, <2>2 DEF Engine, TypeOK
  <2> QED
    BY <1>0, <1>1, <1>2, <2>3 DEF TypeOK
<1>4. ListsInv'
  BY <1>0, <1>2 DEF ListsInv, Past, IsPrime, Needs
<1>5. \A r \in Resources :
        /\ status[r] = "none" <=> status'[r] = "none"
        /\ status[r] = "done" => status'[r] = "done"
        /\ status'[r] \in {"done", "failed"} =>
             status[r] \in {"done", "failed"} \/ InFlight(r)
  BY <1>0, EngineMoves
<1>6. GraphInv'
  BY <1>0, <1>1, <1>2, <1>5, NeedsAre, ResourcesAre DEF GraphInv, Needs
<1>7. \A r \in K8sCommands : status'[r] \in {"done", "failed"} =>
        \A v \in VMs : Done(Needs(v))'
  BY <1>0, <1>5, NeedsAre DEF GraphInv, EngineInv, InFlight, Done
<1>8. ASSUME NEW r \in JoinCommands, status'[r] \in {"done", "failed"}
      PROVE  status'[Prime(prime)] = "done"
  <2>1. status[Prime(prime)] = "done"
    BY <1>0, <1>5, <1>8, NeedsAre DEF GraphInv, EngineInv, InFlight, Done
  <2>2. Prime(prime) \in Resources
    <3>1. status[r] # "none"
      BY <1>5, <1>8, NeedsAre
    <3>2. prime \in VMs
      BY <1>0, <3>1 DEF GraphInv
    <3> QED
      BY <3>2, ResourcesAre
  <2> QED
    BY <1>5, <2>1, <2>2
<1> QED
  BY <1>2, <1>3, <1>4, <1>6, <1>7, <1>8 DEF OrderInv, EngineInv

-----------------------------------------------------------------------------
\* Initially nothing is collected, registered or done.
LEMMA InitOrderInv == Init => OrderInv
<1> SUFFICES ASSUME Init PROVE OrderInv
  OBVIOUS
<1>1. TypeOK
  <2>1. Len(Helmfiles) \in Nat
    BY UnitAssumption
  <2> QED
    BY <2>1, VMsAre DEF Init, TypeOK, ProgramSteps
<1>2. ListsInv
  <2>1. \A v \in VMs : ~Past(v)
    BY VMsAre DEF Init, Past, AfterLoop
  <2> QED
    BY <2>1 DEF Init, ListsInv, AfterLoop
<1>3. GraphInv /\ EngineInv
  BY NeedsAre, ResourcesAre DEF Init, GraphInv, EngineInv
<1> QED
  BY <1>1, <1>2, <1>3 DEF OrderInv

\* Every step keeps the order invariant.
LEMMA NextOrderInv == OrderInv /\ [Next]_vars => OrderInv'
<1> SUFFICES ASSUME OrderInv, [Next]_vars PROVE OrderInv'
  OBVIOUS
<1>1. CASE Unit
  BY <1>1, UnitType, UnitLists, UnitGraph DEF OrderInv
<1>2. CASE Engine
  BY <1>2, EngineStep
<1>3. CASE UNCHANGED vars
  BY <1>3 DEF vars, program, OrderInv, TypeOK, ListsInv, GraphInv, EngineInv,
              Past, IsPrime, Needs, Done
<1> QED
  BY <1>1, <1>2, <1>3 DEF Next

\* Every reachable state is well typed: in particular the lists that Unit
\* hands to the engine name only resources, so prime is set when it is used.
THEOREM TypeCorrect == Spec => []TypeOK
<1>1. OrderInv => TypeOK
  BY DEF OrderInv
<1> QED
  BY <1>1, InitOrderInv, NextOrderInv, PTL DEF Spec

\* No node runs its k8s command before every machine has every shipped input
\* and a working remote binary, for every unit and whatever fails.
THEOREM K8sWaitsForInputs == Spec => []K8sAfterInputs
<1>1. OrderInv => K8sAfterInputs
  <2> SUFFICES ASSUME OrderInv, NEW r \in K8sCommands, Started(r)
               PROVE  Done({InstallFile(v, f) : v \in VMs, f \in Shipped}
                             \cup {OfVM("remoteOk", v) : v \in VMs})
    BY DEF K8sAfterInputs
  <2>1. \A v \in VMs : Done(Needs(v))
    <3>1. CASE InFlight(r)
      BY <3>1 DEF OrderInv, GraphInv, InFlight, Done
    <3>2. CASE status[r] \in {"done", "failed"}
      BY <3>2 DEF OrderInv, EngineInv
    <3> QED
      BY <3>1, <3>2 DEF Started
  <2> QED
    BY <2>1 DEF Done, Needs
<1> QED
  BY <1>1, InitOrderInv, NextOrderInv, PTL DEF Spec

\* No node joins and no kubeconfig is fetched before the prime node's
\* install is done, for every unit and whatever fails.
THEOREM JoinsWaitForPrime == Spec => []JoinAfterPrime
<1>1. OrderInv => JoinAfterPrime
  <2> SUFFICES ASSUME OrderInv, NEW r \in JoinCommands, Started(r)
               PROVE  status[Prime(prime)] = "done"
    BY DEF JoinAfterPrime, JoinCommands
  <2>1. CASE InFlight(r)
    BY <2>1 DEF OrderInv, GraphInv, InFlight, Done
  <2>2. CASE status[r] \in {"done", "failed"}
    BY <2>2 DEF OrderInv, EngineInv
  <2> QED
    BY <2>1, <2>2 DEF Started
<1> QED
  BY <1>1, InitOrderInv, NextOrderInv, PTL DEF Spec
=============================================================================
