-------------------------- MODULE UnitOrderProofs ---------------------------
(* More proofs about UnitDeploy, for every unit: what the ssh config and the *)
(* helmfiles wait for, and which node runs which k8s command.                *)
(*                                                                           *)
(* They rest on two facts about all resources at once.  The program          *)
(* registers each resource at most once (Fresh), so a dependency list that   *)
(* the engine has acted on is never replaced, and whatever has ended began   *)
(* with its whole list done (Begun).  What is left to show of a resource is  *)
(* what its list has on it when it is registered.                            *)
EXTENDS UnitDeployProofs

-----------------------------------------------------------------------------
(* The inductive invariant.                                                  *)

VMKinds == MachineKinds \cup OnlineKinds \cup {"copyLog", "copyInput", "installFile"}

InLoop == {"shared", "config", "vm"}
BeforePrime == InLoop \cup {"sshConfig", "k8sPrime"}
BeforeHelmfiles == ProgramSteps \ {"helmfile"}

\* Helmfile h is at or after the loop over the helmfiles.
ToApply(h) == \E m \in DOMAIN Helmfiles : m >= n /\ Helmfiles[m] = h

\* The step that registers r is still ahead of the program.
Ahead(r) ==
  \/ r[1] \in SharedKinds /\ pc = "shared"
  \/ /\ r[1] = "baseVolume"
     /\ \/ pc = "shared"
        \/ pc = "config" /\ r[2][1] >= c
        \/ pc = "vm" /\ r[2][1] > c
  \/ r[1] \in VMKinds /\ pc \in InLoop /\ ~Past(r[2])
  \/ r[1] = "sshConfig" /\ pc \in InLoop \cup {"sshConfig"}
  \/ r[1] = "k8sPrime" /\ pc \in BeforePrime
  \/ r[1] = "kubeconfig" /\ pc \in BeforePrime \cup {"kubeconfig"}
  \/ r[1] = "k8sAdmin" /\ pc \in BeforePrime \cup {"kubeconfig", "admins"}
  \/ r[1] = "k8sWorker" /\ pc \in BeforePrime \cup {"kubeconfig", "admins", "workers"}
  \/ /\ r[1] \in {"hack", "helmfileApply"}
     /\ pc \in BeforeHelmfiles \/ (pc = "helmfile" /\ ToApply(r[3]))
  \/ /\ r[1] = "kubeVipFile"
     /\ pc \in BeforeHelmfiles \/ (pc = "helmfile" /\ ToApply("kube-vip"))

\* What is still ahead of the program is not registered.
Fresh == \A r \in Resources : Ahead(r) => status[r] = "none"

\* What has ended has ended after everything it was registered to wait for.
Begun == \A r \in Resources : status[r] \in {"done", "failed"} => Done(deps[r])

\* Which machines the program has put aside for which role.
RolesInv ==
  /\ prime \in VMs => IsPrime(prime)
  /\ \A name \in DOMAIN unitMap : \A v \in unitMap[name] :
       Config[v[1]].name = name /\ ~IsPrime(v)
  /\ \A v \in VMs : Past(v) /\ ~IsPrime(v) => v \in unitMap[Config[v[1]].name]

\* Which k8s commands it has registered.
CommandsInv ==
  /\ \A v \in VMs :
       /\ Registered(Prime(v)) => v = prime
       /\ Registered(Admin(v)) => v \in Members("default")
       /\ Registered(Worker(v)) => v \in Members("agent")
  /\ IsK8s =>
       /\ pc \in PrimeRegistered \ {"error"} => Registered(Prime(prime))
       /\ pc \in {"workers", "online", "helmfile", "returned"} =>
            \A v \in Members("default") : Registered(Admin(v))
       /\ pc \in {"online", "helmfile", "returned"} =>
            \A v \in Members("agent") : Registered(Worker(v))

K8sRegistered == {r \in K8sCommands : Registered(r)}

\* The m-th helmfile comes after the ones before it, with their hacks.
Earlier(m) ==
  {HelmfileApply(Helmfiles[k]) : k \in 1 .. m - 1}
    \cup {Hack(Helmfiles[k]) : k \in {j \in 1 .. m - 1 : Helmfiles[j] \in Hacked}}

Iscsi == {OfVM("enableIscsi", v) : v \in VMs}

\* What the program has collected for the helmfiles.
CollectedInv ==
  /\ pc \in BeforeHelmfiles => n = 1
  /\ Online => \A v \in VMs : Past(v) => OfVM("enableIscsi", v) \in pkgInstalls
  /\ pc \in {"online", "helmfile"} => K8sRegistered \subseteq vmDepends
  /\ pc = "helmfile" => Iscsi \cup Earlier(n) \subseteq vmDepends

\* What the ssh config and the helmfiles were registered with.
OrdersInv ==
  /\ Registered(SshConfig) =>
       \A v \in VMs : OfVM("remoteOk", v) \in deps[SshConfig]
  /\ \A m \in DOMAIN Helmfiles : Registered(HelmfileApply(Helmfiles[m])) =>
       Earlier(m) \cup Iscsi \cup K8sRegistered
         \subseteq deps[HelmfileApply(Helmfiles[m])]

UnitInv ==
  /\ OrderInv /\ Fresh /\ Begun
  /\ RolesInv /\ CommandsInv /\ CollectedInv /\ OrdersInv

-----------------------------------------------------------------------------
(* Kinds and positions.                                                      *)

\* The kind, the machine and the name that a resource is made of.
LEMMA Parts ==
  /\ \A k : Shared(k)[1] = k
  /\ \A k, v : OfVM(k, v)[1] = k /\ OfVM(k, v)[2] = v
  /\ \A d : BaseVolume(d)[1] = "baseVolume" /\ BaseVolume(d)[2][1] = d
  /\ \A v, x : CopyLog(v, x)[1] = "copyLog" /\ CopyLog(v, x)[2] = v
  /\ \A v, x : CopyInput(v, x)[1] = "copyInput" /\ CopyInput(v, x)[2] = v
  /\ \A v, x : InstallFile(v, x)[1] = "installFile" /\ InstallFile(v, x)[2] = v
  /\ \A v : Prime(v)[1] = "k8sPrime" /\ Prime(v)[2] = v
  /\ \A v : Admin(v)[1] = "k8sAdmin" /\ Admin(v)[2] = v
  /\ \A v : Worker(v)[1] = "k8sWorker" /\ Worker(v)[2] = v
  /\ SshConfig[1] = "sshConfig" /\ Kubeconfig[1] = "kubeconfig"
  /\ KubeVipFile[1] = "kubeVipFile"
  /\ \A h : Hack(h)[1] = "hack" /\ Hack(h)[3] = h
  /\ \A h : HelmfileApply(h)[1] = "helmfileApply" /\ HelmfileApply(h)[3] = h
BY DEF Shared, OfVM, BaseVolume, CopyLog, CopyInput, InstallFile, Prime, Admin,
       Worker, SshConfig, Kubeconfig, KubeVipFile, Hack, HelmfileApply

\* A machine's resources name a machine, a base volume a config.
LEMMA KindOf ==
  \A r \in Resources : /\ r[1] \in VMKinds => r[2] \in VMs
                       /\ r[1] = "baseVolume" => r[2][1] \in DOMAIN Config
<1> SUFFICES ASSUME NEW r \in Resources
             PROVE  /\ r[1] \in VMKinds => r[2] \in VMs
                    /\ r[1] = "baseVolume" => r[2][1] \in DOMAIN Config
  OBVIOUS
<1> USE DEF VMKinds, SharedKinds, MachineKinds, OnlineKinds
<1>1. CASE r \in {Shared(k) : k \in SharedKinds}
  <2>1. r[1] \in SharedKinds
    BY <1>1, RegisteredKinds
  <2> QED
    BY <2>1
<1>2. CASE \E d \in DOMAIN Config : r = BaseVolume(d)
  <2>1. PICK d \in DOMAIN Config : r = <<"baseVolume", <<d, 0>>, "">>
    BY <1>2 DEF BaseVolume
  <2> QED
    BY <2>1
<1>3. CASE \E v \in VMs : \/ \E k \in MachineKinds \cup OnlineKinds : r = OfVM(k, v)
                          \/ \E l \in Logs : r = CopyLog(v, l)
                          \/ \E f \in Shipped : r \in {CopyInput(v, f), InstallFile(v, f)}
  <2>1. PICK v \in VMs : r[2] = v /\ r[1] # "baseVolume"
    BY <1>3, Parts
  <2> QED
    BY <2>1
<1>4. CASE r \in {SshConfig, Kubeconfig, KubeVipFile}
  BY <1>4, Parts
<1>5. CASE r \in K8sCommands
  BY <1>5, NeedsAre
<1>6. CASE \E h : r \in {Hack(h), HelmfileApply(h)}
  <2>1. r[1] \in {"hack", "helmfileApply"}
    BY <1>6, Parts
  <2> QED
    BY <2>1
<1> QED
  BY <1>1, <1>2, <1>3, <1>4, <1>5, <1>6 DEF Resources

\* What a step registers belongs to the machine or the helmfile it is at.
LEMMA RegisteredAt ==
  /\ \A v : \A r \in VMResources(v) : r[1] \in VMKinds /\ r[2] = v
  /\ \A h : \A r \in HelmfileResources(h) :
       \/ r[1] \in {"hack", "helmfileApply"} /\ r[3] = h
       \/ r[1] = "kubeVipFile" /\ h = "kube-vip"
<1>1. ASSUME NEW v, NEW r \in VMResources(v) PROVE r[1] \in VMKinds /\ r[2] = v
  <2>1. r[1] \in VMKinds
    BY RegisteredKinds DEF VMKinds
  <2>2. r[2] = v
    BY Parts DEF VMResources
  <2> QED
    BY <2>1, <2>2
<1>2. ASSUME NEW h, NEW r \in HelmfileResources(h)
      PROVE  \/ r[1] \in {"hack", "helmfileApply"} /\ r[3] = h
             \/ r[1] = "kubeVipFile" /\ h = "kube-vip"
  <2>1. CASE r = HelmfileApply(h) \/ r = Hack(h)
    BY <2>1, Parts
  <2>2. CASE r = KubeVipFile /\ h = "kube-vip"
    BY <2>2, Parts
  <2> QED
    BY <2>1, <2>2 DEF HelmfileResources
<1> QED
  BY <1>1, <1>2

\* A step of the program puts nothing back ahead of it.
LEMMA AheadShrinks ==
  ASSUME TypeOK, ListsInv, Unit, NEW r \in Resources, Ahead(r)'
  PROVE  Ahead(r)
<1> USE DEF InLoop, BeforePrime, BeforeHelmfiles, ProgramSteps
<1>1. /\ r[1] \in VMKinds => r[2] \in VMs /\ r[2][1] \in Nat /\ r[2][2] \in Nat
      /\ r[1] = "baseVolume" => r[2][1] \in Nat
      /\ c \in Nat /\ idx \in Nat /\ n \in Nat /\ DOMAIN Helmfiles \subseteq Nat
  BY KindOf, VMsAre, UnitAssumption DEF TypeOK
<1>2. pc' # "error"
  BY DEF Ahead, Past, AfterLoop
<1>3. CASE SetupShared \/ UnitConfig
  BY <1>1, <1>3 DEF SetupShared, UnitConfig, Goto, Ahead, Past, AfterLoop, ToApply
<1>4. CASE UnitVM
  BY <1>1, <1>4 DEF UnitVM, Ahead, Past, AfterLoop, ToApply
<1>5. CASE NextConfig
  BY <1>1, <1>5 DEF NextConfig, Goto, Ahead, Past, AfterLoop, ToApply
<1>6. CASE EndConfigs
  BY <1>1, <1>6 DEF EndConfigs, Goto, Ahead, Past, AfterLoop, ToApply
<1>7. CASE UnitSshConfig \/ UnitK8sPrime \/ UnitKubeconfig \/ UnitAdmins
           \/ UnitWorkers \/ UnitOnline
  BY <1>1, <1>7 DEF UnitSshConfig, UnitK8sPrime, UnitKubeconfig, UnitAdmins,
     UnitWorkers, UnitOnline, Goto, Ahead, Past, AfterLoop, ToApply
<1>8. CASE UnitHelmfile \/ EndHelmfiles
  BY <1>1, <1>8 DEF UnitHelmfile, EndHelmfiles, Goto, Ahead, Past, AfterLoop, ToApply
<1>9. CASE ArtifactError \/ UnitVMError \/ UnitHelmfileError
  BY <1>2, <1>9 DEF ArtifactError, UnitVMError, UnitHelmfileError, Abandon, Goto
<1> QED
  BY <1>3, <1>4, <1>5, <1>6, <1>7, <1>8, <1>9 DEF Unit

-----------------------------------------------------------------------------
(* Each resource is registered at most once.                                 *)

\* A registered resource keeps its list, and only the engine moves it on.
Kept == \A r \in Resources :
          Registered(r) => status'[r] = status[r] /\ deps'[r] = deps[r]

\* Registering what was ahead of the program and is not any more replaces no
\* list and undoes nothing.
LEMMA FreshRegister ==
  ASSUME TypeOK, ListsInv, Unit, Fresh, Begun, NEW D, Register(D),
         \A r \in DOMAIN D : Ahead(r) /\ ~Ahead(r)'
  PROVE  Kept /\ Fresh' /\ Begun'
<1>1. \A r \in Resources :
        /\ r \notin DOMAIN D => deps'[r] = deps[r] /\ status'[r] = status[r]
        /\ r \in DOMAIN D => status'[r] \in {"pending", "skipped"}
        /\ r \in DOMAIN D => status[r] = "none"
  BY RegisterFrame DEF Fresh
<1>2. Kept
  BY <1>1 DEF Kept, Registered
<1>3. Fresh'
  BY <1>1, AheadShrinks DEF Fresh
<1>4. ASSUME NEW r \in Resources, status'[r] \in {"done", "failed"}
      PROVE  Done(deps[r])' /\ deps'[r] = deps[r]
  <2>1. deps'[r] = deps[r] /\ status[r] \in {"done", "failed"}
    BY <1>1, <1>4
  <2>2. Done(deps[r]) /\ deps[r] \subseteq Resources
    BY <2>1 DEF Begun, TypeOK
  <2>3. \A x \in deps[r] : status'[x] = "done"
    BY <1>1, <2>2 DEF Done
  <2> QED
    BY <2>1, <2>3 DEF Done
<1> QED
  BY <1>2, <1>3, <1>4 DEF Begun

\* So does a step that registers nothing.
LEMMA NothingRegistered ==
  ASSUME TypeOK, ListsInv, Unit, Fresh, Begun, UNCHANGED <<deps, status>>
  PROVE  Kept /\ Fresh' /\ Begun'
BY AheadShrinks DEF Kept, Fresh, Begun, Done

\* Every step of the program registers only what was ahead of it.
LEMMA UnitFresh ==
  ASSUME TypeOK, ListsInv, Unit, Fresh, Begun
  PROVE  Kept /\ Fresh' /\ Begun'
<1> USE DEF InLoop, BeforePrime, BeforeHelmfiles, ProgramSteps, VMKinds,
            SharedKinds, MachineKinds, OnlineKinds
<1>0. /\ c \in Nat /\ idx \in Nat /\ n \in Nat /\ DOMAIN Helmfiles \subseteq Nat
  BY VMsAre, UnitAssumption DEF TypeOK
<1>1. CASE SetupShared
  <2> DEFINE D == [r \in {Shared(k) : k \in SharedKinds} |-> {}]
  <2>1. Register(D) /\ pc = "shared" /\ pc' = "config"
    BY <1>1 DEF SetupShared, Goto
  <2>2. \A r \in DOMAIN D : r[1] \in SharedKinds
    BY RegisteredKinds
  <2> HIDE DEF D
  <2>3. \A r \in DOMAIN D : Ahead(r) /\ ~Ahead(r)'
    BY <2>1, <2>2 DEF Ahead
  <2> QED
    BY <2>1, <2>3, FreshRegister
<1>2. CASE UnitConfig
  <2> DEFINE D == [x \in {BaseVolume(c)} |->
                     {Shared("provider"), Shared("vmpool")}]
  <2>1. Register(D) /\ pc = "config" /\ pc' = "vm" /\ c' = c
    BY <1>2 DEF UnitConfig, Goto, RegisterOne
  <2>2. \A r \in DOMAIN D : r[1] = "baseVolume" /\ r[2][1] = c
    BY Parts
  <2> HIDE DEF D
  <2>3. \A r \in DOMAIN D : Ahead(r) /\ ~Ahead(r)'
    BY <1>0, <2>1, <2>2 DEF Ahead
  <2> QED
    BY <2>1, <2>3, FreshRegister
<1>3. CASE UnitVM
  <2>0. PICK v : v = <<c, idx>>
    OBVIOUS
  <2>1. /\ Register(VMDeps(v)) /\ pc = "vm" /\ pc' = "vm"
        /\ c' = c /\ idx' = idx + 1
    BY <1>3, <2>0 DEF UnitVM
  <2>2. \A r \in DOMAIN VMDeps(v) : r[1] \in VMKinds /\ r[2] = v
    BY RegisteredAt DEF VMDeps
  <2>3. ~Past(v) /\ Past(v)'
    BY <1>0, <2>0, <2>1 DEF Past, AfterLoop
  <2>4. \A r \in DOMAIN VMDeps(v) : Ahead(r) /\ ~Ahead(r)'
    BY <2>1, <2>2, <2>3 DEF Ahead
  <2> QED
    BY <2>1, <2>4, FreshRegister
<1>4. CASE UnitVMError
  <2> DEFINE v == <<c, idx>>
  <2>1. PICK S \in VMPrefixes(v) : Register([r \in S |-> DependsOf(v, r)])
    BY <1>4 DEF UnitVMError
  <2> DEFINE D == [r \in S |-> DependsOf(v, r)]
  <2>2. Register(D) /\ pc = "vm" /\ pc' = "error"
    BY <1>4, <2>1 DEF UnitVMError, Abandon, Goto
  <2>3. \A r \in DOMAIN D : r[1] \in VMKinds /\ r[2] = v
    BY VMPrefixesAre, RegisteredAt
  <2>4. ~Past(v)
    BY <1>0, <2>2 DEF Past, AfterLoop
  <2> HIDE DEF D, v
  <2>5. \A r \in DOMAIN D : Ahead(r) /\ ~Ahead(r)'
    BY <2>2, <2>3, <2>4 DEF Ahead
  <2> QED
    BY <2>2, <2>5, FreshRegister
<1>5. CASE UnitSshConfig
  <2> DEFINE D == [x \in {SshConfig} |->
                     vmDepends \cup {OfVM("domain", v) : v \in VMs}]
  <2>1. Register(D) /\ pc = "sshConfig" /\ pc' \in {"k8sPrime", "online"}
    BY <1>5 DEF UnitSshConfig, Goto, RegisterOne
  <2>2. \A r \in DOMAIN D : r[1] = "sshConfig"
    BY Parts
  <2> HIDE DEF D
  <2>3. \A r \in DOMAIN D : Ahead(r) /\ ~Ahead(r)'
    BY <2>1, <2>2 DEF Ahead
  <2> QED
    BY <2>1, <2>3, FreshRegister
<1>6. CASE UnitK8sPrime
  <2> DEFINE D == [x \in {Prime(prime)} |->
                     k8sDepends \cup {OfVM("domain", prime)}]
  <2>1. Register(D) /\ pc = "k8sPrime" /\ pc' = "kubeconfig"
    BY <1>6 DEF UnitK8sPrime, Goto, RegisterOne
  <2>2. \A r \in DOMAIN D : r[1] = "k8sPrime"
    BY Parts
  <2> HIDE DEF D
  <2>3. \A r \in DOMAIN D : Ahead(r) /\ ~Ahead(r)'
    BY <2>1, <2>2 DEF Ahead
  <2> QED
    BY <2>1, <2>3, FreshRegister
<1>7. CASE UnitKubeconfig
  <2> DEFINE D == [x \in {Kubeconfig} |->
                     k8sDepends \cup {OfVM("domain", prime)}]
  <2>1. Register(D) /\ pc = "kubeconfig" /\ pc' = "admins"
    BY <1>7 DEF UnitKubeconfig, Goto, RegisterOne
  <2>2. \A r \in DOMAIN D : r[1] = "kubeconfig"
    BY Parts
  <2> HIDE DEF D
  <2>3. \A r \in DOMAIN D : Ahead(r) /\ ~Ahead(r)'
    BY <2>1, <2>2 DEF Ahead
  <2> QED
    BY <2>1, <2>3, FreshRegister
<1>8. CASE UnitAdmins
  <2>1. Register(Joins(Admins)) /\ pc = "admins" /\ pc' = "workers"
    BY <1>8 DEF UnitAdmins, Goto
  <2>2. \A r \in DOMAIN Joins(Admins) : r[1] = "k8sAdmin"
    BY RegisteredKinds DEF Joins
  <2>3. \A r \in DOMAIN Joins(Admins) : Ahead(r) /\ ~Ahead(r)'
    BY <2>1, <2>2 DEF Ahead
  <2> QED
    BY <2>1, <2>3, FreshRegister
<1>9. CASE UnitWorkers
  <2>1. Register(Joins(Workers)) /\ pc = "workers" /\ pc' = "online"
    BY <1>9 DEF UnitWorkers, Goto
  <2>2. \A r \in DOMAIN Joins(Workers) : r[1] = "k8sWorker"
    BY RegisteredKinds DEF Joins
  <2>3. \A r \in DOMAIN Joins(Workers) : Ahead(r) /\ ~Ahead(r)'
    BY <2>1, <2>2 DEF Ahead
  <2> QED
    BY <2>1, <2>3, FreshRegister
<1>10. CASE UnitHelmfile
  <2>0. PICK h : h = Helmfiles[n]
    OBVIOUS
  <2>1. /\ Register(HelmfileDeps(h)) /\ pc = "helmfile" /\ pc' = "helmfile"
        /\ n' = n + 1 /\ n \in DOMAIN Helmfiles
    BY <1>10, <2>0 DEF UnitHelmfile
  <2>2. \A r \in DOMAIN HelmfileDeps(h) :
          \/ r[1] \in {"hack", "helmfileApply"} /\ r[3] = h
          \/ r[1] = "kubeVipFile" /\ h = "kube-vip"
    BY RegisteredAt DEF HelmfileDeps
  <2>3. ToApply(h) /\ ~ToApply(h)'
    BY <1>0, <2>0, <2>1, UnitAssumption DEF ToApply
  <2>4. \A r \in DOMAIN HelmfileDeps(h) : Ahead(r) /\ ~Ahead(r)'
    BY <2>1, <2>2, <2>3 DEF Ahead
  <2> QED
    BY <2>1, <2>4, FreshRegister
<1>11. CASE UnitHelmfileError
  <2> DEFINE h == Helmfiles[n]
             D == [x \in {HelmfileApply(h)} |-> vmDepends]
  <2>1. /\ Register(D) /\ pc = "helmfile" /\ pc' = "error"
        /\ n \in DOMAIN Helmfiles
    BY <1>11 DEF UnitHelmfileError, Abandon, Goto, RegisterOne
  <2>2. \A r \in DOMAIN D : r[1] = "helmfileApply" /\ r[3] = h
    BY Parts
  <2>3. ToApply(h)
    BY <1>0, <2>1 DEF ToApply
  <2> HIDE DEF D, h
  <2>4. \A r \in DOMAIN D : Ahead(r) /\ ~Ahead(r)'
    BY <2>1, <2>2, <2>3 DEF Ahead
  <2> QED
    BY <2>1, <2>4, FreshRegister
<1>12. CASE ArtifactError \/ NextConfig \/ EndConfigs \/ UnitOnline \/ EndHelmfiles
  <2>1. UNCHANGED <<deps, status>>
    BY <1>12 DEF ArtifactError, NextConfig, EndConfigs, UnitOnline, EndHelmfiles
  <2> QED
    BY <2>1, NothingRegistered
<1> QED
  BY <1>1, <1>2, <1>3, <1>4, <1>5, <1>6, <1>7, <1>8, <1>9, <1>10, <1>11, <1>12
  DEF Unit

-----------------------------------------------------------------------------
(* What the lists have on them.                                              *)

\* Which step registers the resources that the properties are about.
LEMMA ChangedBy ==
  ASSUME Unit, NEW r \in Resources,
         status'[r] # status[r] \/ deps'[r] # deps[r]
  PROVE  /\ r[1] = "sshConfig" => UnitSshConfig
         /\ r[1] = "k8sPrime" => UnitK8sPrime
         /\ r[1] = "k8sAdmin" => UnitAdmins
         /\ r[1] = "k8sWorker" => UnitWorkers
         /\ r[1] = "helmfileApply" => UnitHelmfile \/ UnitHelmfileError
<1> USE DEF SharedKinds, MachineKinds, OnlineKinds
<1>0. \A D : Register(D) => r \in DOMAIN D
  BY RegisterFrame
<1>1. CASE SetupShared
  BY <1>0, <1>1, RegisteredKinds DEF SetupShared
<1>2. CASE UnitConfig
  BY <1>0, <1>2, Parts DEF UnitConfig, RegisterOne
<1>3. CASE UnitVM
  <2>1. r \in VMResources(<<c, idx>>)
    BY <1>0, <1>3 DEF UnitVM, VMDeps
  <2> QED
    BY <2>1, RegisteredKinds
<1>4. CASE UnitVMError
  <2>1. r \in VMResources(<<c, idx>>)
    BY <1>0, <1>4, VMPrefixesAre DEF UnitVMError
  <2> QED
    BY <2>1, RegisteredKinds
<1>5. CASE UnitSshConfig
  BY <1>0, <1>5, Parts DEF UnitSshConfig, RegisterOne
<1>6. CASE UnitK8sPrime
  BY <1>0, <1>6, Parts DEF UnitK8sPrime, RegisterOne
<1>7. CASE UnitKubeconfig
  BY <1>0, <1>7, Parts DEF UnitKubeconfig, RegisterOne
<1>8. CASE UnitAdmins
  BY <1>0, <1>8, RegisteredKinds DEF UnitAdmins, Joins
<1>9. CASE UnitWorkers
  BY <1>0, <1>9, RegisteredKinds DEF UnitWorkers, Joins
<1>10. CASE UnitHelmfile
  BY <1>0, <1>10, RegisteredKinds DEF UnitHelmfile
<1>11. CASE UnitHelmfileError
  BY <1>0, <1>11, Parts DEF UnitHelmfileError, RegisterOne
<1>12. CASE ArtifactError \/ NextConfig \/ EndConfigs \/ UnitOnline \/ EndHelmfiles
  BY <1>12 DEF ArtifactError, NextConfig, EndConfigs, UnitOnline, EndHelmfiles
<1> QED
  BY <1>1, <1>2, <1>3, <1>4, <1>5, <1>6, <1>7, <1>8, <1>9, <1>10, <1>11, <1>12
  DEF Unit

\* The loop gets past one machine at a time.
LEMMA PastGrows ==
  ASSUME TypeOK, ListsInv, Unit, NEW v \in VMs, Past(v)'
  PROVE  Past(v) \/ (UnitVM /\ v = <<c, idx>>)
<1> USE VMsAre DEF TypeOK, AfterLoop
<1>1. CASE SetupShared \/ UnitConfig
  BY <1>1 DEF SetupShared, UnitConfig, Goto, Past
<1>2. CASE UnitVM
  <2>1. v[1] < c \/ (v[1] = c /\ v[2] < idx + 1)
    BY <1>2 DEF UnitVM, Past
  <2>2. CASE v[1] = c /\ v[2] = idx
    BY <1>2, <2>2
  <2> QED
    BY <1>2, <2>1, <2>2 DEF UnitVM, Past
<1>3. CASE NextConfig
  <2>1. /\ v[1] < c + 1 /\ pc = "vm" /\ idx = Config[c].count
        /\ c \in DOMAIN Config
    BY <1>3 DEF NextConfig, Goto, Past
  <2>2. v[1] < c \/ v[1] = c
    BY <2>1
  <2> QED
    BY <2>1, <2>2 DEF Past
<1>4. CASE EndConfigs
  BY <1>4 DEF EndConfigs, Goto, Past
<1>5. CASE UnitSshConfig \/ UnitK8sPrime \/ UnitKubeconfig \/ UnitAdmins
           \/ UnitWorkers \/ UnitOnline \/ UnitHelmfile \/ EndHelmfiles
  BY <1>5 DEF UnitSshConfig, UnitK8sPrime, UnitKubeconfig, UnitAdmins,
              UnitWorkers, UnitOnline, UnitHelmfile, EndHelmfiles, Goto, Past
<1>6. CASE ArtifactError \/ UnitVMError \/ UnitHelmfileError
  BY <1>6 DEF ArtifactError, UnitVMError, UnitHelmfileError, Abandon, Goto, Past
<1> QED
  BY <1>1, <1>2, <1>3, <1>4, <1>5, <1>6 DEF Unit

\* Each machine gets the role of its config, the first of "default" that of
\* the prime node.
LEMMA UnitRoles ==
  ASSUME TypeOK, ListsInv, RolesInv, Unit
  PROVE  RolesInv'
<1>1. CASE UnitVM
  <2>0. PICK w : w = <<c, idx>>
    OBVIOUS
  <2>1. /\ c \in DOMAIN Config /\ idx < Config[c].count /\ idx \in Nat
        /\ w \in VMs /\ w[1] = c /\ w[2] = idx
    BY <1>1, <2>0, VMsAre DEF UnitVM, MoreVMs, TypeOK
  <2>2. CASE IsPrime(w)
    <3>1. prime' = w /\ unitMap' = unitMap
      BY <1>1, <2>0, <2>1, <2>2 DEF UnitVM, IsSpecial, IsPrime
    <3>2. \A v \in VMs : Past(v)' /\ ~IsPrime(v) => Past(v)
      BY <1>1, <2>0, <2>2, PastGrows
    <3> QED
      BY <2>2, <3>1, <3>2 DEF RolesInv, IsPrime
  <2>3. CASE ~IsPrime(w)
    <3>1. /\ prime' = prime
          /\ unitMap' = [unitMap EXCEPT ![Config[c].name] = @ \cup {w}]
      BY <1>1, <2>0, <2>1, <2>3 DEF UnitVM, IsSpecial, IsPrime
    <3>2. /\ DOMAIN unitMap = {Config[d].name : d \in DOMAIN Config}
          /\ DOMAIN unitMap' = DOMAIN unitMap
          /\ \A name \in DOMAIN unitMap :
               unitMap'[name] = unitMap[name] \cup
                                  IF name = Config[c].name THEN {w} ELSE {}
      BY <3>1 DEF TypeOK
    <3>3. \A name \in DOMAIN unitMap' : \A v \in unitMap'[name] :
            Config[v[1]].name = name /\ ~IsPrime(v)
      BY <2>1, <2>3, <3>2 DEF RolesInv
    <3>4. ASSUME NEW v \in VMs, Past(v)', ~IsPrime(v)
          PROVE  v \in unitMap'[Config[v[1]].name]
      <4>1. Config[v[1]].name \in DOMAIN unitMap
        BY <3>2, VMsAre
      <4>2. Past(v) \/ v = w
        BY <2>0, <3>4, PastGrows
      <4> QED
        BY <2>1, <3>2, <3>4, <4>1, <4>2 DEF RolesInv
    <3> QED
      BY <3>1, <3>3, <3>4 DEF RolesInv, IsPrime
  <2> QED
    BY <2>2, <2>3
<1>2. CASE ~UnitVM
  <2>1. prime' = prime /\ unitMap' = unitMap
    BY <1>2 DEF Unit, SetupShared, UnitConfig, NextConfig, EndConfigs,
       UnitSshConfig, UnitK8sPrime, UnitKubeconfig, UnitAdmins, UnitWorkers,
       UnitOnline, UnitHelmfile, EndHelmfiles, ArtifactError, UnitVMError,
       UnitHelmfileError, Abandon
  <2>2. \A v \in VMs : Past(v)' => Past(v)
    BY <1>2, PastGrows
  <2> QED
    BY <2>1, <2>2 DEF RolesInv, IsPrime
<1> QED
  BY <1>1, <1>2

\* The machines put aside for the joining nodes are machines.
LEMMA MembersAre ==
  ASSUME TypeOK PROVE Members("default") \cup Members("agent") \subseteq VMs
BY DEF TypeOK, Members

\* The steps that register k8s commands register those of the roles.
LEMMA UnitCommands ==
  ASSUME OrderInv, CommandsInv, Unit
  PROVE  CommandsInv'
<1>0. TypeOK /\ ListsInv /\ GraphInv
  BY DEF OrderInv
<1>1. \A v \in VMs : {Prime(v), Admin(v), Worker(v)} \subseteq Resources
  BY ResourcesAre
<1>2. CASE UnitK8sPrime
  <2>1. /\ Register([x \in {Prime(prime)} |-> k8sDepends \cup {OfVM("domain", prime)}])
        /\ pc = "k8sPrime" /\ pc' = "kubeconfig" /\ prime' = prime
    BY <1>2 DEF UnitK8sPrime, RegisterOne, Goto
  <2>2. prime \in VMs
    BY <1>0, <2>1, PrimeIsVM DEF AfterLoop
  <2>3. \A v \in VMs : /\ status[Prime(v)] = "none" /\ status[Admin(v)] = "none"
                       /\ status[Worker(v)] = "none"
    BY <1>0, <2>1 DEF GraphInv, PrimeRegistered, K8sCommands
  <2>4. \A v \in VMs : /\ status'[Admin(v)] = "none" /\ status'[Worker(v)] = "none"
                       /\ v # prime => status'[Prime(v)] = "none"
    BY <1>1, <2>1, <2>3, RegisterFrame, Parts
  <2>5. status'[Prime(prime)] # "none"
    BY <1>1, <2>1, <2>2, RegisterFrame
  <2> QED
    BY <2>1, <2>4, <2>5 DEF CommandsInv, Registered
<1>3. CASE UnitAdmins
  <2>1. /\ Register(Joins(Admins)) /\ pc = "admins" /\ pc' = "workers"
        /\ prime' = prime /\ unitMap' = unitMap
    BY <1>3 DEF UnitAdmins, Goto
  <2>2. \A v \in VMs : Admin(v) \in DOMAIN Joins(Admins) <=> v \in Members("default")
    BY Parts DEF Joins, Admins
  <2>3. \A v \in VMs : {Prime(v), Worker(v)} \cap DOMAIN Joins(Admins) = {}
    BY RegisteredKinds, Parts DEF Joins
  <2>4. \A v \in VMs : /\ Registered(Prime(v))' <=> Registered(Prime(v))
                       /\ Registered(Worker(v))' <=> Registered(Worker(v))
                       /\ Registered(Admin(v))' <=>
                            Registered(Admin(v)) \/ v \in Members("default")
    BY <1>1, <2>1, <2>2, <2>3, RegisterFrame DEF Registered
  <2>5. prime \in VMs
    BY <1>0, <2>1, PrimeIsVM DEF AfterLoop
  <2>6. /\ Members("default")' = Members("default")
        /\ Members("agent")' = Members("agent")
    BY <2>1 DEF Members
  <2> QED
    BY <1>0, <2>1, <2>4, <2>5, <2>6, MembersAre DEF CommandsInv, PrimeRegistered
<1>4. CASE UnitWorkers
  <2>1. /\ Register(Joins(Workers)) /\ pc = "workers" /\ pc' = "online"
        /\ prime' = prime /\ unitMap' = unitMap
    BY <1>4 DEF UnitWorkers, Goto
  <2>2. \A v \in VMs : Worker(v) \in DOMAIN Joins(Workers) <=> v \in Members("agent")
    BY Parts DEF Joins, Workers
  <2>3. \A v \in VMs : {Prime(v), Admin(v)} \cap DOMAIN Joins(Workers) = {}
    BY RegisteredKinds, Parts DEF Joins
  <2>4. \A v \in VMs : /\ Registered(Prime(v))' <=> Registered(Prime(v))
                       /\ Registered(Admin(v))' <=> Registered(Admin(v))
                       /\ Registered(Worker(v))' <=>
                            Registered(Worker(v)) \/ v \in Members("agent")
    BY <1>1, <2>1, <2>2, <2>3, RegisterFrame DEF Registered
  <2>5. prime \in VMs
    BY <1>0, <2>1, PrimeIsVM DEF AfterLoop
  <2>6. /\ Members("default")' = Members("default")
        /\ Members("agent")' = Members("agent")
    BY <2>1 DEF Members
  <2> QED
    BY <1>0, <2>1, <2>4, <2>5, <2>6, MembersAre DEF CommandsInv, PrimeRegistered
<1>5. CASE ~(UnitK8sPrime \/ UnitAdmins \/ UnitWorkers)
  <2>1. \A v \in VMs : /\ status'[Prime(v)] = status[Prime(v)]
                       /\ status'[Admin(v)] = status[Admin(v)]
                       /\ status'[Worker(v)] = status[Worker(v)]
    BY <1>1, <1>5, ChangedBy, Parts
  <2>2. CASE pc \notin PrimeRegistered
    <3>1. \A v \in VMs : ~(Registered(Prime(v)) \/ Registered(Admin(v))
                                               \/ Registered(Worker(v)))
      BY <1>0, <2>2 DEF GraphInv, K8sCommands, Registered
    <3>2. pc' \in PrimeRegistered \ {"error"} => ~IsK8s
      BY <1>5, <2>2 DEF Unit, SetupShared, UnitConfig, UnitVM, NextConfig, EndConfigs,
         UnitSshConfig, UnitKubeconfig, UnitOnline, UnitHelmfile, EndHelmfiles,
         ArtifactError, UnitVMError, UnitHelmfileError, Abandon, Goto, PrimeRegistered
    <3> QED
      BY <2>1, <3>1, <3>2 DEF CommandsInv, Registered, PrimeRegistered
  <2>3. CASE pc \in PrimeRegistered
    <3>1. /\ prime' = prime /\ unitMap' = unitMap
          /\ pc' \in PrimeRegistered \ {"error"} => pc # "error" /\ pc \in AfterLoop
          /\ pc' \in {"workers", "online", "helmfile", "returned"} =>
               pc \in {"online", "helmfile", "returned"}
      BY <1>5, <2>3 DEF Unit, SetupShared, UnitConfig, UnitVM, NextConfig, EndConfigs,
         UnitSshConfig, UnitKubeconfig, UnitOnline, UnitHelmfile, EndHelmfiles,
         ArtifactError, UnitVMError, UnitHelmfileError, Abandon, Goto,
         PrimeRegistered, AfterLoop
    <3>2. /\ Members("default")' = Members("default")
          /\ Members("agent")' = Members("agent")
      BY <3>1 DEF Members
    <3>3. \A v \in VMs : /\ Registered(Prime(v))' <=> Registered(Prime(v))
                         /\ Registered(Admin(v))' <=> Registered(Admin(v))
                         /\ Registered(Worker(v))' <=> Registered(Worker(v))
      BY <2>1 DEF Registered
    <3>4. pc \in AfterLoop => prime \in VMs
      BY <1>0, PrimeIsVM
    <3> QED
      BY <1>0, <2>3, <3>1, <3>2, <3>3, <3>4, MembersAre
      DEF CommandsInv, PrimeRegistered
  <2> QED
    BY <2>2, <2>3
<1> QED
  BY <1>2, <1>3, <1>4, <1>5

\* The helmfiles before the next one are those before this one, and this one.
LEMMA EarlierGrows ==
  ASSUME NEW m \in Nat \ {0}
  PROVE  Earlier(m + 1) \subseteq
           Earlier(m) \cup {HelmfileApply(Helmfiles[m])}
             \cup {Hack(h) : h \in {Helmfiles[m]} \cap Hacked}
<1>1. 1 .. (m + 1) - 1 = (1 .. m - 1) \cup {m}
  OBVIOUS
<1> QED
  BY <1>1 DEF Earlier

\* A step that registers no k8s command leaves the set of them alone.
LEMMA K8sRegisteredSame ==
  ASSUME Unit, ~(UnitK8sPrime \/ UnitAdmins \/ UnitWorkers)
  PROVE  K8sRegistered' = K8sRegistered
<1>1. \A r \in K8sCommands : status'[r] = status[r]
  BY NeedsAre, ChangedBy
<1> QED
  BY <1>1 DEF K8sRegistered, Registered

\* Before the first helmfile the list has every node's join and its iscsi,
\* and then it gets each helmfile with its hack.
LEMMA UnitCollected ==
  ASSUME OrderInv, CommandsInv, CommandsInv', CollectedInv, Unit
  PROVE  CollectedInv'
<1>0. TypeOK /\ ListsInv /\ GraphInv
  BY DEF OrderInv
<1>1. pc' \in BeforeHelmfiles => n' = 1
  BY DEF Unit, SetupShared, UnitConfig, UnitVM, NextConfig, EndConfigs,
     UnitSshConfig, UnitK8sPrime, UnitKubeconfig, UnitAdmins, UnitWorkers,
     UnitOnline, UnitHelmfile, EndHelmfiles, ArtifactError, UnitVMError,
     UnitHelmfileError, Abandon, Goto, BeforeHelmfiles, ProgramSteps, CollectedInv
<1>2. ASSUME Online, NEW v \in VMs, Past(v)'
      PROVE  OfVM("enableIscsi", v) \in pkgInstalls'
  <2>1. CASE UnitVM /\ v = <<c, idx>>
    BY <1>2, <2>1 DEF UnitVM, OnlineKinds
  <2>2. CASE Past(v)
    <3>1. pkgInstalls \subseteq pkgInstalls'
      BY DEF Unit, SetupShared, UnitConfig, UnitVM, NextConfig, EndConfigs,
         UnitSshConfig, UnitK8sPrime, UnitKubeconfig, UnitAdmins, UnitWorkers,
         UnitOnline, UnitHelmfile, EndHelmfiles, ArtifactError, UnitVMError,
         UnitHelmfileError, Abandon
    <3> QED
      BY <1>2, <2>2, <3>1 DEF CollectedInv
  <2> QED
    BY <1>0, <1>2, <2>1, <2>2, PastGrows
<1>3. ASSUME pc' \in {"online", "helmfile"} PROVE K8sRegistered' \subseteq vmDepends'
  <2>1. CASE UnitSshConfig
    <3>1. K8sRegistered = {}
      BY <1>0, <2>1 DEF UnitSshConfig, Goto, GraphInv, PrimeRegistered,
         K8sRegistered, Registered
    <3>2. ~(UnitK8sPrime \/ UnitAdmins \/ UnitWorkers)
      BY <2>1 DEF UnitSshConfig, UnitK8sPrime, UnitAdmins, UnitWorkers, Goto
    <3> QED
      BY <3>1, <3>2, K8sRegisteredSame
  <2>2. CASE UnitWorkers
    <3>1. /\ prime' = prime /\ Members("default")' = Members("default")
          /\ Members("agent")' = Members("agent")
      BY <2>2 DEF UnitWorkers, Members
    <3>2. K8sRegistered' \subseteq {Prime(prime)} \cup Admins \cup Workers
      BY <3>1 DEF K8sRegistered, K8sCommands, CommandsInv, Admins, Workers
    <3>3. Prime(prime) \in k8sDepends
      BY <1>0, <2>2 DEF UnitWorkers, Goto, ListsInv
    <3> QED
      BY <2>2, <3>2, <3>3 DEF UnitWorkers
  <2>3. CASE UnitOnline \/ UnitHelmfile
    <3>1. pc \in {"online", "helmfile"} /\ vmDepends \subseteq vmDepends'
      BY <2>3 DEF UnitOnline, UnitHelmfile, Goto
    <3>2. ~(UnitK8sPrime \/ UnitAdmins \/ UnitWorkers)
      BY <3>1 DEF UnitK8sPrime, UnitAdmins, UnitWorkers, Goto
    <3> QED
      BY <3>1, <3>2, K8sRegisteredSame DEF CollectedInv
  <2> QED
    BY <1>3, <2>1, <2>2, <2>3 DEF Unit, SetupShared, UnitConfig, UnitVM, NextConfig,
       EndConfigs, UnitK8sPrime, UnitKubeconfig, UnitAdmins, EndHelmfiles,
       ArtifactError, UnitVMError, UnitHelmfileError, Abandon, Goto
<1>4. ASSUME pc' = "helmfile" PROVE Iscsi \cup Earlier(n') \subseteq vmDepends'
  <2>1. CASE UnitOnline
    <3>1. /\ pc = "online" /\ Online /\ n' = n
          /\ vmDepends' = vmDepends \cup pkgInstalls
      BY <1>4, <2>1, UnitAssumption DEF UnitOnline, Goto
    <3>2. Iscsi \subseteq pkgInstalls
      BY <3>1 DEF CollectedInv, Past, AfterLoop, Iscsi
    <3>3. Earlier(n) = {}
      BY <3>1 DEF CollectedInv, BeforeHelmfiles, ProgramSteps, Earlier
    <3> QED
      BY <3>1, <3>2, <3>3
  <2>2. CASE UnitHelmfile
    <3>1. /\ pc = "helmfile" /\ n' = n + 1
          /\ vmDepends' = vmDepends \cup HelmfileResources(Helmfiles[n])
      BY <2>2 DEF UnitHelmfile, HelmfileDeps
    <3>2. n \in Nat \ {0}
      BY <1>0, UnitAssumption DEF TypeOK
    <3>3. Earlier(n + 1) \subseteq Earlier(n) \cup HelmfileResources(Helmfiles[n])
      BY <3>2, EarlierGrows DEF HelmfileResources
    <3> QED
      BY <3>1, <3>3 DEF CollectedInv
  <2> QED
    BY <1>4, <2>1, <2>2 DEF Unit, SetupShared, UnitConfig, UnitVM, NextConfig,
       EndConfigs, UnitSshConfig, UnitK8sPrime, UnitKubeconfig, UnitAdmins,
       UnitWorkers, EndHelmfiles, ArtifactError, UnitVMError, UnitHelmfileError,
       Abandon, Goto
<1>5. Iscsi' = Iscsi
  BY DEF Iscsi
<1> QED
  BY <1>1, <1>2, <1>3, <1>4, <1>5 DEF CollectedInv, Earlier

\* The ssh config and the helmfiles are registered with those lists.
LEMMA UnitOrders ==
  ASSUME OrderInv, Fresh, CollectedInv, OrdersInv, Unit
  PROVE  OrdersInv'
<1>0. TypeOK /\ ListsInv
  BY DEF OrderInv
<1>1. ASSUME Registered(SshConfig)', NEW v \in VMs
      PROVE  OfVM("remoteOk", v) \in deps'[SshConfig]
  <2>0. SshConfig \in Resources
    BY ResourcesAre
  <2>1. CASE UnitSshConfig
    <3>1. /\ Register([x \in {SshConfig} |-> vmDepends \cup {OfVM("domain", w) : w \in VMs}])
          /\ pc = "sshConfig"
      BY <2>1 DEF UnitSshConfig, RegisterOne, Goto
    <3>2. vmDepends \subseteq deps'[SshConfig]
      BY <2>0, <3>1, RegisterFrame
    <3>3. OfVM("remoteOk", v) \in vmDepends
      BY <1>0, <3>1 DEF ListsInv, Past, AfterLoop, Needs
    <3> QED
      BY <3>2, <3>3
  <2>2. CASE ~UnitSshConfig
    BY <1>1, <2>0, <2>2, ChangedBy, Parts DEF OrdersInv, Registered
  <2> QED
    BY <2>1, <2>2
<1>2. ASSUME NEW m \in DOMAIN Helmfiles, Registered(HelmfileApply(Helmfiles[m]))'
      PROVE  Earlier(m) \cup Iscsi \cup K8sRegistered'
               \subseteq deps'[HelmfileApply(Helmfiles[m])]
  <2> DEFINE r == HelmfileApply(Helmfiles[m])
  <2>0. r \in Resources
    BY ResourcesAre DEF HelmfileNames
  <2>1. CASE status'[r] # status[r] \/ deps'[r] # deps[r]
    <3>1. UnitHelmfile \/ UnitHelmfileError
      BY <2>0, <2>1, ChangedBy, Parts
    <3>2. /\ pc = "helmfile"
          /\ \E D : /\ Register(D)
                    /\ HelmfileApply(Helmfiles[n]) \in DOMAIN D
                    /\ D[HelmfileApply(Helmfiles[n])] = vmDepends
                    /\ r \in DOMAIN D => r = HelmfileApply(Helmfiles[n])
      <4>1. CASE UnitHelmfile
        <5>1. Register(HelmfileDeps(Helmfiles[n])) /\ pc = "helmfile"
          BY <4>1 DEF UnitHelmfile
        <5>2. /\ HelmfileApply(Helmfiles[n]) \in DOMAIN HelmfileDeps(Helmfiles[n])
              /\ HelmfileDeps(Helmfiles[n])[HelmfileApply(Helmfiles[n])] = vmDepends
          BY Parts DEF HelmfileDeps, HelmfileResources
        <5>3. r \in DOMAIN HelmfileDeps(Helmfiles[n]) =>
                r = HelmfileApply(Helmfiles[n])
          BY Parts DEF HelmfileDeps, HelmfileResources
        <5> QED
          BY <5>1, <5>2, <5>3
      <4>2. CASE UnitHelmfileError
        <5> DEFINE D == [x \in {HelmfileApply(Helmfiles[n])} |-> vmDepends]
        <5>1. Register(D) /\ pc = "helmfile"
          BY <4>2 DEF UnitHelmfileError, Abandon, Goto, RegisterOne
        <5> QED
          BY <5>1
      <4> QED
        BY <3>1, <4>1, <4>2
    <3>3. n \in DOMAIN Helmfiles
      BY <3>1 DEF UnitHelmfile, UnitHelmfileError
    <3>4. r = HelmfileApply(Helmfiles[n]) /\ deps'[r] = vmDepends
      BY <2>0, <2>1, <3>2, RegisterFrame
    <3>5. m = n
      BY <3>3, <3>4, Parts, UnitAssumption
    <3>6. K8sRegistered' = K8sRegistered
      BY <3>2, K8sRegisteredSame DEF UnitK8sPrime, UnitAdmins, UnitWorkers, Goto
    <3> QED
      BY <3>2, <3>4, <3>5, <3>6 DEF CollectedInv
  <2>2. CASE status'[r] = status[r] /\ deps'[r] = deps[r]
    <3>1. status[r] # "none"
      BY <1>2, <2>2 DEF Registered
    <3>2. pc \notin BeforeHelmfiles
      BY <2>0, <3>1, Parts DEF Fresh, Ahead
    <3>3. K8sRegistered' = K8sRegistered
      BY <3>2, K8sRegisteredSame DEF UnitK8sPrime, UnitAdmins, UnitWorkers, Goto,
         BeforeHelmfiles, ProgramSteps
    <3> QED
      BY <2>2, <3>1, <3>3 DEF OrdersInv, Registered
  <2> QED
    BY <2>1, <2>2
<1> QED
  BY <1>1, <1>2 DEF OrdersInv, Earlier, Iscsi

-----------------------------------------------------------------------------
(* The invariant.                                                            *)

\* The engine ends what has its whole list done, and the program's lists and
\* what is registered stay as they are.
LEMMA EngineUnitInv ==
  ASSUME UnitInv, Engine
  PROVE  UnitInv' /\ deps' = deps
<1>0. /\ OrderInv /\ TypeOK /\ Fresh /\ Begun
      /\ RolesInv /\ CommandsInv /\ CollectedInv /\ OrdersInv
  BY DEF UnitInv, OrderInv
<1>1. program' = program /\ deps' = deps
  BY DEF Engine, Finish, FailResource, CreateService
<1>2. /\ pc' = pc /\ c' = c /\ idx' = idx /\ n' = n /\ vmDepends' = vmDepends
      /\ pkgInstalls' = pkgInstalls /\ prime' = prime /\ unitMap' = unitMap
  BY <1>1 DEF program
<1>3. \A r \in Resources :
        /\ status[r] = "none" <=> status'[r] = "none"
        /\ status[r] = "done" => status'[r] = "done"
        /\ status'[r] \in {"done", "failed"} =>
             status[r] \in {"done", "failed"} \/ InFlight(r)
  BY <1>0, EngineMoves
<1>4. OrderInv'
  BY <1>0, EngineStep
<1>5. Fresh'
  BY <1>0, <1>2, <1>3 DEF Fresh, Ahead, Past, ToApply
<1>6. Begun'
  <2> SUFFICES ASSUME NEW r \in Resources, status'[r] \in {"done", "failed"}
               PROVE  \A x \in deps[r] : status'[x] = "done"
    BY <1>1 DEF Begun, Done
  <2>1. Done(deps[r]) /\ deps[r] \subseteq Resources
    BY <1>0, <1>3 DEF Begun, InFlight, TypeOK
  <2> QED
    BY <1>3, <2>1 DEF Done
<1>7. RolesInv'
  BY <1>0, <1>2 DEF RolesInv, IsPrime, Past
<1>8. /\ \A v \in VMs : /\ Registered(Prime(v))' <=> Registered(Prime(v))
                        /\ Registered(Admin(v))' <=> Registered(Admin(v))
                        /\ Registered(Worker(v))' <=> Registered(Worker(v))
      /\ Members("default")' = Members("default")
      /\ Members("agent")' = Members("agent")
  BY <1>2, <1>3, ResourcesAre DEF Registered, Members
<1>9. CommandsInv'
  <2>1. pc \in PrimeRegistered \ {"error"} => prime \in VMs
    BY <1>0, PrimeIsVM DEF OrderInv, PrimeRegistered, AfterLoop
  <2> QED
    BY <1>0, <1>2, <1>8, <2>1, MembersAre DEF CommandsInv
<1>10. K8sRegistered' = K8sRegistered
  BY <1>3, NeedsAre DEF K8sRegistered, Registered
<1>11. CollectedInv'
  BY <1>0, <1>2, <1>10 DEF CollectedInv, Past, Earlier, Iscsi
<1>12. OrdersInv'
  <2>1. /\ Registered(SshConfig)' <=> Registered(SshConfig)
        /\ \A m \in DOMAIN Helmfiles : Registered(HelmfileApply(Helmfiles[m]))' <=>
                                       Registered(HelmfileApply(Helmfiles[m]))
    BY <1>3, ResourcesAre DEF Registered, HelmfileNames
  <2> QED
    BY <1>0, <1>1, <1>10, <2>1 DEF OrdersInv, Earlier, Iscsi
<1> QED
  BY <1>1, <1>4, <1>5, <1>6, <1>7, <1>9, <1>11, <1>12 DEF UnitInv

\* A step of the program keeps the invariant and the registered lists.
LEMMA UnitUnitInv ==
  ASSUME UnitInv, Unit
  PROVE  UnitInv' /\ Kept
<1>0. /\ OrderInv /\ TypeOK /\ ListsInv /\ Fresh /\ Begun
      /\ RolesInv /\ CommandsInv /\ CollectedInv /\ OrdersInv
  BY DEF UnitInv, OrderInv
<1>1. OrderInv'
  BY <1>0, NextOrderInv DEF Next
<1>2. Kept /\ Fresh' /\ Begun'
  BY <1>0, UnitFresh
<1>3. RolesInv'
  BY <1>0, UnitRoles
<1>4. CommandsInv'
  BY <1>0, UnitCommands
<1>5. CollectedInv'
  BY <1>0, <1>4, UnitCollected
<1>6. OrdersInv'
  BY <1>0, UnitOrders
<1> QED
  BY <1>1, <1>2, <1>3, <1>4, <1>5, <1>6 DEF UnitInv

\* Initially everything is ahead of the program.
LEMMA InitUnitInv == Init => UnitInv
<1> SUFFICES ASSUME Init PROVE UnitInv
  OBVIOUS
<1>1. OrderInv /\ TypeOK
  BY InitOrderInv DEF OrderInv
<1>2. \A r \in Resources : ~Registered(r) /\ status[r] = "none"
  BY DEF Init, Registered
<1>3. Fresh /\ Begun
  BY <1>2 DEF Fresh, Begun
<1>4. \A v \in VMs : ~Past(v)
  BY VMsAre DEF Init, Past, AfterLoop
<1>5. RolesInv
  <2>1. prime \notin VMs
    BY VMsAre DEF Init, NoVM
  <2> QED
    BY <1>4, <2>1 DEF Init, RolesInv
<1>6. CommandsInv
  BY <1>2, ResourcesAre DEF Init, CommandsInv, PrimeRegistered
<1>7. CollectedInv
  BY <1>4 DEF Init, CollectedInv
<1>8. OrdersInv
  BY <1>2, ResourcesAre DEF OrdersInv, HelmfileNames
<1> QED
  BY <1>1, <1>3, <1>5, <1>6, <1>7, <1>8 DEF UnitInv

\* Every step keeps the invariant.
LEMMA NextUnitInv == UnitInv /\ [Next]_vars => UnitInv'
<1> SUFFICES ASSUME UnitInv, [Next]_vars PROVE UnitInv'
  OBVIOUS
<1>1. CASE Unit
  BY <1>1, UnitUnitInv
<1>2. CASE Engine
  BY <1>2, EngineUnitInv
<1>3. CASE UNCHANGED vars
  <2>1. OrderInv'
    BY <1>3, NextOrderInv DEF UnitInv
  <2> QED
    BY <1>3, <2>1 DEF vars, program, UnitInv, Fresh, Begun, RolesInv, CommandsInv,
       CollectedInv, OrdersInv, Ahead, Past, ToApply, Done, IsPrime, Registered,
       Members, K8sRegistered, Earlier, Iscsi
<1> QED
  BY <1>1, <1>2, <1>3 DEF Next

-----------------------------------------------------------------------------
(* The theorems.                                                             *)

\* What has begun has its whole list done.
LEMMA StartedDone ==
  ASSUME UnitInv, NEW r \in Resources, Started(r)
  PROVE  Registered(r) /\ Done(deps[r])
BY DEF UnitInv, Begun, Started, InFlight, Registered

\* A list, once registered, is never replaced, and what has ended stays as it
\* is: no loop of the program comes back to a machine or a helmfile.
THEOREM NothingRegisteredTwice == Spec => RegisteredOnce
<1> DEFINE Settled == \A r \in Resources : Registered(r) =>
                        /\ deps'[r] = deps[r]
                        /\ status[r] # "pending" => status'[r] = status[r]
<1>1. ASSUME UnitInv, Unit PROVE Settled
  BY <1>1, UnitUnitInv DEF Kept
<1>2. ASSUME UnitInv, Engine PROVE Settled
  <2>0. TypeOK /\ deps' = deps
    BY <1>2, EngineUnitInv DEF UnitInv, OrderInv
  <2>1. ASSUME NEW r \in Resources, Finish(r)
        PROVE  \A x \in Resources : status[x] # "pending" => status'[x] = status[x]
    BY <2>0, <2>1 DEF Finish, InFlight, TypeOK
  <2>2. ASSUME NEW r \in Resources, FailResource(r)
        PROVE  \A x \in Resources : status[x] # "pending" => status'[x] = status[x]
    BY <2>2 DEF FailResource, InFlight
  <2>3. ASSUME NEW h, CreateService(h) PROVE status' = status
    BY <2>3 DEF CreateService
  <2> QED
    BY <1>2, <2>0, <2>1, <2>2, <2>3 DEF Engine
<1>3. UnitInv /\ [Next]_vars => [Settled]_vars
  BY <1>1, <1>2 DEF Next
<1> QED
  BY <1>3, InitUnitInv, NextUnitInv, PTL DEF Spec, RegisteredOnce

\* "Only write the config file if all the vm's came up", for every unit and
\* whatever fails.
THEOREM SshConfigWaits == Spec => []SshConfigAfterVMs
<1>1. UnitInv => SshConfigAfterVMs
  <2> SUFFICES ASSUME UnitInv, Started(SshConfig), NEW v \in VMs
               PROVE  status[OfVM("remoteOk", v)] = "done"
    BY DEF SshConfigAfterVMs, Done
  <2>1. Registered(SshConfig) /\ Done(deps[SshConfig])
    BY StartedDone, ResourcesAre
  <2> QED
    BY <2>1 DEF UnitInv, OrdersInv, Done
<1> QED
  BY <1>1, InitUnitInv, NextUnitInv, PTL DEF Spec

\* Every machine of "default" and "agent" gets exactly one k8s command and the
\* others none, however the configs are ordered and however many there are.
THEOREM OneCommandEach == Spec => []OneCommandPerNode
<1>1. UnitInv => OneCommandPerNode
  <2> SUFFICES ASSUME UnitInv, IsK8s, pc \in {"online", "helmfile", "returned"},
                      NEW v \in VMs
               PROVE  {r \in {Prime(v), Admin(v), Worker(v)} : Registered(r)} =
                        CASE Config[v[1]].name = "default" /\ v[2] = 0 -> {Prime(v)}
                          [] Config[v[1]].name = "default" /\ v[2] > 0 -> {Admin(v)}
                          [] Config[v[1]].name = "agent" -> {Worker(v)}
                          [] OTHER -> {}
    BY DEF OneCommandPerNode
  <2>0. /\ TypeOK /\ ListsInv /\ RolesInv /\ CommandsInv
        /\ Past(v) /\ v[2] \in Nat
    BY VMsAre DEF UnitInv, OrderInv, Past, AfterLoop
  <2>1. Registered(Prime(v)) <=> IsPrime(v)
    <3>1. prime \in VMs
      BY <2>0, PrimeIsVM DEF AfterLoop
    <3>2. IsPrime(v) => v = prime
      BY <2>0 DEF ListsInv
    <3>3. v = prime <=> IsPrime(v)
      BY <2>0, <3>1, <3>2 DEF RolesInv
    <3> QED
      BY <2>0, <3>3 DEF CommandsInv, PrimeRegistered
  <2>2. DOMAIN unitMap = {Config[d].name : d \in DOMAIN Config}
    BY <2>0 DEF TypeOK
  <2>3. v[1] \in DOMAIN Config
    BY VMsAre
  <2>4. ASSUME NEW name
        PROVE  v \in Members(name) <=> Config[v[1]].name = name /\ ~IsPrime(v)
    BY <2>0, <2>2, <2>3 DEF Members, RolesInv
  <2>5. Registered(Admin(v)) <=> Config[v[1]].name = "default" /\ ~IsPrime(v)
    BY <2>0, <2>4 DEF CommandsInv
  <2>6. Registered(Worker(v)) <=> Config[v[1]].name = "agent" /\ ~IsPrime(v)
    BY <2>0, <2>4 DEF CommandsInv
  <2>7. IsPrime(v) <=> Config[v[1]].name = "default" /\ v[2] = 0
    BY DEF IsPrime
  <2>8. CASE Config[v[1]].name = "default" /\ v[2] = 0
    BY <2>1, <2>5, <2>6, <2>7, <2>8
  <2>9. CASE Config[v[1]].name = "default" /\ v[2] # 0
    BY <2>0, <2>1, <2>5, <2>6, <2>7, <2>9
  <2>10. CASE Config[v[1]].name = "agent"
    BY <2>1, <2>5, <2>6, <2>7, <2>10
  <2>11. CASE Config[v[1]].name \notin {"default", "agent"}
    BY <2>1, <2>5, <2>6, <2>7, <2>11
  <2> QED
    BY <2>8, <2>9, <2>10, <2>11
<1> QED
  BY <1>1, InitUnitInv, NextUnitInv, PTL DEF Spec

\* "Helmfiles to apply in order", after every node has joined and has iscsi,
\* for every list of helmfiles and whatever fails.
THEOREM HelmfilesWait == Spec => []HelmfilesInOrder
<1>1. UnitInv => HelmfilesInOrder
  <2> SUFFICES ASSUME UnitInv, NEW m \in DOMAIN Helmfiles,
                      Started(HelmfileApply(Helmfiles[m]))
               PROVE  /\ \A k \in 1 .. m - 1 :
                           Done({HelmfileApply(Helmfiles[k])}
                                  \cup {Hack(h) : h \in {Helmfiles[k]} \cap Hacked})
                      /\ Done({r \in K8sCommands : Registered(r)})
                      /\ Done({OfVM("enableIscsi", v) : v \in VMs})
    BY DEF HelmfilesInOrder
  <2> DEFINE x == HelmfileApply(Helmfiles[m])
  <2>1. x \in Resources
    BY ResourcesAre DEF HelmfileNames
  <2>2. Registered(x) /\ Done(deps[x])
    BY <2>1, StartedDone
  <2>3. Earlier(m) \cup Iscsi \cup K8sRegistered \subseteq deps[x]
    BY <2>2 DEF UnitInv, OrdersInv
  <2>4. Done(Earlier(m)) /\ Done(Iscsi) /\ Done(K8sRegistered)
    BY <2>2, <2>3 DEF Done
  <2>5. ASSUME NEW k \in 1 .. m - 1
        PROVE  {HelmfileApply(Helmfiles[k])}
                 \cup {Hack(h) : h \in {Helmfiles[k]} \cap Hacked} \subseteq Earlier(m)
    BY DEF Earlier
  <2> QED
    BY <2>4, <2>5 DEF Done, Iscsi, K8sRegistered
<1> QED
  BY <1>1, InitUnitInv, NextUnitInv, PTL DEF Spec
=============================================================================
