----------------------------- MODULE UnitDeploy -----------------------------
(***************************************************************************)
(* pkg/providers/libvirt: SetupShared and Unit, which register a unit's     *)
(* resources with the pulumi engine, and the engine, which meanwhile        *)
(* creates them.                                                            *)
(*                                                                          *)
(* The program does not wait for the engine: Unit builds lists of resources *)
(* (vmDepends, fileDepends, pkgInstalls, k8sDepends) and hands them to      *)
(* pulumi.DependsOn, and the order in which machines come up, files arrive, *)
(* nodes join and charts are applied is whatever these lists allow.  The    *)
(* lists are sets here; the engine only asks whether a dependency is done.  *)
(*                                                                          *)
(* External: the engine starts a registered resource when its dependencies  *)
(* are done, runs any number at once, and after a failure starts nothing    *)
(* new but lets what is in flight finish.                                   *)
(***************************************************************************)
EXTENDS Naturals, Sequences

CONSTANTS
  Config,       \* the unit's configs in order: records [name, count]
  Shipped,      \* the inputs with a Remote.Dest, which go to every machine
  IsK8s,        \* unit.Kind = "k8s"
  Online,       \* unit.Online
  UseHelmfiles, \* unit.Name = "upstream" and NOHELMFILE is not set
  Helmfiles,    \* the unit's helmfiles in order
  Faults        \* subset of {"artifact", "resource"}: what may fail

Logs == {"cloud-init.log", "cloud-init-output.log"}

\* The helmfiles for which the remote command has a "hack" that patches the
\* chart's service while the chart is being applied.
Hacked == {"ai", "nexus"}

VMs == UNION {{c} \X (0 .. Config[c].count - 1) : c \in DOMAIN Config}

NoVM == <<0, 0>>

\* prime is left at its zero value when no config is called "default", and
\* two configs of one name overwrite each other's entries.
ASSUME ConfigAssumption ==
  /\ Config \in Seq([name : STRING, count : Nat])
  /\ \A c, d \in DOMAIN Config : Config[c].name = Config[d].name => c = d
  /\ \E c \in DOMAIN Config : Config[c].name = "default" /\ Config[c].count > 0

ASSUME UnitAssumption ==
  /\ Shipped \subseteq STRING
  /\ {IsK8s, Online, UseHelmfiles} \subseteq BOOLEAN
  /\ Helmfiles \in Seq(STRING)
  /\ \A k, m \in DOMAIN Helmfiles : Helmfiles[k] = Helmfiles[m] => k = m
  /\ Faults \subseteq {"artifact", "resource"}

-----------------------------------------------------------------------------
(* Resources: a kind, the machine it belongs to (or NoVM), and a name.      *)

Shared(kind) == <<kind, NoVM, "">>
BaseVolume(c) == <<"baseVolume", <<c, 0>>, "">>
OfVM(kind, v) == <<kind, v, "">>
CopyLog(v, l) == <<"copyLog", v, l>>
CopyInput(v, f) == <<"copyInput", v, f>>
InstallFile(v, f) == <<"installFile", v, f>>
Prime(v) == <<"k8sPrime", v, "">>
Admin(v) == <<"k8sAdmin", v, "">>
Worker(v) == <<"k8sWorker", v, "">>
SshConfig == Shared("sshConfig")
Kubeconfig == Shared("kubeconfig")
KubeVipFile == Shared("kubeVipFile")
Hack(h) == <<"hack", NoVM, h>>
HelmfileApply(h) == <<"helmfileApply", NoVM, h>>

SharedKinds == {"provider", "network", "cipool", "vmpool"}
MachineKinds == {"disk1", "cloudInit", "domain", "ensureSshKey", "copyRemote",
                 "remoteOk", "vmSetup"}
OnlineKinds == {"zypperInOpenIscsi", "enableIscsi"}

HelmfileNames == {Helmfiles[n] : n \in DOMAIN Helmfiles}

K8sCommands == UNION {{Prime(v), Admin(v), Worker(v)} : v \in VMs}

Resources ==
  {Shared(k) : k \in SharedKinds}
    \cup {BaseVolume(c) : c \in DOMAIN Config}
    \cup {OfVM(k, v) : k \in MachineKinds \cup OnlineKinds, v \in VMs}
    \cup {CopyLog(v, l) : v \in VMs, l \in Logs}
    \cup {CopyInput(v, f) : v \in VMs, f \in Shipped}
    \cup {InstallFile(v, f) : v \in VMs, f \in Shipped}
    \cup {SshConfig, Kubeconfig, KubeVipFile}
    \cup K8sCommands
    \cup {Hack(h) : h \in HelmfileNames \cap Hacked}
    \cup {HelmfileApply(h) : h \in HelmfileNames}

VARIABLES
  pc,           \* the next step of the program
  c,            \* the config the loop of Unit is at
  idx,          \* the machine of that config
  n,            \* the helmfile the loop is at
  vmDepends, fileDepends, pkgInstalls, k8sDepends,   \* Unit's lists
  prime,        \* the machine that is treated as special
  unitMap,      \* unitMap[name]: the other machines of the config
  deps,         \* deps[r]: what r was registered to depend on
  status,       \* status[r]
  services      \* the helmfiles whose chart has created its service

program == <<pc, c, idx, n, vmDepends, fileDepends, pkgInstalls, k8sDepends,
             prime, unitMap>>
vars == <<program, deps, status, services>>

ProgramSteps == {"shared", "config", "vm", "sshConfig", "k8sPrime",
                 "kubeconfig", "admins", "workers", "online", "helmfile"}

TypeOK ==
  /\ pc \in ProgramSteps \cup {"returned", "error"}
  /\ c \in 1 .. Len(Config) + 1
  /\ pc = "vm" => c \in DOMAIN Config /\ idx <= Config[c].count
  /\ idx \in Nat
  /\ n \in 1 .. Len(Helmfiles) + 1
  /\ {vmDepends, fileDepends, pkgInstalls, k8sDepends} \subseteq SUBSET Resources
  /\ prime \in VMs \cup {NoVM}
  /\ unitMap \in [{Config[d].name : d \in DOMAIN Config} -> SUBSET VMs]
  /\ deps \in [Resources -> SUBSET Resources]
  /\ status \in [Resources -> {"none", "pending", "skipped", "done", "failed"}]
  /\ services \subseteq Hacked

Init ==
  /\ pc = "shared" /\ c = 1 /\ idx = 0 /\ n = 1
  /\ vmDepends = {} /\ fileDepends = {} /\ pkgInstalls = {} /\ k8sDepends = {}
  /\ prime = NoVM
  /\ unitMap = [name \in {Config[d].name : d \in DOMAIN Config} |-> {}]
  /\ deps = [r \in Resources |-> {}]
  /\ status = [r \in Resources |-> "none"]
  /\ services = {}

-----------------------------------------------------------------------------
(* The engine (external).                                                   *)

Done(S) == \A r \in S : status[r] = "done"

\* The engine is at work on r.
InFlight(r) == status[r] = "pending" /\ Done(deps[r])

Halted == \E r \in Resources : status[r] = "failed"

\* The program registers the resources of DOMAIN D, each with its
\* dependencies.
Register(D) ==
  /\ deps' = [r \in Resources |-> IF r \in DOMAIN D THEN D[r] ELSE deps[r]]
  /\ status' = [r \in Resources |->
       IF r \notin DOMAIN D THEN status[r]
       ELSE IF Halted THEN "skipped" ELSE "pending"]

RegisterOne(r, S) == Register([x \in {r} |-> S])

\* The hack's command loops, through any error, until it has found the
\* service of the chart and given it its address.
HackMayFinish(h) == h \in services

\* Helm, told to wait, waits for the service to have its address.
MayFinish(r) ==
  /\ r[1] = "hack" => HackMayFinish(r[3])
  /\ r[1] = "helmfileApply" /\ r[3] \in Hacked => status[Hack(r[3])] = "done"

Finish(r) ==
  /\ InFlight(r)
  /\ MayFinish(r)
  /\ status' = [status EXCEPT ![r] = "done"]
  /\ UNCHANGED <<program, deps, services>>

\* Any resource may fail: a hack retries through every error of the cluster,
\* but the ssh connection that its command runs over may break.
FailResource(r) ==
  /\ "resource" \in Faults
  /\ InFlight(r)
  /\ status' = [x \in Resources |->
       IF x = r THEN "failed"
       ELSE IF status[x] = "pending" /\ ~InFlight(x) THEN "skipped"
       ELSE status[x]]
  /\ UNCHANGED <<program, deps, services>>

\* A chart that is being applied creates its service.
CreateService(h) ==
  /\ h \notin services
  /\ InFlight(HelmfileApply(h))
  /\ services' = services \cup {h}
  /\ UNCHANGED <<program, deps, status>>

-----------------------------------------------------------------------------
(* The program.                                                             *)

Goto(from, to) == pc = from /\ pc' = to

SetupShared ==
  /\ Goto("shared", "config")
  /\ Register([r \in {Shared(k) : k \in SharedKinds} |-> {}])
  /\ UNCHANGED <<c, idx, n, vmDepends, fileDepends, pkgInstalls, k8sDepends,
                 prime, unitMap, services>>

\* The head of the loop over unit.Config.
UnitConfig ==
  /\ c \in DOMAIN Config
  /\ Goto("config", "vm")
  /\ idx' = 0
  /\ RegisterOne(BaseVolume(c), {Shared("provider"), Shared("vmpool")})
  /\ UNCHANGED <<c, n, vmDepends, fileDepends, pkgInstalls, k8sDepends, prime,
                 unitMap, services>>

VMResources(v) ==
  {OfVM(k, v) : k \in MachineKinds \cup IF Online THEN OnlineKinds ELSE {}}
    \cup {CopyLog(v, l) : l \in Logs}
    \cup {CopyInput(v, f) : f \in Shipped}
    \cup {InstallFile(v, f) : f \in Shipped}

\* What resource r of machine v depends on, by DependsOn or because it takes
\* an output of it: every ssh connection takes the domain's address.  At the
\* packages and the logs, vmDepends is what the machines before v left there,
\* to which remoteOk of v has been added.
DependsOf(v, r) ==
  LET domain == OfVM("domain", v)
      key == OfVM("ensureSshKey", v)
      provider == Shared("provider")
  IN
  CASE r[1] = "disk1" -> {provider, Shared("vmpool"), BaseVolume(v[1])}
    [] r[1] = "cloudInit" -> {provider, Shared("cipool")}
    [] r[1] = "domain" ->
         {provider, Shared("network"), OfVM("disk1", v), OfVM("cloudInit", v)}
    [] r[1] = "ensureSshKey" -> {domain}
    [] r[1] = "copyRemote" -> {domain, key}
    [] r[1] = "remoteOk" -> {domain, key, OfVM("copyRemote", v)}
    [] r[1] = "vmSetup" -> {domain, key}
    [] r[1] \in {"zypperInOpenIscsi", "copyLog"} ->
         vmDepends \cup {OfVM("remoteOk", v), domain}
    [] r[1] = "enableIscsi" -> {domain, OfVM("zypperInOpenIscsi", v)}
    [] r[1] = "copyInput" -> {domain}
    [] r[1] = "installFile" -> {domain, CopyInput(v, r[3])}

VMDeps(v) == [r \in VMResources(v) |-> DependsOf(v, r)]

\* The lists are local: they are gone when Unit returns an error.
Abandon(from) ==
  /\ "artifact" \in Faults
  /\ Goto(from, "error")
  /\ UNCHANGED <<c, idx, n, vmDepends, fileDepends, pkgInstalls, k8sDepends,
                 prime, unitMap, services>>

\* RegisterArtifact or os.Link failed (the image is not in the cache, say)
\* before the step registered anything.
ArtifactError ==
  /\ \/ c \in DOMAIN Config /\ Abandon("config")
     \/ Abandon("sshConfig")
     \/ Abandon("kubeconfig")
     \/ Online /\ Abandon("online")
  /\ UNCHANGED <<deps, status>>

\* Mutant: the loop over a config's machines runs once too often.
MoreVMsOffByOne == idx <= Config[c].count

MoreVMs == idx < Config[c].count

\* Mutant: the copies, and not the installs that follow them, are waited for.
InstallsAsCopies(v) == {CopyInput(v, f) : f \in Shipped}

\* What fileDepends gets of machine v.
Installs(v) == {InstallFile(v, f) : f \in Shipped}

\* Mutant: the first machine of any config is special.
IsSpecialAnywhere(name) == idx = 0

\* "index 0 vm is treated as special", in the config called "default".
IsSpecial(name) == name = "default" /\ idx = 0

\* The body of the loop over a config's machines.
UnitVM ==
  LET v == <<c, idx>>
      name == Config[c].name
  IN
  /\ pc = "vm" /\ pc' = "vm"
  /\ MoreVMs
  /\ idx' = idx + 1
  /\ Register(VMDeps(v))
  /\ fileDepends' = fileDepends \cup Installs(v)
  /\ vmDepends' = vmDepends \cup {OfVM("remoteOk", v), OfVM("vmSetup", v)}
                            \cup fileDepends'
  /\ pkgInstalls' = pkgInstalls
       \cup IF Online THEN {OfVM(k, v) : k \in OnlineKinds} ELSE {}
  /\ IF IsSpecial(name)
     THEN prime' = v /\ UNCHANGED unitMap
     ELSE unitMap' = [unitMap EXCEPT ![name] = @ \cup {v}] /\ UNCHANGED prime
  /\ UNCHANGED <<c, n, k8sDepends, services>>

\* What the loop's body has registered for machine v when it fails to make the
\* cloud-init files, the artifact of the remote binary or that of a log, or to
\* draw a random name, which it does for each shipped input, in any order.
VMPrefixes(v) ==
  LET upTo(kinds) == {r \in VMResources(v) : r[1] \in kinds}
      setUp == upTo(MachineKinds \cup OnlineKinds)
      sent(F) == {CopyInput(v, f) : f \in F} \cup {InstallFile(v, f) : f \in F}
  IN {upTo({"disk1"}),
      upTo({"disk1", "cloudInit", "domain", "ensureSshKey"}),
      setUp,
      setUp \cup {CopyLog(v, "cloud-init.log")}}
     \cup {setUp \cup upTo({"copyLog"}) \cup sent(F) : F \in (SUBSET Shipped) \ {Shipped}}

UnitVMError ==
  LET v == <<c, idx>> IN
  /\ Abandon("vm")
  /\ MoreVMs
  /\ \E S \in VMPrefixes(v) : Register([r \in S |-> DependsOf(v, r)])

NextConfig ==
  /\ Goto("vm", "config")
  /\ idx = Config[c].count
  /\ c' = c + 1
  /\ UNCHANGED <<idx, n, vmDepends, fileDepends, pkgInstalls, k8sDepends,
                 prime, unitMap, deps, status, services>>

EndConfigs ==
  /\ c \notin DOMAIN Config
  /\ Goto("config", "sshConfig")
  /\ UNCHANGED <<c, idx, n, vmDepends, fileDepends, pkgInstalls, k8sDepends,
                 prime, unitMap, deps, status, services>>

\* Mutant: the file waits for the addresses it is made of and nothing else.
UnitSshConfigEarly ==
  /\ Goto("sshConfig", IF IsK8s THEN "k8sPrime" ELSE "online")
  /\ RegisterOne(SshConfig, {OfVM("domain", v) : v \in VMs})
  /\ k8sDepends' = vmDepends
  /\ UNCHANGED <<c, idx, n, vmDepends, fileDepends, pkgInstalls, prime,
                 unitMap, services>>

\* The file's content is made of every machine's address.
UnitSshConfig ==
  /\ Goto("sshConfig", IF IsK8s THEN "k8sPrime" ELSE "online")
  /\ RegisterOne(SshConfig, vmDepends \cup {OfVM("domain", v) : v \in VMs})
  /\ k8sDepends' = vmDepends
  /\ UNCHANGED <<c, idx, n, vmDepends, fileDepends, pkgInstalls, prime,
                 unitMap, services>>

\* Mutant: the prime node waits for its own setup only.
UnitK8sPrimeAlone ==
  /\ Goto("k8sPrime", "kubeconfig")
  /\ RegisterOne(Prime(prime), {OfVM("domain", prime), OfVM("vmSetup", prime)})
  /\ k8sDepends' = k8sDepends \cup {Prime(prime)}
  /\ UNCHANGED <<c, idx, n, vmDepends, fileDepends, pkgInstalls, prime,
                 unitMap, services>>

\* Mutant: nobody waits for the prime node.
UnitK8sPrimeForgotten ==
  /\ Goto("k8sPrime", "kubeconfig")
  /\ RegisterOne(Prime(prime), k8sDepends \cup {OfVM("domain", prime)})
  /\ UNCHANGED <<c, idx, n, vmDepends, fileDepends, pkgInstalls, k8sDepends,
                 prime, unitMap, services>>

UnitK8sPrime ==
  /\ Goto("k8sPrime", "kubeconfig")
  /\ RegisterOne(Prime(prime), k8sDepends \cup {OfVM("domain", prime)})
  /\ k8sDepends' = k8sDepends \cup {Prime(prime)}
  /\ UNCHANGED <<c, idx, n, vmDepends, fileDepends, pkgInstalls, prime,
                 unitMap, services>>

\* The copy's resource is dropped: no list gets it.
UnitKubeconfig ==
  /\ Goto("kubeconfig", "admins")
  /\ RegisterOne(Kubeconfig, k8sDepends \cup {OfVM("domain", prime)})
  /\ UNCHANGED <<c, idx, n, vmDepends, fileDepends, pkgInstalls, k8sDepends,
                 prime, unitMap, services>>

Members(name) == IF name \in DOMAIN unitMap THEN unitMap[name] ELSE {}

Admins == {Admin(v) : v \in Members("default")}
Workers == {Worker(v) : v \in Members("agent")}

\* A joining node's command also takes the address of the prime node.
Joins(S) ==
  [r \in S |-> k8sDepends \cup {OfVM("domain", r[2]), OfVM("domain", prime)}]

UnitAdmins ==
  /\ Goto("admins", "workers")
  /\ Register(Joins(Admins))
  /\ UNCHANGED <<c, idx, n, vmDepends, fileDepends, pkgInstalls, k8sDepends,
                 prime, unitMap, services>>

UnitWorkers ==
  /\ Goto("workers", "online")
  /\ Register(Joins(Workers))
  /\ vmDepends' = vmDepends \cup k8sDepends \cup Admins \cup Workers
  /\ UNCHANGED <<c, idx, n, fileDepends, pkgInstalls, k8sDepends, prime,
                 unitMap, services>>

UnitOnline ==
  /\ Goto("online", IF Online /\ UseHelmfiles THEN "helmfile" ELSE "returned")
  /\ vmDepends' = vmDepends \cup IF Online THEN pkgInstalls ELSE {}
  /\ UNCHANGED <<c, idx, n, fileDepends, pkgInstalls, k8sDepends, prime,
                 unitMap, deps, status, services>>

\* Mutant: the command's name does not say which helmfile it applies.
HelmfileResourcesUnnamed(h) ==
  {HelmfileApply(Helmfiles[1])} \cup {Hack(x) : x \in {h} \cap Hacked}

HelmfileResources(h) ==
  {HelmfileApply(h)}
    \cup {Hack(x) : x \in {h} \cap Hacked}
    \cup {x \in {KubeVipFile} : h = "kube-vip"}

\* Mutant: a helmfile waits for the cluster and not for the helmfile before it.
HelmfileDepsUnordered(h) ==
  [r \in HelmfileResources(h) |-> k8sDepends \cup {OfVM("domain", prime)}]

\* Mutant: the helmfile gets the list with its own hack on it.
HelmfileDepsOnHack(h) ==
  [r \in HelmfileResources(h) |->
     CASE r[1] = "helmfileApply" -> vmDepends \cup {Hack(x) : x \in {h} \cap Hacked}
       [] r[1] = "hack" -> vmDepends \cup {OfVM("domain", prime)}
       [] OTHER -> k8sDepends \cup {OfVM("domain", prime)}]

\* What one helmfile registers: its hack, itself, and for kube-vip a
\* kubeconfig with the vip.  The hack gets the list before the helmfile is
\* on it, and the helmfile before the hack is.
HelmfileDeps(h) ==
  [r \in HelmfileResources(h) |->
     CASE r[1] = "helmfileApply" -> vmDepends
       [] r[1] = "hack" -> vmDepends \cup {OfVM("domain", prime)}
       [] OTHER -> k8sDepends \cup {OfVM("domain", prime)}]

\* The artifact that the command of the m-th helmfile has as its KUBECONFIG.
\* The one that is registered for kube-vip is put into a variable of the same
\* name that ends with its case of the switch.
LocalKubeconfig(m) == Kubeconfig

UnitHelmfile ==
  /\ pc = "helmfile" /\ pc' = "helmfile"
  /\ n \in DOMAIN Helmfiles
  /\ n' = n + 1
  /\ Register(HelmfileDeps(Helmfiles[n]))
  /\ vmDepends' = vmDepends \cup DOMAIN HelmfileDeps(Helmfiles[n])
  /\ UNCHANGED <<c, idx, fileDepends, pkgInstalls, k8sDepends, prime, unitMap,
                 services>>

\* There is no artifact for the kubeconfig with the vip: the helmfile itself
\* has been registered by then.
UnitHelmfileError ==
  /\ n \in DOMAIN Helmfiles
  /\ Helmfiles[n] = "kube-vip"
  /\ Abandon("helmfile")
  /\ RegisterOne(HelmfileApply(Helmfiles[n]), vmDepends)

EndHelmfiles ==
  /\ n \notin DOMAIN Helmfiles
  /\ Goto("helmfile", "returned")
  /\ UNCHANGED <<c, idx, n, vmDepends, fileDepends, pkgInstalls, k8sDepends,
                 prime, unitMap, deps, status, services>>

Unit ==
  \/ SetupShared
  \/ UnitConfig \/ UnitVM \/ NextConfig \/ EndConfigs
  \/ UnitSshConfig
  \/ UnitK8sPrime \/ UnitKubeconfig \/ UnitAdmins \/ UnitWorkers
  \/ UnitOnline \/ UnitHelmfile \/ EndHelmfiles
  \/ ArtifactError \/ UnitVMError \/ UnitHelmfileError

Engine ==
  \/ \E r \in Resources : Finish(r) \/ FailResource(r)
  \/ \E h \in Hacked \cap HelmfileNames : CreateService(h)

Next == Unit \/ Engine

Spec == Init /\ [][Next]_vars

\* The program never blocks; a machine, a command or a chart that the engine
\* is at work on ends, one way or the other, once what it waits for is there.
\* Nothing makes the connection under a hack break.
Fairness ==
  /\ WF_vars(Unit)
  /\ \A r \in Resources : WF_vars(Finish(r) \/ (r[1] # "hack" /\ FailResource(r)))
  /\ \A h \in Hacked \cap HelmfileNames : WF_vars(CreateService(h))

FairSpec == Spec /\ Fairness

-----------------------------------------------------------------------------
(* Properties.                                                              *)

Registered(r) == status[r] # "none"
Started(r) == InFlight(r) \/ status[r] \in {"done", "failed"}

\* No node runs its k8s command before every shipped input is installed and
\* the remote binary answers, on every machine of the unit: the command
\* installs rke2 from those files.
K8sAfterInputs ==
  \A r \in K8sCommands : Started(r) =>
    Done({InstallFile(v, f) : v \in VMs, f \in Shipped}
           \cup {OfVM("remoteOk", v) : v \in VMs})

\* "Everyone depends on the prime install being setup and Ready": no node
\* joins, and the kubeconfig is not fetched, before the prime node's install
\* is done.
JoinAfterPrime ==
  \A r \in {Kubeconfig} \cup UNION {{Admin(v), Worker(v)} : v \in VMs} :
    Started(r) => status[Prime(prime)] = "done"

\* "Only write the config file if all the vm's came up".
SshConfigAfterVMs ==
  Started(SshConfig) => Done({OfVM("remoteOk", v) : v \in VMs})

\* The engine takes a resource once: no step of the program registers one
\* again, so what it waits for is settled when it is registered, and what has
\* ended or was skipped stays as it is.
RegisteredOnce ==
  [][\A r \in Resources : Registered(r) =>
       /\ deps'[r] = deps[r]
       /\ status[r] # "pending" => status'[r] = status[r]]_vars

\* Every machine of the configs "default" and "agent" runs exactly one k8s
\* command, the first machine of "default" as the prime node: none is left
\* out and none joins twice.
OneCommandPerNode ==
  IsK8s /\ pc \in {"online", "helmfile", "returned"} =>
    \A v \in VMs :
      {r \in {Prime(v), Admin(v), Worker(v)} : Registered(r)} =
        CASE Config[v[1]].name = "default" /\ v[2] = 0 -> {Prime(v)}
          [] Config[v[1]].name = "default" /\ v[2] > 0 -> {Admin(v)}
          [] Config[v[1]].name = "agent" -> {Worker(v)}
          [] OTHER -> {}

\* "Helmfiles to apply in order": a helmfile is applied when the ones before
\* it, with their hacks, are through, every node has joined and has iscsi.
HelmfilesInOrder ==
  \A m \in DOMAIN Helmfiles : Started(HelmfileApply(Helmfiles[m])) =>
    /\ \A k \in 1 .. m - 1 :
         Done({HelmfileApply(Helmfiles[k])}
                \cup {Hack(h) : h \in {Helmfiles[k]} \cap Hacked})
    /\ Done({r \in K8sCommands : Registered(r)})
    /\ Done({OfVM("enableIscsi", v) : v \in VMs})

\* Unless something fails the whole unit comes up: no resource waits,
\* directly or through others (the hack for the chart that waits for the
\* hack), for one that waits for it.
UpUnlessFailure ==
  \/ <>(Halted \/ pc = "error")
  \/ <>[](/\ pc = "returned"
          /\ \A r \in Resources : status[r] \in {"none", "done"})

\* "It has no timeout, that is left to pulumi it either passes or fails": the
\* remote commands end, whatever else fails.
CommandsEnd == <>[](\A r \in Resources : ~InFlight(r))

\* The helmfile command names the kubeconfig artifact in its KUBECONFIG: the
\* artifact has been copied from the prime node by then.
HelmfileHasKubeconfig ==
  IsK8s => \A m \in DOMAIN Helmfiles :
    Started(HelmfileApply(Helmfiles[m])) => status[LocalKubeconfig(m)] = "done"
=============================================================================
