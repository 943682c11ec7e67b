# A TLA+ model of shenanigans

shenanigans builds virtual machines and Kubernetes clusters on libvirt. It is a
pulumi program: it downloads its inputs into a cache, registers resources
(machines, ssh commands, local commands) with the pulumi engine, and the engine
creates them, any number at once, as their dependencies allow. The same source is
compiled a second time, as the binary `remote`, which is copied to the machines
and does the work there.

Nothing of this has a test, and most of what can go wrong needs two actors: two
runs of the program on one cache, a signal in the middle of a download, a
command that starts one list entry too early, a chart and a command that wait for
each other, an `up` among what three earlier ones have left. That is what these
modules are about.

## Inventory

| part | state | operations | interacts with |
|---|---|---|---|
| file cache (`pkg/filecache`) | `~/.cache/shenanigans/cache/<sha256>`, `tmp/<pid>/<uuid>`, goroutines that wait for a signal | `CacheInput`, `TmpDir`, `CleanupCache` | other runs of the program, signals, http servers |
| universe (`pkg/universe`) | the state directory and keys of every run so far, pulumi's checkpoint | `NewUniverse`: signal handler, removal of the state directory, inputs, ssh keys, build of `remote`, shared resources, units | everything below, and earlier runs of itself |
| libvirt provider (`pkg/providers/libvirt`) | the lists `vmDepends`, `fileDepends`, `pkgInstalls`, `k8sDepends`; `prime`, `unitMap` | `SetupShared`, `Unit` | the pulumi engine |
| remote binary (`pkg/cmd/remote`) | files and services of one machine; a kubernetes service | `k8s`, `aihack`, `nexushack`, `initcheck`, `hostname` | rke2, the api server, helm, controllers, the other nodes |
| state directory (`pkg/cache`) | `~/.cache/shenanigans/<uuid>`, the artifacts | `NewState`, `RegisterArtifact` | universe, provider |
| network (`pkg/network`) | the bytes of an address that two variables share | `ToNetwork` | provider, the address in the hacks |
| unit, vm (`pkg/unit`, `pkg/vm`) | none | `ToUnit`, `ToConfig` | universe |
| ssh (`pkg/ssh`, `pkg/components/ssh`) | key files | `NewSsh` | universe, provider |
| cloud-init, local command, main, dead packages | see `PROJECT.json` | | |

What is hard, and what makes each part correct:

* **File cache.** Several runs share the cache without a lock, and a file that is
  found there is used unread. A signal does not stop the program, it only starts
  goroutines that remove files under it. Correct: what is cached is valid, is never
  replaced or lost, and a nil return to a run that got no signal means cached.
* **Provider.** The program never waits; everything is in what it hands to
  `DependsOn`. Correct: inputs before installs, prime node before the others,
  helmfiles in order, one command per node, and no resource that waits for itself.
  The lists are Go slices, and two of them share an array: what one append writes
  may be what another list holds.
* **Remote binary.** Nodes run their commands at the same time, each step may fail
  and is not undone. Correct: one cluster, joined in the right order and role, and
  commands that end. A hack reads a service, sets a field and writes all of it back
  while others write to it. Correct: their writes stay, and the field is set.
* **Universe.** Every run, a preview too, makes a directory, keys and links, and only
  the resources of a run that got far enough take them away again. Correct: nothing
  is left that nothing removes, and a success means machines one can log in to.
* **Network.** Addresses are bytes that are changed in place. Correct: every host
  that asks gets an address of its own that it can use.

The hazards, each at its line, are in `PROJECT.json`.

## Modules

| module | what it is |
|---|---|
| `ContentStore` | abstract: a write-once, content-addressed store with acknowledgements, true to every client that was not interrupted |
| `FileCache` | `pkg/filecache` and the parts of `NewUniverse` that drive it; refines `ContentStore` |
| `MCFileCache` | the instance of `FileCache` |
| `FileCacheProofs` | theorems about `FileCache` |
| `UnitDeploy` | `SetupShared` and `Unit`, with the pulumi engine |
| `MCUnitDeploy` | instances of `UnitDeploy`: the shapes of the repository's stacks |
| `UnitDeployProofs` | theorems about `UnitDeploy`: types, inputs, the prime node |
| `UnitOrderProofs` | more of them: registrations, ssh config, commands, helmfiles |
| `RemoteK8s` | `remote k8s` on every node of a unit (also the module of its own run) |
| `RemoteK8sProofs` | theorems about `RemoteK8s` |
| `ServiceHack` | `remote aihack` and `remote nexushack` against an api server (also the module of its own run) |
| `ServiceHackProofs` | theorems about `ServiceHack` |
| `StackLifecycle` | `NewUniverse`, `NewState` and the key component over several up, preview and destroy |
| `MCStackLifecycle` | an instance of `StackLifecycle` |
| `StackLifecycleProofs` | theorems about `StackLifecycle` |
| `DependsScript` | what `Unit` does with its lists: the positions in its code, the step at each and where it leads |
| `DependsLists` | abstract: those steps where a list is a value |
| `DependsSlices` | those steps on Go slices; refines `DependsLists` |
| `MCDependsSlices` | instances of `DependsSlices` |
| `DependsProofs` | theorems about `DependsSlices` |
| `NetworkPlan` | `ToNetwork`, with the hosts that `SetupShared` takes from it |
| `MCNetworkPlan` | an instance of `NetworkPlan` |
| `NetworkPlanProofs` | theorems about `NetworkPlan` |

`FileCache` is what `UnitDeploy` starts from (its action `ArtifactError` stands for
the image that is not in the cache), and `UnitDeploy` gives `RemoteK8s` its two
assumptions: `Init` there has the install artifacts in place on every node, which
is `K8sAfterInputs`, and `MayBegin` lets a node begin after the prime node's
command, which is `JoinAfterPrime`; `UnitDeployProofs` proves both for every unit. `ServiceHack` is what `UnitDeploy` takes for
granted of a hack in `HackMayFinish`: that once the service is there the command
ends, with the address set. `DependsSlices` is about the sets that `UnitDeploy`
uses for `Unit`'s lists: `SlicesAreLists` says that the slices may be read as values,
`NoOverwrite` is when they may be, and `slices_seven` a unit in which they may not. `StackLifecycle` has the loop over the inputs
(`FileCache`) and a unit's machines (`UnitDeploy`) as single steps that may fail.
`NetworkPlan` ends with the address that the hacks of `ServiceHack` write.

Operators whose comment begins with *Mutant* are wrong on purpose: each is a
plausible slip in the definition that follows it, kept to show that the properties
notice it. Nothing uses them.

### FileCache

One process is one run of the program. `pc[p]` walks through `CacheInput` one
system call at a time, because the other processes and the process's own goroutines
act in between: `stat`, `mkdir`, `create`, `get`, `copy`, `sum`, `restat`, `rename`,
`return`. A content is identified with its sha256 sum, so `cache[s] = s` says that
the file is the right one. `Serves[s]` is what the server may answer for input `s`;
an answer with an error status is a content like any other, as in the code.

`armed`, `woken` and `sweeper` are the goroutines: each call of `TmpDir` starts one
that removes the directory if it is empty, and `NewUniverse` starts one that runs
`CleanupCache`, whose `RemoveAll` lists, unlinks and removes in separate steps. They
end with the process. `Signalled` are the runs that a signal may be sent to. The faults
are `io` (a file operation fails and `CacheInput` looks at its error), `dropped` (the
second `Stat` or the `Rename` fails, whose error it drops), `net` (connection refused or
broken off), and `kill`. Calls on a nil result
(`e.Size()` at 88, `resp.Body.Close()` at 111) panic, which ends the process as an
error does.

`StoreSpec` maps the cache to the store of `ContentStore`, what `CacheInput` returned
nil for to its acknowledgements, and the runs whose signal handler has begun to
`interrupted`. A run in this state may be told anything (its own clean-up takes its
download away, and the error of `Rename` is dropped), but neither it nor its clean-up
may touch the store, and the other runs are still told the truth.

### UnitDeploy

The variables are `Unit`'s own: the four lists, as sets, `prime` and `unitMap`; the
position in its loops; and the engine's view, `deps` and `status` of every
resource. An action of the program is a stretch of `Unit` between two points where
the engine may see a difference: one machine of the loop, one helmfile, the prime
node's command. `DependsOf` gives what each resource waits for, explicit
(`DependsOn`) and implicit (an ssh command takes the machine's address, a volume its
pool's name). `ArtifactError`, `UnitVMError` and `UnitHelmfileError` are `Unit`'s
early returns, with what had been registered by then: for a machine, `VMPrefixes`,
which has also the inputs that were on their way when `randomString` failed at a later
one.

The engine is external and is modelled from how it is used: it works on any number
of resources whose dependencies are done; each may fail, a hack too, whose ssh
connection may break; after a failure it starts nothing new and
lets what is in flight finish. A program that returned an error does not stop what
it had registered. Two more things come from outside: helm, told `wait: true` by the
helmfiles, waits for the load balancer address of the chart's service, which only
the hack sets; and the hack (`remote aihack`, `remote nexushack`) loops until the
service exists.

The constants' assumptions: no two configs have the same name, and one is called
`default` and has at least one machine (otherwise the code uses a zero `prime`);
helmfile names are distinct (pulumi refuses two resources of one name).

### RemoteK8s

`step[m]` is the next file or command of node `m`'s `remote k8s`. What the flags
decide is in `ServerLine` (the `server:` line of `config.yaml`) and the role that
`install.sh` gets. rke2, the kubelet's Ready condition and the api server are
external: starting the service founds a cluster if there is no server line and
joins the upstream's otherwise, for which the upstream must answer
(`UpstreamAnswers`; `systemctl` has no timeout and waits with the service); Ready and
the api server come and go. A step may fail before or after it had its effect
(`StepError`, `LateError`), and `Cleanup`, whose error the code drops, may leave the
artifacts where they are and still return nil. The turns of
the wait loop in which the node is not Ready change nothing but counters that are
printed, and are not actions.

### ServiceHack

The loop of a hack, call by call: kubeconfig, client, `Get`, `Update`, and the
answer to the update, which is a step of its own because the api server may go away
when it has made the update. Any error starts the loop over. A service has a
`resourceVersion`; the api server, which is external, takes an update only of the
current version. Helm makes the service, may delete it and make it anew; each
controller writes its own part once. The two hacks differ in the service's name.

### StackLifecycle

`pc` walks through `NewUniverse` from one thing that can fail or that leaves
something behind to the next, with each early return as an action of its own. A uuid
is the number of the run that drew it, and so is a key; `config` is the uuid that the
user has put into the config, that of any prior build. `disk[d]` is a state
directory: does it exist, whose keys are in it, which images are linked. `stack` is
pulumi's checkpoint and `wanted` what this run has registered. Pulumi is external: it
creates at any time what is registered, deletes what was not registered any more only
when program and engine came through, and runs the program in a preview without
creating anything. Any resource may fail to be created, the one that removes the
directory too; the engine then creates nothing more (`GiveUp`), and a directory whose
removal was not created by then is `stray`: nothing will take it away. `Die` is a kill, or the panic of `RequireObject` for a key that is
not in the config.

### DependsScript, DependsLists, DependsSlices

`DependsScript` is `Unit` reduced to its appends, its one assignment (`k8sDepends :=
vmDepends`) and its calls of `DependsOn`: `LineAt` has for every position (a label,
the machine or helmfile of the loop, the input) the step that `Unit` takes there and
the position after it; the operators `To...` are the heads of its loops and its ifs.
`DependsLists` gives each
step its meaning on values. `DependsSlices` gives it Go's: an array that may be
shared, a length, `append` in place where the capacity allows and into a larger array
where not. The capacities are those of the Go runtime (1.22 and later, elements of two
words), so that what is shared at which size is what the build does: `RoundUp` has its
size classes, `Grow` is `growslice`. Pulumi keeps the
slice that it is handed and reads it in a goroutine of its own: `Read(handed[r])` may
be looked at in any later state. `NoOverwrite` is about the one append that can do
harm: the array that `k8sDepends` was assigned from `vmDepends` is still shared when
`k8sDepends` itself is appended to `vmDepends`, and if it has room for that the append
writes where `k8sDepends` has the prime install.

### NetworkPlan

One action per host of the config. `bytes` is the heap: `autoIp` and `thisIp` are the
same slice, as in the code, so that `IPDecr` changes both. The cidr package is
external and is modelled byte by byte. The properties compare addresses as two numbers
of 16 bits (`Minus`), because a number of 32 bits does not fit into TLC's integers;
`Room` is the size of the range as the product of what the prefix leaves of each byte.
`SetupShared` takes the first host, and the
second one if there are two, and panics if there is none.

## Runs

| run | instance | checks |
|---|---|---|
| `cache_runs` | 2 runs with the same two inputs in opposite order, a signal to the first; servers answer with either input or junk; `io`, `net`, `kill` | `TypeOK`, `CacheContentsValid`, `CacheWriteOnce`, `StoreSpec`, `EndsUnlessServerHangs` |
| `cache_hidden` | the same, no fault but the signal | **violated:** `CachedOnSuccess` |
| `unit_cluster` | agent's config first, two control plane nodes, offline | `TypeOK`, `K8sAfterInputs`, `SshConfigAfterVMs`, `JoinAfterPrime`, `OneCommandPerNode` |
| `unit_nexus` | one node, two shipped inputs, kube-vip, nexus, canary; any early return, any failing resource | `K8sAfterInputs`, `HelmfilesInOrder`, `RegisteredOnce`, `UpUnlessFailure` |
| `unit_hang` | the same, resources fail | **violated:** `CommandsEnd` |
| `unit_kubeconfig` | one node, kube-vip and rancher, no fault | **violated:** `HelmfileHasKubeconfig` |
| `remote_k8s` | prime node, second server, agent; all faults | `TypeOK`, `OneCluster`, `ReturnMeans`, `ReturnsWhenStable` |
| `service_hack` | three controllers, a service made twice; all faults | `TypeOK`, `NoLostWrites`, `DoneMeansSet`, `ReturnsWhenStable` |
| `stack_life` | three runs of up or preview, destroys, three units, any prior uuid; all faults | `TypeOK`, `NoOrphans`, `UpMeansUsable` (0.8 million states) |
| `slices_repo` | clusters of one control plane node and up to four agents, or three and up to two, with up to four shipped inputs, with and without helmfiles; units that are no clusters | `EveryoneDependsOnPrime`, `NoOverwrite`, `SlicesAreLists` |
| `slices_seven` | seven machines, four shipped inputs | **violated:** `EveryoneDependsOnPrime` |
| `network_plan` | nine cidrs, every list of up to four hosts | `AutosCountDown`, `AutosUsable`, `HackMatchesSecondHost` |

Deadlock is not checked: every one of these systems comes to an end (a run
finishes, a unit is up, the commands have returned), and the liveness properties say
that it is the right end.

*Bounds.* Two runs that share their inputs meet in every step of `CacheInput`, each
finds what the other has cached, and one of them goes on under the clean-up that a
signal starts, which reaches only the directory of its own run. The fault `dropped`
is left out of `cache_runs`, because `StoreSpec` is false with it; the theorems about
`TypeOK`, `CacheContentsValid` and `CacheWriteOnce` have it, and signals to every run. Each call of `TmpDir` adds a goroutine; their number is
bounded by the number of inputs. In `UnitDeploy` the loops over configs, machines
and helmfiles go round more than once in some run, with one shipped input in
`unit_cluster` and two in `unit_nexus`, so that an early return may come between
them; the machines are few because the engine's
interleavings of 11 to 13 resources for each are what makes the state space. In
`RemoteK8s` there is one node of each role. In `ServiceHack` three controllers let the
hack meet a conflict more than once, and a service made twice lets it hold a copy of
one that is gone. In `StackLifecycle` the third run is the one that finds both what a
success and what a failure has left, in its own directory or beside it. In
`DependsSlices` the case that matters is a matter of exact sizes, so the instance is
every shape up to the repository's (the largest is `wtf`, one default machine and three agents) and a little beyond; outside it the refinement
breaks where the capacity happens to hold all of a long append. TLC, run once over all
clusters of up to ten machines and twelve shipped inputs, found an overwrite in four of
them: one input and six machines (33 resources in `vmDepends`), eight and four (88),
eleven and four (118), and four and seven (126), the one that `slices_seven` keeps. In `NetworkPlan` four hosts exhaust a range of
two and make every borrow happen. The theorems below remove these bounds
for the safety properties they cover.

*Fairness.* `FileCache`: the main goroutine keeps running, except while it waits
for a server in `http.Get` or `io.Copy`, which have no timeout. The clean-up
goroutines get none. `UnitDeploy`: the program never blocks; what the engine is at
work on ends, well or badly, once what it waits for outside (service, address) is
there, and a hack ends only when its service is there, though it may fail at any
time; a chart that is being applied creates its service. Failures are possible and
never forced. `RemoteK8s`: a command runs on while it can, and a node of the cluster
that is not Ready becomes Ready; `systemctl` is fair only while the upstream answers.
Flapping stays possible, and `ReturnsWhenStable` promises an end only once the api
server settles and, to a server, its Ready condition.
`ServiceHack`: the loop runs on, and a kubeconfig that may be read is read one time
or another (strong fairness, because failing rounds come in between); nothing is
promised of helm, the controllers or the api server, and `ReturnsWhenStable` is only
about a service that stays.

### What the violated properties show

* `cache_hidden`: the program runs on after a signal, while `CleanupCache` unlinks what
  it downloads. Between the second `Stat` and the `Rename` (filecache.go:127-130) the
  download goes, the error of `Rename` is dropped, and `CacheInput` returns nil for an
  input that is not cached. A failing disk has the same effect there.
* `unit_hang`: the helmfile of a chart with a hack fails before the service exists;
  the hack's command loops for ever and pulumi waits for it.
* `unit_kubeconfig`: the resource that copies the kubeconfig is assigned to `_`; no
  helmfile waits for it, and the first may run before the file it names is written.
* `slices_seven`: `k8sDepends` and `vmDepends` share an array. With seven machines and
  four shipped inputs it has 255 places, of which 126 are taken: the prime install is
  appended in place, and then all of `k8sDepends` to `vmDepends`, in place too and
  over it. What pulumi reads after that has `vmDepends[0]` where the prime install
  was, and a node may join before there is anything to join.

### Other disagreements between the code and what it says

Met while modelling, and visible in the model as what an action does rather than as a
run of its own:

* Of two runs that download one input the second to finish leaves its download in
  `tmp/<pid>`, where filecache.go:135 wants no "turds".
* A preview makes a state directory and creates no resource that would remove it: an `up`
  and a `destroy` after it leave it behind, though universe.go:99 wants to cover "the
  entire state dir with all the junk". `NoOrphans` counts such a directory as `stray`.
* `os.RemoveAll("/tmp/rke2")` (remote.go:407) may fail unseen: nil does not mean that the
  artifacts are gone (`Cleanup`), and `ReturnMeans` does not say so.
* With the uuid of a prior build in the config an up writes a new key over the one
  its machines know, and fails at `os.Link` (libvirt.go:258). Without one, nothing is
  exported, where universe.go:76 says "create one and export it".
* A unit with an After list is passed over (`UnitWithAfter`); the "next loop" of
  universe.go:210 does not exist.
* The kubeconfig with the vip (libvirt.go:780) is put into a variable that shadows the
  one the loop uses (`LocalKubeconfig`): no helmfile goes through the vip.
* The local command says "install or upgrade" (local.go:101) and installs only.

## Proofs

`FileCacheProofs`, for any set of runs, inputs, servers and faults:

* `TypeCorrect`, `CacheValid`, `CacheNeverRewritten`. `CacheContentsValid` is not
  inductive: a process about to rename must be known to hold the right content. The
  invariant `SafetyInv` adds `Verified`: between the comparison of the sums and the
  rename the download is the right content or has been swept away. With it a rename
  can only write the content that belongs there, whoever else has renamed meanwhile,
  and that is also why the action property holds.
* `ImplementsStore`, under the hypothesis `NothingDropped` (the second `Stat` and the
  `Rename` do not fail of themselves; any other file operation may, downloads break off,
  processes are killed, and signals come at any time). Without it a run that got no
  signal may be told nil for nothing, and `StoreSpec` is false.
  The invariant `SuccessInv` adds that nothing takes the download of a run away that
  got no signal, and that such a run, at `return`, has its input cached. A step that
  wakes the sweeper is an `Interrupt` of the store, any other leaves `interrupted` as it
  is (`InterruptedChanges`).

`UnitDeployProofs`, for any configs, counts, inputs, helmfiles, failures and
interleavings:

* `TypeCorrect`, `K8sWaitsForInputs`, `JoinsWaitForPrime`, from one inductive
  invariant `OrderInv`. What a command waits for was put on a list by another
  iteration of another loop, so the invariant follows it: `ListsInv`, what the loop
  has collected for the machines it is past; `GraphInv`, the commands were registered
  with all of that; `EngineInv`, what has run had its dependencies done. The engine's
  steps need only that a finished resource had its dependencies done and that done
  stays done.

`UnitOrderProofs`, with the same generality, from `UnitInv`:

* `NothingRegisteredTwice`. The engine's side is easy; that the program never comes
  back to a resource is what needs `Fresh`: what lies ahead of the program's position
  in its loops (`Ahead`) is not registered yet. Each action moves the position past
  exactly what it registers, and for the helmfiles that rests on their names being
  distinct. It is also what lets the other theorems speak of *the* list of a resource.
* `OneCommandEach`, from `RolesInv` (which machines the loop has put aside as `prime`
  and in `unitMap`) and `CommandsInv` (which commands were registered for them): every
  machine that the loop is past is the prime node or in the map under its config's
  name, never both, whatever order the configs come in.
* `SshConfigWaits` and `HelmfilesWait`, from `OrdersInv` (what those resources were
  registered with), `CollectedInv` (what `vmDepends` and `pkgInstalls` had collected by
  then, over all machines and all earlier helmfiles with their hacks) and `Begun`
  (what has ended, badly too, began after all it was registered with).

`RemoteK8sProofs`, for any nodes, agents and faults:

* `TypeCorrect`, `NeverTwoClusters`, `ReturnIsMembership`, from `K8sInv`, which adds
  what a command has done at each of its steps (`Progress`) and that a node which has
  not come to start its service is in no cluster (`NotYetIn`). Neither rests on the
  order in which the nodes begin, nor on the artifacts being removed.

`ServiceHackProofs`, for any controllers, any number of services and any faults:

* `TypeCorrect`, `WritesKept`, `AddressIsSet`, from `HackInv`. That an update loses
  nothing rests on `FreshInv`, a copy of the current version has all the parts of the
  service, which a write keeps because it takes a version that no copy can have yet;
  that a return means the address is set rests on `CopyInv`, a service that is made
  anew has a uid that no copy has.

`StackLifecycleProofs`, for any units, number of runs, commands and faults:

* `TypeCorrect`, `NothingOrphaned`, from `LifeInv`. `NoOrphans` speaks of the time
  between commands; during one, `DirsInv` allows a directory to be that of the up under
  way (`Pending`), which has registered its removal or will in its next step. The
  engine does not end before it has created what is registered or given up, and then it
  marks what it leaves behind (`GiveUpDirs`); a removal that it
  replaces or deletes is of the same directory, because `NamesInv` ties the name of a
  removal to its directory.
* `UpIsUsable`, from `LifeInv` and `UseInv`. `UpMeansUsable` speaks of the end of an
  `up`; `WellInv` says what a run that has not failed has at each of its steps: its
  directory with its own key, the resources it has registered so far, and machines of
  this run for every unit that the loop is past (`UnitsInv`). The engine comes to its
  deletions only when all of that is created, and deletes what this run did not
  register; a removal among it is of another directory, because this run has registered
  the one of its own and `NamesInv` ties a removal to its directory.

`NetworkPlanProofs`, for any set of cidrs with prefixes of 0 to 32 bits and any number
of hosts:

* `AddressesCountDown`, `AddressesUsable`, `HacksMatch`, from `NetInv`. `AutosCountDown`
  is not inductive: the next address comes from the slice and not from the host before
  (which may have an address of its own), so `SliceInv` says that the one slice there is
  holds the end of the range less the number of automatic hosts so far. The lemmas
  `DecrIs` (`IPDecr` with its borrows is subtraction), `RangeIs` (the ends of the range
  are the room and one apart, for every prefix) and `Ranks` (hosts have ranks of their
  own) carry the arithmetic.

`DependsProofs`, for any set of units, with any number of machines, inputs and
helmfiles:

* `SlicesRefineLists`, while `NoOverwrite`. The refinement mapping reads every slice;
  that an append shows in no other reading rests on `SliceInv`. `Apart`: no two lists
  but `vmDepends` and `k8sDepends` share an array. `Owner`: nothing, neither a list nor
  a slice that pulumi keeps, reaches beyond the list in its array, so that an append in
  place writes where nobody reads. `Sharing`: every list that is still to be appended
  to is its array's owner, except `vmDepends` while the nodes join, when it may be a
  part of `k8sDepends`. The one append to it in this state is the one that
  `NoOverwrite` is about; everything else is lemmas about one append, in place
  (`ExtendInPlace`) or into a larger array (`ExtendCopies`, with `GrowEnough`: what
  `growslice` returns is never too short), and one step of the script (`LineFits`).
* `PrimeWhileNoOverwrite`, from the same invariant and `PrimeInv`: once appended the
  prime install is in `k8sDepends` for good, and in whatever was handed over for the
  others.
* `OverwriteLosesPrime`: the hypothesis is exact. Where it fails, the very step that
  follows takes the prime install away from the kubeconfig's resource. `EarlyInv` has
  what is known by then: `k8sDepends` is `vmDepends` and one more, and no machine's
  resource is the prime install.
* `SmallUnitsAreSafe` and `SmallClustersAreSafe`, where the hypothesis holds. Up to 18
  resources `growslice` never returns more than twice what was needed (`GrowSmall`; 19
  resources may be in an array of 39), which is one too few for `vmDepends` and
  `k8sDepends` together. `LengthInv` follows the lengths through the loop over the
  machines: `m` machines with `f` inputs each make `2m + f m (m + 1) / 2` resources,
  since `fileDepends` is not reset between machines. So the three properties hold of
  every set of units whose clusters have at most 18, and of units that are no clusters
  whatever their size. The stacks `rancher` and `nexus` (four inputs, two machines: 16
  resources) are within it. Beyond 18 it depends on the shape: `ai` and `demo` (three
  machines, 30) and `wtf` (four, 48) are shapes of `slices_repo`, checked by TLC.

Only model-checked: the liveness properties (`EndsUnlessServerHangs`,
`UpUnlessFailure`, `ReturnsWhenStable` of both modules), since the proof system does
not reason about fairness; and `NoOverwrite` of clusters with more than 18 resources,
which is not true of all of them.

## Not modelled

* Durability: a crash of the machine between write and sync.
* File modes and owners, pid reuse, stack exports, and texts that are generated
  (cloud-init data, ssh config, rke2 configuration beyond the `server:` line).
* The values that `ToUnit` and `ToConfig` parse: a size that does not parse is an
  action of `StackLifecycle`, a size that does is only passed on.
* That libvirt would refuse a second network with the address range that
  `SetupShared` has as a literal: it is one of the engine's failures.
* Errors of registrations that fail only on nil arguments.
* The local command, which hands one chart to helm's Go packages: the state it
  changes is helm's.
* The commands `initcheck` and `hostname`, which print a line; the scripts in `bin` and
  `contrib`.
* Dead code: `pkg/lib/k8s`, `pkg/group`, `pkg/components/gamma`, `pkg/system`.

## Plan

Done, in the order of importance: the cache, the deployment order, the node's
command; the life of a stack, the slices under the lists, the hacks, the network; and
a theorem for every safety property of these modules. What is left:

1. `UnitDeploy` as what `RemoteK8s` assumes: that the nodes' commands begin as
   `MayBegin` says is so far two theorems that a reader puts together.
2. Once the assignment of `libvirt.go:597` copies the list, `Assign` in `DependsSlices`
   becomes an append to an empty slice; `NoOverwrite` is then gone from the hypotheses.
