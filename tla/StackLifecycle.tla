--------------------------- MODULE StackLifecycle ---------------------------
(***************************************************************************)
(* pkg/universe, pkg/cache and the ssh key component over the life of a     *)
(* stack: NewUniverse is run by every `pulumi up` and every preview, and    *)
(* each run makes a state directory, a key pair and images of its own,      *)
(* beside what pulumi's checkpoint and the disk still hold of earlier runs. *)
(*                                                                          *)
(* External: pulumi.  An up creates what the program registers, any time    *)
(* after it was registered; if program and engine came through, it deletes  *)
(* what the program did not register this time.  A preview runs the program *)
(* and creates nothing.  A destroy deletes everything and does not run the  *)
(* program.  A unit's machines, whose order UnitDeploy is about, are one    *)
(* resource here.                                                           *)
(***************************************************************************)
EXTENDS Naturals, Sequences

CONSTANTS
  Units,       \* the units of the config in order: records [name, after]
  Commands,    \* subset of {"up", "preview", "destroy"}: what the user does
  Faults,      \* subset of AllFaults
  MaxRuns      \* bound on the number of runs of the program

AllFaults ==
  {"state", "key", "size", "cidr", "input", "ssh", "build", "image", "engine",
   "kill"}

\* A generated uuid is the number of the run, and so is a generated key.
Uuids == 1 .. MaxRuns

ASSUME LifecycleAssumption ==
  /\ MaxRuns \in Nat
  /\ Units \in Seq([name : STRING, after : SUBSET STRING])
  /\ Commands \subseteq {"up", "preview", "destroy"}
  /\ Faults \subseteq AllFaults

UnitNames == {Units[i].name : i \in DOMAIN Units}

\* A state directory: its key files, 0 if there is none or it is cut short,
\* and the units whose image is linked into it.  stray is for the properties:
\* it was made by a preview, by a run that failed in NewState, or by one that
\* died, or whose engine gave up, before the removal had been created.
NoDir ==
  [exists |-> FALSE, prv |-> 0, pub |-> 0, links |-> {}, stray |-> FALSE]
Dir == [exists : BOOLEAN, prv : 0 .. MaxRuns, pub : 0 .. MaxRuns,
        links : SUBSET UnitNames, stray : BOOLEAN]

-----------------------------------------------------------------------------
(* Resources.  kind, unit and id make the name pulumi knows one by: of the  *)
(* command the uuid, of the machines the random host names of the run.      *)

\* Mutant: the command is named after the stack, not after the directory.
RmCommandOfStack(d) ==
  [kind |-> "rm", unit |-> "", id |-> 0, dir |-> d, key |-> 0]

\* The command whose Delete is "rm -fr" of the state directory d.
RmCommand(d) == [kind |-> "rm", unit |-> "", id |-> d, dir |-> d, key |-> 0]

Shared(d) == [kind |-> "shared", unit |-> "", id |-> d, dir |-> d, key |-> 0]

\* cloudinit.UserData puts the public key into the machine's authorized_keys.
Machines(name, run, d, key) ==
  [kind |-> "machines", unit |-> name, id |-> run, dir |-> d, key |-> key]

Resources ==
  [kind : {"rm", "shared", "machines"}, unit : UnitNames \cup {""},
   id : 0 .. MaxRuns, dir : Uuids, key : 0 .. MaxRuns]

SameName(r, s) == r.kind = s.kind /\ r.unit = s.unit /\ r.id = s.id

VARIABLES
  command,   \* what the user ran last
  outcome,   \* how it ended
  pc,        \* the program's next step, or pulumi's
  run,       \* number of runs of the program so far
  config,    \* the uuid in the config, 0 if there is none
  uuid,      \* the run's state.suuid
  u,         \* the unit the loop is at
  wanted,    \* what the run has registered
  halted,    \* a resource failed, or the program died
  stack,     \* pulumi's checkpoint: the resources that exist
  disk       \* disk[d]: ~/.cache/shenanigans/<uuid d>

\* What the user and the end of a command determine.
session == <<command, outcome, run, config>>
vars == <<session, pc, uuid, u, wanted, halted, stack, disk>>

ProgramSteps == {"state", "command", "config", "inputs", "prvKey", "pubKey",
                 "build", "shared", "unit"}
PulumiSteps == {"idle", "returned", "failed", "delete"}

TypeOK ==
  /\ command \in Commands \cup {"none"}
  /\ outcome \in {"ok", "error"}
  /\ pc \in ProgramSteps \cup PulumiSteps
  /\ run \in 0 .. MaxRuns
  /\ config \in Uuids \cup {0}
  /\ uuid \in Uuids \cup {0}
  /\ u \in 1 .. Len(Units) + 1
  /\ wanted \subseteq Resources
  /\ halted \in BOOLEAN
  /\ stack \subseteq Resources
  /\ disk \in [Uuids -> Dir]

Init ==
  /\ command = "none" /\ outcome = "ok" /\ pc = "idle"
  /\ run = 0 /\ config = 0 /\ uuid = 0 /\ u = 1
  /\ wanted = {} /\ halted = FALSE /\ stack = {}
  /\ disk = [d \in Uuids |-> NoDir]

-----------------------------------------------------------------------------
(* The user.                                                                *)

\* `pulumi up` or `pulumi preview`; the user may have put the uuid of a prior
\* build into the config, or taken it out.
RunProgram(cmd) ==
  /\ cmd \in Commands \cap {"up", "preview"}
  /\ pc = "idle" /\ pc' = "state"
  /\ run < MaxRuns /\ run' = run + 1
  /\ command' = cmd
  /\ config' \in 0 .. run
  /\ u' = 1 /\ wanted' = {} /\ halted' = FALSE
  /\ UNCHANGED <<outcome, uuid, stack, disk>>

Destroy ==
  /\ "destroy" \in Commands
  /\ pc = "idle" /\ pc' = "delete"
  /\ stack # {}
  /\ command' = "destroy"
  /\ wanted' = {} /\ halted' = FALSE
  /\ UNCHANGED <<outcome, run, config, uuid, u, stack, disk>>

-----------------------------------------------------------------------------
(* The program: NewUniverse.                                                *)

Goto(from, to) == pc = from /\ pc' = to

\* The error is returned to pulumi.Run.
Fail(from, fault) ==
  /\ fault \in Faults
  /\ Goto(from, "failed")
  /\ UNCHANGED <<session, u, wanted, halted, stack>>

MakeDir(d, stray) ==
  [disk EXCEPT ![d].exists = TRUE,
               ![d].stray = @ \/ (stray /\ ~disk[d].exists)]

\* Mutant: the empty uuid of a config without one is taken as it is.
ConfiguredUuid == config

\* The uuid of the config or, if there is none, a new one: the error of
\* cfg.Try is lost, and nothing exports a uuid.
RunUuid == IF config = 0 THEN run ELSE config

NewState ==
  /\ Goto("state", "command")
  /\ uuid' = RunUuid
  /\ disk' = MakeDir(RunUuid, command = "preview")
  /\ UNCHANGED <<session, u, wanted, halted, stack>>

\* One of the directories cannot be made; the base may be there by then.
NewStateError ==
  /\ Fail("state", "state")
  /\ uuid' = RunUuid
  /\ \E made \in BOOLEAN :
       disk' = IF made THEN MakeDir(RunUuid, TRUE) ELSE disk

RegisterRm ==
  /\ Goto("command", "config")
  /\ wanted' = wanted \cup {RmCommand(uuid)}
  /\ UNCHANGED <<session, uuid, u, halted, stack, disk>>

\* inputs, units and network of the config are converted.
ReadConfig ==
  /\ Goto("config", "inputs")
  /\ UNCHANGED <<session, uuid, u, wanted, halted, stack, disk>>

\* A size of disk or memory does not parse.
ToUnitError == Fail("config", "size") /\ UNCHANGED <<uuid, disk>>

\* The cidr does not parse.
ToNetworkError == Fail("config", "cidr") /\ UNCHANGED <<uuid, disk>>

\* The loop over the inputs, which is FileCache.
CacheInputs ==
  /\ Goto("inputs", "prvKey")
  /\ UNCHANGED <<session, uuid, u, wanted, halted, stack, disk>>

CacheInputsError == Fail("inputs", "input") /\ UNCHANGED <<uuid, disk>>

\* setupSshCa makes a new key in every run and writes over what is there.
WritePrvKey ==
  /\ Goto("prvKey", "pubKey")
  /\ disk' = [disk EXCEPT ![uuid].prv = run]
  /\ UNCHANGED <<session, uuid, u, wanted, halted, stack>>

\* No artifact directory, no key, or a write that fails, with the file cut
\* short or not yet opened.
WritePrvKeyError ==
  /\ Fail("prvKey", "ssh")
  /\ \E k \in {disk[uuid].prv, 0} : disk' = [disk EXCEPT ![uuid].prv = k]
  /\ UNCHANGED uuid

WritePubKey ==
  /\ Goto("pubKey", "build")
  /\ disk' = [disk EXCEPT ![uuid].pub = run]
  /\ UNCHANGED <<session, uuid, u, wanted, halted, stack>>

WritePubKeyError ==
  /\ Fail("pubKey", "ssh")
  /\ \E k \in {disk[uuid].pub, 0} : disk' = [disk EXCEPT ![uuid].pub = k]
  /\ UNCHANGED uuid

\* `go build` of the remote binary.
BuildRemote ==
  /\ Goto("build", "shared")
  /\ UNCHANGED <<session, uuid, u, wanted, halted, stack, disk>>

BuildRemoteError == Fail("build", "build") /\ UNCHANGED <<uuid, disk>>

\* The network and the pools, named by the uuid.
SetupShared ==
  /\ Goto("shared", "unit")
  /\ wanted' = wanted \cup {Shared(uuid)}
  /\ UNCHANGED <<session, uuid, u, halted, stack, disk>>

\* "For any unit with no dependencies add it to the dag now": libvirt.Unit
\* links the image, which os.Link does only where there is no file yet.
Unit ==
  /\ Goto("unit", "unit")
  /\ u \in DOMAIN Units /\ u' = u + 1
  /\ LET name == Units[u].name IN
     /\ Units[u].after = {}
     /\ name \notin disk[uuid].links
     /\ disk' = [disk EXCEPT ![uuid].links = @ \cup {name}]
     /\ wanted' = wanted \cup {Machines(name, run, uuid, run)}
  /\ UNCHANGED <<session, uuid, halted, stack>>

\* "If stuff depends on it we'll use that in the next loop": there is none.
\* The hackMap that the units are put into is never read.
UnitWithAfter ==
  /\ Goto("unit", "unit")
  /\ u \in DOMAIN Units
  /\ Units[u].after # {}
  /\ u' = u + 1
  /\ UNCHANGED <<session, uuid, wanted, halted, stack, disk>>

\* The link is there already, the image is not in the cache, or a file of
\* the machines cannot be written, with some of them registered by then.
UnitError ==
  /\ Goto("unit", "failed")
  /\ u \in DOMAIN Units
  /\ LET name == Units[u].name IN
     /\ Units[u].after = {}
     /\ \/ /\ name \in disk[uuid].links \/ "image" \in Faults
           /\ UNCHANGED <<wanted, disk>>
        \/ /\ name \notin disk[uuid].links /\ "image" \in Faults
           /\ disk' = [disk EXCEPT ![uuid].links = @ \cup {name}]
           /\ \E some \in SUBSET {Machines(name, run, uuid, run)} :
                wanted' = wanted \cup some
  /\ UNCHANGED <<session, uuid, u, halted, stack>>

Return ==
  /\ u \notin DOMAIN Units
  /\ Goto("unit", "returned")
  /\ UNCHANGED <<session, uuid, u, wanted, halted, stack, disk>>

NewUniverse ==
  \/ NewState \/ NewStateError
  \/ RegisterRm
  \/ ReadConfig \/ ToUnitError \/ ToNetworkError
  \/ CacheInputs \/ CacheInputsError
  \/ WritePrvKey \/ WritePrvKeyError \/ WritePubKey \/ WritePubKeyError
  \/ BuildRemote \/ BuildRemoteError
  \/ SetupShared
  \/ Unit \/ UnitWithAfter \/ UnitError
  \/ Return

-----------------------------------------------------------------------------
(* Pulumi (external).                                                       *)

Owned(d) == \E r \in stack : r.kind = "rm" /\ r.dir = d

\* The engine gives up while nothing that removes the run's directory has been
\* created.
GiveUp ==
  /\ halted' = TRUE
  /\ disk' = IF pc = "state" \/ Owned(uuid) THEN disk
             ELSE [disk EXCEPT ![uuid].stray = TRUE]

\* The process is killed, or cfg.RequireObject panics because a key is not in
\* the config: what has not been created by then is lost.
Die ==
  /\ \/ "kill" \in Faults /\ pc \in ProgramSteps
     \/ "key" \in Faults /\ pc = "config"
  /\ pc' = "failed"
  /\ GiveUp
  /\ UNCHANGED <<session, uuid, u, wanted, stack>>

\* The command that removes the directory waits for nothing; the machines wait
\* for the network and the pools.  After a failure nothing new is started; what
\* is in flight then and still ends well might as well have ended before.
MayCreate(r) ==
  /\ command = "up"
  /\ r \in wanted \ stack
  /\ ~halted
  /\ r.kind = "machines" => Shared(r.dir) \in stack

\* A resource of the same name is updated in place.
Create(r) ==
  /\ MayCreate(r)
  /\ stack' = {s \in stack : ~SameName(s, r)} \cup {r}
  /\ UNCHANGED <<session, pc, uuid, u, wanted, halted, disk>>

\* Any resource may fail, also the command that removes the directory, though
\* it has nothing to do before its Delete: its provider may not start.
CreateError(r) ==
  /\ "engine" \in Faults
  /\ MayCreate(r)
  /\ GiveUp
  /\ UNCHANGED <<session, pc, uuid, u, wanted, stack>>

\* The program is through, and so is the engine with what it may create.
EndRun ==
  /\ pc \in {"returned", "failed"}
  /\ \A r \in wanted : ~MayCreate(r)
  /\ LET ok == pc = "returned" /\ ~halted IN
     /\ outcome' = IF ok THEN "ok" ELSE "error"
     /\ pc' = IF ok /\ command = "up" THEN "delete" ELSE "idle"
  /\ UNCHANGED <<command, run, config, uuid, u, wanted, halted, stack, disk>>

\* Mutant: "rm -fr" of the directory that all the state directories are in.
RemoveAllDirs(d) == [x \in Uuids |-> NoDir]

\* What the Delete of the command for directory d leaves of the disk.
RemoveBase(d) == [disk EXCEPT ![d] = NoDir]

\* In reverse order of the dependencies.
Delete(r) ==
  /\ pc = "delete"
  /\ r \in stack \ wanted
  /\ r.kind = "shared" => \A s \in stack : s.kind = "machines" => s.dir # r.dir
  /\ stack' = stack \ {r}
  /\ disk' = IF r.kind = "rm" THEN RemoveBase(r.dir) ELSE disk
  /\ UNCHANGED <<session, pc, uuid, u, wanted, halted>>

DeleteError ==
  /\ "engine" \in Faults
  /\ Goto("delete", "idle")
  /\ ~(stack \subseteq wanted)
  /\ outcome' = "error"
  /\ UNCHANGED <<command, run, config, uuid, u, wanted, halted, stack, disk>>

EndDelete ==
  /\ Goto("delete", "idle")
  /\ stack \subseteq wanted
  /\ outcome' = "ok"
  /\ UNCHANGED <<command, run, config, uuid, u, wanted, halted, stack, disk>>

Pulumi ==
  \/ Die
  \/ \E r \in wanted : Create(r) \/ CreateError(r)
  \/ EndRun
  \/ \E r \in stack : Delete(r)
  \/ DeleteError \/ EndDelete

Next ==
  \/ \E cmd \in Commands : RunProgram(cmd)
  \/ Destroy
  \/ NewUniverse
  \/ Pulumi

Spec == Init /\ [][Next]_vars

-----------------------------------------------------------------------------
(* Properties.                                                              *)

\* "Cover removal of the entire state dir with all the junk in our trunk we
\* create/generate at stack destroy time": whenever no command runs, every
\* state directory on the disk belongs to a resource that a destroy removes,
\* with the directory, however many ups failed, and wherever, and whatever uuid
\* they used.  The directories of previews, which create nothing, and of runs
\* that ended before the removal had been created, are the ones that nothing
\* removes: no error return of NewUniverse after its registration is among
\* them.
NoOrphans ==
  pc = "idle" => \A d \in Uuids : disk[d].exists => Owned(d) \/ disk[d].stray

MachinesOf == {r \in stack : r.kind = "machines"}

\* The machine takes the private key of its state directory.
Opens(r) == disk[r.dir].exists /\ disk[r.dir].prv = r.key

\* After an up that succeeded every unit without an After list has machines,
\* no machines of earlier runs are left, and each is reached with the key in
\* its state directory, next to the image it was made of, also where the
\* directory is that of a prior build.
UpMeansUsable ==
  pc = "idle" /\ command = "up" /\ outcome = "ok" =>
    /\ \A i \in DOMAIN Units :
         Units[i].after = {} => \E r \in MachinesOf : r.unit = Units[i].name
    /\ \A r \in MachinesOf :
         r.id = run /\ Opens(r) /\ r.unit \in disk[r.dir].links
=============================================================================
