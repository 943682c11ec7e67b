------------------------ MODULE StackLifecycleProofs ------------------------
(***************************************************************************)
(* Theorems about StackLifecycle, for any units, any number of runs, any    *)
(* commands of the user and any faults.                                     *)
(***************************************************************************)
EXTENDS StackLifecycle, TLAPS

\* The program runs, or has returned and the engine is not through.
Active == ProgramSteps \cup {"returned", "failed"}

\* The steps after the one that makes the state directory its run's.
HasState == ProgramSteps \ {"state"}

RunInv ==
  /\ pc \in Active => command \in {"up", "preview"}
  /\ pc \in ProgramSteps => run \in Uuids
  /\ pc \in HasState => uuid \in Uuids
  /\ pc = "state" => wanted = {} /\ ~halted

\* A removal is named by its directory, and a run registers none but its own.
NamesInv ==
  /\ \A r \in stack \cup wanted : r.kind = "rm" => r = RmCommand(r.dir)
  /\ pc \in Active => \A r \in wanted : r.kind = "rm" => r.dir = uuid

\* A directory that nothing in the checkpoint removes, and that is not stray,
\* is that of an up under way which has registered its removal, or is about to.
Pending(d) ==
  /\ command = "up" /\ pc \in Active /\ ~halted
  /\ RmCommand(d) \in wanted \/ (pc = "command" /\ d = uuid)

DirsInv ==
  \A d \in Uuids : disk[d].exists => Owned(d) \/ disk[d].stray \/ Pending(d)

LifeInv == TypeOK /\ RunInv /\ NamesInv /\ DirsInv

USE DEF Active, HasState, ProgramSteps

-----------------------------------------------------------------------------
(* Types.                                                                   *)

\* What the program registers are resources.
LEMMA ResourceTypes ==
  ASSUME NEW d \in Uuids, NEW k \in Uuids, NEW name \in UnitNames
  PROVE  /\ RmCommand(d) \in Resources
         /\ Shared(d) \in Resources
         /\ Machines(name, k, d, k) \in Resources
<1>1. d \in 0 .. MaxRuns /\ k \in 0 .. MaxRuns
  BY LifecycleAssumption DEF Uuids
<1>2. 0 \in 0 .. MaxRuns
  BY LifecycleAssumption
<1>3. RmCommand(d) \in Resources
  BY <1>1, <1>2 DEF RmCommand, Resources
<1>4. Shared(d) \in Resources
  BY <1>1, <1>2 DEF Shared, Resources
<1>5. Machines(name, k, d, k) \in Resources
  BY <1>1 DEF Machines, Resources
<1> QED
  BY <1>3, <1>4, <1>5

\* The uuid of a run is that of a run.
LEMMA RunUuidType ==
  ASSUME LifeInv, pc = "state"
  PROVE  RunUuid \in Uuids
BY DEF LifeInv, TypeOK, RunInv, RunUuid

\* Directories are made and removed within the type.
LEMMA DirTypes ==
  ASSUME disk \in [Uuids -> Dir], NEW d \in Uuids, NEW b \in BOOLEAN
  PROVE  /\ MakeDir(d, b) \in [Uuids -> Dir]
         /\ RemoveBase(d) \in [Uuids -> Dir]
<1>1. NoDir \in Dir
  BY LifecycleAssumption DEF NoDir, Dir
<1>2. RemoveBase(d) \in [Uuids -> Dir]
  BY <1>1 DEF RemoveBase
<1>3. MakeDir(d, b) \in [Uuids -> Dir]
  BY DEF MakeDir, Dir
<1> QED
  BY <1>2, <1>3

\* What a step of the program that only writes files, registers other things
\* than removals and goes on, or fails, does to the rest of the invariant.
LEMMA PlainStep ==
  ASSUME LifeInv,
         pc \in HasState \ {"command"},
         pc' \in (HasState \ {"command"}) \cup {"returned", "failed"},
         UNCHANGED <<command, run, uuid, halted, stack>>,
         \A d \in Uuids : disk'[d].exists = disk[d].exists
                          /\ disk'[d].stray = disk[d].stray,
         wanted \subseteq wanted',
         \A r \in wanted' : r.kind = "rm" => r \in wanted
  PROVE  RunInv' /\ NamesInv' /\ DirsInv'
<1>1. RunInv'
  BY DEF LifeInv, RunInv
<1>2. NamesInv'
  BY DEF LifeInv, NamesInv
<1>3. DirsInv'
  BY DEF LifeInv, DirsInv, Pending, Owned
<1> QED
  BY <1>1, <1>2, <1>3

-----------------------------------------------------------------------------
(* The user's steps.                                                        *)

\* Between commands every directory is owned or stray, and a command begins
\* with nothing registered.
LEMMA UserStep ==
  ASSUME LifeInv, (\E cmd \in Commands : RunProgram(cmd)) \/ Destroy
  PROVE  LifeInv'
<1>1. CASE \E cmd \in Commands : RunProgram(cmd)
  <2> PICK cmd \in Commands : RunProgram(cmd)
    BY <1>1
  <2>1. run' \in Uuids /\ config' \in Uuids \cup {0}
    BY LifecycleAssumption DEF LifeInv, TypeOK, RunProgram, Uuids
  <2>2. TypeOK'
    <3>1. u' \in 1 .. Len(Units) + 1
      BY LifecycleAssumption DEF RunProgram
    <3>2. run' \in 0 .. MaxRuns
      BY <2>1, LifecycleAssumption DEF Uuids
    <3>3. command' \in Commands /\ wanted' = {} /\ halted' = FALSE /\ pc' = "state"
          /\ UNCHANGED <<outcome, uuid, stack, disk>>
      BY DEF RunProgram
    <3> QED
      BY <2>1, <3>1, <3>2, <3>3 DEF LifeInv, TypeOK
  <2>3. RunInv' /\ NamesInv'
    BY <2>1 DEF LifeInv, RunInv, NamesInv, RunProgram
  <2>4. DirsInv'
    BY DEF LifeInv, DirsInv, Pending, Owned, RunProgram
  <2> QED
    BY <2>2, <2>3, <2>4 DEF LifeInv
<1>2. CASE Destroy
  <2>1. TypeOK'
    <3>1. command' \in Commands /\ wanted' = {} /\ halted' = FALSE /\ pc' = "delete"
      BY <1>2 DEF Destroy
    <3>2. UNCHANGED <<outcome, run, config, uuid, u, stack, disk>>
      BY <1>2 DEF Destroy
    <3> QED
      BY <3>1, <3>2 DEF LifeInv, TypeOK, PulumiSteps
  <2>2. RunInv' /\ NamesInv'
    BY <1>2 DEF LifeInv, RunInv, NamesInv, Destroy
  <2>3. DirsInv'
    BY <1>2 DEF LifeInv, DirsInv, Pending, Owned, Destroy
  <2> QED
    BY <2>1, <2>2, <2>3 DEF LifeInv
<1> QED
  BY <1>1, <1>2

-----------------------------------------------------------------------------
(* The program's steps.                                                     *)

\* MakeDir makes one directory and leaves the others, and one that is there.
LEMMA MakeDirFacts ==
  ASSUME disk \in [Uuids -> Dir], NEW d \in Uuids, NEW b \in BOOLEAN,
         NEW x \in Uuids
  PROVE  /\ MakeDir(d, b)[d].exists
         /\ ~disk[d].exists /\ b => MakeDir(d, b)[d].stray
         /\ disk[x].stray => MakeDir(d, b)[x].stray
         /\ x # d => MakeDir(d, b)[x] = disk[x]
<1>1. x # d => MakeDir(d, b)[x] = disk[x]
  BY DEF MakeDir
<1>2. MakeDir(d, b)[d].exists
  BY DEF MakeDir, Dir
<1>3. MakeDir(d, b)[d].stray <=> disk[d].stray \/ (b /\ ~disk[d].exists)
  BY DEF MakeDir, Dir
<1> QED
  BY <1>1, <1>2, <1>3

\* The directory that a run makes is stray, or about to have its removal
\* registered; one that was there keeps its owner.
LEMMA NewStateStep ==
  ASSUME LifeInv, NewState \/ NewStateError
  PROVE  LifeInv'
<1>1. pc = "state" /\ wanted = {} /\ ~halted /\ command \in {"up", "preview"} /\ run \in Uuids
  BY DEF LifeInv, RunInv, NewState, NewStateError, Fail, Goto
<1>2. RunUuid \in Uuids /\ uuid' = RunUuid
  BY <1>1, RunUuidType DEF NewState, NewStateError
<1>3. disk \in [Uuids -> Dir]
  BY DEF LifeInv, TypeOK
<1>4. PICK b \in BOOLEAN :
        /\ disk' = disk \/ disk' = MakeDir(RunUuid, b)
        /\ \/ pc' = "command" /\ b = (command = "preview")
           \/ pc' = "failed" /\ b
  <2>1. CASE NewState
    BY <2>1 DEF NewState, Goto
  <2>2. CASE NewStateError
    BY <2>2 DEF NewStateError, Fail, Goto
  <2> QED
    BY <2>1, <2>2
<1>5. UNCHANGED <<session, u, wanted, halted, stack>>
  BY DEF NewState, NewStateError, Fail, session
<1>6. TypeOK'
  <2>1. disk' \in [Uuids -> Dir]
    BY <1>2, <1>3, <1>4, DirTypes
  <2> QED
    BY <1>2, <1>4, <1>5, <2>1 DEF LifeInv, TypeOK, session, PulumiSteps
<1>7. RunInv' /\ NamesInv'
  BY <1>1, <1>2, <1>4, <1>5 DEF LifeInv, RunInv, NamesInv, session
<1>8. DirsInv'
  <2> SUFFICES ASSUME NEW d \in Uuids, disk'[d].exists
               PROVE  Owned(d)' \/ disk'[d].stray \/ Pending(d)'
    BY DEF DirsInv
  <2>1. Owned(d)' = Owned(d)
    BY <1>5 DEF Owned
  <2>2. CASE disk[d].exists
    <3>1. Owned(d) \/ disk[d].stray
      BY <1>1, <2>2 DEF LifeInv, DirsInv, Pending
    <3> QED
      BY <1>2, <1>3, <1>4, <2>1, <3>1, MakeDirFacts
  <2>3. CASE ~disk[d].exists
    <3>1. d = RunUuid
      BY <1>2, <1>3, <1>4, <2>3, MakeDirFacts
    <3>2. CASE b
      BY <1>2, <1>3, <1>4, <2>3, <3>1, <3>2, MakeDirFacts
    <3>3. CASE ~b
      BY <1>1, <1>2, <1>4, <1>5, <3>1, <3>3 DEF Pending, session
    <3> QED
      BY <3>2, <3>3
  <2> QED
    BY <2>2, <2>3
<1> QED
  BY <1>6, <1>7, <1>8 DEF LifeInv

\* From here on the run's own directory is removed by what it has registered.
LEMMA RegisterRmStep ==
  ASSUME LifeInv, RegisterRm
  PROVE  LifeInv'
<1>1. uuid \in Uuids /\ pc = "command" /\ pc' = "config"
  BY DEF LifeInv, RunInv, RegisterRm, Goto
<1>2. RmCommand(uuid).kind = "rm" /\ RmCommand(uuid).dir = uuid
  BY DEF RmCommand
<1>3. RmCommand(uuid) \in Resources
  BY <1>1, LifecycleAssumption DEF Uuids, RmCommand, Resources
<1>4. TypeOK'
  BY <1>1, <1>3 DEF LifeInv, TypeOK, RegisterRm, session
<1>5. RunInv' /\ NamesInv'
  BY <1>1, <1>2 DEF LifeInv, RunInv, NamesInv, RegisterRm, session
<1>6. DirsInv'
  BY <1>1 DEF LifeInv, DirsInv, Pending, Owned, RegisterRm, session
<1> QED
  BY <1>4, <1>5, <1>6 DEF LifeInv

\* The steps that change nothing on the disk and register nothing.
LEMMA IdleStep ==
  ASSUME LifeInv,
         \/ ReadConfig \/ ToUnitError \/ ToNetworkError
         \/ CacheInputs \/ CacheInputsError \/ BuildRemote \/ BuildRemoteError
         \/ UnitWithAfter \/ Return
  PROVE  LifeInv'
<1>1. /\ pc \in HasState \ {"command"}
      /\ pc' \in (HasState \ {"command"}) \cup {"returned", "failed"}
      /\ UNCHANGED <<session, uuid, wanted, halted, stack, disk>>
      /\ u' \in {u} \/ (u \in DOMAIN Units /\ u' = u + 1)
  BY DEF ReadConfig, ToUnitError, ToNetworkError, CacheInputs, CacheInputsError,
         BuildRemote, BuildRemoteError, UnitWithAfter, Return, Fail, Goto
<1>2. TypeOK'
  BY <1>1, LifecycleAssumption DEF LifeInv, TypeOK, session, PulumiSteps
<1> QED
  BY <1>1, <1>2, PlainStep DEF LifeInv, session

\* The network and the pools are registered; the disk stays as it is.
LEMMA SetupSharedStep ==
  ASSUME LifeInv, SetupShared
  PROVE  LifeInv'
<1>1. uuid \in Uuids /\ pc = "shared" /\ pc' = "unit"
  BY DEF LifeInv, RunInv, SetupShared, Goto
<1>2. Shared(uuid) \in Resources /\ Shared(uuid).kind # "rm"
  BY <1>1, LifecycleAssumption DEF Uuids, Shared, Resources
<1>3. TypeOK'
  BY <1>1, <1>2 DEF LifeInv, TypeOK, SetupShared, session
<1> QED
  BY <1>1, <1>2, <1>3, PlainStep DEF LifeInv, SetupShared, session

\* The keys: no directory comes or goes.
LEMMA KeyStep ==
  ASSUME LifeInv,
         WritePrvKey \/ WritePrvKeyError \/ WritePubKey \/ WritePubKeyError
  PROVE  LifeInv'
<1>1. /\ pc \in {"prvKey", "pubKey"} /\ pc' \in {"pubKey", "build", "failed"}
      /\ UNCHANGED <<session, uuid, u, wanted, halted, stack>>
  BY DEF WritePrvKey, WritePrvKeyError, WritePubKey, WritePubKeyError, Fail, Goto
<1>2. uuid \in Uuids /\ run \in 0 .. MaxRuns /\ disk \in [Uuids -> Dir]
  BY <1>1 DEF LifeInv, RunInv, TypeOK
<1>3. PICK k \in 0 .. MaxRuns :
        \/ disk' = [disk EXCEPT ![uuid].prv = k]
        \/ disk' = [disk EXCEPT ![uuid].pub = k]
  <2>1. 0 \in 0 .. MaxRuns
    BY LifecycleAssumption
  <2>2. disk[uuid].prv \in 0 .. MaxRuns /\ disk[uuid].pub \in 0 .. MaxRuns
    BY <1>2 DEF Dir
  <2> QED
    BY <1>2, <2>1, <2>2
    DEF WritePrvKey, WritePrvKeyError, WritePubKey, WritePubKeyError
<1>4. disk' \in [Uuids -> Dir]
  BY <1>2, <1>3 DEF Dir
<1>5. TypeOK'
  BY <1>1, <1>4 DEF LifeInv, TypeOK, session, PulumiSteps
<1>6. \A d \in Uuids : disk'[d].exists = disk[d].exists
                       /\ disk'[d].stray = disk[d].stray
  BY <1>2, <1>3 DEF Dir
<1> QED
  BY <1>1, <1>5, <1>6, PlainStep DEF LifeInv, session

\* A unit, or a part of it: a link and machines.
LEMMA UnitStep ==
  ASSUME LifeInv, Unit \/ UnitError
  PROVE  LifeInv'
<1> DEFINE name == Units[u].name
           new == Machines(name, run, uuid, run)
<1>1. /\ pc = "unit" /\ pc' \in {"unit", "failed"} /\ u \in DOMAIN Units
      /\ u' \in {u, u + 1}
      /\ UNCHANGED <<session, uuid, halted, stack>>
      /\ wanted' = wanted \/ wanted' = wanted \cup {new}
      /\ disk' = disk \/ disk' = [disk EXCEPT ![uuid].links = @ \cup {name}]
  <2>1. CASE Unit
    BY <2>1 DEF Unit, Goto
  <2>2. CASE UnitError
    BY <2>2 DEF UnitError, Goto
  <2> QED
    BY <2>1, <2>2
<1>2. uuid \in Uuids /\ run \in Uuids /\ name \in UnitNames
      /\ disk \in [Uuids -> Dir]
  BY <1>1 DEF LifeInv, RunInv, TypeOK, UnitNames
<1>3. new \in Resources
  BY <1>2, ResourceTypes
<1>4. new.kind # "rm"
  BY DEF Machines
<1>5. disk' \in [Uuids -> Dir]
  BY <1>1, <1>2 DEF Dir
<1>6. TypeOK'
  BY <1>1, <1>3, <1>5, LifecycleAssumption DEF LifeInv, TypeOK, session, PulumiSteps
<1>7. \A d \in Uuids : disk'[d].exists = disk[d].exists
                       /\ disk'[d].stray = disk[d].stray
  BY <1>1, <1>2 DEF Dir
<1>8. wanted \subseteq wanted' /\ \A r \in wanted' : r.kind = "rm" => r \in wanted
  BY <1>1, <1>4
<1> HIDE DEF name, new
<1> QED
  BY <1>1, <1>6, <1>7, <1>8, PlainStep DEF LifeInv, session

-----------------------------------------------------------------------------
(* Pulumi's steps.                                                          *)

\* When the engine gives up, the directory of an up under way is owned, or
\* becomes stray.
LEMMA GiveUpDirs ==
  ASSUME LifeInv, GiveUp, UNCHANGED <<session, uuid, wanted, stack>>
  PROVE  disk' \in [Uuids -> Dir] /\ DirsInv'
<1>1. disk \in [Uuids -> Dir] /\ disk' \in [Uuids -> Dir]
  BY DEF LifeInv, TypeOK, GiveUp, Dir
<1>2. ASSUME NEW d \in Uuids
      PROVE  /\ disk'[d].exists = disk[d].exists
             /\ disk[d].stray => disk'[d].stray
             /\ pc # "state" /\ d = uuid => Owned(d) \/ disk'[d].stray
  BY <1>1 DEF GiveUp, Dir
<1> SUFFICES ASSUME NEW d \in Uuids, disk'[d].exists
             PROVE  Owned(d)' \/ disk'[d].stray
  BY <1>1 DEF DirsInv
<1>3. Owned(d)' = Owned(d)
  BY DEF Owned
<1>4. Owned(d) \/ disk[d].stray \/ Pending(d)
  BY <1>2 DEF LifeInv, DirsInv
<1>5. Pending(d) => pc # "state" /\ d = uuid
  BY DEF Pending, LifeInv, RunInv, NamesInv, RmCommand
<1> QED
  BY <1>2, <1>3, <1>4, <1>5

\* The program dies and the engine gives up.
LEMMA DieStep ==
  ASSUME LifeInv, Die
  PROVE  LifeInv'
<1>1. /\ pc \in ProgramSteps /\ pc' = "failed" /\ halted' = TRUE
      /\ UNCHANGED <<session, uuid, u, wanted, stack>>
  BY DEF Die, GiveUp
<1>2. disk' \in [Uuids -> Dir] /\ DirsInv'
  BY <1>1, GiveUpDirs DEF Die
<1>3. TypeOK'
  BY <1>1, <1>2 DEF LifeInv, TypeOK, session, PulumiSteps
<1>4. RunInv' /\ NamesInv'
  BY <1>1 DEF LifeInv, RunInv, NamesInv, session
<1> QED
  BY <1>2, <1>3, <1>4 DEF LifeInv

\* A removal that is created replaces at most one of the same directory.
LEMMA CreateStep ==
  ASSUME LifeInv, NEW r \in wanted, Create(r) \/ CreateError(r)
  PROVE  LifeInv'
<1>1. CASE Create(r)
  <2>1. /\ UNCHANGED <<session, pc, uuid, u, wanted, halted, disk>>
        /\ stack' = {s \in stack : ~SameName(s, r)} \cup {r}
    BY <1>1 DEF Create
  <2>2. TypeOK'
    BY <2>1 DEF LifeInv, TypeOK, session
  <2>3. RunInv' /\ NamesInv'
    BY <2>1 DEF LifeInv, RunInv, NamesInv, session
  <2>4. ASSUME NEW d, Owned(d)
        PROVE  Owned(d)'
    <3> PICK s \in stack : s.kind = "rm" /\ s.dir = d
      BY <2>4 DEF Owned
    <3>1. CASE ~SameName(s, r)
      BY <2>1, <3>1 DEF Owned
    <3>2. CASE SameName(s, r)
      <4>1. r.kind = "rm" /\ r.id = s.id
        BY <3>2 DEF SameName
      <4>2. r = RmCommand(r.dir) /\ s = RmCommand(s.dir)
        BY <4>1 DEF LifeInv, NamesInv
      <4>3. r.id = r.dir /\ s.id = s.dir
        <5>1. \A x : RmCommand(x).id = x
          BY DEF RmCommand
        <5> QED
          BY <4>2, <5>1
      <4> QED
        BY <2>1, <4>1, <4>3 DEF Owned
    <3> QED
      BY <3>1, <3>2
  <2>5. DirsInv'
    BY <2>1, <2>4 DEF LifeInv, DirsInv, Pending, session
  <2> QED
    BY <2>2, <2>3, <2>5 DEF LifeInv
<1>2. CASE CreateError(r)
  <2>1. halted' = TRUE /\ UNCHANGED <<session, pc, uuid, u, wanted, stack>>
    BY <1>2 DEF CreateError, GiveUp
  <2>2. disk' \in [Uuids -> Dir] /\ DirsInv'
    BY <1>2, <2>1, GiveUpDirs DEF CreateError
  <2>3. TypeOK'
    BY <2>1, <2>2 DEF LifeInv, TypeOK, session
  <2>4. pc # "state"
    BY <2>1 DEF LifeInv, RunInv
  <2>5. RunInv' /\ NamesInv'
    BY <2>1, <2>4 DEF LifeInv, RunInv, NamesInv, session
  <2> QED
    BY <2>2, <2>3, <2>5 DEF LifeInv
<1> QED
  BY <1>1, <1>2

\* An engine that did not give up ends only when it has created the removal.
LEMMA EndRunStep ==
  ASSUME LifeInv, EndRun
  PROVE  LifeInv'
<1>1. /\ pc \in {"returned", "failed"} /\ pc' \in {"idle", "delete"}
      /\ outcome' \in {"ok", "error"}
      /\ UNCHANGED <<command, run, config, uuid, u, wanted, halted, stack, disk>>
  BY DEF EndRun
<1>2. TypeOK'
  BY <1>1 DEF LifeInv, TypeOK, PulumiSteps
<1>3. RunInv' /\ NamesInv'
  BY <1>1 DEF LifeInv, RunInv, NamesInv
<1>4. DirsInv'
  <2> SUFFICES ASSUME NEW d \in Uuids, Pending(d)
               PROVE  Owned(d)
    BY <1>1 DEF LifeInv, DirsInv, Owned
  <2>1. RmCommand(d) \in wanted /\ command = "up" /\ ~halted
    BY <1>1 DEF Pending
  <2>2. RmCommand(d).kind = "rm" /\ RmCommand(d).dir = d
    BY DEF RmCommand
  <2>3. ~MayCreate(RmCommand(d))
    BY <2>1 DEF EndRun
  <2>4. RmCommand(d) \in stack
    BY <2>1, <2>2, <2>3 DEF MayCreate
  <2> QED
    BY <2>2, <2>4 DEF Owned
<1> QED
  BY <1>2, <1>3, <1>4 DEF LifeInv

\* A removal that is deleted takes its directory along, and no other.
LEMMA DeleteStep ==
  ASSUME LifeInv, NEW r \in stack, Delete(r)
  PROVE  LifeInv'
<1>1. /\ pc = "delete" /\ UNCHANGED <<session, pc, uuid, u, wanted, halted>>
      /\ stack' = stack \ {r}
      /\ disk' = IF r.kind = "rm" THEN RemoveBase(r.dir) ELSE disk
  BY DEF Delete
<1>2. r \in Resources /\ disk \in [Uuids -> Dir]
  BY DEF LifeInv, TypeOK
<1>3. r.dir \in Uuids
  BY <1>2 DEF Resources
<1>4. disk' \in [Uuids -> Dir]
  BY <1>1, <1>2, <1>3, DirTypes
<1>5. TypeOK'
  BY <1>1, <1>4 DEF LifeInv, TypeOK, session
<1>6. RunInv' /\ NamesInv'
  BY <1>1 DEF LifeInv, RunInv, NamesInv, session
<1>7. DirsInv'
  <2> SUFFICES ASSUME NEW d \in Uuids, disk'[d].exists
               PROVE  Owned(d)' \/ disk'[d].stray
    BY DEF DirsInv
  <2>1. disk'[d] = disk[d] /\ (r.kind = "rm" => r.dir # d)
    BY <1>1, <1>2, <1>3 DEF RemoveBase, NoDir
  <2>2. Owned(d) \/ disk[d].stray
    BY <1>1, <2>1 DEF LifeInv, DirsInv, Pending
  <2>3. Owned(d) => Owned(d)'
    BY <1>1, <2>1 DEF Owned
  <2> QED
    BY <2>1, <2>2, <2>3
<1> QED
  BY <1>5, <1>6, <1>7 DEF LifeInv

\* The end of a deletion, or no step at all, changes no resource and no file.
LEMMA EndDeleteStep ==
  ASSUME LifeInv, DeleteError \/ EndDelete \/ UNCHANGED vars
  PROVE  LifeInv'
<1>1. /\ pc' = pc \/ (pc = "delete" /\ pc' = "idle")
      /\ outcome' \in {"ok", "error"}
      /\ UNCHANGED <<command, run, config, uuid, u, wanted, halted, stack, disk>>
  BY DEF DeleteError, EndDelete, Goto, vars, session, LifeInv, TypeOK
<1>2. TypeOK'
  BY <1>1 DEF LifeInv, TypeOK, PulumiSteps
<1>3. RunInv' /\ NamesInv' /\ DirsInv'
  BY <1>1 DEF LifeInv, RunInv, NamesInv, DirsInv, Pending, Owned
<1> QED
  BY <1>2, <1>3 DEF LifeInv

-----------------------------------------------------------------------------
\* LifeInv holds in the beginning and is kept by every step.
LEMMA LifeInvInductive == Spec => []LifeInv
<1>1. Init => LifeInv
  <2> SUFFICES ASSUME Init PROVE LifeInv
    OBVIOUS
  <2>1. NoDir \in Dir /\ ~NoDir.exists
    BY LifecycleAssumption DEF NoDir, Dir
  <2>2. TypeOK
    <3>1. 0 \in 0 .. MaxRuns /\ 1 \in 1 .. Len(Units) + 1
      BY LifecycleAssumption
    <3>2. disk \in [Uuids -> Dir]
      BY <2>1 DEF Init
    <3> QED
      BY <3>1, <3>2 DEF Init, TypeOK, PulumiSteps
  <2>3. RunInv /\ NamesInv /\ DirsInv
    BY <2>1 DEF Init, RunInv, NamesInv, DirsInv
  <2> QED
    BY <2>2, <2>3 DEF LifeInv
<1>2. LifeInv /\ [Next]_vars => LifeInv'
  <2> SUFFICES ASSUME LifeInv, [Next]_vars PROVE LifeInv'
    OBVIOUS
  <2>1. CASE (\E cmd \in Commands : RunProgram(cmd)) \/ Destroy
    BY <2>1, UserStep
  <2>2. CASE NewUniverse
    BY <2>2, NewStateStep, RegisterRmStep, IdleStep, SetupSharedStep, KeyStep,
       UnitStep DEF NewUniverse
  <2>3. CASE Pulumi
    <3>1. CASE Die
      BY <3>1, DieStep
    <3>2. CASE \E r \in wanted : Create(r) \/ CreateError(r)
      BY <3>2, CreateStep
    <3>3. CASE EndRun
      BY <3>3, EndRunStep
    <3>4. CASE \E r \in stack : Delete(r)
      BY <3>4, DeleteStep
    <3>5. CASE DeleteError \/ EndDelete
      BY <3>5, EndDeleteStep
    <3> QED
      BY <2>3, <3>1, <3>2, <3>3, <3>4, <3>5 DEF Pulumi
  <2>4. CASE UNCHANGED vars
    BY <2>4, EndDeleteStep
  <2> QED
    BY <2>1, <2>2, <2>3, <2>4 DEF Next
<1> QED
  BY <1>1, <1>2, PTL DEF Spec

\* The variables keep their types: every step of NewUniverse finds the state
\* directory and the number of its run.
THEOREM TypeCorrect == Spec => []TypeOK
<1>1. LifeInv => TypeOK
  BY DEF LifeInv
<1> QED
  BY <1>1, LifeInvInductive, PTL

\* However many ups fail, wherever they fail and whatever uuid they use, each
\* state directory that is left between commands is owned by a resource that
\* removes it, but for those of previews, of runs that failed in NewState and
\* of runs that ended, by a death or a failed resource, before that resource
\* had been created.
THEOREM NothingOrphaned == Spec => []NoOrphans
<1>1. LifeInv => NoOrphans
  BY DEF LifeInv, DirsInv, Pending, NoOrphans
<1> QED
  BY <1>1, LifeInvInductive, PTL

-----------------------------------------------------------------------------
(* What a run that goes well leaves behind.  The links, the key and the      *)
(* machines are written by different steps, the machines are created when    *)
(* the engine gets to them and those of earlier runs deleted after that, so  *)
(* the invariant follows the run from its first step to the end of the up.   *)

BeforeKey == {"command", "config", "inputs", "prvKey"}
BeforeUnits == BeforeKey \cup {"pubKey", "build", "shared"}

\* The run has not failed: the program is under way or has returned, or it is
\* an up that is at its deletions or ended well.
Well ==
  \/ pc \in HasState \cup {"returned"}
  \/ command = "up" /\ (pc = "delete" \/ (pc = "idle" /\ outcome = "ok"))

\* Every unit that the loop has handed to libvirt.Unit has machines, of this
\* run, in the run's directory and with its key.
UnitsInv ==
  /\ \A i \in 1 .. u - 1 :
       Units[i].after = {} => Machines(Units[i].name, run, uuid, run) \in wanted
  /\ \A r \in wanted : r.kind = "machines" =>
       /\ r = Machines(r.unit, run, uuid, run)
       /\ r.unit \in disk[uuid].links

\* What such a run has written into its directory, registered and created.
WellInv ==
  /\ uuid \in Uuids /\ disk[uuid].exists
  /\ pc # "command" => RmCommand(uuid) \in wanted
  /\ pc \notin BeforeKey => disk[uuid].prv = run
  /\ pc \notin BeforeUnits => Shared(uuid) \in wanted
  /\ UnitsInv
  /\ pc \in {"returned", "delete", "idle"} => u = Len(Units) + 1
  /\ pc \in {"delete", "idle"} => wanted \subseteq stack
  /\ pc = "idle" => stack \subseteq wanted

UseInv ==
  /\ pc \in BeforeUnits \cup {"state"} =>
       u = 1 /\ \A r \in wanted : r.kind # "machines"
  /\ Well => WellInv

\* What the constructors put into a resource.
LEMMA ResourceFields ==
  /\ \A d : RmCommand(d).kind = "rm" /\ RmCommand(d).dir = d
  /\ \A d : Shared(d).kind = "shared"
  /\ \A name, k, d, key :
       /\ Machines(name, k, d, key).kind = "machines"
       /\ Machines(name, k, d, key).unit = name
       /\ Machines(name, k, d, key).id = k
       /\ Machines(name, k, d, key).dir = d
       /\ Machines(name, k, d, key).key = key
BY DEF RmCommand, Shared, Machines

\* A step of a program that is still writing its files and goes on.
LEMMA EarlyStep ==
  ASSUME LifeInv, UseInv, pc \in BeforeUnits, pc # "command",
         pc' \in BeforeUnits \ {"command"},
         pc' \in BeforeKey => pc \in BeforeKey,
         UNCHANGED <<run, uuid, u, wanted>>,
         disk'[uuid].exists = disk[uuid].exists,
         pc' \notin BeforeKey => disk'[uuid].prv = run
  PROVE  UseInv'
<1> USE DEF BeforeKey, BeforeUnits
<1>1. Well /\ WellInv /\ u = 1 /\ \A r \in wanted : r.kind # "machines"
  BY DEF UseInv, Well
<1>2. UnitsInv'
  BY <1>1 DEF UnitsInv
<1>3. WellInv'
  BY <1>1, <1>2 DEF WellInv
<1> QED
  BY <1>1, <1>3 DEF UseInv

\* A step after which the run is no longer under way, or has failed.
LEMMA NotWell ==
  ASSUME UseInv, ~Well', pc' \notin BeforeUnits \cup {"state"}
  PROVE  UseInv'
BY DEF UseInv

\* The program's steps before its units.
LEMMA UseBefore ==
  ASSUME LifeInv, UseInv,
         \/ NewState \/ RegisterRm \/ ReadConfig \/ CacheInputs
         \/ WritePrvKey \/ WritePubKey \/ BuildRemote \/ SetupShared
  PROVE  UseInv'
<1>0. TypeOK /\ RunInv
  BY DEF LifeInv
<1>1. CASE NewState
  <2>1. /\ pc = "state" /\ pc' = "command" /\ uuid' = RunUuid
        /\ disk' = MakeDir(RunUuid, command = "preview")
        /\ u' = u /\ wanted' = wanted
    BY <1>1 DEF NewState, Goto
  <2>2. u = 1 /\ wanted = {}
    BY <1>0, <2>1 DEF UseInv, RunInv
  <2>3. RunUuid \in Uuids
    BY <2>1, RunUuidType
  <2>4. disk'[uuid'].exists
    BY <1>0, <2>1, <2>3, MakeDirFacts DEF TypeOK
  <2>5. WellInv'
    BY <2>1, <2>2, <2>3, <2>4 DEF WellInv, UnitsInv, BeforeKey, BeforeUnits
  <2> QED
    BY <2>1, <2>2, <2>5 DEF UseInv
<1>2. CASE RegisterRm
  <2>1. /\ pc = "command" /\ pc' = "config" /\ UNCHANGED <<run, uuid, u, disk>>
        /\ wanted' = wanted \cup {RmCommand(uuid)}
    BY <1>2 DEF RegisterRm, Goto, session
  <2>2. WellInv /\ u = 1 /\ \A r \in wanted' : r.kind # "machines"
    BY <2>1, ResourceFields DEF UseInv, Well, BeforeUnits, BeforeKey
  <2>3. WellInv'
    BY <2>1, <2>2 DEF WellInv, UnitsInv, BeforeKey, BeforeUnits
  <2> QED
    BY <2>1, <2>2, <2>3 DEF UseInv
<1>3. CASE ReadConfig \/ CacheInputs \/ BuildRemote
  <2>1. /\ pc \in BeforeUnits /\ pc # "command" /\ pc' \in BeforeUnits \ {"command"}
        /\ pc \in BeforeKey <=> pc' \in BeforeKey
        /\ UNCHANGED <<run, uuid, u, wanted, disk>>
    BY <1>3 DEF ReadConfig, CacheInputs, BuildRemote, Goto, session, BeforeUnits,
       BeforeKey
  <2>2. pc \notin BeforeKey => disk[uuid].prv = run
    BY <2>1 DEF UseInv, Well, WellInv, BeforeUnits, BeforeKey
  <2> QED
    BY <2>1, <2>2, EarlyStep
<1>4. CASE WritePrvKey \/ WritePubKey
  <2>1. /\ pc \in {"prvKey", "pubKey"} /\ pc' \in {"pubKey", "build"}
        /\ UNCHANGED <<run, uuid, u, wanted>>
    BY <1>4 DEF WritePrvKey, WritePubKey, Goto, session
  <2>2. WellInv /\ uuid \in Uuids
    BY <2>1 DEF UseInv, Well, WellInv
  <2>3. disk'[uuid].exists = disk[uuid].exists /\ disk'[uuid].prv = run
    <3>1. CASE WritePrvKey
      BY <1>0, <2>2, <3>1 DEF WritePrvKey, TypeOK, Dir
    <3>2. CASE WritePubKey
      <4>1. disk[uuid].prv = run
        BY <2>2, <3>2 DEF WritePubKey, Goto, WellInv, BeforeKey
      <4> QED
        BY <1>0, <2>2, <3>2, <4>1 DEF WritePubKey, TypeOK, Dir
    <3> QED
      BY <1>4, <3>1, <3>2
  <2> QED
    BY <2>1, <2>3, EarlyStep DEF BeforeKey, BeforeUnits
<1>5. CASE SetupShared
  <2>1. /\ pc = "shared" /\ pc' = "unit" /\ UNCHANGED <<run, uuid, u, disk>>
        /\ wanted' = wanted \cup {Shared(uuid)}
    BY <1>5 DEF SetupShared, Goto, session
  <2>2. WellInv /\ u = 1 /\ \A r \in wanted' : r.kind # "machines"
    BY <2>1, ResourceFields DEF UseInv, Well, BeforeUnits, BeforeKey
  <2>3. WellInv'
    BY <2>1, <2>2 DEF WellInv, UnitsInv, BeforeKey, BeforeUnits
  <2> QED
    BY <2>1, <2>3 DEF UseInv, BeforeUnits, BeforeKey
<1> QED
  BY <1>1, <1>2, <1>3, <1>4, <1>5

\* The loop over the units: a unit without an After list gets its link and its
\* machines in one step, and the program returns after the last.
LEMMA UseUnits ==
  ASSUME LifeInv, UseInv, Unit \/ UnitWithAfter \/ Return
  PROVE  UseInv'
<1>0. TypeOK /\ Len(Units) \in Nat /\ DOMAIN Units = 1 .. Len(Units) /\ u \in Nat
  BY LifecycleAssumption DEF LifeInv, TypeOK
<1>1. /\ pc = "unit" /\ pc' \in {"unit", "returned"} /\ UNCHANGED <<run, uuid>>
  BY DEF Unit, UnitWithAfter, Return, Goto, session
<1>2. WellInv /\ UnitsInv /\ uuid \in Uuids
  BY <1>1 DEF UseInv, Well, WellInv
<1>3. UnitsInv' /\ disk'[uuid].exists = disk[uuid].exists
      /\ disk'[uuid].prv = disk[uuid].prv /\ wanted \subseteq wanted'
  <2>1. CASE Unit
    <3> DEFINE name == Units[u].name
               new == Machines(name, run, uuid, run)
    <3>1. /\ u \in DOMAIN Units /\ u' = u + 1
          /\ disk' = [disk EXCEPT ![uuid].links = @ \cup {name}]
          /\ wanted' = wanted \cup {new}
      BY <2>1 DEF Unit
    <3>2. /\ disk'[uuid].exists = disk[uuid].exists
          /\ disk'[uuid].prv = disk[uuid].prv
          /\ disk'[uuid].links = disk[uuid].links \cup {name}
      BY <1>0, <1>2, <3>1 DEF TypeOK, Dir
    <3>3. new.unit = name
      BY ResourceFields
    <3>4. ASSUME NEW i \in 1 .. u' - 1, Units[i].after = {}
          PROVE  Machines(Units[i].name, run, uuid, run) \in wanted'
      <4>1. i \in 1 .. u - 1 \/ i = u
        BY <1>0, <3>1
      <4> QED
        BY <1>2, <3>1, <3>4, <4>1 DEF UnitsInv
    <3>5. ASSUME NEW r \in wanted', r.kind = "machines"
          PROVE  r = Machines(r.unit, run, uuid, run) /\ r.unit \in disk'[uuid].links
      <4>1. CASE r = new
        BY <3>2, <3>3, <4>1
      <4>2. CASE r \in wanted
        BY <1>2, <3>2, <3>5, <4>2 DEF UnitsInv
      <4> QED
        BY <3>1, <4>1, <4>2
    <3> HIDE DEF name, new
    <3> QED
      BY <1>1, <3>1, <3>2, <3>4, <3>5 DEF UnitsInv
  <2>2. CASE UnitWithAfter
    <3>1. /\ u \in DOMAIN Units /\ u' = u + 1 /\ Units[u].after # {}
          /\ UNCHANGED <<wanted, disk>>
      BY <2>2 DEF UnitWithAfter
    <3>2. \A i \in 1 .. u' - 1 : i \in 1 .. u - 1 \/ i = u
      BY <1>0, <3>1
    <3> QED
      BY <1>1, <1>2, <3>1, <3>2 DEF UnitsInv
  <2>3. CASE Return
    BY <1>1, <1>2, <2>3 DEF Return, UnitsInv
  <2> QED
    BY <2>1, <2>2, <2>3
<1>4. pc' = "returned" => u' = Len(Units) + 1
  BY <1>0 DEF Unit, UnitWithAfter, Return, Goto, TypeOK
<1>5. WellInv'
  BY <1>1, <1>2, <1>3, <1>4 DEF WellInv, BeforeKey, BeforeUnits
<1> QED
  BY <1>1, <1>5 DEF UseInv, BeforeKey, BeforeUnits

\* An error of the program, or its death, is the end of a good run.
LEMMA UseErrors ==
  ASSUME UseInv,
         \/ NewStateError \/ ToUnitError \/ ToNetworkError \/ CacheInputsError
         \/ WritePrvKeyError \/ WritePubKeyError \/ BuildRemoteError \/ UnitError
         \/ Die
  PROVE  UseInv'
<1>1. pc' = "failed"
  BY DEF NewStateError, ToUnitError, ToNetworkError, CacheInputsError,
     WritePrvKeyError, WritePubKeyError, BuildRemoteError, UnitError, Die, Fail, Goto
<1> QED
  BY <1>1, NotWell DEF Well, BeforeUnits, BeforeKey

\* A new command, or no step.
LEMMA UseUser ==
  ASSUME UseInv, \/ \E cmd \in Commands : RunProgram(cmd)
                 \/ Destroy
                 \/ UNCHANGED vars
  PROVE  UseInv'
<1>1. CASE \E cmd \in Commands : RunProgram(cmd)
  BY <1>1 DEF RunProgram, UseInv, Well
<1>2. CASE Destroy
  BY <1>2, NotWell DEF Destroy, Well, BeforeUnits, BeforeKey
<1>3. CASE UNCHANGED vars
  BY <1>3 DEF vars, session, UseInv, Well, WellInv, UnitsInv
<1> QED
  BY <1>1, <1>2, <1>3

\* The engine creates all that the run wants, then deletes what it does not
\* want, and never the directory of the run itself.
LEMMA UsePulumi ==
  ASSUME LifeInv, UseInv,
         \/ \E r \in wanted : Create(r) \/ CreateError(r)
         \/ EndRun
         \/ \E r \in stack : Delete(r)
         \/ DeleteError \/ EndDelete
  PROVE  UseInv'
<1>0. TypeOK /\ NamesInv
  BY DEF LifeInv
<1>1. CASE \E r \in wanted : Create(r) \/ CreateError(r)
  <2>1. /\ UNCHANGED <<command, outcome, run, pc, uuid, u, wanted>>
        /\ wanted \subseteq stack => stack' = stack
    BY <1>1 DEF Create, CreateError, GiveUp, MayCreate, session
  <2>2. uuid \in Uuids => /\ disk'[uuid].exists = disk[uuid].exists
                          /\ disk'[uuid].prv = disk[uuid].prv
                          /\ disk'[uuid].links = disk[uuid].links
    BY <1>0, <1>1 DEF Create, CreateError, GiveUp, TypeOK, Dir
  <2>3. Well' = Well
    BY <2>1 DEF Well
  <2>4. WellInv => UnitsInv'
    BY <2>1, <2>2 DEF WellInv, UnitsInv
  <2>5. WellInv => WellInv'
    BY <2>1, <2>2, <2>4 DEF WellInv
  <2> QED
    BY <2>1, <2>3, <2>5 DEF UseInv
<1>2. CASE EndRun
  <2>0. UNCHANGED <<command, run, uuid, u, wanted, stack, disk>>
    BY <1>2 DEF EndRun
  <2>1. CASE pc = "returned" /\ ~halted /\ command = "up"
    <3>1. pc' = "delete" /\ \A r \in wanted : ~MayCreate(r)
      BY <1>2, <2>1 DEF EndRun
    <3>2. WellInv /\ UnitsInv /\ Shared(uuid) \in wanted
      BY <2>1 DEF UseInv, Well, WellInv, BeforeUnits, BeforeKey
    <3>3. \A r \in wanted : r.kind # "machines" => r \in stack
      BY <2>1, <3>1 DEF MayCreate
    <3>4. Shared(uuid) \in stack
      BY <3>2, <3>3, ResourceFields
    <3>5. \A r \in wanted : r.kind = "machines" => r.dir = uuid
      BY <3>2, ResourceFields DEF UnitsInv
    <3>6. wanted \subseteq stack
      BY <2>1, <3>1, <3>3, <3>4, <3>5 DEF MayCreate
    <3>7. WellInv'
      BY <2>0, <2>1, <3>1, <3>2, <3>6 DEF WellInv, UnitsInv, BeforeUnits, BeforeKey
    <3> QED
      BY <3>1, <3>7 DEF UseInv, BeforeUnits, BeforeKey
  <2>2. CASE ~(pc = "returned" /\ ~halted /\ command = "up")
    <3>1. pc' = "idle" /\ (command' # "up" \/ outcome' = "error")
      BY <1>2, <2>2 DEF EndRun
    <3> QED
      BY <3>1, NotWell DEF Well, BeforeUnits, BeforeKey
  <2> QED
    BY <2>1, <2>2
<1>3. CASE \E r \in stack : Delete(r)
  <2> PICK r \in stack : Delete(r)
    BY <1>3
  <2>1. /\ pc = "delete" /\ UNCHANGED <<session, pc, uuid, u, wanted>>
        /\ r \notin wanted /\ stack' = stack \ {r}
        /\ disk' = IF r.kind = "rm" THEN RemoveBase(r.dir) ELSE disk
    BY DEF Delete
  <2>2. CASE command = "up"
    <3>1. WellInv /\ wanted \subseteq stack /\ RmCommand(uuid) \in wanted
          /\ uuid \in Uuids
      BY <2>1, <2>2 DEF UseInv, Well, WellInv
    <3>2. r.kind = "rm" => r.dir # uuid
      BY <1>0, <2>1, <3>1 DEF NamesInv
    <3>3. disk'[uuid] = disk[uuid]
      BY <1>0, <2>1, <3>1, <3>2 DEF RemoveBase, TypeOK
    <3>4. WellInv'
      BY <2>1, <3>1, <3>3 DEF WellInv, UnitsInv, session
    <3> QED
      BY <2>1, <3>4 DEF UseInv, BeforeUnits, BeforeKey
  <2>3. CASE command # "up"
    BY <2>1, <2>3, NotWell DEF Well, BeforeUnits, BeforeKey, session
  <2> QED
    BY <2>2, <2>3
<1>4. CASE DeleteError
  BY <1>4, NotWell DEF DeleteError, Goto, Well, BeforeUnits, BeforeKey
<1>5. CASE EndDelete
  <2>1. /\ pc = "delete" /\ pc' = "idle" /\ stack \subseteq wanted
        /\ UNCHANGED <<command, run, uuid, u, wanted, stack, disk>>
    BY <1>5 DEF EndDelete, Goto
  <2>2. CASE command = "up"
    <3>1. WellInv
      BY <2>1, <2>2 DEF UseInv, Well
    <3>2. WellInv'
      BY <2>1, <3>1 DEF WellInv, UnitsInv, BeforeUnits, BeforeKey
    <3> QED
      BY <2>1, <3>2 DEF UseInv, BeforeUnits, BeforeKey
  <2>3. CASE command # "up"
    BY <2>1, <2>3, NotWell DEF Well, BeforeUnits, BeforeKey
  <2> QED
    BY <2>2, <2>3
<1> QED
  BY <1>1, <1>2, <1>3, <1>4, <1>5

\* After an up that succeeded, whatever earlier runs left and whichever uuid
\* it used, the machines of every unit without an After list are there, none
\* of an earlier run, and the key and the image in the directory are theirs.
THEOREM UpIsUsable == Spec => []UpMeansUsable
<1>1. Init => UseInv
  BY DEF Init, UseInv, Well, BeforeUnits, BeforeKey
<1>2. LifeInv /\ UseInv /\ [Next]_vars => UseInv'
  <2> SUFFICES ASSUME LifeInv, UseInv, [Next]_vars PROVE UseInv'
    OBVIOUS
  <2>1. CASE (\E cmd \in Commands : RunProgram(cmd)) \/ Destroy \/ UNCHANGED vars
    BY <2>1, UseUser
  <2>2. CASE NewUniverse
    BY <2>2, UseBefore, UseUnits, UseErrors DEF NewUniverse
  <2>3. CASE Pulumi
    BY <2>3, UseErrors, UsePulumi DEF Pulumi
  <2> QED
    BY <2>1, <2>2, <2>3 DEF Next
<1>3. UseInv => UpMeansUsable
  <2> SUFFICES ASSUME UseInv, pc = "idle", command = "up", outcome = "ok"
               PROVE  /\ \A i \in DOMAIN Units : Units[i].after = {} =>
                           \E r \in MachinesOf : r.unit = Units[i].name
                      /\ \A r \in MachinesOf :
                           r.id = run /\ Opens(r) /\ r.unit \in disk[r.dir].links
    BY DEF UpMeansUsable
  <2>1. /\ WellInv /\ UnitsInv /\ stack = wanted /\ u = Len(Units) + 1
        /\ disk[uuid].exists /\ disk[uuid].prv = run
    BY DEF UseInv, Well, WellInv, BeforeKey
  <2>2. ASSUME NEW i \in DOMAIN Units, Units[i].after = {}
        PROVE  \E r \in MachinesOf : r.unit = Units[i].name
    <3>1. i \in 1 .. u - 1
      BY <2>1, LifecycleAssumption
    <3>2. Machines(Units[i].name, run, uuid, run) \in stack
      BY <2>1, <2>2, <3>1 DEF UnitsInv
    <3> QED
      BY <3>2, ResourceFields DEF MachinesOf
  <2>3. ASSUME NEW r \in MachinesOf
        PROVE  r.id = run /\ Opens(r) /\ r.unit \in disk[r.dir].links
    <3>1. r = Machines(r.unit, run, uuid, run) /\ r.unit \in disk[uuid].links
      BY <2>1 DEF MachinesOf, UnitsInv
    <3>2. r.id = run /\ r.dir = uuid /\ r.key = run
      BY <3>1, ResourceFields
    <3> QED
      BY <2>1, <3>1, <3>2 DEF Opens
  <2> QED
    BY <2>2, <2>3
<1> QED
  BY <1>1, <1>2, <1>3, LifeInvInductive, PTL DEF Spec
=============================================================================
