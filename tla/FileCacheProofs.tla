-------------------------- MODULE FileCacheProofs ---------------------------
(* Proofs about FileCache, for every set of processes, every list of inputs  *)
(* and every answer of the servers.                                          *)
EXTENDS FileCache, TLAPS

\* The position a process works on is one of its input list's.
LEMMA InputPositions ==
  ASSUME NEW p \in Procs, NEW i \in 1 .. Len(Inputs[p])
  PROVE  i \in Slots /\ Inputs[p][i] \in Shas
<1>1. Inputs[p] \in Seq(Shas)
  BY ConstantsAssumption
<1>2. DOMAIN Inputs[p] = 1 .. Len(Inputs[p])
  BY <1>1
<1> QED
  BY <1>1, <1>2 DEF Slots

\* The input list of a process has a first position.
LEMMA FirstPosition ==
  ASSUME NEW p \in Procs
  PROVE  Len(Inputs[p]) \in Nat /\ 1 \in 1 .. Len(Inputs[p])
<1>1. Inputs[p] \in Seq(Shas) /\ Inputs[p] # << >>
  BY ConstantsAssumption
<1> QED
  BY <1>1

\* The initial state is well typed.
LEMMA InitTypeOK == Init => TypeOK
<1> SUFFICES ASSUME Init PROVE TypeOK
  OBVIOUS
<1>1. \A p \in Procs : 1 \in 1 .. Len(Inputs[p]) /\ 1 \in Slots
  BY FirstPosition, InputPositions
<1> QED
  BY <1>1 DEF Init, TypeOK, Main, SweeperStates

\* Every step of every goroutine keeps the state well typed.
LEMMA NextTypeOK == TypeOK /\ [Next]_vars => TypeOK'
<1> SUFFICES ASSUME TypeOK, [Next]_vars PROVE TypeOK'
  OBVIOUS
<1> USE DEF TypeOK, Main, Ended
<1>1. CASE UNCHANGED vars
  BY <1>1 DEF vars
<1>2. ASSUME NEW p \in Procs, CacheInput(p) PROVE TypeOK'
  <2>0. idx[p] \in Slots /\ Sha(p) \in Shas /\ Len(Inputs[p]) \in Nat
    BY InputPositions, FirstPosition DEF Sha
  <2>1. CASE \/ StatFound(p) \/ StatMissing(p) \/ StatError(p) \/ MkdirError(p)
             \/ CreateError(p) \/ Get(p) \/ GetError(p) \/ SumMatches(p)
             \/ SumError(p) \/ RestatFound(p) \/ RestatMissing(p)
             \/ RenameError(p) \/ LastInput(p)
    BY <2>1 DEF StatFound, StatMissing, StatError, MkdirError, CreateError,
                Get, GetError, SumMatches, SumError, RestatFound,
                RestatMissing, RenameError, LastInput, Fail, Goto, Skip
  <2>2. CASE Mkdir(p)
    BY <2>2 DEF Mkdir, Goto, Skip, CallTmpDir
  <2>3. CASE Create(p)
    BY <2>0, <2>3, ConstantsAssumption DEF Create, Goto, Skip, CallTmpDir, Contents
  <2>4. CASE Copy(p) \/ CopyError(p)
    <3>1. PICK c \in Contents : Write(p, c)
      BY <2>0, <2>4, ConstantsAssumption DEF Copy, CopyError, Contents
    <3>2. tmp' \in [Procs -> [Slots -> Contents \cup {Absent}]]
      BY <2>0, <3>1 DEF Write
    <3> QED
      BY <2>4, <3>2 DEF Copy, CopyError, Goto, Skip
  <2>5. CASE SumDiffers(p)
    BY <2>0, <2>5 DEF SumDiffers, Goto, Skip
  <2>6. CASE Rename(p)
    BY <2>0, <2>6 DEF Rename, Goto, Skip
  <2>7. CASE NextInput(p)
    <3>1. idx[p] + 1 \in 1 .. Len(Inputs[p])
      BY <2>0, <2>7 DEF NextInput
    <3>2. idx[p] + 1 \in Slots
      BY <3>1, InputPositions
    <3> QED
      BY <2>7, <3>1, <3>2 DEF NextInput, Goto, Skip
  <2> QED
    BY <1>2, <2>1, <2>2, <2>3, <2>4, <2>5, <2>6, <2>7 DEF CacheInput
<1>3. ASSUME NEW p \in Procs, Signal(p) PROVE TypeOK'
  BY <1>3 DEF Signal, SweeperStates
<1>4. ASSUME NEW p \in Procs, RemoveTmpDir(p) PROVE TypeOK'
  BY <1>4 DEF RemoveTmpDir, Rmdir
<1>5. ASSUME NEW p \in Procs, CleanupCache(p) PROVE TypeOK'
  <2>1. CASE CleanupList(p)
    BY <2>1 DEF CleanupList, CallTmpDir, SweeperStates
  <2>2. CASE CleanupUnlink(p)
    BY <2>2 DEF CleanupUnlink
  <2>3. CASE CleanupRmdir(p)
    BY <2>3 DEF CleanupRmdir, Rmdir, SweeperStates
  <2> QED
    BY <1>5, <2>1, <2>2, <2>3 DEF CleanupCache
<1>6. ASSUME NEW p \in Procs, Kill(p) PROVE TypeOK'
  BY <1>6 DEF Kill
<1> QED
  BY <1>1, <1>2, <1>3, <1>4, <1>5, <1>6 DEF Next

\* Every reachable state is well typed.
THEOREM TypeCorrect == Spec => []TypeOK
<1> QED
  BY InitTypeOK, NextTypeOK, PTL DEF Spec

-----------------------------------------------------------------------------
(* Safety under every fault.  A file is renamed into the cache under the sum *)
(* that CacheInput computed some steps earlier; in between the download may  *)
(* be unlinked by a sweep, but nothing writes to it.                         *)

\* From the sum check to the rename, the download is intact or gone.
Verified ==
  \A p \in Procs :
    pc[p] \in {"restat", "rename"} => tmp[p][idx[p]] \in {Sha(p), Absent}

SafetyInv == TypeOK /\ CacheContentsValid /\ Verified

\* The initial state satisfies the safety invariant: the cache is empty.
LEMMA InitSafetyInv == Init => SafetyInv
BY InitTypeOK DEF Init, SafetyInv, CacheContentsValid, Verified

\* Every step, faults included, keeps the safety invariant, and changes no
\* cached file.
LEMMA NextSafetyInv ==
  ASSUME SafetyInv, [Next]_vars
  PROVE  SafetyInv' /\ \A s \in Shas : cache[s] # Absent => cache'[s] = cache[s]
<1> DEFINE Kept == \A s \in Shas : cache[s] # Absent => cache'[s] = cache[s]
<1>0. TypeOK /\ TypeOK'
  BY NextTypeOK DEF SafetyInv
<1> SUFFICES CacheContentsValid' /\ Verified' /\ Kept
  BY <1>0 DEF SafetyInv
<1> USE <1>0 DEF SafetyInv, CacheContentsValid, Verified, TypeOK, Sha
<1>1. CASE UNCHANGED vars
  BY <1>1 DEF vars
<1>2. ASSUME NEW p \in Procs, CacheInput(p)
      PROVE  CacheContentsValid' /\ Verified' /\ Kept
  <2>0. idx[p] \in Slots /\ Sha(p) \in Shas /\ Absent \notin Shas
    BY InputPositions, ConstantsAssumption DEF Contents
  <2>1. CASE \/ StatFound(p) \/ StatMissing(p) \/ StatError(p) \/ MkdirError(p)
             \/ CreateError(p) \/ Get(p) \/ GetError(p) \/ SumError(p)
             \/ RestatFound(p) \/ RestatMissing(p) \/ RenameError(p)
             \/ LastInput(p) \/ Mkdir(p)
    <3>1. /\ cache' = cache /\ idx' = idx /\ tmp' = tmp
          /\ \A q \in Procs : q # p => pc'[q] = pc[q]
          /\ pc'[p] \in {"restat", "rename"} => pc[p] \in {"restat", "rename"}
      BY <2>1 DEF StatFound, StatMissing, StatError, MkdirError, CreateError,
                  Get, GetError, SumError, RestatFound, RestatMissing,
                  RenameError, LastInput, Mkdir, Fail, Goto, Skip
    <3> QED
      BY <3>1
  <2>2. CASE Create(p) \/ SumDiffers(p) \/ Copy(p) \/ CopyError(p)
    <3>1. /\ cache' = cache /\ idx' = idx
          /\ \A q \in Procs : q # p => pc'[q] = pc[q]
          /\ pc'[p] \notin {"restat", "rename"}
      BY <2>2 DEF Create, SumDiffers, Copy, CopyError, Goto, Skip
    <3>2. \A q \in Procs : q # p => tmp'[q] = tmp[q]
      BY <2>2 DEF Create, SumDiffers, Copy, CopyError, Write
    <3> QED
      BY <3>1, <3>2
  <2>3. CASE SumMatches(p)
    BY <2>0, <2>3 DEF SumMatches, Goto, Skip
  <2>4. CASE Rename(p)
    <3>1. tmp[p][idx[p]] = Sha(p)
      BY <2>4 DEF Rename, Goto, Skip
    <3> QED
      BY <2>0, <2>4, <3>1 DEF Rename, Goto, Skip
  <2>5. CASE NextInput(p)
    BY <2>5 DEF NextInput, Goto, Skip
  <2> QED
    BY <1>2, <2>1, <2>2, <2>3, <2>4, <2>5 DEF CacheInput
<1>3. ASSUME NEW p \in Procs, Signal(p) \/ RemoveTmpDir(p) \/ Kill(p)
      PROVE  CacheContentsValid' /\ Verified' /\ Kept
  BY <1>3 DEF Signal, RemoveTmpDir, Kill
<1>4. ASSUME NEW p \in Procs, CleanupCache(p)
      PROVE  CacheContentsValid' /\ Verified' /\ Kept
  <2>1. CASE CleanupList(p) \/ CleanupRmdir(p)
    BY <2>1 DEF CleanupList, CleanupRmdir
  <2>2. CASE CleanupUnlink(p)
    BY <2>2 DEF CleanupUnlink
  <2> QED
    BY <1>4, <2>1, <2>2 DEF CleanupCache
<1> QED
  BY <1>1, <1>2, <1>3, <1>4 DEF Next

\* A file in the cache has the sum its name says, whatever fails.
THEOREM CacheValid == Spec => []CacheContentsValid
<1>1. Init => SafetyInv
  BY InitSafetyInv
<1>2. SafetyInv /\ [Next]_vars => SafetyInv'
  BY NextSafetyInv
<1>3. SafetyInv => CacheContentsValid
  BY DEF SafetyInv
<1> QED
  BY <1>1, <1>2, <1>3, PTL DEF Spec

\* A cached file stays, with its content, through the race of two renames
\* and through every fault.
THEOREM CacheNeverRewritten == Spec => CacheWriteOnce
<1> DEFINE Kept == \A s \in Shas : cache[s] # Absent => cache'[s] = cache[s]
<1>1. Init => SafetyInv
  BY InitSafetyInv
<1>2. SafetyInv /\ [Next]_vars => SafetyInv'
  BY NextSafetyInv
<1>3. SafetyInv /\ [Next]_vars => [Kept]_vars
  BY NextSafetyInv
<1> QED
  BY <1>1, <1>2, <1>3, PTL DEF Spec, CacheWriteOnce

-----------------------------------------------------------------------------
(* What CacheInput's nil means when neither its second Stat nor its Rename   *)
(* fails of itself: the errors it drops then hide nothing but a download     *)
(* that a signal's clean-up took away, and that happens to the run that got  *)
(* the signal only.  Every failure that CacheInput looks at, broken          *)
(* downloads, killed runs and signals to any runs are allowed.               *)

NothingDropped == "dropped" \notin Faults

\* A run that got no signal keeps its verified download, and finds its input
\* cached when CacheInput returns.
SuccessInv ==
  /\ SafetyInv
  /\ \A p \in Procs \ interrupted :
       /\ pc[p] \in {"restat", "rename"} => tmp[p][idx[p]] = Sha(p)
       /\ pc[p] = "return" => cache[Sha(p)] = Sha(p)

\* Initially nothing was returned.
LEMMA InitSuccessInv == Init => SuccessInv
BY InitSafetyInv DEF Init, SuccessInv

\* A process's returned inputs change only when its loop advances.
LEMMA ReturnedChanges ==
  ASSUME TypeOK, NEW p \in Procs
  PROVE  /\ (idx'[p] = idx[p] /\ (pc'[p] = "done" <=> pc[p] = "done"))
              => Returned(p)' = Returned(p)
         /\ (NextInput(p) \/ LastInput(p))
              => Returned(p)' = Returned(p) \cup {idx[p]}
<1>1. /\ DOMAIN Inputs[p] = 1 .. Len(Inputs[p])
      /\ Len(Inputs[p]) \in Nat
      /\ idx[p] \in 1 .. Len(Inputs[p])
  BY ConstantsAssumption, FirstPosition DEF TypeOK
<1>2. CASE NextInput(p)
  <2>1. idx'[p] = idx[p] + 1 /\ pc'[p] # "done" /\ pc[p] # "done"
    BY <1>2 DEF NextInput, Goto, Skip, TypeOK
  <2> QED
    BY <1>1, <2>1 DEF Returned
<1>3. CASE LastInput(p)
  <2>1. idx'[p] = idx[p] /\ pc'[p] = "done" /\ pc[p] # "done"
    BY <1>3 DEF LastInput, Goto, Skip, TypeOK
  <2> QED
    BY <1>1, <2>1 DEF Returned
<1>4. (idx'[p] = idx[p] /\ (pc'[p] = "done" <=> pc[p] = "done"))
        => Returned(p)' = Returned(p)
  BY DEF Returned
<1> QED
  BY <1>2, <1>3, <1>4

\* The kinds of step there are, as a client of the cache sees them: the loop
\* of one process advances, one process renames, or neither happens and the
\* cache and what was returned stay as they are.
LEMMA StepKinds ==
  ASSUME TypeOK, [Next]_vars
  PROVE  \/ \E p \in Procs : NextInput(p) \/ LastInput(p)
         \/ \E p \in Procs : Rename(p)
         \/ /\ cache' = cache
            /\ \A p \in Procs :
                 idx'[p] = idx[p] /\ (pc'[p] = "done" <=> pc[p] = "done")
<1> USE DEF TypeOK
<1>1. CASE UNCHANGED vars
  BY <1>1 DEF vars
<1>2. ASSUME NEW p \in Procs, CacheInput(p),
             ~(NextInput(p) \/ LastInput(p)), ~Rename(p)
      PROVE  /\ cache' = cache
             /\ \A q \in Procs :
                  idx'[q] = idx[q] /\ (pc'[q] = "done" <=> pc[q] = "done")
  BY <1>2 DEF CacheInput, StatFound, StatMissing, StatError, Mkdir, MkdirError,
              Create, CreateError, Get, GetError, Copy, CopyError, SumMatches,
              SumDiffers, SumError, RestatFound, RestatMissing, RenameError,
              Fail, Goto, Skip
<1>3. ASSUME NEW p \in Procs,
             Signal(p) \/ RemoveTmpDir(p) \/ CleanupCache(p) \/ Kill(p)
      PROVE  /\ cache' = cache
             /\ \A q \in Procs :
                  idx'[q] = idx[q] /\ (pc'[q] = "done" <=> pc[q] = "done")
  BY <1>3 DEF Signal, RemoveTmpDir, CleanupCache, CleanupList, CleanupUnlink,
              CleanupRmdir, Kill, Running, Ended
<1> QED
  BY <1>1, <1>2, <1>3 DEF Next

\* A download is renamed only onto a free key or onto the same content.
LEMMA RenameIsPut ==
  ASSUME SafetyInv, NEW p \in Procs, Rename(p)
  PROVE  /\ Sha(p) \in Shas
         /\ cache' = [cache EXCEPT ![Sha(p)] = Sha(p)]
         /\ idx' = idx
         /\ \A q \in Procs : pc'[q] = "done" <=> pc[q] = "done"
         /\ cache[Sha(p)] = Absent \/ cache' = cache
<1> USE DEF SafetyInv, TypeOK, CacheContentsValid
<1>1. Sha(p) \in Shas
  BY InputPositions DEF Sha
<1>2. tmp[p][idx[p]] = Sha(p)
  BY DEF Rename, Verified, Goto, Skip
<1>3. cache' = [cache EXCEPT ![Sha(p)] = Sha(p)]
  BY <1>2 DEF Rename
<1>4. idx' = idx /\ \A q \in Procs : pc'[q] = "done" <=> pc[q] = "done"
  BY DEF Rename, Goto, Skip
<1>5. cache[Sha(p)] = Sha(p) => cache' = cache
  BY <1>1, <1>3
<1> QED
  BY <1>1, <1>3, <1>4, <1>5

\* Only a signal interrupts a run, and nothing undoes it.
LEMMA InterruptedChanges ==
  ASSUME TypeOK, [Next]_vars
  PROVE  \/ interrupted' = interrupted
         \/ \E p \in Procs : Signal(p) /\ interrupted' = interrupted \cup {p}
<1>1. CASE UNCHANGED vars
  BY <1>1 DEF vars, interrupted
<1>2. ASSUME NEW p \in Procs, CacheInput(p) PROVE sweeper' = sweeper
  BY <1>2 DEF CacheInput, StatFound, StatMissing, StatError, Mkdir,
              MkdirError, Create, CreateError, Get, GetError, Copy,
              CopyError, SumMatches, SumDiffers, SumError, RestatFound,
              RestatMissing, Rename, RenameError, NextInput, LastInput,
              Fail, Skip
<1>3. ASSUME NEW p \in Procs, RemoveTmpDir(p) \/ Kill(p) PROVE sweeper' = sweeper
  BY <1>3 DEF RemoveTmpDir, Kill
<1>4. ASSUME NEW p \in Procs, CleanupCache(p) PROVE interrupted' = interrupted
  BY <1>4 DEF CleanupCache, CleanupList, CleanupUnlink, CleanupRmdir,
              interrupted, TypeOK
<1>5. ASSUME NEW p \in Procs, Signal(p)
      PROVE  interrupted' = interrupted \cup {p}
  BY <1>5 DEF Signal, interrupted, TypeOK
<1> QED
  BY <1>1, <1>2, <1>3, <1>4, <1>5 DEF Next, interrupted

\* While no error of its own is dropped, every step keeps the success invariant.
LEMMA NextSuccessInv ==
  ASSUME SuccessInv, NothingDropped, [Next]_vars
  PROVE  SuccessInv'
<1>0. SafetyInv /\ SafetyInv' /\ TypeOK /\ TypeOK'
  BY NextSafetyInv DEF SuccessInv, SafetyInv
<1>a. \A s \in Shas : cache[s] = s => cache'[s] = s
  BY <1>0, NextSafetyInv, ConstantsAssumption DEF Contents
<1>b. ASSUME NEW p \in Procs PROVE Sha(p) \in Shas
  BY <1>0, InputPositions DEF TypeOK, Sha
<1>c. Procs \ interrupted' \subseteq Procs \ interrupted
  BY <1>0, InterruptedChanges
<1> DEFINE Intact(q) == pc[q] \in {"restat", "rename"} => tmp[q][idx[q]] = Sha(q)
           Cached(q) == pc[q] = "return" => cache[Sha(q)] = Sha(q)
<1> SUFFICES ASSUME NEW q \in Procs, q \notin interrupted',
                    Intact(q), Cached(q), q \notin interrupted
             PROVE  Intact(q)' /\ Cached(q)'
  BY <1>0, <1>c DEF SuccessInv
<1> USE <1>0 DEF SafetyInv, TypeOK, NothingDropped, Sha
<1>1. CASE UNCHANGED vars
  BY <1>1 DEF vars
<1>2. ASSUME NEW p \in Procs, CacheInput(p) PROVE Intact(q)' /\ Cached(q)'
  <2>0. idx[p] \in Slots /\ Sha(p) \in Shas
    BY InputPositions
  <2>1. CASE StatFound(p) \/ RestatFound(p)
    <3>1. /\ cache' = cache /\ idx' = idx /\ tmp' = tmp
          /\ pc' = [pc EXCEPT ![p] = "return"]
          /\ cache[Sha(p)] # Absent
      BY <2>1 DEF StatFound, RestatFound, Goto, Skip
    <3>2. cache[Sha(p)] = Sha(p)
      BY <2>0, <3>1 DEF CacheContentsValid
    <3> QED
      BY <3>1, <3>2
  <2>2. CASE StatMissing(p) \/ StatError(p) \/ Mkdir(p) \/ MkdirError(p)
    BY <2>2 DEF StatMissing, StatError, Mkdir, MkdirError, Fail, Goto, Skip
  <2>3. CASE CreateError(p) \/ Get(p) \/ GetError(p) \/ SumError(p)
             \/ LastInput(p)
    BY <2>3 DEF CreateError, Get, GetError, SumError, LastInput, Fail, Goto, Skip
  <2>4. CASE Create(p) \/ SumDiffers(p)
    BY <2>0, <2>4 DEF Create, SumDiffers, Goto, Skip
  <2>5. CASE Copy(p) \/ CopyError(p)
    BY <2>0, <2>5 DEF Copy, CopyError, Write, Goto, Skip
  <2>6. CASE SumMatches(p) \/ RestatMissing(p)
    BY <2>0, <2>6 DEF SumMatches, RestatMissing, Goto, Skip
  <2>7. CASE RenameError(p)
    BY <2>0, <2>7, ConstantsAssumption DEF RenameError, Goto, Skip, Contents
  <2>8. CASE Rename(p)
    <3>1. /\ cache' = [cache EXCEPT ![Sha(p)] = Sha(p)]
          /\ pc' = [pc EXCEPT ![p] = "return"] /\ idx' = idx
          /\ tmp' = [tmp EXCEPT ![p][idx[p]] = Absent]
      BY <2>8, RenameIsPut DEF Rename, Goto, Skip
    <3>2. Intact(q)'
      BY <2>0, <3>1
    <3>3. Cached(q)'
      BY <1>a, <1>b, <2>0, <3>1
    <3> QED
      BY <3>2, <3>3
  <2>9. CASE NextInput(p)
    BY <2>9 DEF NextInput, Goto, Skip
  <2> QED
    BY <1>2, <2>1, <2>2, <2>3, <2>4, <2>5, <2>6, <2>7, <2>8, <2>9
    DEF CacheInput
<1>3. ASSUME NEW p \in Procs,
             Signal(p) \/ RemoveTmpDir(p) \/ CleanupList(p) \/ CleanupRmdir(p)
             \/ Kill(p)
      PROVE  Intact(q)' /\ Cached(q)'
  BY <1>3 DEF Signal, RemoveTmpDir, CleanupList, CleanupRmdir, Kill
<1>4. ASSUME NEW p \in Procs, CleanupUnlink(p)
      PROVE  Intact(q)' /\ Cached(q)'
  \* The clean-up is that of a run that got a signal, and only its own.
  <2>1. p # q
    BY <1>4 DEF CleanupUnlink, interrupted
  <2> QED
    BY <1>4, <2>1 DEF CleanupUnlink
<1> QED
  BY <1>1, <1>2, <1>3, <1>4 DEF Next, CleanupCache

\* While no error of its own is dropped, the cache implements the
\* content-addressed store: a rename is a Put or a stutter, a step of the loop
\* over the inputs is an Ack, a signal interrupts the run that gets it, and no
\* other step is visible.
THEOREM ImplementsStore == NothingDropped => (Spec => StoreSpec)
<1> SUFFICES ASSUME NothingDropped PROVE Spec => StoreSpec
  OBVIOUS
<1>1. Init => SuccessInv /\ Store!Init
  <2> SUFFICES ASSUME Init PROVE SuccessInv /\ Store!Init
    OBVIOUS
  <2>1. \A p \in Procs : Returned(p) = {}
    <3> SUFFICES ASSUME NEW p \in Procs PROVE Returned(p) = {}
      OBVIOUS
    <3>1. DOMAIN Inputs[p] = 1 .. Len(Inputs[p]) /\ Len(Inputs[p]) \in Nat
      BY ConstantsAssumption, FirstPosition
    <3> QED
      BY <3>1 DEF Init, Returned
  <2>2. acked = {} /\ interrupted = {}
    BY <2>1 DEF acked, interrupted, Init
  <2> QED
    BY <2>2, InitSuccessInv DEF Init, Store!Init
<1>2. SuccessInv /\ [Next]_vars => SuccessInv'
  BY NextSuccessInv
<1>3. SuccessInv /\ [Next]_vars => [Store!Next]_<<cache, acked, interrupted>>
  <2> SUFFICES ASSUME SuccessInv, [Next]_vars
               PROVE  [Store!Next]_<<cache, acked, interrupted>>
    OBVIOUS
  <2>0. SafetyInv /\ TypeOK
    BY DEF SuccessInv, SafetyInv
  <2>1. ASSUME NEW p \in Procs, NextInput(p) \/ LastInput(p)
        PROVE  Store!Next
    <3>1. Sha(p) \in Shas /\ cache' = cache /\ interrupted' = interrupted
      BY <2>0, <2>1, InputPositions
      DEF NextInput, LastInput, Goto, Skip, TypeOK, Sha, interrupted
    <3>2. cache[Sha(p)] = Sha(p) \/ p \in interrupted
      BY <2>1 DEF SuccessInv, NextInput, LastInput, Goto, Skip
    <3>3. Returned(p)' = Returned(p) \cup {idx[p]}
      BY <2>0, <2>1, ReturnedChanges
    <3>4. ASSUME NEW q \in Procs, q # p PROVE Returned(q)' = Returned(q)
      <4>1. idx'[q] = idx[q] /\ pc'[q] = pc[q]
        BY <2>0, <2>1, <3>4 DEF NextInput, LastInput, Goto, Skip, TypeOK
      <4> QED
        BY <2>0, <4>1, ReturnedChanges
    <3>5. acked' = acked \cup {<<p, Sha(p)>>}
      BY <3>3, <3>4 DEF acked, Sha
    <3> QED
      BY <3>1, <3>2, <3>5 DEF Store!Next, Store!Ack
  <2>2. ASSUME \A p \in Procs :
                 idx'[p] = idx[p] /\ (pc'[p] = "done" <=> pc[p] = "done")
        PROVE  acked' = acked
    <3>1. \A p \in Procs : Returned(p)' = Returned(p)
      BY <2>0, <2>2, ReturnedChanges
    <3> QED
      BY <3>1 DEF acked
  <2>3. ASSUME NEW p \in Procs, Rename(p)
        PROVE  [Store!Next]_<<cache, acked, interrupted>>
    <3>1. acked' = acked
      BY <2>0, <2>2, <2>3, RenameIsPut
    <3>2. interrupted' = interrupted
      BY <2>3 DEF Rename, interrupted
    <3>3. CASE cache[Sha(p)] = Absent
      BY <2>0, <2>3, <3>1, <3>2, <3>3, RenameIsPut DEF Store!Next, Store!Put
    <3>4. CASE cache' = cache
      BY <3>1, <3>2, <3>4
    <3> QED
      BY <2>0, <2>3, <3>3, <3>4, RenameIsPut
  <2>4. ASSUME cache' = cache, acked' = acked
        PROVE  [Store!Next]_<<cache, acked, interrupted>>
    BY <2>0, <2>4, InterruptedChanges DEF Store!Next, Store!Interrupt
  <2> QED
    BY <2>0, <2>1, <2>2, <2>3, <2>4, StepKinds
<1> QED
  BY <1>1, <1>2, <1>3, PTL DEF Spec, StoreSpec, Store!Spec
=============================================================================
