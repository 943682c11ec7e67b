----------------------------- MODULE FileCache ------------------------------
(***************************************************************************)
(* pkg/filecache: the download cache ~/.cache/shenanigans/cache, shared by  *)
(* every run of the program, and the per-process download directory         *)
(* ~/.cache/shenanigans/tmp/<pid>.  A process is one run of NewUniverse     *)
(* (pkg/universe), from the moment its signal handler is installed to the   *)
(* end of the loop that calls CacheInput on each input.                     *)
(*                                                                          *)
(* One action per system call, since other processes, the signal handler    *)
(* of universe.go and the goroutines that TmpDir starts act in between.     *)
(* A file's content is identified with its sha256 sum.                      *)
(***************************************************************************)
EXTENDS Naturals, Sequences

CONSTANTS
  Procs,    \* runs of the program
  Shas,     \* the sums that inputs name
  Junk,     \* contents that no input names
  Empty,    \* the content of a file just created
  Absent,   \* "no such file"
  Inputs,   \* Inputs[p]: the sums of p's inputs, in order
  Serves,   \* Serves[s]: the contents the uri of input s may answer with
  Signalled, \* the runs that a signal may be sent to
  Faults    \* which of AllFaults may happen

\* "io": a file operation fails, and CacheInput looks at its error; "dropped": one
\* fails whose error it drops; "net": no connection, or one that breaks off.
AllFaults == {"io", "dropped", "net", "kill"}

Contents == Shas \cup Junk

ASSUME ConstantsAssumption ==
  /\ Shas \cap Junk = {}
  /\ Empty \in Junk
  /\ Absent \notin Contents
  /\ Inputs \in [Procs -> Seq(Shas)]
  /\ \A p \in Procs : Inputs[p] # << >>
  /\ Serves \in [Shas -> SUBSET Contents]
  /\ Signalled \subseteq Procs
  /\ Faults \subseteq AllFaults

\* Positions in an input list.  A call of CacheInput draws a fresh uuid for
\* its download, so the position names the file.
Slots == UNION {DOMAIN Inputs[p] : p \in Procs}

VARIABLES
  cache,     \* cache[s]: the content of cache/<s>
  pc,        \* pc[p]: the next step of p's main goroutine
  idx,       \* idx[p]: the input p is working on
  tmpdir,    \* tmpdir[p]: does tmp/<pid> exist
  tmp,       \* tmp[p][i]: the content of tmp/<pid>/<uuid of input i>
  armed,     \* armed[p]: goroutines of TmpDir waiting for a signal
  woken,     \* woken[p]: those that got it and have not yet removed the directory
  sweeper,   \* sweeper[p]: the goroutine of NewUniverse that runs CleanupCache
  listing    \* listing[p]: the files RemoveAll has listed and not yet unlinked

vars == <<cache, pc, idx, tmpdir, tmp, armed, woken, sweeper, listing>>

Main == {"stat", "mkdir", "create", "get", "copy", "sum", "restat",
         "rename", "return"}
Ended == {"done", "failed", "killed"}
SweeperStates == {"waiting", "woken", "unlinking", "over"}

TypeOK ==
  /\ cache \in [Shas -> Contents \cup {Absent}]
  /\ pc \in [Procs -> Main \cup Ended]
  /\ idx \in [Procs -> Slots]
  /\ \A p \in Procs : idx[p] \in 1 .. Len(Inputs[p])
  /\ tmpdir \in [Procs -> BOOLEAN]
  /\ tmp \in [Procs -> [Slots -> Contents \cup {Absent}]]
  /\ armed \in [Procs -> Nat]
  /\ woken \in [Procs -> Nat]
  /\ sweeper \in [Procs -> SweeperStates]
  /\ listing \in [Procs -> SUBSET Slots]

Sha(p) == Inputs[p][idx[p]]

Init ==
  /\ cache = [s \in Shas |-> Absent]
  /\ pc = [p \in Procs |-> "stat"]
  /\ idx = [p \in Procs |-> 1]
  /\ tmpdir = [p \in Procs |-> FALSE]
  /\ tmp = [p \in Procs |-> [i \in Slots |-> Absent]]
  /\ armed = [p \in Procs |-> 0]
  /\ woken = [p \in Procs |-> 0]
  /\ sweeper = [p \in Procs |-> "waiting"]
  /\ listing = [p \in Procs |-> {}]

-----------------------------------------------------------------------------
(* The main goroutine.                                                      *)

Goto(p, from, to) == pc[p] = from /\ pc' = [pc EXCEPT ![p] = to]

\* A step that only moves on.
Skip(p, from, to) ==
  /\ Goto(p, from, to)
  /\ UNCHANGED <<cache, idx, tmpdir, tmp, armed, woken, sweeper, listing>>

\* A process that ends, by an error, a panic or log.Fatal, ends all its
\* goroutines.
Fail(p, from) == Skip(p, from, "failed")

\* A call of TmpDir starts one more goroutine that waits for a signal.
CallTmpDir(p) == armed' = [armed EXCEPT ![p] = @ + 1]

\* Any answer but "does not exist" ends the call: a found file is taken as
\* it is, and an error leaves e nil, so that e.Size() panics.
StatFound(p) == cache[Sha(p)] # Absent /\ Skip(p, "stat", "return")

StatMissing(p) == cache[Sha(p)] = Absent /\ Skip(p, "stat", "mkdir")

StatError(p) == "io" \in Faults /\ Fail(p, "stat")

Mkdir(p) ==
  /\ Goto(p, "mkdir", "create")
  /\ tmpdir' = [tmpdir EXCEPT ![p] = TRUE]
  /\ CallTmpDir(p)
  /\ UNCHANGED <<cache, idx, tmp, woken, sweeper, listing>>

MkdirError(p) == "io" \in Faults /\ Fail(p, "mkdir")

Create(p) ==
  /\ tmpdir[p]
  /\ Goto(p, "create", "get")
  /\ tmp' = [tmp EXCEPT ![p][idx[p]] = Empty]
  /\ CallTmpDir(p)
  /\ UNCHANGED <<cache, idx, tmpdir, woken, sweeper, listing>>

\* A sweep may have removed the directory since Mkdir.
CreateError(p) == (~tmpdir[p] \/ "io" \in Faults) /\ Fail(p, "create")

Get(p) == Skip(p, "get", "copy")

\* http.Get failed: resp is nil and the deferred resp.Body.Close() panics.
GetError(p) == "net" \in Faults /\ Fail(p, "get")

\* The writes go to the open file, whether or not it still has a name.
Write(p, c) ==
  tmp' = [tmp EXCEPT ![p][idx[p]] = IF @ = Absent THEN Absent ELSE c]

\* Mutant: the download is moved into place before its sum is looked at.
CopyUnchecked(p) ==
  /\ Goto(p, "copy", "restat")
  /\ \E c \in Serves[Sha(p)] : Write(p, c)
  /\ UNCHANGED <<cache, idx, tmpdir, armed, woken, sweeper, listing>>

Copy(p) ==
  /\ Goto(p, "copy", "sum")
  /\ \E c \in Serves[Sha(p)] : Write(p, c)
  /\ UNCHANGED <<cache, idx, tmpdir, armed, woken, sweeper, listing>>

\* The connection or the disk gave out: what arrived so far stays behind.
CopyError(p) ==
  /\ Faults \cap {"net", "io"} # {}
  /\ Goto(p, "copy", "failed")
  /\ \E c \in Junk : Write(p, c)
  /\ UNCHANGED <<cache, idx, tmpdir, armed, woken, sweeper, listing>>

\* Mutant: any sum will do.
SumUnchecked(p) == tmp[p][idx[p]] # Absent /\ Skip(p, "sum", "restat")

SumMatches(p) == tmp[p][idx[p]] = Sha(p) /\ Skip(p, "sum", "restat")

\* Mutant: destFile is removed in place of dlFile.
SumDiffersRemovesDest(p) ==
  /\ tmp[p][idx[p]] \notin {Sha(p), Absent}
  /\ Goto(p, "sum", "failed")
  /\ cache' = [cache EXCEPT ![Sha(p)] = Absent]
  /\ UNCHANGED <<idx, tmpdir, tmp, armed, woken, sweeper, listing>>

\* The wrong content: remove the download and log.Fatal.
SumDiffers(p) ==
  /\ tmp[p][idx[p]] \notin {Sha(p), Absent}
  /\ Goto(p, "sum", "failed")
  /\ tmp' = [tmp EXCEPT ![p][idx[p]] = Absent]
  /\ UNCHANGED <<cache, idx, tmpdir, armed, woken, sweeper, listing>>

\* The file is gone, or cannot be read.
SumError(p) == (tmp[p][idx[p]] = Absent \/ "io" \in Faults) /\ Fail(p, "sum")

\* Someone else cached the file meanwhile; the download is left where it is.
\* An error of Stat other than "does not exist" is taken for the same answer.
RestatFound(p) ==
  /\ cache[Sha(p)] # Absent \/ "dropped" \in Faults
  /\ Skip(p, "restat", "return")

RestatMissing(p) == cache[Sha(p)] = Absent /\ Skip(p, "restat", "rename")

\* rename(2) replaces what it finds at the destination.
Rename(p) ==
  /\ tmp[p][idx[p]] # Absent
  /\ Goto(p, "rename", "return")
  /\ cache' = [cache EXCEPT ![Sha(p)] = tmp[p][idx[p]]]
  /\ tmp' = [tmp EXCEPT ![p][idx[p]] = Absent]
  /\ UNCHANGED <<idx, tmpdir, armed, woken, sweeper, listing>>

\* The error of os.Rename is not looked at: CacheInput returns nil.
RenameError(p) ==
  /\ tmp[p][idx[p]] = Absent \/ "dropped" \in Faults
  /\ Skip(p, "rename", "return")

\* Mutant: the loop runs past the last input.
NextInputPastEnd(p) ==
  /\ idx[p] <= Len(Inputs[p])
  /\ Goto(p, "return", "stat")
  /\ idx' = [idx EXCEPT ![p] = @ + 1]
  /\ UNCHANGED <<cache, tmpdir, tmp, armed, woken, sweeper, listing>>

\* Mutant: the loop does not advance.
NextInputAgain(p) == idx[p] < Len(Inputs[p]) /\ Skip(p, "return", "stat")

\* CacheInput returned nil: the loop of NewUniverse takes the next input.
NextInput(p) ==
  /\ idx[p] < Len(Inputs[p])
  /\ Goto(p, "return", "stat")
  /\ idx' = [idx EXCEPT ![p] = @ + 1]
  /\ UNCHANGED <<cache, tmpdir, tmp, armed, woken, sweeper, listing>>

LastInput(p) == idx[p] = Len(Inputs[p]) /\ Skip(p, "return", "done")

-----------------------------------------------------------------------------
(* Signals.  signal.Notify takes SIGINT and SIGTERM away from the default   *)
(* action: the process goes on while its goroutines clean up.               *)

Running(p) == pc[p] \notin Ended

\* Every goroutine that waits for a signal gets it.
Signal(p) ==
  /\ p \in Signalled
  /\ Running(p)
  /\ armed[p] > 0 \/ sweeper[p] = "waiting"
  /\ armed' = [armed EXCEPT ![p] = 0]
  /\ woken' = [woken EXCEPT ![p] = @ + armed[p]]
  /\ sweeper' = [sweeper EXCEPT ![p] = IF @ = "waiting" THEN "woken" ELSE @]
  /\ UNCHANGED <<cache, pc, idx, tmpdir, tmp, listing>>

IsEmptyDir(p) == \A i \in Slots : tmp[p][i] = Absent

\* os.Remove on a directory: it goes if it is empty.
Rmdir(p) == tmpdir' = [tmpdir EXCEPT ![p] = @ /\ ~IsEmptyDir(p)]

\* A goroutine of TmpDir.
RemoveTmpDir(p) ==
  /\ Running(p)
  /\ woken[p] > 0
  /\ woken' = [woken EXCEPT ![p] = @ - 1]
  /\ Rmdir(p)
  /\ UNCHANGED <<cache, pc, idx, tmp, armed, sweeper, listing>>

\* CleanupCache: os.RemoveAll(TmpDir()) lists the directory once, unlinks
\* what it listed and then tries to remove the directory.
CleanupList(p) ==
  /\ Running(p)
  /\ sweeper[p] = "woken"
  /\ sweeper' = [sweeper EXCEPT ![p] = "unlinking"]
  /\ listing' = [listing EXCEPT ![p] = {i \in Slots : tmp[p][i] # Absent}]
  /\ CallTmpDir(p)
  /\ UNCHANGED <<cache, pc, idx, tmpdir, tmp, woken>>

\* Mutant: the downloads of all runs are in one directory.
CleanupUnlinkShared(p) ==
  /\ Running(p)
  /\ sweeper[p] = "unlinking"
  /\ \E i \in listing[p] :
       /\ tmp' = [q \in Procs |-> [tmp[q] EXCEPT ![i] = Absent]]
       /\ listing' = [listing EXCEPT ![p] = @ \ {i}]
  /\ UNCHANGED <<cache, pc, idx, tmpdir, armed, woken, sweeper>>

CleanupUnlink(p) ==
  /\ Running(p)
  /\ sweeper[p] = "unlinking"
  /\ \E i \in listing[p] :
       /\ tmp' = [tmp EXCEPT ![p][i] = Absent]
       /\ listing' = [listing EXCEPT ![p] = @ \ {i}]
  /\ UNCHANGED <<cache, pc, idx, tmpdir, armed, woken, sweeper>>

CleanupRmdir(p) ==
  /\ Running(p)
  /\ sweeper[p] = "unlinking"
  /\ listing[p] = {}
  /\ sweeper' = [sweeper EXCEPT ![p] = "over"]
  /\ Rmdir(p)
  /\ UNCHANGED <<cache, pc, idx, tmp, armed, woken, listing>>

\* SIGKILL, or the machine's out-of-memory killer.
Kill(p) ==
  /\ "kill" \in Faults
  /\ Running(p)
  /\ pc' = [pc EXCEPT ![p] = "killed"]
  /\ UNCHANGED <<cache, idx, tmpdir, tmp, armed, woken, sweeper, listing>>

-----------------------------------------------------------------------------
CacheInput(p) ==
  \/ StatFound(p) \/ StatMissing(p) \/ StatError(p)
  \/ Mkdir(p) \/ MkdirError(p)
  \/ Create(p) \/ CreateError(p)
  \/ Get(p) \/ GetError(p)
  \/ Copy(p) \/ CopyError(p)
  \/ SumMatches(p) \/ SumDiffers(p) \/ SumError(p)
  \/ RestatFound(p) \/ RestatMissing(p)
  \/ Rename(p) \/ RenameError(p)
  \/ NextInput(p) \/ LastInput(p)

CleanupCache(p) == CleanupList(p) \/ CleanupUnlink(p) \/ CleanupRmdir(p)

Next ==
  \E p \in Procs :
    \/ CacheInput(p)
    \/ Signal(p) \/ RemoveTmpDir(p) \/ CleanupCache(p)
    \/ Kill(p)

Spec == Init /\ [][Next]_vars

\* The main goroutine runs on, except while it waits for a server: http.Get
\* has no timeout and nothing makes a server answer.
LocalFairness ==
  \A p \in Procs : WF_vars(pc[p] \notin {"get", "copy"} /\ CacheInput(p))

FairSpec == Spec /\ LocalFairness

-----------------------------------------------------------------------------
(* Properties.                                                              *)

\* Whatever fails and whoever interleaves, a file in the cache has the sum
\* that its name says: only a download whose sum was checked is renamed into
\* the cache (CacheInput), which is what later runs rely on when they take a
\* file they find there without looking inside.
CacheContentsValid == \A s \in Shas : cache[s] \in {Absent, s}

\* A cached file is never replaced by other content or lost: the window
\* between the second Stat and the Rename of CacheInput, in which another
\* process may rename its own download to the same place, is harmless.
CacheWriteOnce ==
  [][\A s \in Shas : cache[s] # Absent => cache'[s] = cache[s]]_vars

\* The inputs for which CacheInput has returned nil to p.
Returned(p) ==
  {i \in DOMAIN Inputs[p] : i < idx[p] \/ (i = idx[p] /\ pc[p] = "done")}

\* When CacheInput returns nil the input is in the cache, under its sum: what
\* its doc comment says ("and then moves the file to its sha256sum") and what
\* libvirt.Unit, which links the cached file, relies on.  It is not so: an
\* error of the Rename, or of the Stat before it, is dropped.
CachedOnSuccess ==
  \A p \in Procs : \A i \in Returned(p) : cache[Inputs[p][i]] = Inputs[p][i]

\* The cache implements the abstract content-addressed store.
acked == UNION {{<<p, Inputs[p][i]>> : i \in Returned(p)} : p \in Procs}

interrupted == {p \in Procs : sweeper[p] # "waiting"}

Store == INSTANCE ContentStore
           WITH Clients <- Procs, Keys <- Shas, None <- Absent,
                store <- cache, acked <- acked, interrupted <- interrupted

\* While no error is there to be dropped but that of a clean-up, every step of every process is a Put of
\* the right content under a free key, an acknowledgement of a key that is
\* cached or to a run that has been sent a signal, such a signal, or nothing a
\* client of the store can see.  The clean-up that one run's signal starts
\* never makes another run's nil a lie.
StoreSpec == Store!Spec

\* The loop over the inputs cannot spin: a run ends, unless a server keeps it
\* waiting for ever.
EndsUnlessServerHangs ==
  \A p \in Procs : <>[](pc[p] \in Ended \cup {"get", "copy"})
=============================================================================
