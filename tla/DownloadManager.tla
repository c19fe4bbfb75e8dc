--------------------------- MODULE DownloadManager --------------------------
(***************************************************************************)
(* download/download_manager.cc and platform/cross_process_file_lock.cc    *)
(* (with its POSIX half): processes that share a model cache download and  *)
(* remove models.  Inside a process one mutex serialises the downloads;    *)
(* between processes a file lock in each model's directory does, whose     *)
(* file its holder unlinks on release.                                     *)
(*                                                                         *)
(* A thread is a call.  The open file of the lock is an inode, which is    *)
(* free again when no path and no thread has it.  A model's directory is   *)
(* its signal file, its inference_model.json and its data, which stands    *)
(* for all the blobs.                                                      *)
(***************************************************************************)
EXTENDS Naturals, FiniteSets

CONSTANTS Threads, Processes,
          ProcessOf,         \* the process of each thread
          Models, Inodes,
          MaxCalls,          \* how many calls a thread makes (a bound)
          MaxCrashes,        \* how many processes may die (a bound)
          RemovalMayFail,    \* a removal may be interrupted half-way
          None

ASSUME ThreadAssumption == ProcessOf \in [Threads -> Processes]
ASSUME DownloadNoneAssumption == None \notin Threads \cup Models \cup Inodes
ASSUME BoundsAssumption ==
  MaxCalls \in Nat /\ MaxCrashes \in Nat /\ RemovalMayFail \in BOOLEAN

VARIABLES
  pc,        \* of each thread: its step
  model,     \* the model that its call is about
  removes,   \* the call is a RemoveModelFromCache
  fd,        \* the inode that it has opened
  calls,
  mutex,     \* of each process: the thread that holds download_mutex_
  path,      \* of each model: the inode at .download.lock
  signals,   \* the models with a download.tmp
  stamps,    \* the models with an inference_model.json
  data,      \* of each model: how much of its blobs is on disk
  crashes

calling == <<model, removes>>
disk == <<signals, stamps, data>>
vars == <<pc, calling, fd, calls, mutex, path, disk, crashes>>

Flocking == {"flocked", "held", "removing", "fetching", "fetched", "stamped",
             "leaving", "unlinked"}
Holding == Flocking \ {"flocked", "unlinked"}
Steps == Flocking \cup {"idle", "entered", "checking", "opening", "opened", "dead"}

\* Each variable has its type, and a call has the lock file open only between
\* its open and its close.
TypeOK ==
  /\ pc \in [Threads -> Steps]
  /\ model \in [Threads -> Models \cup {None}]
  /\ removes \in [Threads -> BOOLEAN]
  /\ fd \in [Threads -> Inodes \cup {None}]
  /\ calls \in [Threads -> 0 .. MaxCalls]
  /\ mutex \in [Processes -> Threads \cup {None}]
  /\ path \in [Models -> Inodes \cup {None}]
  /\ signals \subseteq Models
  /\ stamps \subseteq Models
  /\ data \in [Models -> {"none", "part", "whole"}]
  /\ crashes \in 0 .. MaxCrashes
  /\ \A t \in Threads : fd[t] # None <=> pc[t] \in Flocking \cup {"opened"}

Init ==
  /\ pc = [t \in Threads |-> "idle"]
  /\ model = [t \in Threads |-> None]
  /\ removes = [t \in Threads |-> FALSE]
  /\ fd = [t \in Threads |-> None]
  /\ calls = [t \in Threads |-> 0]
  /\ mutex = [p \in Processes |-> None]
  /\ path = [m \in Models |-> None]
  /\ signals = {}
  /\ stamps = {}
  /\ data = [m \in Models |-> "none"]
  /\ crashes = 0

-----------------------------------------------------------------------------
Moves(t, from, to) == pc[t] = from /\ pc' = [pc EXCEPT ![t] = to]

MutexOf(t) == mutex[ProcessOf[t]]
HasMutex(t) == MutexOf(t) = t
TakesMutex(t) == MutexOf(t) = None /\ mutex' = [mutex EXCEPT ![ProcessOf[t]] = t]
DropsMutex(t) == mutex' = [p \in Processes |-> IF mutex[p] = t THEN None ELSE mutex[p]]

Free(i) == (\A m \in Models : path[m] # i) /\ (\A t \in Threads : fd[t] # i)
FreshInode == CHOOSE i \in Inodes : Free(i)

\* The flock on an inode belongs to the thread's open file.
HasFlock(t) == pc[t] \in Flocking
Holds(t) == pc[t] \in Holding
Removing(m) == \E t \in Threads : pc[t] = "removing" /\ model[t] = m

\* A hit: the metadata is there, and no signal of a download in progress.
CacheHit(m) == m \in stamps /\ m \notin signals

-----------------------------------------------------------------------------
(* CrossProcessFileLock::TryAcquireForDirectory and its destructor.        *)

\* open with O_CREAT.
Open(t) ==
  /\ Moves(t, "opening", "opened")
  /\ \/ /\ path[model[t]] # None
        /\ fd' = [fd EXCEPT ![t] = path[model[t]]]
        /\ UNCHANGED path
     \/ /\ path[model[t]] = None
        /\ \E i \in Inodes : Free(i)
        /\ fd' = [fd EXCEPT ![t] = FreshInode]
        /\ path' = [path EXCEPT ![model[t]] = FreshInode]
  /\ UNCHANGED <<calling, calls, mutex, disk, crashes>>

\* Without the lock a removal throws; a download unlocks the mutex, if it has it
\* still, and polls.
Contended(t) ==
  /\ DropsMutex(t)
  /\ pc' = [pc EXCEPT ![t] = IF removes[t] THEN "idle" ELSE "opening"]

Unlocked(i) == \A u \in Threads : HasFlock(u) => fd[u] # i

Flock(t) ==
  \/ /\ Moves(t, "opened", "flocked")
     /\ Unlocked(fd[t])
     /\ UNCHANGED <<calling, fd, calls, mutex, path, disk, crashes>>
  \/ /\ pc[t] = "opened"
     /\ ~Unlocked(fd[t])
     /\ Contended(t)
     /\ fd' = [fd EXCEPT ![t] = None]
     /\ UNCHANGED <<calling, calls, path, disk, crashes>>

\* Mutant: what has been locked is not compared with what is at the path.
NotCompared(t) == TRUE
SameInode(t) == path[model[t]] = fd[t]

\* Mutant: an orphan is given up without being closed.
LeaksOrphan(t) ==
  /\ pc[t] = "flocked"
  /\ IF SameInode(t) THEN pc' = [pc EXCEPT ![t] = "held"] /\ UNCHANGED mutex ELSE Contended(t)
  /\ UNCHANGED <<calling, fd, calls, path, disk, crashes>>
CheckInode(t) ==
  \/ /\ Moves(t, "flocked", "held")
     /\ SameInode(t)
     /\ UNCHANGED <<calling, fd, calls, mutex, path, disk, crashes>>
  \/ /\ pc[t] = "flocked"
     /\ ~SameInode(t)
     /\ Contended(t)
     /\ fd' = [fd EXCEPT ![t] = None]
     /\ UNCHANGED <<calling, calls, path, disk, crashes>>

\* The destructor unlinks the file at the path and closes its own after that;
\* the mutex, if the call has it, goes last.
Unlink(t) ==
  /\ Moves(t, "leaving", "unlinked")
  /\ path' = [path EXCEPT ![model[t]] = None]
  /\ UNCHANGED <<calling, fd, calls, mutex, disk, crashes>>
Close(t) ==
  /\ Moves(t, "unlinked", "idle")
  /\ fd' = [fd EXCEPT ![t] = None]
  /\ DropsMutex(t)
  /\ UNCHANGED <<calling, calls, path, disk, crashes>>

-----------------------------------------------------------------------------
(* DownloadManager::DownloadModel.                                         *)

Begins(t, m, removal, to) ==
  /\ Moves(t, "idle", to)
  /\ calls[t] < MaxCalls
  /\ calls' = [calls EXCEPT ![t] = @ + 1]
  /\ model' = [model EXCEPT ![t] = m]
  /\ removes' = [removes EXCEPT ![t] = removal]
  /\ UNCHANGED <<fd, mutex, path, disk, crashes>>

DownloadModel(t) == \E m \in Models : Begins(t, m, FALSE, "entered")

LockMutex(t) ==
  /\ Moves(t, "entered", "checking")
  /\ TakesMutex(t)
  /\ UNCHANGED <<calling, fd, calls, path, disk, crashes>>

\* Mutant: a cached model is answered with the mutex locked.
AnswersLocked(t) ==
  /\ \/ CacheHit(model[t]) /\ Moves(t, "checking", "idle")
     \/ ~CacheHit(model[t]) /\ Moves(t, "checking", "opening")
  /\ UNCHANGED <<calling, fd, calls, mutex, path, disk, crashes>>
\* The fast path answers without the file lock.
FastPath(t) ==
  /\ \/ CacheHit(model[t]) /\ Moves(t, "checking", "idle") /\ DropsMutex(t)
     \/ ~CacheHit(model[t]) /\ Moves(t, "checking", "opening") /\ UNCHANGED mutex
  /\ UNCHANGED <<calling, fd, calls, path, disk, crashes>>

\* While it polls, the caller may cancel the wait, or it times out.
GiveUp(t) ==
  /\ ~HasMutex(t) /\ ~removes[t]
  /\ Moves(t, "opening", "idle")
  /\ UNCHANGED <<calling, fd, calls, mutex, path, disk, crashes>>

\* With the file lock at last, the mutex is locked again.
Relock(t) ==
  /\ pc[t] = "held" /\ ~removes[t]
  /\ TakesMutex(t)
  /\ UNCHANGED <<pc, calling, fd, calls, path, disk, crashes>>

\* Mutant: the cache is not looked at again.
SignalsAtOnce(t) ==
  /\ HasMutex(t) /\ ~removes[t]
  /\ Moves(t, "held", "fetching")
  /\ signals' = signals \cup {model[t]}
  /\ UNCHANGED <<calling, fd, calls, mutex, path, stamps, data, crashes>>
\* Another process may have completed the download by now; or it begins here.
Recheck(t) ==
  /\ HasMutex(t) /\ ~removes[t]
  /\ \/ CacheHit(model[t]) /\ Moves(t, "held", "leaving") /\ UNCHANGED signals
     \/ /\ ~CacheHit(model[t])
        /\ Moves(t, "held", "fetching")
        /\ signals' = signals \cup {model[t]}
  /\ UNCHANGED <<calling, fd, calls, mutex, path, stamps, data, crashes>>

\* The blobs arrive one after the other; what an earlier call left is kept.
FetchSome(t) ==
  /\ pc[t] = "fetching" /\ data[model[t]] = "none"
  /\ data' = [data EXCEPT ![model[t]] = "part"]
  /\ UNCHANGED <<pc, calling, fd, calls, mutex, path, signals, stamps, crashes>>

\* Mutant: an exception of DownloadBlobsToDirectory is swallowed.
FetchedAnyway(t) ==
  /\ Moves(t, "fetching", "fetched")
  /\ UNCHANGED <<calling, fd, calls, mutex, path, disk, crashes>>
FetchRest(t) ==
  /\ Moves(t, "fetching", "fetched")
  /\ data[model[t]] # "none"
  /\ data' = [data EXCEPT ![model[t]] = "whole"]
  /\ UNCHANGED <<calling, fd, calls, mutex, path, signals, stamps, crashes>>

WriteInferenceModelJson(t) ==
  /\ Moves(t, "fetched", "stamped")
  /\ stamps' = stamps \cup {model[t]}
  /\ UNCHANGED <<calling, fd, calls, mutex, path, signals, data, crashes>>

RemoveSignal(t) ==
  /\ Moves(t, "stamped", "leaving")
  /\ signals' = signals \ {model[t]}
  /\ UNCHANGED <<calling, fd, calls, mutex, path, stamps, data, crashes>>

\* Any of these steps may throw, or the caller cancel; the signal file stays.
DownloadFails(t) ==
  /\ \E s \in {"fetching", "fetched", "stamped"} : Moves(t, s, "leaving")
  /\ UNCHANGED <<calling, fd, calls, mutex, path, disk, crashes>>

-----------------------------------------------------------------------------
(* DownloadManager::RemoveModelFromCache.                                  *)

RemoveModelFromCache(t) ==
  \E m \in Models :
    /\ CacheHit(m) \/ m \in signals \/ data[m] # "none"
    /\ Begins(t, m, TRUE, "opening")

\* A loaded model refuses; otherwise every entry but the lock file is removed,
\* in the order of the directory.
BeginRemoval(t) ==
  /\ removes[t]
  /\ Moves(t, "held", "removing") \/ Moves(t, "held", "leaving")
  /\ UNCHANGED <<calling, fd, calls, mutex, path, disk, crashes>>

RemoveEntry(t) ==
  LET m == model[t] IN
  /\ pc[t] = "removing"
  /\ \/ m \in signals /\ signals' = signals \ {m} /\ UNCHANGED <<stamps, data>>
     \/ m \in stamps /\ stamps' = stamps \ {m} /\ UNCHANGED <<signals, data>>
     \/ data[m] = "part" /\ data' = [data EXCEPT ![m] = "none"] /\ UNCHANGED <<signals, stamps>>
     \/ data[m] = "whole"
        /\ \E rest \in {"part", "none"} : data' = [data EXCEPT ![m] = rest]
        /\ UNCHANGED <<signals, stamps>>
  /\ UNCHANGED <<pc, calling, fd, calls, mutex, path, crashes>>

\* The loop is through, or remove_all throws in the midst of it.
EndRemoval(t) ==
  LET m == model[t] IN
  /\ Moves(t, "removing", "leaving")
  /\ RemovalMayFail \/ (m \notin signals /\ m \notin stamps /\ data[m] = "none")
  /\ UNCHANGED <<calling, fd, calls, mutex, path, disk, crashes>>

\* A process dies: its files are closed, and the lock files stay.
Crash(p) ==
  LET Its(t) == ProcessOf[t] = p IN
  /\ crashes < MaxCrashes /\ crashes' = crashes + 1
  /\ RemovalMayFail \/ \A t \in Threads : Its(t) => pc[t] # "removing"
  /\ pc' = [t \in Threads |-> IF Its(t) THEN "dead" ELSE pc[t]]
  /\ fd' = [t \in Threads |-> IF Its(t) THEN None ELSE fd[t]]
  /\ mutex' = [mutex EXCEPT ![p] = None]
  /\ UNCHANGED <<calling, calls, path, disk>>

-----------------------------------------------------------------------------
\* The steps that a call takes by itself.
Proceed(t) ==
  \/ LockMutex(t) \/ FastPath(t)
  \/ Open(t) \/ Flock(t) \/ CheckInode(t) \/ Unlink(t) \/ Close(t)
  \/ Relock(t) \/ Recheck(t)
  \/ FetchSome(t) \/ FetchRest(t) \/ WriteInferenceModelJson(t) \/ RemoveSignal(t)
  \/ BeginRemoval(t) \/ RemoveEntry(t) \/ EndRemoval(t)

ThreadNext(t) ==
  \/ Proceed(t)
  \/ DownloadModel(t) \/ RemoveModelFromCache(t)
  \/ GiveUp(t) \/ DownloadFails(t)

Next == (\E t \in Threads : ThreadNext(t)) \/ (\E p \in Processes : Crash(p))

Spec == Init /\ [][Next]_vars
FairSpec == Spec /\ \A t \in Threads : WF_vars(Proceed(t))

-----------------------------------------------------------------------------
(***************************************************************************)
(* Two calls never both hold the lock of one model, although the lock file *)
(* comes and goes under those that have opened it: whoever locks an inode  *)
(* that has been unlinked notices it.                                      *)
(***************************************************************************)
LockExclusive ==
  \A t, u \in Threads : Holds(t) /\ Holds(u) /\ model[t] = model[u] => t = u

(***************************************************************************)
(* What the cache serves is complete.  (A removal takes a model away from  *)
(* under those that find it; the code says so and leaves it to the caller.)*)
(* "inference_model.json ... is the definitive proof that a download       *)
(* completed successfully."                                                *)
(***************************************************************************)
HitIsWhole == \A m \in Models : CacheHit(m) /\ ~Removing(m) => data[m] = "whole"

(***************************************************************************)
(* A cached model stays cached until it is removed: a download that waited *)
(* for the one that completed it does not open it again.                   *)
(***************************************************************************)
StaysCached ==
  [][\A m \in Models : CacheHit(m) /\ ~CacheHit(m)' => Removing(m)]_vars

(***************************************************************************)
(* Every call returns: the mutex and the file locks are taken in either    *)
(* order, but no call waits for a file lock with the mutex held.           *)
(***************************************************************************)
EveryCallReturns == <>[](\A t \in Threads : pc[t] \in {"idle", "dead"})
=============================================================================
