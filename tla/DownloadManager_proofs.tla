----------------------- MODULE DownloadManager_proofs -----------------------
(***************************************************************************)
(* Proofs about DownloadManager, for any threads, processes, models and    *)
(* bounds.  That the lock excludes rests on two facts: an inode has one    *)
(* flock, and the inode of a holder is the one at the path of its model.   *)
(* A release unlinks the path, but only a holder does, and it is alone.    *)
(***************************************************************************)
EXTENDS DownloadManager, TLAPS

USE ThreadAssumption, DownloadNoneAssumption, BoundsAssumption

\* A call that is under way is about a model.
ModelKnown == \A t \in Threads : pc[t] \notin {"idle", "dead"} => model[t] \in Models

\* flock excludes, inode by inode.
FlockUnique ==
  \A t, u \in Threads : HasFlock(t) /\ HasFlock(u) /\ fd[t] = fd[u] => t = u

\* The file of a holder is still the one that others will open.
HolderAtPath == \A t \in Threads : Holds(t) => path[model[t]] = fd[t]

LockInv == TypeOK /\ ModelKnown /\ FlockUnique /\ HolderAtPath

-----------------------------------------------------------------------------
\* The lock excludes in every state that the invariant describes.
LEMMA Exclusion == LockInv => LockExclusive
BY DEF LockInv, LockExclusive, FlockUnique, HolderAtPath, HasFlock, Holds, Holding

\* An inode that is free when it is created is nobody's.
LEMMA FreshFacts ==
  ASSUME \E i \in Inodes : Free(i)
  PROVE  FreshInode \in Inodes /\ Free(FreshInode)
BY DEF FreshInode

LEMMA LockInit == Init => LockInv
BY DEF Init, LockInv, TypeOK, ModelKnown, FlockUnique, HolderAtPath, HasFlock,
       Holds, Holding, Flocking, Steps

-----------------------------------------------------------------------------
\* Where the steps of a call lead to is a step, and the mutex stays well typed.
LEMMA MutexFacts ==
  ASSUME TypeOK, NEW t \in Threads
  PROVE  /\ TakesMutex(t) => mutex' \in [Processes -> Threads \cup {None}]
         /\ DropsMutex(t) => mutex' \in [Processes -> Threads \cup {None}]
         /\ Contended(t) => /\ mutex' \in [Processes -> Threads \cup {None}]
                            /\ \E s \in {"idle", "opening"} : pc' = [pc EXCEPT ![t] = s]
BY DEF TypeOK, TakesMutex, DropsMutex, Contended, MutexOf

LEMMA TypeStep ==
  ASSUME TypeOK, ModelKnown, [Next]_vars
  PROVE  TypeOK'
<1> USE DEF TypeOK, ModelKnown, Moves, Steps, Flocking, vars, calling, disk
<1>1. CASE UNCHANGED vars
  BY <1>1
<1>2. ASSUME NEW p \in Processes, Crash(p)
      PROVE  TypeOK'
  BY <1>2 DEF Crash
<1>3. ASSUME NEW t \in Threads, ThreadNext(t)
      PROVE  TypeOK'
  <2>1. CASE DownloadModel(t)
    BY <2>1 DEF DownloadModel, Begins
  <2>2. CASE RemoveModelFromCache(t)
    BY <2>2 DEF RemoveModelFromCache, Begins
  <2>3. CASE LockMutex(t)
    BY <2>3, MutexFacts DEF LockMutex
  <2>4. CASE FastPath(t)
    BY <2>4, MutexFacts DEF FastPath
  <2>5. CASE Open(t)
    BY <2>5, FreshFacts DEF Open
  <2>6. CASE Flock(t)
    BY <2>6, MutexFacts DEF Flock
  <2>7. CASE CheckInode(t)
    BY <2>7, MutexFacts DEF CheckInode
  <2>8. CASE Unlink(t)
    BY <2>8 DEF Unlink
  <2>9. CASE Close(t)
    BY <2>9, MutexFacts DEF Close
  <2>10. CASE GiveUp(t)
    BY <2>10 DEF GiveUp
  <2>11. CASE Relock(t)
    BY <2>11, MutexFacts DEF Relock
  <2>12. CASE Recheck(t)
    BY <2>12 DEF Recheck
  <2>13. CASE FetchSome(t)
    BY <2>13 DEF FetchSome
  <2>14. CASE FetchRest(t)
    BY <2>14 DEF FetchRest
  <2>15. CASE WriteInferenceModelJson(t)
    BY <2>15 DEF WriteInferenceModelJson
  <2>16. CASE RemoveSignal(t)
    BY <2>16 DEF RemoveSignal
  <2>17. CASE DownloadFails(t)
    BY <2>17 DEF DownloadFails
  <2>18. CASE BeginRemoval(t)
    BY <2>18 DEF BeginRemoval
  <2>19. CASE RemoveEntry(t)
    BY <2>19 DEF RemoveEntry
  <2>20. CASE EndRemoval(t)
    BY <2>20 DEF EndRemoval
  <2> QED
    BY <1>3, <2>1, <2>2, <2>3, <2>4, <2>5, <2>6, <2>7, <2>8, <2>9, <2>10, <2>11, <2>12,
       <2>13, <2>14, <2>15, <2>16, <2>17, <2>18, <2>19, <2>20
    DEF ThreadNext, Proceed
<1> QED
  BY <1>1, <1>2, <1>3 DEF Next

-----------------------------------------------------------------------------
LockFacts == ModelKnown /\ FlockUnique /\ HolderAtPath

\* A holder that goes on holding disturbs nothing.
LEMMA HolderStep ==
  ASSUME LockInv, NEW t \in Threads, Holds(t),
         pc' = pc \/ \E s \in Holding : pc' = [pc EXCEPT ![t] = s],
         UNCHANGED <<model, fd, path>>
  PROVE  LockFacts'
BY DEF LockInv, LockFacts, TypeOK, ModelKnown, FlockUnique, HolderAtPath, HasFlock,
       Holds, Holding, Flocking

\* Nor does a call that has no flock before and after the step, and leaves the
\* paths that exist alone.
LEMMA OutsiderStep ==
  ASSUME LockInv, NEW t \in Threads, NEW s \in Steps \ Flocking,
         ~HasFlock(t),
         pc' = [pc EXCEPT ![t] = s],
         s \notin {"idle", "dead"} => model'[t] \in Models,
         \A u \in Threads \ {t} : model'[u] = model[u] /\ fd'[u] = fd[u],
         \A m \in Models : path[m] # None => path'[m] = path[m]
  PROVE  LockFacts'
<1> USE DEF LockInv, TypeOK, HasFlock, Holds, Holding, Flocking, Steps
<1>1. ModelKnown'
  BY DEF ModelKnown
<1>2. FlockUnique'
  BY DEF FlockUnique
<1>3. HolderAtPath'
  <2> SUFFICES ASSUME NEW u \in Threads, Holds(u)' PROVE path'[model'[u]] = fd'[u]
    BY DEF HolderAtPath
  <2>1. u # t /\ Holds(u)
    OBVIOUS
  <2>2. path[model[u]] = fd[u] /\ fd[u] # None /\ model[u] \in Models
    BY <2>1 DEF HolderAtPath, ModelKnown
  <2> QED
    BY <2>1, <2>2
<1> QED
  BY <1>1, <1>2, <1>3 DEF LockFacts

\* A call that closes its file.
LEMMA ClosingStep ==
  ASSUME LockInv, NEW t \in Threads, NEW s \in {"idle", "opening"},
         pc[t] \notin {"idle", "dead"},
         pc' = [pc EXCEPT ![t] = s], fd' = [fd EXCEPT ![t] = None],
         UNCHANGED <<model, path>>
  PROVE  LockFacts'
BY DEF LockInv, LockFacts, TypeOK, ModelKnown, FlockUnique, HolderAtPath, HasFlock,
       Holds, Holding, Flocking

LEMMA LockStep == LockInv /\ [Next]_vars => LockInv'
<1> SUFFICES ASSUME LockInv, [Next]_vars PROVE LockFacts'
  BY TypeStep DEF LockInv, LockFacts
<1> USE DEF Moves, calling, disk
<1>1. CASE UNCHANGED vars
  BY <1>1 DEF vars, LockInv, LockFacts, ModelKnown, FlockUnique, HolderAtPath, HasFlock, Holds
<1>2. ASSUME NEW p \in Processes, Crash(p)
      PROVE  LockFacts'
  BY <1>2 DEF Crash, LockInv, LockFacts, TypeOK, ModelKnown, FlockUnique, HolderAtPath,
              HasFlock, Holds, Holding, Flocking
<1>3. ASSUME NEW t \in Threads, ThreadNext(t)
      PROVE  LockFacts'
  <2>1. CASE DownloadModel(t) \/ RemoveModelFromCache(t) \/ LockMutex(t) \/ GiveUp(t)
    BY <2>1, OutsiderStep DEF DownloadModel, RemoveModelFromCache, Begins, LockMutex, GiveUp,
       LockInv, TypeOK, ModelKnown, HasFlock, Flocking, Steps
  <2>2. CASE FastPath(t)
    BY <2>2, OutsiderStep DEF FastPath, LockInv, TypeOK, ModelKnown, HasFlock, Flocking, Steps
  <2>3. CASE Open(t)
    <3>1. /\ pc' = [pc EXCEPT ![t] = "opened"] /\ ~HasFlock(t)
          /\ model[t] \in Models /\ model' = model
      BY <2>3 DEF Open, LockInv, ModelKnown, HasFlock, Flocking
    <3>2. \A u \in Threads \ {t} : fd'[u] = fd[u]
      BY <2>3 DEF Open, LockInv, TypeOK
    <3>3. \A m \in Models : path[m] # None => path'[m] = path[m]
      BY <2>3 DEF Open, LockInv, TypeOK
    <3> QED
      BY <3>1, <3>2, <3>3, OutsiderStep DEF Steps, Flocking
  <2>4. CASE Flock(t)
    <3>1. CASE ~Unlocked(fd[t])
      BY <2>4, <3>1, MutexFacts, ClosingStep DEF Flock, LockInv
    <3>2. CASE Unlocked(fd[t])
      BY <2>4, <3>2 DEF Flock, Unlocked, LockInv, LockFacts, TypeOK, ModelKnown, FlockUnique,
         HolderAtPath, HasFlock, Holds, Holding, Flocking
    <3> QED
      BY <3>1, <3>2
  <2>5. CASE CheckInode(t)
    <3>1. CASE ~SameInode(t)
      BY <2>5, <3>1, MutexFacts, ClosingStep DEF CheckInode, LockInv
    <3>2. CASE SameInode(t)
      BY <2>5, <3>2 DEF CheckInode, SameInode, LockInv, LockFacts, TypeOK, ModelKnown, FlockUnique,
         HolderAtPath, HasFlock, Holds, Holding, Flocking
    <3> QED
      BY <3>1, <3>2
  <2>6. CASE Unlink(t)
    <3>1. \A u \in Threads \ {t} : Holds(u) => model[u] # model[t]
      BY <2>6, Exclusion DEF Unlink, LockExclusive, Holds, Holding, Flocking
    <3> QED
      BY <2>6, <3>1 DEF Unlink, LockInv, LockFacts, TypeOK, ModelKnown, FlockUnique,
         HolderAtPath, HasFlock, Holds, Holding, Flocking
  <2>7. CASE Close(t)
    BY <2>7, ClosingStep DEF Close
  <2>8. CASE Relock(t) \/ Recheck(t) \/ FetchSome(t) \/ FetchRest(t)
    BY <2>8, HolderStep DEF Relock, Recheck, FetchSome, FetchRest, Holds, Holding, Flocking
  <2>9. CASE WriteInferenceModelJson(t) \/ RemoveSignal(t) \/ DownloadFails(t)
    BY <2>9, HolderStep DEF WriteInferenceModelJson, RemoveSignal, DownloadFails,
       Holds, Holding, Flocking
  <2>10. CASE BeginRemoval(t) \/ RemoveEntry(t) \/ EndRemoval(t)
    BY <2>10, HolderStep DEF BeginRemoval, RemoveEntry, EndRemoval,
       Holds, Holding, Flocking
  <2> QED
    BY <1>3, <2>1, <2>2, <2>3, <2>4, <2>5, <2>6, <2>7, <2>8, <2>9, <2>10
    DEF ThreadNext, Proceed
<1> QED
  BY <1>1, <1>2, <1>3 DEF Next

-----------------------------------------------------------------------------
THEOREM Invariant == Spec => []LockInv
BY LockInit, LockStep, PTL DEF Spec

(***************************************************************************)
(* The state of the calls, the mutexes and the directories has its type,   *)
(* and a call has the lock file open only between its open and its close.  *)
(***************************************************************************)
THEOREM TypeCorrect == Spec => []TypeOK
BY Invariant, PTL DEF LockInv

(***************************************************************************)
(* At most one call holds the lock of a model's directory, whatever order  *)
(* opens, flocks, unlinks, closes and crashes of its processes come in.    *)
(***************************************************************************)
THEOREM Exclusive == Spec => []LockExclusive
<1>1. LockInv => LockExclusive
  BY Exclusion
<1> QED
  BY <1>1, Invariant, PTL

(***************************************************************************)
(* A cached model stays cached until it is removed.                        *)
(***************************************************************************)
THEOREM CachedStaysCached == Spec => StaysCached
<1>1. [Next]_vars => [\A m \in Models : CacheHit(m) /\ ~CacheHit(m)' => Removing(m)]_vars
  <2> SUFFICES ASSUME Next, NEW m \in Models, CacheHit(m), ~CacheHit(m)'
               PROVE  Removing(m)
    OBVIOUS
  <2> USE DEF CacheHit, Moves, calling, disk
  <2>1. PICK t \in Threads : ThreadNext(t)
    BY DEF Next, Crash
  <2>2. RemoveEntry(t) => Removing(m)
    BY DEF RemoveEntry, Removing
  <2>3. ~Recheck(t) /\ ~RemoveSignal(t) /\ ~WriteInferenceModelJson(t)
    BY DEF Recheck, RemoveSignal, WriteInferenceModelJson
  <2> QED
    BY <2>1, <2>2, <2>3 DEF ThreadNext, Proceed, DownloadModel, RemoveModelFromCache, Begins,
       LockMutex, FastPath, Open, Flock, CheckInode, Unlink, Close, GiveUp, Relock, FetchSome,
       FetchRest, DownloadFails, BeginRemoval, EndRemoval
<1> QED
  BY <1>1, PTL DEF Spec, StaysCached

-----------------------------------------------------------------------------
\* A download that is past its blobs has them all, and so has a model with its
\* metadata unless somebody is removing it.
DoneWhole ==
  \A t \in Threads : pc[t] \in {"fetched", "stamped"} => data[model[t]] = "whole"
StampedWhole == \A m \in Models : m \in stamps /\ ~Removing(m) => data[m] = "whole"
WholeInv == DoneWhole /\ StampedWhole

\* Only the holder of a model is past its blobs, or removes it.
LEMMA HolderAlone ==
  ASSUME LockInv, NEW t \in Threads, Holds(t), NEW u \in Threads \ {t},
         pc[u] \in {"fetched", "stamped", "removing"}
  PROVE  model[u] # model[t]
BY Exclusion DEF LockExclusive, Holds, Holding, Flocking

\* A step of a call that touches neither the metadata nor the data.
LEMMA SilentStep ==
  ASSUME TypeOK, WholeInv, NEW t \in Threads, NEW s \in Steps \ {"fetched", "stamped"},
         pc[t] # "removing",
         pc' = pc \/ pc' = [pc EXCEPT ![t] = s],
         \A u \in Threads \ {t} : model'[u] = model[u],
         pc' = pc \/ s = "removing" => model' = model,
         UNCHANGED <<stamps, data>>
  PROVE  WholeInv'
<1> USE DEF TypeOK
<1>1. DoneWhole'
  BY DEF WholeInv, DoneWhole
<1>2. ASSUME NEW m \in Models, Removing(m) PROVE Removing(m)'
  BY <1>2 DEF Removing
<1> QED
  BY <1>1, <1>2 DEF WholeInv, StampedWhole

LEMMA WholeStep ==
  ASSUME ~RemovalMayFail, LockInv, WholeInv, [Next]_vars
  PROVE  WholeInv'
<1> USE DEF LockInv, TypeOK, ModelKnown, Moves, calling, disk
<1>1. CASE UNCHANGED vars
  BY <1>1 DEF vars, WholeInv, DoneWhole, StampedWhole, Removing
<1>2. ASSUME NEW p \in Processes, Crash(p)
      PROVE  WholeInv'
  <2>1. \A m \in Models : Removing(m) => Removing(m)'
    BY <1>2 DEF Crash, Removing
  <2> QED
    BY <1>2, <2>1 DEF Crash, WholeInv, DoneWhole, StampedWhole
<1>3. ASSUME NEW t \in Threads, ThreadNext(t)
      PROVE  WholeInv'
  <2>1. CASE DownloadModel(t) \/ RemoveModelFromCache(t) \/ LockMutex(t) \/ FastPath(t) \/ GiveUp(t)
    BY <2>1, SilentStep DEF DownloadModel, RemoveModelFromCache, Begins, LockMutex, FastPath,
       GiveUp, Steps, Flocking
  <2>2. CASE Open(t) \/ Unlink(t) \/ Close(t) \/ Relock(t)
    BY <2>2, SilentStep DEF Open, Unlink, Close, Relock, Steps, Flocking
  <2>3. CASE Flock(t) \/ CheckInode(t)
    BY <2>3, SilentStep, MutexFacts DEF Flock, CheckInode, Steps, Flocking
  <2>4. CASE Recheck(t) \/ DownloadFails(t) \/ BeginRemoval(t) \/ RemoveSignal(t)
    BY <2>4, SilentStep DEF Recheck, DownloadFails, BeginRemoval, RemoveSignal, Steps, Flocking
  <2>5. CASE FetchSome(t)
    <3>1. \A m \in Models : Removing(m) <=> Removing(m)'
      BY <2>5 DEF FetchSome, Removing
    <3>2. model[t] \notin stamps \/ Removing(model[t])
      BY <2>5 DEF FetchSome, WholeInv, StampedWhole
    <3>3. DoneWhole'
      BY <2>5, HolderAlone DEF FetchSome, WholeInv, DoneWhole, Holds, Holding, Flocking
    <3> QED
      BY <2>5, <3>1, <3>2, <3>3 DEF FetchSome, WholeInv, StampedWhole
  <2>6. CASE FetchRest(t)
    <3>1. \A m \in Models : Removing(m) <=> Removing(m)'
      BY <2>6 DEF FetchRest, Removing
    <3> QED
      BY <2>6, <3>1 DEF FetchRest, WholeInv, DoneWhole, StampedWhole
  <2>7. CASE WriteInferenceModelJson(t)
    <3>1. \A m \in Models : Removing(m) <=> Removing(m)'
      BY <2>7 DEF WriteInferenceModelJson, Removing
    <3> QED
      BY <2>7, <3>1 DEF WriteInferenceModelJson, WholeInv, DoneWhole, StampedWhole
  <2>8. CASE RemoveEntry(t)
    <3>1. /\ \A m \in Models : Removing(m) <=> Removing(m)'
          /\ Removing(model[t])
      BY <2>8 DEF RemoveEntry, Removing
    <3>2. DoneWhole'
      BY <2>8, HolderAlone DEF RemoveEntry, WholeInv, DoneWhole, Holds, Holding, Flocking
    <3>3. \A m \in Models \ {model[t]} : data'[m] = data[m] /\ (m \in stamps' <=> m \in stamps)
      BY <2>8 DEF RemoveEntry
    <3> QED
      BY <3>1, <3>2, <3>3 DEF WholeInv, StampedWhole
  <2>9. CASE EndRemoval(t)
    <3>1. \A m \in Models \ {model[t]} : Removing(m) => Removing(m)'
      BY <2>9 DEF EndRemoval, Removing
    <3> QED
      BY <2>9, <3>1 DEF EndRemoval, WholeInv, DoneWhole, StampedWhole
  <2> QED
    BY <1>3, <2>1, <2>2, <2>3, <2>4, <2>5, <2>6, <2>7, <2>8, <2>9
    DEF ThreadNext, Proceed
<1> QED
  BY <1>1, <1>2, <1>3 DEF Next

(***************************************************************************)
(* Whatever the cache serves is complete, as long as no removal is ever    *)
(* interrupted half-way.                                                   *)
(***************************************************************************)
THEOREM HitsAreWhole == ~RemovalMayFail => (Spec => []HitIsWhole)
<1> SUFFICES ASSUME ~RemovalMayFail PROVE Spec => []HitIsWhole
  OBVIOUS
<1>1. Init => WholeInv
  BY DEF Init, WholeInv, DoneWhole, StampedWhole
<1>2. LockInv /\ WholeInv /\ [Next]_vars => WholeInv'
  BY WholeStep
<1>3. WholeInv => HitIsWhole
  BY DEF WholeInv, StampedWhole, HitIsWhole, CacheHit
<1> QED
  BY <1>1, <1>2, <1>3, Invariant, PTL DEF Spec

=============================================================================
