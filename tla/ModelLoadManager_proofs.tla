----------------------- MODULE ModelLoadManager_proofs -----------------------
(***************************************************************************)
(* Proofs about ModelLoadManager, for any number of calls, any handles,    *)
(* ids and directories, and any budget.  The reference count of a model is *)
(* the number of references its sessions and their factories hold, and the *)
(* entry of loading_runtimes_ is the call that builds.                     *)
(***************************************************************************)
EXTENDS ModelLoadManager, FiniteSetTheorems, TLAPS

USE CallsAssumption, HandleAssumption, TypedAssumption, LoadNoneAssumption

GenSteps == {"checked", "constructing", "constructed", "session"}
BuildSteps == {"admitted", "reserved", "building", "built", "failing"}
TypedSteps == BuildSteps \cup
  {"inspected", "published", "erased", "waiting", "leased", "destroying"}

\* A call that is under way has a handle of the kind its step is about.
Arguments ==
  \A c \in Calls :
    /\ pc[c] \in {"idle", "done"} => handle[c] = None
    /\ pc[c] \in GenSteps => handle[c] \in Generative
    /\ pc[c] \in TypedSteps => handle[c] \in Typed

\* The construction-time references of the factories, and those of the sessions.
FactoryRefs(i) == {c \in Calls : pc[c] \in {"constructing", "constructed"} /\ Id(c) = i}
SessionRefs(i) == {c \in Calls : pc[c] \in {"constructed", "session"} /\ Id(c) = i}
Counted ==
  \A i \in GenIds :
    session_refs[i] = Cardinality(FactoryRefs(i)) + Cardinality(SessionRefs(i))

\* A call is the builder of a typed id exactly if loading_runtimes_ says so.
Builders ==
  \A c \in Calls, i \in TypedIds :
    pc[c] \in BuildSteps /\ Id(c) = i <=> loading[i] = c
Loaded == \A i \in TypedIds : typed[i] # None => loading[i] = None

\* UnloadAll works once new loads are rejected.
Rejected == unload_all # "no" => shutdown

IInv ==
  /\ TypeOK /\ Arguments /\ Counted /\ SessionsPinModel /\ Builders /\ Loaded
  /\ Rejected /\ TypedStayUnloaded /\ FilesOutliveRuntime
-----------------------------------------------------------------------------
\* The references of an id are finitely many, so their numbers are numbers.
LEMMA RefsFinite ==
  ASSUME NEW i
  PROVE  /\ IsFiniteSet(FactoryRefs(i)) /\ IsFiniteSet(SessionRefs(i))
         /\ Cardinality(FactoryRefs(i)) \in Nat /\ Cardinality(SessionRefs(i)) \in Nat
<1>1. IsFiniteSet(Calls)
  BY FS_Interval DEF Calls
<1>2. FactoryRefs(i) \subseteq Calls /\ SessionRefs(i) \subseteq Calls
  BY DEF FactoryRefs, SessionRefs
<1> QED BY <1>1, <1>2, FS_Subset, FS_CardinalityType

\* The same in the next state.
LEMMA RefsFiniteNext ==
  ASSUME NEW i
  PROVE  /\ IsFiniteSet(FactoryRefs(i)') /\ IsFiniteSet(SessionRefs(i)')
         /\ Cardinality(FactoryRefs(i)') \in Nat /\ Cardinality(SessionRefs(i)') \in Nat
<1>1. IsFiniteSet(Calls)
  BY FS_Interval DEF Calls
<1>2. FactoryRefs(i)' \subseteq Calls /\ SessionRefs(i)' \subseteq Calls
  BY DEF FactoryRefs, SessionRefs
<1> QED BY <1>1, <1>2, FS_Subset, FS_CardinalityType

\* UnloadModel sees a zero count only if nobody refers to the model.
LEMMA NoRefs ==
  ASSUME Counted, NEW i \in GenIds, session_refs[i] = 0,
         NEW c \in Calls, pc[c] \in {"constructing", "constructed", "session"}
  PROVE  Id(c) # i
<1>1. Cardinality(FactoryRefs(i)) = 0 /\ Cardinality(SessionRefs(i)) = 0
  BY RefsFinite DEF Counted
<1>2. FactoryRefs(i) = {} /\ SessionRefs(i) = {}
  BY <1>1, RefsFinite, FS_EmptySet
<1> QED BY <1>2 DEF FactoryRefs, SessionRefs

\* A step of calls that hold no reference leaves the counts right.
LEMMA CountsKept ==
  ASSUME Counted, UNCHANGED session_refs,
         \A c \in Calls : pc'[c] # pc[c] \/ handle'[c] # handle[c] =>
           /\ pc[c] \notin {"constructing", "constructed", "session"}
           /\ pc'[c] \notin {"constructing", "constructed", "session"}
  PROVE  Counted'
<1>1. \A i \in GenIds : FactoryRefs(i)' = FactoryRefs(i) /\ SessionRefs(i)' = SessionRefs(i)
  BY DEF FactoryRefs, SessionRefs, Id
<1> QED BY <1>1 DEF Counted

\* A reference that is taken is counted once ...
LEMMA Taken ==
  ASSUME TypeOK, NEW S, NEW c, IsFiniteSet(S), c \notin S
  PROVE  Cardinality(S \cup {c}) = Cardinality(S) + 1
BY FS_AddElement

\* ... and one that is dropped leaves one less.
LEMMA Dropped ==
  ASSUME TypeOK, NEW S, NEW c, IsFiniteSet(S), c \in S
  PROVE  Cardinality(S \ {c}) = Cardinality(S) - 1
BY FS_RemoveElement

\* Every reference is taken and dropped by the call that holds it.
LEMMA CountedStep ==
  ASSUME TypeOK, Arguments, Counted, [Next]_vars
  PROVE  Counted'
<1> USE DEF TypeOK, Id, Arguments, GenSteps, BuildSteps, TypedSteps, Generative, maps,
           teardown, calls, Moves, Starts
<1>1. CASE UNCHANGED vars
  BY <1>1, CountsKept DEF vars
<1>2. ASSUME NEW c \in Calls, NEW h \in Handles, 
            \/ h \in Generative /\ LoadModel(c, h)
            \/ AcquireSessionModel(c, h)
            \/ UnloadModel(c, h)
            \/ Inspect(c, h)
            \/ AcquireLoadedNonGenerativeRuntime(c, h)
            \/ UnloadModelArtifact(c, h)
            \/ RemoveDirectory(c, h)
      PROVE  Counted'
  <2>1. CASE h \in Generative /\ LoadModel(c, h)
    BY <2>1, CountsKept DEF LoadModel
  <2>2. CASE AcquireSessionModel(c, h)
    <3>1. CASE generative[IdOf[h]] = PathOf[h]
      <4>1. FactoryRefs(IdOf[h])' = FactoryRefs(IdOf[h]) \cup {c} /\ c \notin FactoryRefs(IdOf[h])
        BY <2>2, <3>1 DEF AcquireSessionModel, FactoryRefs
      <4>2. \A i \in GenIds : SessionRefs(i)' = SessionRefs(i)
        BY <2>2, <3>1 DEF AcquireSessionModel, SessionRefs
      <4>3. \A i \in GenIds \ {IdOf[h]} : FactoryRefs(i)' = FactoryRefs(i)
        BY <2>2, <3>1 DEF AcquireSessionModel, FactoryRefs
      <4>4. Cardinality(FactoryRefs(IdOf[h])') = Cardinality(FactoryRefs(IdOf[h])) + 1
        BY <4>1, RefsFinite, Taken
      <4>5. IdOf[h] \in GenIds /\ session_refs' = [session_refs EXCEPT ![IdOf[h]] = @ + 1]
        BY <2>2, <3>1 DEF AcquireSessionModel, AddRefs, GenIds
      <4> QED BY <4>2, <4>3, <4>4, <4>5, RefsFinite DEF Counted
    <3>2. CASE generative[IdOf[h]] # PathOf[h]
      BY <2>2, <3>2, CountsKept DEF AcquireSessionModel
    <3> QED BY <3>1, <3>2
  <2>3. CASE UnloadModel(c, h)
    BY <2>3, CountsKept DEF UnloadModel, EraseGenerative, Settle, Unloadable
  <2>4. CASE Inspect(c, h)
    BY <2>4, CountsKept DEF Inspect
  <2>5. CASE AcquireLoadedNonGenerativeRuntime(c, h)
    BY <2>5, CountsKept DEF AcquireLoadedNonGenerativeRuntime
  <2>6. CASE UnloadModelArtifact(c, h)
    BY <2>6, CountsKept DEF UnloadModelArtifact
  <2>7. CASE RemoveDirectory(c, h)
    BY <2>7, CountsKept DEF RemoveDirectory
  <2> QED BY <1>2, <2>1, <2>2, <2>3, <2>4, <2>5, <2>6, <2>7
<1>3. ASSUME NEW c \in Calls, Proceed(c) \/ ReleaseSession(c) \/ DropRuntime(c)
      PROVE  Counted'
  <2>1. CASE LoadModelLocked(c)
    BY <2>1, CountsKept DEF LoadModelLocked
  <2>2. CASE ConstructSession(c)
    <3>1. PICK i \in GenIds : i = Id(c) /\ pc[c] = "constructing"
      BY <2>2 DEF ConstructSession, GenIds
    <3>2. SessionRefs(i)' = SessionRefs(i) \cup {c} /\ c \notin SessionRefs(i)
      BY <2>2, <3>1 DEF ConstructSession, SessionRefs
    <3>3. /\ \A j \in GenIds : FactoryRefs(j)' = FactoryRefs(j)
          /\ \A j \in GenIds \ {i} : SessionRefs(j)' = SessionRefs(j)
      BY <2>2, <3>1 DEF ConstructSession, FactoryRefs, SessionRefs
    <3>4. Cardinality(SessionRefs(i)') = Cardinality(SessionRefs(i)) + 1
      BY <3>2, RefsFinite, Taken
    <3>5. session_refs' = [session_refs EXCEPT ![i] = @ + 1]
      BY <2>2, <3>1 DEF ConstructSession, AddRefs
    <3> QED BY <3>1, <3>3, <3>4, <3>5, RefsFinite DEF Counted
  <2>3. CASE DropConstructionRef(c)
    <3>1. PICK i \in GenIds : i = Id(c) /\ pc[c] \in {"constructing", "constructed"}
      BY <2>3 DEF DropConstructionRef, GenIds
    <3>2. FactoryRefs(i)' = FactoryRefs(i) \ {c} /\ c \in FactoryRefs(i)
      BY <2>3, <3>1 DEF DropConstructionRef, FactoryRefs
    <3>3. /\ \A j \in GenIds : SessionRefs(j)' = SessionRefs(j)
          /\ \A j \in GenIds \ {i} : FactoryRefs(j)' = FactoryRefs(j)
      BY <2>3, <3>1 DEF DropConstructionRef, FactoryRefs, SessionRefs
    <3>4. Cardinality(FactoryRefs(i)') = Cardinality(FactoryRefs(i)) - 1
      BY <3>2, RefsFinite, Dropped
    <3>5. session_refs' = [session_refs EXCEPT ![i] = @ - 1]
      BY <2>3, <3>1 DEF DropConstructionRef, DropRef
    <3> QED BY <3>1, <3>3, <3>4, <3>5, RefsFinite DEF Counted
  <2>4. CASE Admit(c)
    BY <2>4, CountsKept DEF Admit
  <2>5. CASE Reserve(c) \/ BeginReadiness(c) \/ Build(c) \/ Fulfil(c) \/ EraseFailed(c) \/
           FailWaiters(c)
    BY <2>5, CountsKept DEF Reserve, BeginReadiness, Build, Fulfil, EraseFailed,
          FailWaiters
  <2>6. CASE Publish(c)
    BY <2>6, CountsKept DEF Publish
  <2>7. CASE Answered(c)
    BY <2>7, CountsKept DEF Answered
  <2>8. CASE ReleaseSession(c)
    <3>1. PICK i \in GenIds : i = Id(c) /\ pc[c] = "session"
      BY <2>8 DEF ReleaseSession, GenIds
    <3>2. SessionRefs(i)' = SessionRefs(i) \ {c} /\ c \in SessionRefs(i)
      BY <2>8, <3>1 DEF ReleaseSession, SessionRefs
    <3>3. /\ \A j \in GenIds : FactoryRefs(j)' = FactoryRefs(j)
          /\ \A j \in GenIds \ {i} : SessionRefs(j)' = SessionRefs(j)
      BY <2>8, <3>1 DEF ReleaseSession, FactoryRefs, SessionRefs
    <3>4. Cardinality(SessionRefs(i)') = Cardinality(SessionRefs(i)) - 1
      BY <3>2, RefsFinite, Dropped
    <3>5. session_refs' = [session_refs EXCEPT ![i] = @ - 1]
      BY <2>8, <3>1 DEF ReleaseSession, DropRef
    <3> QED BY <3>1, <3>3, <3>4, <3>5, RefsFinite DEF Counted
  <2>9. CASE DropRuntime(c)
    BY <2>9, CountsKept DEF DropRuntime
  <2> QED BY <1>3, <2>1, <2>2, <2>3, <2>4, <2>5, <2>6, <2>7, <2>8, <2>9 DEF Proceed
<1>4. ASSUME NEW p \in Paths, Download(p)
      PROVE  Counted'
  BY <1>4, CountsKept DEF Download
<1>5. ASSUME RejectNewLoads \/ Expire \/ UnloadAllSnapshot \/ UnloadAllReturn
      PROVE  Counted'
  BY <1>5, CountsKept DEF RejectNewLoads, Expire, UnloadAllSnapshot, UnloadAllReturn
<1>6. ASSUME NEW i \in GenIds, UnloadAllPoll(i) \/ UnloadAllUnload(i) \/ UnloadAllGiveUp(i)
      PROVE  Counted'
  BY <1>6, CountsKept DEF UnloadAllPoll, UnloadAllUnload, UnloadAllGiveUp,
        EraseGenerative, Settle, Unloadable
<1> QED BY <1>1, <1>2, <1>3, <1>4, <1>5, <1>6 DEF Next, UnloadAll

\* Counts that are right are natural numbers.
LEMMA RefsType ==
  ASSUME TypeOK, Counted', NEW i \in GenIds, NEW n, session_refs' = [session_refs EXCEPT ![i] = n]
  PROVE  session_refs' \in [GenIds -> Nat]
<1>1. \A j \in GenIds : session_refs'[j] \in Nat
  BY RefsFiniteNext DEF Counted
<1>2. n \in Nat
  BY <1>1 DEF TypeOK
<1> QED BY <1>2 DEF TypeOK

\* The types are inductive, the reference counts because they count.
LEMMA TypeStep ==
  ASSUME TypeOK, Arguments, Counted', [Next]_vars
  PROVE  TypeOK'
<1> USE DEF TypeOK, Steps, Id, Path, GenIds, TypedIds, Arguments, GenSteps, BuildSteps,
           TypedSteps, Generative, maps, teardown, calls, Moves, Starts
<1>1. CASE UNCHANGED vars
  BY <1>1 DEF vars
<1>2. ASSUME NEW c \in Calls, NEW h \in Handles, 
            \/ h \in Generative /\ LoadModel(c, h)
            \/ AcquireSessionModel(c, h)
            \/ UnloadModel(c, h)
            \/ Inspect(c, h)
            \/ AcquireLoadedNonGenerativeRuntime(c, h)
            \/ UnloadModelArtifact(c, h)
            \/ RemoveDirectory(c, h)
      PROVE  TypeOK'
  <2>1. CASE (h \in Generative /\ LoadModel(c, h)) \/ Inspect(c, h)
    BY <2>1 DEF LoadModel, Inspect
  <2>2. CASE AcquireSessionModel(c, h)
    <3>1. session_refs' \in [GenIds -> Nat]
      BY <2>2, SMTT(30) DEF AcquireSessionModel, AddRefs
    <3>2. pc' \in [Calls -> Steps] /\ handle' \in [Calls -> Handles \cup {None}]
      BY <2>2 DEF AcquireSessionModel
    <3> QED BY <2>2, <3>1, <3>2 DEF AcquireSessionModel
  <2>3. CASE UnloadModel(c, h)
    <3>1. generative' \in [GenIds -> Paths \cup {None}]
      BY <2>3 DEF UnloadModel, EraseGenerative
    <3>2. snapshot' \in [GenIds -> {"none", "held", "orphaned"}]
      BY <2>3 DEF UnloadModel, Settle
    <3>3. pc' \in [Calls -> Steps] /\ handle' \in [Calls -> Handles \cup {None}]
      BY <2>3 DEF UnloadModel
    <3> QED BY <2>3, <3>1, <3>2, <3>3 DEF UnloadModel
  <2>4. CASE AcquireLoadedNonGenerativeRuntime(c, h)
    BY <2>4, SMTT(30) DEF AcquireLoadedNonGenerativeRuntime
  <2>5. CASE UnloadModelArtifact(c, h)
    BY <2>5, SMTT(30) DEF UnloadModelArtifact
  <2>6. CASE RemoveDirectory(c, h)
    BY <2>6 DEF RemoveDirectory
  <2> QED BY <1>2, <2>1, <2>2, <2>3, <2>4, <2>5, <2>6
<1>3. ASSUME NEW c \in Calls, Proceed(c) \/ ReleaseSession(c) \/ DropRuntime(c)
      PROVE  TypeOK'
  <2>1. CASE LoadModelLocked(c)
    BY <2>1 DEF LoadModelLocked
  <2>2. CASE ConstructSession(c)
    <3>1. Id(c) \in GenIds
      BY <2>2 DEF ConstructSession
    <3>2. session_refs' = [session_refs EXCEPT ![Id(c)] = session_refs[Id(c)] + 1]
      BY <2>2 DEF ConstructSession, AddRefs
    <3>3. session_refs' \in [GenIds -> Nat]
      <4> HIDE DEF TypeOK, Arguments, Id, GenIds
      <4> QED BY <3>1, <3>2, RefsType
    <3> QED BY <2>2, <3>3 DEF ConstructSession
  <2>3. CASE DropConstructionRef(c)
    <3>1. Id(c) \in GenIds
      BY <2>3 DEF DropConstructionRef
    <3>2. session_refs' = [session_refs EXCEPT ![Id(c)] = session_refs[Id(c)] - 1]
      BY <2>3 DEF DropConstructionRef, DropRef
    <3>3. session_refs' \in [GenIds -> Nat]
      <4> HIDE DEF TypeOK, Arguments, Id, GenIds
      <4> QED BY <3>1, <3>2, RefsType
    <3> QED BY <2>3, <3>3 DEF DropConstructionRef
  <2>4. CASE Admit(c)
    BY <2>4, SMTT(30) DEF Admit
  <2>5. CASE Reserve(c) \/ BeginReadiness(c) \/ Build(c)
    BY <2>5 DEF Reserve, BeginReadiness, Build
  <2>6. CASE Publish(c)
    <3>1. /\ typed' \in [TypedIds -> Calls \cup {None}]
          /\ loading' \in [TypedIds -> Calls \cup {None}]
          /\ runtime' \in [Calls -> Calls \cup {None}]
      BY <2>6, SMTT(30) DEF Publish
    <3>2. pc' \in [Calls -> Steps] /\ handle' \in [Calls -> Handles \cup {None}]
      BY <2>6, SMTT(30) DEF Publish
    <3> QED BY <2>6, <3>1, <3>2 DEF Publish
  <2>7. CASE Fulfil(c)
    BY <2>7 DEF Fulfil
  <2>8. CASE EraseFailed(c)
    BY <2>8 DEF EraseFailed
  <2>9. CASE FailWaiters(c)
    BY <2>9 DEF FailWaiters
  <2>10. CASE Answered(c)
    BY <2>10, SMTT(30) DEF Answered
  <2>11. CASE ReleaseSession(c)
    <3>1. Id(c) \in GenIds
      BY <2>11 DEF ReleaseSession
    <3>2. session_refs' = [session_refs EXCEPT ![Id(c)] = session_refs[Id(c)] - 1]
      BY <2>11 DEF ReleaseSession, DropRef
    <3>3. session_refs' \in [GenIds -> Nat]
      <4> HIDE DEF TypeOK, Arguments, Id, GenIds
      <4> QED BY <3>1, <3>2, RefsType
    <3> QED BY <2>11, <3>3 DEF ReleaseSession
  <2>12. CASE DropRuntime(c)
    BY <2>12 DEF DropRuntime
  <2> QED BY <1>3, <2>1, <2>2, <2>3, <2>4, <2>5, <2>6, <2>7, <2>8, <2>9, <2>10, <2>11,
       <2>12 DEF Proceed
<1>4. ASSUME NEW p \in Paths, Download(p)
      PROVE  TypeOK'
  BY <1>4 DEF Download
<1>5. ASSUME RejectNewLoads \/ Expire \/ UnloadAllSnapshot \/ UnloadAllReturn
      PROVE  TypeOK'
  <2>1. CASE RejectNewLoads
    BY <2>1 DEF RejectNewLoads
  <2>2. CASE Expire
    BY <2>2 DEF Expire
  <2>3. CASE UnloadAllSnapshot
    BY <2>3 DEF UnloadAllSnapshot
  <2>4. CASE UnloadAllReturn
    BY <2>4 DEF UnloadAllReturn
  <2> QED BY <1>5, <2>1, <2>2, <2>3, <2>4
<1>6. ASSUME NEW i \in GenIds, UnloadAllPoll(i) \/ UnloadAllUnload(i) \/ UnloadAllGiveUp(i)
      PROVE  TypeOK'
  BY <1>6 DEF UnloadAllPoll, UnloadAllUnload, UnloadAllGiveUp, EraseGenerative, Settle,
        Unloadable
<1> QED BY <1>1, <1>2, <1>3, <1>4, <1>5, <1>6 DEF Next, UnloadAll

\* A call gets its handle when it starts and forgets it when it is done.
LEMMA ArgumentsStep ==
  ASSUME TypeOK, Arguments, [Next]_vars
  PROVE  Arguments'
<1> USE DEF TypeOK, Steps, Arguments, GenSteps, BuildSteps, TypedSteps, Generative, maps,
           teardown, calls, Moves, Starts
<1>1. CASE UNCHANGED vars
  BY <1>1 DEF vars
<1>2. ASSUME NEW c \in Calls, NEW h \in Handles, 
            \/ h \in Generative /\ LoadModel(c, h)
            \/ AcquireSessionModel(c, h)
            \/ UnloadModel(c, h)
            \/ Inspect(c, h)
            \/ AcquireLoadedNonGenerativeRuntime(c, h)
            \/ UnloadModelArtifact(c, h)
            \/ RemoveDirectory(c, h)
      PROVE  Arguments'
  <2>1. CASE (h \in Generative /\ LoadModel(c, h)) \/ Inspect(c, h) \/ RemoveDirectory(c, h)
    BY <2>1 DEF LoadModel, Inspect, RemoveDirectory
  <2>2. CASE AcquireSessionModel(c, h)
    BY <2>2 DEF AcquireSessionModel, AddRefs
  <2>3. CASE UnloadModel(c, h)
    BY <2>3 DEF UnloadModel, EraseGenerative, Settle, Unloadable
  <2>4. CASE AcquireLoadedNonGenerativeRuntime(c, h)
    BY <2>4 DEF AcquireLoadedNonGenerativeRuntime
  <2>5. CASE UnloadModelArtifact(c, h)
    BY <2>5 DEF UnloadModelArtifact
  <2> QED BY <1>2, <2>1, <2>2, <2>3, <2>4, <2>5
<1>3. ASSUME NEW c \in Calls, Proceed(c) \/ ReleaseSession(c) \/ DropRuntime(c)
      PROVE  Arguments'
  <2>1. CASE LoadModelLocked(c)
    BY <2>1 DEF LoadModelLocked
  <2>2. CASE ConstructSession(c) \/ DropConstructionRef(c) \/ ReleaseSession(c)
    BY <2>2 DEF ConstructSession, DropConstructionRef, ReleaseSession, AddRefs, DropRef
  <2>3. CASE Admit(c)
    BY <2>3 DEF Admit
  <2>4. CASE Reserve(c) \/ BeginReadiness(c) \/ Build(c)
    BY <2>4 DEF Reserve, BeginReadiness, Build
  <2>5. CASE Publish(c)
    BY <2>5 DEF Publish
  <2>6. CASE Fulfil(c) \/ EraseFailed(c) \/ FailWaiters(c) \/ Answered(c)
    BY <2>6 DEF Fulfil, EraseFailed, FailWaiters, Answered
  <2>7. CASE DropRuntime(c)
    BY <2>7 DEF DropRuntime
  <2> QED BY <1>3, <2>1, <2>2, <2>3, <2>4, <2>5, <2>6, <2>7 DEF Proceed
<1>4. ASSUME NEW p \in Paths, Download(p)
      PROVE  Arguments'
  BY <1>4 DEF Download
<1>5. ASSUME RejectNewLoads \/ Expire \/ UnloadAllSnapshot \/ UnloadAllReturn
      PROVE  Arguments'
  BY <1>5 DEF RejectNewLoads, Expire, UnloadAllSnapshot, UnloadAllReturn
<1>6. ASSUME NEW i \in GenIds, UnloadAllPoll(i) \/ UnloadAllUnload(i) \/ UnloadAllGiveUp(i)
      PROVE  Arguments'
  BY <1>6 DEF UnloadAllPoll, UnloadAllUnload, UnloadAllGiveUp, EraseGenerative, Settle,
        Unloadable
<1> QED BY <1>1, <1>2, <1>3, <1>4, <1>5, <1>6 DEF Next, UnloadAll

\* Admission makes the entry of loading_runtimes_, publication or failure takes it out.
LEMMA BuildersStep ==
  ASSUME TypeOK, Arguments, Builders, Loaded, [Next]_vars
  PROVE  (Builders /\ Loaded)'
<1> USE DEF TypeOK, Builders, Loaded, Id, TypedIds, Arguments, GenSteps, BuildSteps,
           TypedSteps, Generative, maps, teardown, calls, Moves, Starts
<1>1. CASE UNCHANGED vars
  BY <1>1 DEF vars
<1>2. ASSUME NEW c \in Calls, NEW h \in Handles, 
            \/ h \in Generative /\ LoadModel(c, h)
            \/ AcquireSessionModel(c, h)
            \/ UnloadModel(c, h)
            \/ Inspect(c, h)
            \/ AcquireLoadedNonGenerativeRuntime(c, h)
            \/ UnloadModelArtifact(c, h)
            \/ RemoveDirectory(c, h)
      PROVE  (Builders /\ Loaded)'
  <2>1. CASE (h \in Generative /\ LoadModel(c, h)) \/ Inspect(c, h) \/ RemoveDirectory(c, h)
    BY <2>1 DEF LoadModel, Inspect, RemoveDirectory
  <2>2. CASE AcquireSessionModel(c, h)
    BY <2>2 DEF AcquireSessionModel, AddRefs
  <2>3. CASE UnloadModel(c, h)
    BY <2>3 DEF UnloadModel, EraseGenerative, Settle, Unloadable
  <2>4. CASE AcquireLoadedNonGenerativeRuntime(c, h)
    BY <2>4 DEF AcquireLoadedNonGenerativeRuntime
  <2>5. CASE UnloadModelArtifact(c, h)
    BY <2>5 DEF UnloadModelArtifact
  <2> QED BY <1>2, <2>1, <2>2, <2>3, <2>4, <2>5
<1>3. ASSUME NEW c \in Calls, Proceed(c) \/ ReleaseSession(c) \/ DropRuntime(c)
      PROVE  (Builders /\ Loaded)'
  <2>1. CASE LoadModelLocked(c)
    BY <2>1 DEF LoadModelLocked
  <2>2. CASE ConstructSession(c) \/ DropConstructionRef(c) \/ ReleaseSession(c)
    BY <2>2 DEF ConstructSession, DropConstructionRef, ReleaseSession, AddRefs, DropRef
  <2>3. CASE Admit(c)
    BY <2>3, SMTT(20) DEF Admit
  <2>4. CASE Reserve(c) \/ BeginReadiness(c) \/ Build(c)
    BY <2>4 DEF Reserve, BeginReadiness, Build
  <2>5. CASE Publish(c)
    BY <2>5, SMTT(20) DEF Publish
  <2>6. CASE Fulfil(c) \/ FailWaiters(c) \/ Answered(c)
    BY <2>6 DEF Fulfil, FailWaiters, Answered
  <2>7. CASE EraseFailed(c)
    <3>1. pc[c] = "failing" /\ Id(c) \in TypedIds /\ loading[Id(c)] = c
      BY <2>7 DEF EraseFailed
    <3>2. /\ pc' = [pc EXCEPT ![c] = "erased"] /\ UNCHANGED typed
          /\ loading' = [loading EXCEPT ![Id(c)] = None]
          /\ \A d \in Calls : handle'[d] = handle[d]
      BY <2>7 DEF EraseFailed
    <3> QED BY <3>1, <3>2
  <2>8. CASE DropRuntime(c)
    <3>1. /\ pc[c] \in {"leased", "destroying"} /\ pc' = [pc EXCEPT ![c] = "done"]
          /\ \A d \in Calls \ {c} : handle'[d] = handle[d]
          /\ UNCHANGED <<typed, loading>>
      BY <2>8 DEF DropRuntime
    <3> QED BY <3>1
  <2> QED BY <1>3, <2>1, <2>2, <2>3, <2>4, <2>5, <2>6, <2>7, <2>8 DEF Proceed
<1>4. ASSUME NEW p \in Paths, Download(p)
      PROVE  (Builders /\ Loaded)'
  BY <1>4 DEF Download
<1>5. ASSUME RejectNewLoads \/ Expire \/ UnloadAllSnapshot \/ UnloadAllReturn
      PROVE  (Builders /\ Loaded)'
  BY <1>5 DEF RejectNewLoads, Expire, UnloadAllSnapshot, UnloadAllReturn
<1>6. ASSUME NEW i \in GenIds, UnloadAllPoll(i) \/ UnloadAllUnload(i) \/ UnloadAllGiveUp(i)
      PROVE  (Builders /\ Loaded)'
  BY <1>6 DEF UnloadAllPoll, UnloadAllUnload, UnloadAllGiveUp, EraseGenerative, Settle,
        Unloadable
<1> QED BY <1>1, <1>2, <1>3, <1>4, <1>5, <1>6 DEF Next, UnloadAll

\* An instance that is referred to is neither erased nor replaced.
LEMMA PinStep ==
  ASSUME TypeOK, Arguments, Counted, SessionsPinModel, [Next]_vars
  PROVE  SessionsPinModel'
<1> USE DEF TypeOK, SessionsPinModel, Id, Path, GenIds, Arguments, GenSteps, BuildSteps,
           TypedSteps, Generative, maps, teardown, calls, Moves, Starts
<1>1. CASE UNCHANGED vars
  BY <1>1 DEF vars
<1>2. ASSUME NEW c \in Calls, NEW h \in Handles, 
            \/ h \in Generative /\ LoadModel(c, h)
            \/ AcquireSessionModel(c, h)
            \/ UnloadModel(c, h)
            \/ Inspect(c, h)
            \/ AcquireLoadedNonGenerativeRuntime(c, h)
            \/ UnloadModelArtifact(c, h)
            \/ RemoveDirectory(c, h)
      PROVE  SessionsPinModel'
  <2>1. CASE (h \in Generative /\ LoadModel(c, h)) \/ Inspect(c, h) \/ RemoveDirectory(c, h) \/
           AcquireLoadedNonGenerativeRuntime(c, h) \/ UnloadModelArtifact(c, h)
    BY <2>1 DEF LoadModel, Inspect, RemoveDirectory, AcquireLoadedNonGenerativeRuntime,
          UnloadModelArtifact
  <2>2. CASE AcquireSessionModel(c, h)
    BY <2>2 DEF AcquireSessionModel, AddRefs
  <2>3. CASE UnloadModel(c, h)
    <3>1. \A j \in GenIds : generative'[j] # generative[j] => session_refs[j] = 0
      BY <2>3 DEF UnloadModel, EraseGenerative, Unloadable
    <3>2. /\ pc' = [pc EXCEPT ![c] = "done"]
          /\ \A d \in Calls \ {c} : handle'[d] = handle[d]
      BY <2>3 DEF UnloadModel
    <3> QED BY <3>1, <3>2, NoRefs
  <2> QED BY <1>2, <2>1, <2>2, <2>3
<1>3. ASSUME NEW c \in Calls, Proceed(c) \/ ReleaseSession(c) \/ DropRuntime(c)
      PROVE  SessionsPinModel'
  <2>1. CASE LoadModelLocked(c)
    BY <2>1 DEF LoadModelLocked
  <2>2. CASE ConstructSession(c) \/ DropConstructionRef(c) \/ ReleaseSession(c)
    BY <2>2 DEF ConstructSession, DropConstructionRef, ReleaseSession, AddRefs, DropRef
  <2>3. CASE Admit(c)
    BY <2>3 DEF Admit
  <2>4. CASE Reserve(c) \/ BeginReadiness(c) \/ Build(c)
    BY <2>4 DEF Reserve, BeginReadiness, Build
  <2>5. CASE Publish(c)
    BY <2>5 DEF Publish
  <2>6. CASE Fulfil(c) \/ EraseFailed(c) \/ FailWaiters(c) \/ Answered(c)
    BY <2>6 DEF Fulfil, EraseFailed, FailWaiters, Answered
  <2>7. CASE DropRuntime(c)
    BY <2>7 DEF DropRuntime
  <2> QED BY <1>3, <2>1, <2>2, <2>3, <2>4, <2>5, <2>6, <2>7 DEF Proceed
<1>4. ASSUME NEW p \in Paths, Download(p)
      PROVE  SessionsPinModel'
  BY <1>4 DEF Download
<1>5. ASSUME RejectNewLoads \/ Expire \/ UnloadAllSnapshot \/ UnloadAllReturn
      PROVE  SessionsPinModel'
  BY <1>5 DEF RejectNewLoads, Expire, UnloadAllSnapshot, UnloadAllReturn
<1>6. ASSUME NEW i \in GenIds, UnloadAllPoll(i) \/ UnloadAllUnload(i) \/ UnloadAllGiveUp(i)
      PROVE  SessionsPinModel'
  <2>1. CASE UnloadAllPoll(i) \/ UnloadAllGiveUp(i)
    BY <2>1 DEF UnloadAllPoll, UnloadAllGiveUp, Settle
  <2>2. CASE UnloadAllUnload(i)
    <3>1. \A j \in GenIds : generative'[j] # generative[j] => session_refs[j] = 0
      BY <2>2, SMTT(30) DEF UnloadAllUnload, EraseGenerative, Unloadable
    <3>2. UNCHANGED <<pc, handle>>
      BY <2>2 DEF UnloadAllUnload
    <3> QED BY <3>1, <3>2, NoRefs
  <2> QED BY <1>6, <2>1, <2>2
<1> QED BY <1>1, <1>2, <1>3, <1>4, <1>5, <1>6 DEF Next, UnloadAll

\* RejectNewLoads comes first.
LEMMA RejectedStep ==
  ASSUME TypeOK, Rejected, TypedStayUnloaded, [Next]_vars
  PROVE  (Rejected /\ TypedStayUnloaded)'
<1> USE DEF TypeOK, Rejected, TypedStayUnloaded, Id, TypedIds, maps, teardown, calls,
           Moves, Starts
<1>1. CASE UNCHANGED vars
  BY <1>1 DEF vars
<1>2. ASSUME NEW c \in Calls, NEW h \in Handles, 
            \/ h \in Generative /\ LoadModel(c, h)
            \/ AcquireSessionModel(c, h)
            \/ UnloadModel(c, h)
            \/ Inspect(c, h)
            \/ AcquireLoadedNonGenerativeRuntime(c, h)
            \/ UnloadModelArtifact(c, h)
            \/ RemoveDirectory(c, h)
      PROVE  (Rejected /\ TypedStayUnloaded)'
  BY <1>2 DEF LoadModel, AcquireSessionModel, UnloadModel, Inspect,
        AcquireLoadedNonGenerativeRuntime, UnloadModelArtifact, RemoveDirectory, AddRefs,
        EraseGenerative, Settle, Unloadable
<1>3. ASSUME NEW c \in Calls, Proceed(c) \/ ReleaseSession(c) \/ DropRuntime(c)
      PROVE  (Rejected /\ TypedStayUnloaded)'
  <2>1. CASE LoadModelLocked(c) \/ ConstructSession(c) \/ DropConstructionRef(c) \/
           ReleaseSession(c) \/ Admit(c) \/ Reserve(c) \/ BeginReadiness(c) \/ Build(c)
    BY <2>1 DEF LoadModelLocked, ConstructSession, DropConstructionRef, ReleaseSession,
          Admit, Reserve, BeginReadiness, Build, AddRefs, DropRef
  <2>2. CASE Publish(c)
    BY <2>2 DEF Publish
  <2>3. CASE Fulfil(c) \/ EraseFailed(c) \/ FailWaiters(c) \/ Answered(c) \/
           DropRuntime(c)
    BY <2>3 DEF Fulfil, EraseFailed, FailWaiters, Answered, DropRuntime
  <2> QED BY <1>3, <2>1, <2>2, <2>3 DEF Proceed
<1>4. ASSUME NEW p \in Paths, Download(p)
      PROVE  (Rejected /\ TypedStayUnloaded)'
  BY <1>4 DEF Download
<1>5. ASSUME RejectNewLoads \/ Expire \/ UnloadAllSnapshot \/ UnloadAllReturn
      PROVE  (Rejected /\ TypedStayUnloaded)'
  BY <1>5 DEF RejectNewLoads, Expire, UnloadAllSnapshot, UnloadAllReturn
<1>6. ASSUME NEW i \in GenIds, UnloadAllPoll(i) \/ UnloadAllUnload(i) \/ UnloadAllGiveUp(i)
      PROVE  (Rejected /\ TypedStayUnloaded)'
  BY <1>6 DEF UnloadAllPoll, UnloadAllUnload, UnloadAllGiveUp, EraseGenerative, Settle,
        Unloadable
<1> QED BY <1>1, <1>2, <1>3, <1>4, <1>5, <1>6 DEF Next, UnloadAll

\* RemoveDirectory spares what is loaded or loading; a load is published in place.
LEMMA FilesStep ==
  ASSUME TypeOK, Arguments, Builders, FilesOutliveRuntime, [Next]_vars
  PROVE  FilesOutliveRuntime'
<1> USE DEF TypeOK, Builders, FilesOutliveRuntime, LoadedFrom, LoadingFrom, Id, Path,
           GenIds, TypedIds, Arguments, GenSteps, BuildSteps, TypedSteps, Generative,
           maps, teardown, calls, Moves, Starts
<1>1. CASE UNCHANGED vars
  BY <1>1 DEF vars
<1>2. ASSUME NEW c \in Calls, NEW h \in Handles, 
            \/ h \in Generative /\ LoadModel(c, h)
            \/ AcquireSessionModel(c, h)
            \/ UnloadModel(c, h)
            \/ Inspect(c, h)
            \/ AcquireLoadedNonGenerativeRuntime(c, h)
            \/ UnloadModelArtifact(c, h)
            \/ RemoveDirectory(c, h)
      PROVE  FilesOutliveRuntime'
  <2>1. CASE (h \in Generative /\ LoadModel(c, h)) \/ AcquireSessionModel(c, h) \/ UnloadModel(c, h) \/
           Inspect(c, h)
    BY <2>1, SMTT(30) DEF LoadModel, AcquireSessionModel, UnloadModel, Inspect, AddRefs,
          EraseGenerative, Settle, Unloadable
  <2>2. CASE AcquireLoadedNonGenerativeRuntime(c, h)
    <3>1. /\ \A i \in TypedIds : typed'[i] # None => typed[i] # None
          /\ UNCHANGED <<generative, present>>
      BY <2>2 DEF AcquireLoadedNonGenerativeRuntime
    <3>2. \A d \in Calls : pc'[d] = "built" => pc[d] = "built" /\ handle'[d] = handle[d]
      BY <2>2 DEF AcquireLoadedNonGenerativeRuntime
    <3> QED BY <3>1, <3>2
  <2>3. CASE UnloadModelArtifact(c, h)
    <3>1. /\ \A i \in TypedIds : typed'[i] # None => typed[i] # None
          /\ UNCHANGED <<generative, present>>
      BY <2>3 DEF UnloadModelArtifact
    <3>2. \A d \in Calls : pc'[d] = "built" => pc[d] = "built" /\ handle'[d] = handle[d]
      BY <2>3 DEF UnloadModelArtifact
    <3> QED BY <3>1, <3>2
  <2>4. CASE RemoveDirectory(c, h)
    BY <2>4 DEF RemoveDirectory
  <2> QED BY <1>2, <2>1, <2>2, <2>3, <2>4
<1>3. ASSUME NEW c \in Calls, Proceed(c) \/ ReleaseSession(c) \/ DropRuntime(c)
      PROVE  FilesOutliveRuntime'
  <2>1. CASE LoadModelLocked(c)
    BY <2>1 DEF LoadModelLocked
  <2>2. CASE ConstructSession(c) \/ DropConstructionRef(c) \/ ReleaseSession(c)
    BY <2>2 DEF ConstructSession, DropConstructionRef, ReleaseSession, AddRefs, DropRef
  <2>3. CASE Admit(c) \/ Reserve(c) \/ BeginReadiness(c)
    BY <2>3, SMTT(30) DEF Admit, Reserve, BeginReadiness
  <2>4. CASE Build(c)
    BY <2>4 DEF Build
  <2>5. CASE Publish(c)
    BY <2>5 DEF Publish
  <2>6. CASE Fulfil(c) \/ EraseFailed(c) \/ FailWaiters(c) \/ Answered(c) \/
           DropRuntime(c)
    BY <2>6 DEF Fulfil, EraseFailed, FailWaiters, Answered, DropRuntime
  <2> QED BY <1>3, <2>1, <2>2, <2>3, <2>4, <2>5, <2>6 DEF Proceed
<1>4. ASSUME NEW p \in Paths, Download(p)
      PROVE  FilesOutliveRuntime'
  BY <1>4 DEF Download
<1>5. ASSUME RejectNewLoads \/ Expire \/ UnloadAllSnapshot \/ UnloadAllReturn
      PROVE  FilesOutliveRuntime'
  <2>1. CASE RejectNewLoads
    BY <2>1 DEF RejectNewLoads
  <2>2. CASE Expire
    BY <2>2 DEF Expire
  <2>3. CASE UnloadAllSnapshot
    BY <2>3 DEF UnloadAllSnapshot
  <2>4. CASE UnloadAllReturn
    BY <2>4 DEF UnloadAllReturn
  <2> QED BY <1>5, <2>1, <2>2, <2>3, <2>4
<1>6. ASSUME NEW i \in GenIds, UnloadAllPoll(i) \/ UnloadAllUnload(i) \/ UnloadAllGiveUp(i)
      PROVE  FilesOutliveRuntime'
  <2>1. CASE UnloadAllPoll(i)
    BY <2>1 DEF UnloadAllPoll
  <2>2. CASE UnloadAllUnload(i)
    BY <2>2 DEF UnloadAllUnload, EraseGenerative, Settle, Unloadable
  <2>3. CASE UnloadAllGiveUp(i)
    BY <2>3 DEF UnloadAllGiveUp, Settle
  <2> QED BY <1>6, <2>1, <2>2, <2>3
<1> QED BY <1>1, <1>2, <1>3, <1>4, <1>5, <1>6 DEF Next, UnloadAll

-----------------------------------------------------------------------------
\* Nothing is loaded and no call has begun.
LEMMA InitInv == Init => IInv
<1> SUFFICES ASSUME Init
             PROVE  IInv
  OBVIOUS
<1>1. TypeOK /\ Arguments /\ Builders /\ Loaded /\ Rejected
  BY DEF Init, TypeOK, Steps, Arguments, GenSteps, TypedSteps, BuildSteps, Builders, Loaded,
         Rejected
<1>2. SessionsPinModel /\ TypedStayUnloaded /\ FilesOutliveRuntime
  BY DEF Init, SessionsPinModel, TypedStayUnloaded, FilesOutliveRuntime, LoadedFrom, TypedIds
<1>3. \A i \in GenIds : FactoryRefs(i) = {} /\ SessionRefs(i) = {}
  BY DEF Init, FactoryRefs, SessionRefs
<1>4. \A i \in GenIds : Cardinality(FactoryRefs(i)) = 0 /\ Cardinality(SessionRefs(i)) = 0
  BY <1>3, RefsFinite, FS_EmptySet
<1>5. Counted
  BY <1>4 DEF Init, Counted
<1> QED BY <1>1, <1>2, <1>5 DEF IInv

\* Every step keeps every part.
LEMMA NextInv == IInv /\ [Next]_vars => IInv'
<1> SUFFICES ASSUME IInv, [Next]_vars
             PROVE  IInv'
  OBVIOUS
<1> USE DEF IInv
<1>1. Arguments' /\ Counted' /\ SessionsPinModel'
  BY ArgumentsStep, CountedStep, PinStep
<1>2. TypeOK'
  BY <1>1, TypeStep
<1>3. Builders' /\ Loaded'
  BY BuildersStep
<1>4. Rejected' /\ TypedStayUnloaded' /\ FilesOutliveRuntime'
  BY RejectedStep, FilesStep
<1> QED BY <1>1, <1>2, <1>3, <1>4

\* The invariant holds in every reachable state.
LEMMA Invariance == Spec => []IInv
  BY InitInv, NextInv, PTL DEF Spec

\* Every state of the manager, its calls and its teardown is well formed; the
\* reference counts never go below zero.
THEOREM TypeCorrect == Spec => []TypeOK
<1>1. IInv => TypeOK
  BY DEF IInv
<1> QED BY <1>1, Invariance, PTL

\* AcquireSessionModel, UnloadModel and UnloadAll: a model stays loaded from its
\* path while a session, finished or being constructed, refers to it.
THEOREM Pinned == Spec => []SessionsPinModel
<1>1. IInv => SessionsPinModel
  BY DEF IInv
<1> QED BY <1>1, Invariance, PTL

\* AcquireManagedRuntime: one builder at most for each id, and none once it is loaded.
THEOREM OneBuilder == Spec => []SingleFlight
<1>1. ASSUME IInv
      PROVE  SingleFlight
  <2> SUFFICES ASSUME NEW i \in TypedIds
               PROVE  /\ {c \in Calls : handle[c] # None /\ Id(c) = i /\ pc[c] \in BuildSteps}
                           = IF loading[i] = None THEN {} ELSE {loading[i]}
                      /\ typed[i] # None => loading[i] = None
    BY DEF SingleFlight, BuildSteps
  <2>1. \A c \in Calls : pc[c] \in BuildSteps => handle[c] # None
    BY <1>1 DEF IInv, Arguments, TypedSteps
  <2>2. \A c \in Calls : pc[c] \in BuildSteps /\ Id(c) = i <=> loading[i] = c
    BY <1>1 DEF IInv, Builders
  <2>3. loading[i] \in Calls \cup {None} /\ (typed[i] # None => loading[i] = None)
    BY <1>1 DEF IInv, TypeOK, Loaded
  <2> QED BY <2>1, <2>2, <2>3
<1> QED BY <1>1, Invariance, PTL

\* RunWithUnloadedModelsInDirectory and Publish: no directory is removed under a
\* model that is loaded, or that a factory has opened and not published yet.
THEOREM FilesSafe == Spec => []FilesOutliveRuntime
<1>1. IInv => FilesOutliveRuntime
  BY DEF IInv
<1> QED BY <1>1, Invariance, PTL

\* UnloadAll is final for typed runtimes: what was loading is not published after it.
THEOREM Unloaded == Spec => []TypedStayUnloaded
<1>1. IInv => TypedStayUnloaded
  BY DEF IInv
<1> QED BY <1>1, Invariance, PTL
=============================================================================
