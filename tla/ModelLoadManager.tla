-------------------------- MODULE ModelLoadManager --------------------------
(***************************************************************************)
(* inferencing/model_load_manager.{h,cc} and the admission coordinator of  *)
(* predictive/non_generative_admission.cc: who may load, hold, unload and  *)
(* remove a model, and how shutdown takes them all down.                   *)
(*                                                                         *)
(* A call is one call of the API by some thread.  It is made once, on one  *)
(* model handle, and moves through the steps between which the code holds  *)
(* no lock.  Calls begin in the order of their numbers, which mean nothing *)
(* else.  A typed (non-generative) runtime is named by the call that    *)
(* built it, and so is the shared future its waiters wait on.              *)
(***************************************************************************)
EXTENDS Naturals, FiniteSets

CONSTANTS NumCalls,  \* how many API calls are made (a bound)
          Handles,   \* Model objects
          Ids,       \* model ids; two handles may share one
          Paths,     \* artifact directories; two handles may share one
          IdOf,      \* [Handles -> Ids]
          PathOf,    \* [Handles -> Paths]
          Typed,     \* the handles of non-generative models
          Budget,    \* memory budget, in runtimes
          Readiness, \* non_generative_readiness_concurrency
          None       \* no call, no path, no result yet

Calls == 1 .. NumCalls

ASSUME CallsAssumption == NumCalls \in Nat
ASSUME HandleAssumption ==
  IdOf \in [Handles -> Ids] /\ PathOf \in [Handles -> Paths] /\ Typed \subseteq Handles
ASSUME TypedAssumption ==
  \A s \in Typed, h \in Handles :
    IdOf[s] = IdOf[h] => h \in Typed /\ PathOf[s] = PathOf[h]
ASSUME AdmissionAssumption ==
  Budget \in Nat \ {0} /\ Readiness \in Nat \ {0}
ASSUME LoadNoneAssumption == None \notin Calls \cup Paths \cup Handles

Generative == Handles \ Typed
GenIds == {IdOf[h] : h \in Generative}
TypedIds == {IdOf[h] : h \in Typed}

VARIABLES
  generative,    \* loaded_runtimes_, generative part: the path an id was loaded from
  session_refs,  \* GenAIModelInstance::session_ref_count_ of each generative id
  typed,         \* loaded_runtimes_, typed part: the runtime of each id
  loading,       \* loading_runtimes_: the call whose future each typed id has
  future,        \* the result a builder has given its waiters
  shutdown,      \* shutdown_
  unload_all,    \* the step UnloadAll is at
  snapshot,      \* the generative instances UnloadAll has listed: of each id,
                 \* "held" while it is the loaded one, "orphaned" when it was unloaded
  polled,        \* the id UnloadAll has found without sessions
  expired,       \* UnloadAll's overall deadline has passed
  present,       \* the artifact directories that exist
  pc, handle, runtime  \* of each call: its step, its model, its typed runtime

maps == <<generative, session_refs, typed, loading>>
teardown == <<shutdown, unload_all, snapshot, polled, expired>>
vars == <<maps, future, teardown, present, pc, handle, runtime>>

Steps == {"idle", "done",
          "checked",                                    \* LoadModel
          "constructing", "constructed", "session",     \* Session::Create
          "inspected", "admitted", "reserved", "building", "built",
          "published", "failing", "erased",             \* AcquireManagedRuntime, builder
          "waiting", "leased",                          \* a waiter; a lease is held
          "destroying"}                                 \* UnloadModelArtifact

TypeOK ==
  /\ generative \in [GenIds -> Paths \cup {None}]
  /\ session_refs \in [GenIds -> Nat]
  /\ typed \in [TypedIds -> Calls \cup {None}]
  /\ loading \in [TypedIds -> Calls \cup {None}]
  /\ future \in [Calls -> {"none", "value", "error"}]
  /\ shutdown \in BOOLEAN
  /\ unload_all \in {"no", "waiting", "polling", "returned"}
  /\ snapshot \in [GenIds -> {"none", "held", "orphaned"}]
  /\ polled \in GenIds \cup {None}
  /\ expired \in BOOLEAN
  /\ present \in SUBSET Paths
  /\ pc \in [Calls -> Steps]
  /\ handle \in [Calls -> Handles \cup {None}]
  /\ runtime \in [Calls -> Calls \cup {None}]

Init ==
  /\ generative = [i \in GenIds |-> None]
  /\ session_refs = [i \in GenIds |-> 0]
  /\ typed = [i \in TypedIds |-> None]
  /\ loading = [i \in TypedIds |-> None]
  /\ future = [c \in Calls |-> "none"]
  /\ shutdown = FALSE
  /\ unload_all = "no"
  /\ snapshot = [i \in GenIds |-> "none"]
  /\ polled = None
  /\ expired = FALSE
  /\ present = Paths
  /\ pc = [c \in Calls |-> "idle"]
  /\ handle = [c \in Calls |-> None]
  /\ runtime = [c \in Calls |-> None]

-----------------------------------------------------------------------------
Id(c) == IdOf[handle[c]]
Path(c) == PathOf[handle[c]]

\* Call c takes a step; when it is done its arguments are forgotten.
Moves(c, from, to) ==
  /\ pc[c] = from
  /\ pc' = [pc EXCEPT ![c] = to]
  /\ handle' = [handle EXCEPT ![c] = IF to = "done" THEN None ELSE @]
Starts(c, h, to) ==
  /\ pc[c] = "idle"
  /\ \A d \in Calls : d < c => pc[d] # "idle"
  /\ pc' = [pc EXCEPT ![c] = to]
  /\ handle' = [handle EXCEPT ![c] = IF to = "done" THEN None ELSE h]

\* Generative models: LoadModel reads shutdown_ before it takes the mutex ...
LoadModel(c, h) ==
  /\ Starts(c, h, IF shutdown THEN "done" ELSE "checked")
  /\ UNCHANGED <<maps, future, teardown, present, runtime>>

\* ... and then does all of its work under the mutex.  A model that is loaded
\* already, from this path or another, or whose directory is gone, is left as
\* it is; the native load itself may fail.
LoadModelLocked(c) ==
  /\ Moves(c, "checked", "done")
  /\ \/ UNCHANGED generative
     \/ /\ generative[Id(c)] = None
        /\ Path(c) \in present
        /\ generative' = [generative EXCEPT ![Id(c)] = Path(c)]
  /\ UNCHANGED <<session_refs, typed, loading, future, teardown, present, runtime>>

AddRefs(i, n) == session_refs' = [session_refs EXCEPT ![i] = @ + n]
DropRef(i) == session_refs' = [session_refs EXCEPT ![i] = @ - 1]

\* AcquireSessionModel: lookup and the construction-time reference in one critical section.
AcquireSessionModel(c, h) ==
  /\ h \in Generative
  /\ IF generative[IdOf[h]] = PathOf[h]
       THEN Starts(c, h, "constructing") /\ AddRefs(IdOf[h], 1)
       ELSE Starts(c, h, "done") /\ UNCHANGED session_refs
  /\ UNCHANGED <<generative, typed, loading, future, teardown, present, runtime>>

\* The session constructor takes its own reference ...
ConstructSession(c) ==
  /\ Moves(c, "constructing", "constructed")
  /\ AddRefs(Id(c), 1)
  /\ UNCHANGED <<generative, typed, loading, future, teardown, present, runtime>>

\* Mutant: a constructor that throws has released its reference already.
DropConstructionRefTwice(c) ==
  /\ \/ Moves(c, "constructed", "session") /\ DropRef(Id(c))
     \/ /\ Moves(c, "constructing", "done")
        /\ session_refs' = [session_refs EXCEPT ![Id(c)] = @ - 2]
  /\ UNCHANGED <<generative, typed, loading, future, teardown, present, runtime>>

\* ... and only then does the factory drop the construction-time one, which a
\* constructor that throws leaves as the only one to drop.
DropConstructionRef(c) ==
  /\ Moves(c, "constructed", "session") \/ Moves(c, "constructing", "done")
  /\ DropRef(Id(c))
  /\ UNCHANGED <<generative, typed, loading, future, teardown, present, runtime>>

ReleaseSession(c) ==
  /\ Moves(c, "session", "done")
  /\ DropRef(Id(c))
  /\ UNCHANGED <<generative, typed, loading, future, teardown, present, runtime>>

\* UnloadModel refuses while a session reference is left.
Unloadable(i) == generative[i] # None /\ session_refs[i] = 0
EraseGenerative(i) == generative' = [generative EXCEPT ![i] = None]
Settle(i, s) == snapshot' = [snapshot EXCEPT ![i] = s]

UnloadModel(c, h) ==
  /\ h \in Generative
  /\ Starts(c, h, "done")
  /\ IF Unloadable(IdOf[h]) /\ generative[IdOf[h]] = PathOf[h]
       THEN /\ EraseGenerative(IdOf[h])
            /\ Settle(IdOf[h], IF snapshot[IdOf[h]] = "held" THEN "orphaned" ELSE snapshot[IdOf[h]])
       ELSE UNCHANGED <<generative, snapshot>>
  /\ UNCHANGED <<session_refs, typed, loading, future, shutdown, unload_all, polled,
                 expired, present, runtime>>

-----------------------------------------------------------------------------
(* Typed models.  The shared_ptr of a runtime is held by its entry of the     *)
(* map, by the future while anybody still looks at it, by every lease, and by *)
(* the call that is destroying it.                                            *)
Looking(c) == pc[c] \in {"waiting", "published"}
Users(r) == {c \in Calls : runtime[c] = r /\ (pc[c] = "leased" \/ Looking(c))}

\* A memory reservation lives as long as its runtime, or its builder's attempt.
Reserved ==
  {r \in Calls : \/ pc[r] \in {"reserved", "building", "built", "published"}
                 \/ r \in {typed[i] : i \in TypedIds}
                 \/ Users(r) # {}
                 \/ \E c \in Calls : pc[c] = "destroying" /\ runtime[c] = r}

\* InspectNonGenerativePackage reads the package's metadata, or fails.
Inspect(c, h) ==
  /\ h \in Typed
  /\ Starts(c, h, IF PathOf[h] \in present THEN "inspected" ELSE "done")
  /\ UNCHANGED <<maps, future, teardown, present, runtime>>

\* Mutant: a load that is under way is not joined.
AdmitWithoutJoining(c) ==
  /\ pc[c] = "inspected"
  /\ ~shutdown /\ typed[Id(c)] = None
  /\ Moves(c, "inspected", "admitted")
  /\ loading' = [loading EXCEPT ![Id(c)] = c]
  /\ UNCHANGED <<generative, session_refs, typed, future, teardown, present, runtime>>

\* AcquireManagedRuntime's admission: refuse, lease, join or begin a load.
Admit(c) ==
  /\ pc[c] = "inspected"
  /\ \/ /\ shutdown
        /\ Moves(c, "inspected", "done")
        /\ UNCHANGED <<runtime, loading>>
     \/ /\ ~shutdown /\ typed[Id(c)] # None
        /\ Moves(c, "inspected", "leased")
        /\ runtime' = [runtime EXCEPT ![c] = typed[Id(c)]]
        /\ UNCHANGED loading
     \/ /\ ~shutdown /\ typed[Id(c)] = None /\ loading[Id(c)] # None
        /\ Moves(c, "inspected", "waiting")
        /\ runtime' = [runtime EXCEPT ![c] = loading[Id(c)]]
        /\ UNCHANGED loading
     \/ /\ ~shutdown /\ typed[Id(c)] = None /\ loading[Id(c)] = None
        /\ Moves(c, "inspected", "admitted")
        /\ loading' = [loading EXCEPT ![Id(c)] = c]
        /\ UNCHANGED runtime
  /\ UNCHANGED <<generative, session_refs, typed, future, teardown, present>>

\* The builder's reservation is refused when the budget has no room.
Reserve(c) ==
  /\ Moves(c, "admitted", IF Cardinality(Reserved) < Budget THEN "reserved" ELSE "failing")
  /\ UNCHANGED <<maps, future, teardown, present, runtime>>

\* BeginReadiness waits for its turn.
BeginReadiness(c) ==
  /\ Cardinality({d \in Calls : pc[d] \in {"building", "built"}}) < Readiness
  /\ Moves(c, "reserved", "building")
  /\ UNCHANGED <<maps, future, teardown, present, runtime>>

\* The factory opens the artifact; it may fail.
Build(c) ==
  /\ \/ Moves(c, "building", "built") /\ Path(c) \in present
     \/ Moves(c, "building", "failing")
  /\ UNCHANGED <<maps, future, teardown, present, runtime>>

\* Mutant: shutdown_ is only looked at when the load is admitted.
PublishUnchecked(c) ==
  /\ Moves(c, "built", "published")
  /\ typed' = [typed EXCEPT ![Id(c)] = c]
  /\ loading' = [loading EXCEPT ![Id(c)] = None]
  /\ runtime' = [runtime EXCEPT ![c] = c]
  /\ UNCHANGED <<generative, session_refs, future, teardown, present>>

\* Publication looks at shutdown_ again, under the mutex.
Publish(c) ==
  /\ IF shutdown
       THEN Moves(c, "built", "failing") /\ UNCHANGED <<typed, loading, runtime>>
       ELSE /\ Moves(c, "built", "published")
            /\ typed' = [typed EXCEPT ![Id(c)] = c]
            /\ loading' = [loading EXCEPT ![Id(c)] = None]
            /\ runtime' = [runtime EXCEPT ![c] = c]
  /\ UNCHANGED <<generative, session_refs, future, teardown, present>>

\* set_value, and the builder's own lease from the future.
Fulfil(c) ==
  /\ Moves(c, "published", "leased")
  /\ future' = [future EXCEPT ![c] = "value"]
  /\ UNCHANGED <<maps, teardown, present, runtime>>

\* The catch block, entered when the reservation and the readiness are gone.
EraseFailed(c) ==
  /\ Moves(c, "failing", "erased")
  /\ loading' = [loading EXCEPT ![Id(c)] = None]
  /\ UNCHANGED <<generative, session_refs, typed, future, teardown, present, runtime>>

\* Mutant: the builder throws before it sets the exception.
FailAlone(c) ==
  /\ Moves(c, "erased", "done")
  /\ UNCHANGED <<maps, future, teardown, present, runtime>>

\* set_exception answers whoever joined.
FailWaiters(c) ==
  /\ Moves(c, "erased", "done")
  /\ future' = [future EXCEPT ![c] = "error"]
  /\ UNCHANGED <<maps, teardown, present, runtime>>

\* A waiter's future.get().
Answered(c) ==
  /\ \/ Moves(c, "waiting", "leased") /\ future[runtime[c]] = "value" /\ UNCHANGED runtime
     \/ /\ Moves(c, "waiting", "done")
        /\ future[runtime[c]] = "error"
        /\ runtime' = [runtime EXCEPT ![c] = None]
  /\ UNCHANGED <<maps, future, teardown, present>>

AcquireLoadedNonGenerativeRuntime(c, h) ==
  /\ h \in Typed
  /\ IF typed[IdOf[h]] # None
       THEN Starts(c, h, "leased") /\ runtime' = [runtime EXCEPT ![c] = typed[IdOf[h]]]
       ELSE Starts(c, h, "done") /\ UNCHANGED runtime
  /\ UNCHANGED <<maps, future, teardown, present>>

\* The last reference to a runtime may go here, and its destruction with it.
DropRuntime(c) ==
  /\ Moves(c, "leased", "done") \/ Moves(c, "destroying", "done")
  /\ runtime' = [runtime EXCEPT ![c] = None]
  /\ UNCHANGED <<maps, future, teardown, present>>

\* UnloadModelArtifact refuses while the id is loading or its runtime is used,
\* and destroys what it removed after it has left the mutex.
UnloadModelArtifact(c, h) ==
  LET i == IdOf[h] IN
  /\ h \in Typed
  /\ IF loading[i] = None /\ typed[i] # None /\ Users(typed[i]) = {}
       THEN /\ Starts(c, h, "destroying")
            /\ typed' = [typed EXCEPT ![i] = None]
            /\ runtime' = [runtime EXCEPT ![c] = typed[i]]
       ELSE Starts(c, h, "done") /\ UNCHANGED <<typed, runtime>>
  /\ UNCHANGED <<generative, session_refs, loading, future, teardown, present>>

-----------------------------------------------------------------------------
\* The artifacts in use in a directory: loaded or being loaded from it.
LoadedFrom(p) ==
  \/ \E i \in GenIds : generative[i] = p
  \/ \E h \in Typed : PathOf[h] = p /\ typed[IdOf[h]] # None
\* Mutant: only loaded models are looked for.
IgnoresLoading(p) == FALSE
LoadingFrom(p) == \E h \in Typed : PathOf[h] = p /\ loading[IdOf[h]] # None

\* RunWithUnloadedModelsInDirectory holds the mutex through the removal.
RemoveDirectory(c, h) ==
  /\ Starts(c, h, "done")
  /\ present' = IF LoadedFrom(PathOf[h]) \/ LoadingFrom(PathOf[h])
                  THEN present ELSE present \ {PathOf[h]}
  /\ UNCHANGED <<maps, future, teardown, runtime>>

\* A download completes.
Download(p) ==
  /\ p \notin present
  /\ present' = present \cup {p}
  /\ UNCHANGED <<maps, future, teardown, pc, handle, runtime>>

-----------------------------------------------------------------------------
\* Shutdown: RejectNewLoads, and later UnloadAll.
calls == <<pc, handle, runtime>>

RejectNewLoads ==
  /\ ~shutdown
  /\ shutdown' = TRUE
  /\ unload_all' = "waiting"
  /\ UNCHANGED <<maps, future, snapshot, polled, expired, present, calls>>

Expire ==
  /\ unload_all \in {"waiting", "polling"} /\ ~expired
  /\ expired' = TRUE
  /\ UNCHANGED <<maps, future, shutdown, unload_all, snapshot, polled, present, calls>>

\* Under the mutex, every typed runtime is dropped and the others are listed.
UnloadAllSnapshot ==
  /\ unload_all = "waiting"
  /\ unload_all' = "polling"
  /\ snapshot' = [i \in GenIds |-> IF generative[i] # None THEN "held" ELSE "none"]
  /\ typed' = [i \in TypedIds |-> None]
  /\ UNCHANGED <<generative, session_refs, loading, future, shutdown, polled, expired,
                 present, calls>>

\* The sessions of the instance in the snapshot; one unloaded since then has none.
SnapshotRefs(i) == IF snapshot[i] = "held" THEN session_refs[i] ELSE 0

UnloadAllPoll(i) ==
  /\ unload_all = "polling" /\ polled = None
  /\ snapshot[i] # "none" /\ SnapshotRefs(i) = 0
  /\ polled' = i
  /\ UNCHANGED <<maps, future, shutdown, unload_all, snapshot, expired, present, calls>>

\* Mutant: the polled reference count is believed.
UnloadPolled(i) ==
  /\ polled = i
  /\ polled' = None
  /\ Settle(i, "none")
  /\ EraseGenerative(i)
  /\ UNCHANGED <<session_refs, typed, loading, future, shutdown, unload_all, expired,
                 present, calls>>

\* A session may have attached since the poll, so UnloadModel asks again.
UnloadAllUnload(i) ==
  /\ polled = i
  /\ polled' = None
  /\ Settle(i, "none")
  /\ IF Unloadable(i) THEN EraseGenerative(i) ELSE UNCHANGED generative
  /\ UNCHANGED <<session_refs, typed, loading, future, shutdown, unload_all, expired,
                 present, calls>>

\* Mutant: the deadline is not looked at.
NeverGivesUp(i) == FALSE

\* A model that is still used at the deadline stays loaded.
UnloadAllGiveUp(i) ==
  /\ unload_all = "polling" /\ polled = None
  /\ expired /\ SnapshotRefs(i) > 0
  /\ Settle(i, "none")
  /\ UNCHANGED <<maps, future, shutdown, unload_all, polled, expired, present, calls>>

UnloadAllReturn ==
  /\ unload_all = "polling" /\ \A i \in GenIds : snapshot[i] = "none"
  /\ unload_all' = "returned"
  /\ UNCHANGED <<maps, future, shutdown, snapshot, polled, expired, present, calls>>

-----------------------------------------------------------------------------
\* A thread that is inside a call finishes it; a session or lease may be kept.
Proceed(c) ==
  \/ LoadModelLocked(c)
  \/ ConstructSession(c) \/ DropConstructionRef(c)
  \/ Admit(c) \/ Reserve(c) \/ BeginReadiness(c) \/ Build(c) \/ Publish(c) \/ Fulfil(c)
  \/ EraseFailed(c) \/ FailWaiters(c) \/ Answered(c)

UnloadAll ==
  \/ UnloadAllSnapshot
  \/ \E i \in GenIds : UnloadAllPoll(i) \/ UnloadAllUnload(i) \/ UnloadAllGiveUp(i)
  \/ UnloadAllReturn

Next ==
  \/ \E c \in Calls, h \in Handles :
       \/ h \in Generative /\ LoadModel(c, h)
       \/ AcquireSessionModel(c, h)
       \/ UnloadModel(c, h)
       \/ Inspect(c, h)
       \/ AcquireLoadedNonGenerativeRuntime(c, h)
       \/ UnloadModelArtifact(c, h)
       \/ RemoveDirectory(c, h)
  \/ \E c \in Calls : Proceed(c) \/ ReleaseSession(c) \/ DropRuntime(c)
  \/ \E p \in Paths : Download(p)
  \/ RejectNewLoads \/ Expire \/ UnloadAll

\* Some thread inside a call always runs on; sessions and leases may be kept
\* for ever; time passes.
Fairness ==
  /\ WF_vars(\E c \in Calls : Proceed(c))
  /\ WF_vars(UnloadAll \/ Expire)

Spec == Init /\ [][Next]_vars
FairSpec == Spec /\ Fairness

-----------------------------------------------------------------------------
(***************************************************************************)
(* A session, or one that is being constructed, has its model loaded from  *)
(* the path it was created for: no order of lookups, unloads and shutdown  *)
(* polls destroys an instance somebody still refers to.                    *)
(***************************************************************************)
SessionsPinModel ==
  \A c \in Calls : pc[c] \in {"constructing", "constructed", "session"}
    => generative[Id(c)] = Path(c)

(***************************************************************************)
(* A typed runtime is loaded once, however many threads ask for it at the  *)
(* same moment: an id is loaded, or one call is loading it, never both.    *)
(***************************************************************************)
SingleFlight ==
  \A i \in TypedIds :
    LET builders == {c \in Calls : handle[c] # None /\ Id(c) = i /\ pc[c] \in
                      {"admitted", "reserved", "building", "built", "failing"}}
    IN  /\ builders = IF loading[i] = None THEN {} ELSE {loading[i]}
        /\ typed[i] # None => loading[i] = None

(***************************************************************************)
(* The files of a model that is loaded, or that a factory has just opened, *)
(* are not removed under it.                                               *)
(***************************************************************************)
FilesOutliveRuntime ==
  /\ \A p \in Paths : LoadedFrom(p) => p \in present
  /\ \A c \in Calls : pc[c] = "built" => Path(c) \in present

(***************************************************************************)
(* Once UnloadAll has dropped the typed runtimes none is loaded again: a   *)
(* load that was under way when the shutdown began is not published.       *)
(***************************************************************************)
TypedStayUnloaded ==
  unload_all \in {"polling", "returned"} => \A i \in TypedIds : typed[i] = None

(***************************************************************************)
(* A thread that joined somebody else's load gets its runtime or its error *)
(* in the end: no outcome of the builder leaves the future unset.  (A call *)
(* is made once, so if there is always a later moment at which nobody      *)
(* waits, nobody waits for ever.)                                          *)
(***************************************************************************)
WaitersAnswered == []<>(\A c \in Calls : pc[c] # "waiting")

(***************************************************************************)
(* UnloadAll returns, even while some sessions are never released.         *)
(***************************************************************************)
UnloadAllReturns == shutdown ~> unload_all = "returned"

(***************************************************************************)
(* What model_load_manager.h says of UnloadAll: every loaded model is      *)
(* unloaded unless its sessions outlive the deadline.                      *)
(***************************************************************************)
EverythingUnloaded ==
  unload_all = "returned" /\ ~expired /\ (\A i \in GenIds : session_refs[i] = 0)
    => \A i \in GenIds : generative[i] = None
=============================================================================
