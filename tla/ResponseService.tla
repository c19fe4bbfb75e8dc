--------------------------- MODULE ResponseService ---------------------------
(***************************************************************************)
(* service/responses_handler.cc over the response store, with the session  *)
(* cache and the registry of inferencing/session/session_manager.cc, and   *)
(* their end: the stop of the web service and Manager::Shutdown.           *)
(*                                                                         *)
(* A request continues the conversation of an earlier response in the live *)
(* session that is cached under its id, or in a new session to which the   *)
(* stored chain is replayed.  The store calls the session manager with its *)
(* mutex held; what happens under that is one step, since nobody can see   *)
(* it between the calls before the new response can be named.              *)
(***************************************************************************)
EXTENDS ResponseStore, FiniteSets

CONSTANTS CacheCapacity,  \* cache_capacity_
          MaxRestarts     \* starts of the web service after the first (a bound)

ASSUME ServiceAssumption == CacheCapacity \in Nat \ {0} /\ MaxRestarts \in Nat

VARIABLES
  cache,          \* lru_order_: the ids under which sessions are cached
  transcript,     \* the hops that the session cached under an id has seen
  pc,             \* of each request: its step
  session,        \* the hops its session has seen, None without one
  canceled,       \* its session was canceled
  shutting_down,  \* shutting_down_ of the session manager
  canceller,      \* whose RequestShutdown is at work: "nobody", "api", "http"
  cancel_all,     \* how far it is: "no", "requested", "cleared", "swept"
  manager,        \* the step of the manager's own thread
  accepting,      \* whether the web service takes requests
  restarts,
  earlier         \* history: the ids that web services before this one published

sessions == <<cache, transcript>>
requests == <<pc, session, canceled>>
shutdown == <<shutting_down, canceller, cancel_all>>
lifecycle == <<manager, accepting, restarts, earlier>>
vars == <<storeVars, sessions, requests, shutdown, lifecycle>>

TypeOK ==
  /\ StoreTypeOK
  /\ cache \in Seq(published) /\ Len(cache) <= CacheCapacity
  /\ \A i \in Ids : IF i \in ToSet(cache) THEN transcript[i] \in Seq(published) ELSE transcript[i] = None
  /\ pc \in [Requests -> {"idle", "leased", "missed", "running", "generated"}]
  /\ \A q \in Requests :
       /\ pc[q] = "idle" <=> pending[q] = None
       /\ IF pc[q] \in {"running", "generated"} THEN session[q] \in Seq(published) ELSE session[q] = None
  /\ canceled \in [Requests -> BOOLEAN]
  /\ shutting_down \in BOOLEAN /\ accepting \in BOOLEAN
  /\ canceller \in {"nobody", "api", "http"}
  /\ cancel_all \in {"no", "requested", "cleared", "swept"}
  /\ manager \in {"up", "stopping", "shutdown", "joining", "joined", "unloaded", "cache cleared", "gone"}
  /\ restarts \in 0 .. MaxRestarts /\ earlier \subseteq published

Init ==
  /\ StoreInit
  /\ cache = <<>> /\ transcript = [i \in Ids |-> None]
  /\ pc = [q \in Requests |-> "idle"]
  /\ session = [q \in Requests |-> None] /\ canceled = [q \in Requests |-> FALSE]
  /\ shutting_down = FALSE /\ canceller = "nobody" /\ cancel_all = "no"
  /\ manager = "up" /\ accepting = TRUE /\ restarts = 0 /\ earlier = {}

-----------------------------------------------------------------------------
(* SessionManager's cache.                                                 *)

Uncached(keys) ==
  /\ cache' = Without(cache, keys)
  /\ transcript' = [i \in Ids |-> IF i \in keys THEN None ELSE transcript[i]]

AllUncached == cache' = <<>> /\ transcript' = [i \in Ids |-> None]

\* Mutant: EvictCached is not called for what the store has evicted.
KeptEvicted(full, evicted) == SubSeq(full, 1, IF Len(full) > CacheCapacity THEN CacheCapacity ELSE Len(full))
\* The least recently cached session is displaced, an evicted response's dropped.
Kept(full, evicted) ==
  Without(SubSeq(full, 1, IF Len(full) > CacheCapacity THEN CacheCapacity ELSE Len(full)), evicted)

CheckedIn(key, seen, evicted) ==
  /\ cache' = Kept(<<key>> \o cache, evicted)
  /\ transcript' = [i \in Ids |-> IF i \notin ToSet(cache') THEN None
                                  ELSE IF i = key THEN seen ELSE transcript[i]]

-----------------------------------------------------------------------------
(* A request.  One that ends, however it does, destroys the session it     *)
(* holds and releases its lease.                                           *)

Becomes(q, from, to) == pc[q] = from /\ pc' = [pc EXCEPT ![q] = to]
\* Mutant: the session is not destroyed.
LeavesHolding(q) ==
  pc' = [pc EXCEPT ![q] = "idle"] /\ canceled' = [canceled EXCEPT ![q] = FALSE] /\ UNCHANGED session
Leaves(q) ==
  /\ pc' = [pc EXCEPT ![q] = "idle"]
  /\ session' = [session EXCEPT ![q] = None] /\ canceled' = [canceled EXCEPT ![q] = FALSE]

Begin(q, p) ==
  /\ accepting /\ Becomes(q, "idle", "leased") /\ BeginResponse(q, p)
  /\ UNCHANGED <<sessions, session, canceled, shutdown, lifecycle>>

\* Mutant: the flag is not looked at under the lock of the sweep.
AdmitsAnyway == TRUE
Admits == ~shutting_down

\* Register, of a session that has seen these hops; it refuses one that comes
\* after the sweep, and nothing else can see the session before.
Register(q, seen) ==
  IF Admits
    THEN /\ pc' = [pc EXCEPT ![q] = "running"] /\ session' = [session EXCEPT ![q] = seen]
         /\ UNCHANGED <<previous, pending, canceled>>
    ELSE Released(q) /\ Leaves(q)

\* CheckOut takes the session from the cache; a new conversation gets a new one.
CheckOut(q) ==
  /\ pc[q] = "leased"
  /\ previous[q] = None \/ previous[q] \in ToSet(cache)
  /\ Register(q, IF previous[q] = None THEN <<>> ELSE transcript[previous[q]])
  /\ Uncached({previous[q]})
  /\ UNCHANGED <<store, published, deleted, shutdown, lifecycle>>
CheckOutMisses(q) ==
  /\ Becomes(q, "leased", "missed")
  /\ previous[q] # None /\ previous[q] \notin ToSet(cache)
  /\ UNCHANGED <<storeVars, sessions, session, canceled, shutdown, lifecycle>>

\* The stored chain is replayed to a new session.
Replay(q) ==
  /\ pc[q] = "missed"
  /\ IF ChainAvailable(q)
       THEN /\ store' = Touch(store, Segment(store, previous[q]))
            /\ Register(q, WalkChain(store, previous[q]))
       ELSE Released(q) /\ Leaves(q) /\ UNCHANGED store
  /\ UNCHANGED <<published, deleted, sessions, shutdown, lifecycle>>

\* ProcessRequest succeeds only if it was not canceled.
Generated(q) ==
  /\ Becomes(q, "running", "generated") /\ ~canceled[q]
  /\ UNCHANGED <<storeVars, sessions, session, canceled, shutdown, lifecycle>>

\* A request fails, is abandoned by its client, or is not to be stored.
Fails(q) ==
  /\ ReleaseLease(q) /\ Leaves(q)
  /\ UNCHANGED <<sessions, shutdown, lifecycle>>
CancellationEnds(q) == pc[q] = "running" /\ canceled[q] /\ Fails(q)
Unpublished(q) == pc[q] = "generated" /\ Fails(q)

\* Commit: metadata and session are published together.  The session has been
\* deregistered.
Publish(q) ==
  /\ pc[q] = "generated"
  /\ \E i \in Ids :
       /\ Commit(q, i)
       /\ CheckedIn(i, Append(session[q], i), Evicted(Insert(store, i, previous[q])))
  /\ Leaves(q)
  /\ UNCHANGED <<shutdown, lifecycle>>

-----------------------------------------------------------------------------
(* The other handlers.                                                     *)

GetResponse(i) ==
  /\ accepting /\ Get(i)
  /\ UNCHANGED <<sessions, requests, shutdown, lifecycle>>

\* Mutant: only what was asked for leaves the cache, not what depends on it.
DroppedAlone(i) == {i}
Dropped(i) == DeletedIds(store, i)

DeleteResponse(i) ==
  /\ accepting /\ DeleteWithDependents(i)
  /\ Uncached(Dropped(i))
  /\ UNCHANGED <<requests, shutdown, lifecycle>>

-----------------------------------------------------------------------------
(* RequestShutdown, by the manager or by the shutdown endpoint.            *)

HttpShutdown ==
  /\ accepting /\ manager = "up" /\ cancel_all = "no"
  /\ cancel_all' = "requested" /\ canceller' = "http"
  /\ UNCHANGED <<storeVars, sessions, requests, shutting_down, lifecycle>>

\* CancelAll: ClearCache, then the flag and the sweep under one lock.
ClearCache ==
  /\ cancel_all = "requested" /\ cancel_all' = "cleared"
  /\ AllUncached
  /\ UNCHANGED <<storeVars, requests, shutting_down, canceller, lifecycle>>

Sweep ==
  /\ cancel_all = "cleared" /\ cancel_all' = "swept"
  /\ shutting_down' = TRUE
  /\ canceled' = [q \in Requests |-> canceled[q] \/ pc[q] \in {"running", "generated"}]
  /\ UNCHANGED <<storeVars, sessions, pc, session, canceller, lifecycle>>

-----------------------------------------------------------------------------
(* The manager's thread: StopWebService and StartWebService, Shutdown, and *)
(* the destructor.                                                         *)

ManagerMoves(from, to) == manager = from /\ manager' = to

StopWebService ==
  /\ ManagerMoves("up", "stopping")
  /\ accepting /\ accepting' = FALSE
  /\ UNCHANGED <<storeVars, sessions, requests, shutdown, restarts, earlier>>

\* The handlers and the streaming threads are joined; then the store dies.
ThreadsJoined == (\A q \in Requests : pc[q] = "idle") /\ (canceller = "http" => cancel_all = "swept")
ServiceGone ==
  /\ ThreadsJoined
  /\ store' = [store EXCEPT !.entries = <<>>, !.prefix = [i \in Ids |-> <<>>]]
  /\ earlier' = published
  /\ UNCHANGED <<previous, pending, published, deleted, sessions, requests, shutdown, restarts>>

StopReturns == ManagerMoves("stopping", "up") /\ ServiceGone /\ UNCHANGED accepting

StartWebService ==
  /\ manager = "up" /\ ~accepting /\ accepting' = TRUE
  /\ restarts < MaxRestarts /\ restarts' = restarts + 1
  /\ UNCHANGED <<storeVars, sessions, requests, shutdown, manager, earlier>>

\* Somebody else's RequestShutdown is not waited for.
Shutdown ==
  /\ ManagerMoves("up", "shutdown")
  /\ cancel_all' = IF cancel_all = "no" THEN "requested" ELSE cancel_all
  /\ canceller' = IF cancel_all = "no" THEN "api" ELSE canceller
  /\ UNCHANGED <<storeVars, sessions, requests, shutting_down, accepting, restarts, earlier>>

ShutdownStops ==
  /\ ManagerMoves("shutdown", "joining")
  /\ canceller = "api" => cancel_all = "swept"
  /\ accepting' = FALSE
  /\ UNCHANGED <<storeVars, sessions, requests, shutdown, restarts, earlier>>

ShutdownJoined == ManagerMoves("joining", "joined") /\ ServiceGone /\ UNCHANGED accepting

\* WaitForDrain and UnloadAll have a deadline.
Unload ==
  /\ ManagerMoves("joined", "unloaded")
  /\ UNCHANGED <<storeVars, sessions, requests, shutdown, accepting, restarts, earlier>>

\* Mutant: the cache was cleared by CancelAll already.
DestroyOnly ==
  /\ ManagerMoves("unloaded", "cache cleared")
  /\ UNCHANGED <<storeVars, sessions, requests, shutdown, accepting, restarts, earlier>>

\* ~Manager destroys the session manager, which clears the cache once more ...
DestroySessionManager ==
  /\ ManagerMoves("unloaded", "cache cleared") /\ AllUncached
  /\ UNCHANGED <<storeVars, requests, shutdown, accepting, restarts, earlier>>

\* ... and then the models.
DestroyModels ==
  /\ ManagerMoves("cache cleared", "gone")
  /\ UNCHANGED <<storeVars, sessions, requests, shutdown, accepting, restarts, earlier>>

-----------------------------------------------------------------------------
\* What a request does without the model's help.
Proceed(q) ==
  \/ CheckOutMisses(q) \/ CheckOut(q) \/ Replay(q)
  \/ CancellationEnds(q) \/ Unpublished(q) \/ Publish(q)

ManagerProceeds ==
  \/ ClearCache \/ Sweep \/ ShutdownStops \/ ShutdownJoined
  \/ Unload \/ DestroySessionManager \/ DestroyModels

Next ==
  \/ \E q \in Requests :
       \/ \E p \in Ids \cup {None} : Begin(q, p)
       \/ Proceed(q) \/ Generated(q) \/ Fails(q)
  \/ \E i \in Ids : GetResponse(i) \/ DeleteResponse(i)
  \/ HttpShutdown \/ StopWebService \/ StopReturns \/ StartWebService \/ Shutdown
  \/ ManagerProceeds

\* Threads run on: some request does, and the manager.  A generation that nobody
\* cancels may take for ever.
Fairness == WF_vars(\E q \in Requests : Proceed(q)) /\ WF_vars(ManagerProceeds)

Spec == Init /\ [][Next]_vars
FairSpec == Spec /\ Fairness

-----------------------------------------------------------------------------
(***************************************************************************)
(* A live session continues exactly what the stored chain would replay.    *)
(* Unless its web service has stopped, it is cached only while its         *)
(* response is stored; with that, no deleted hop stays in a live session.  *)
(***************************************************************************)
WarmIsWhole ==
  \A i \in ToSet(cache) :
    /\ transcript[i] = Conversation(i)
    /\ i \notin earlier => i \in ToSet(store.entries)

(***************************************************************************)
(* The models are destroyed after every session that refers to them, also  *)
(* one that was cached after CancelAll had cleared the cache.              *)
(***************************************************************************)
SessionsDieFirst ==
  manager = "gone" => cache = <<>> /\ \A q \in Requests : session[q] = None

(***************************************************************************)
(* Manager::Shutdown returns, although it joins threads whose generation   *)
(* only a cancellation ends: no session escapes the sweep of CancelAll.    *)
(***************************************************************************)
ShutdownReturns == manager = "shutdown" ~> manager = "gone"
=============================================================================
