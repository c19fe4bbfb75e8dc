---------------------------- MODULE HostLifetime ----------------------------
(***************************************************************************)
(* hosting/host_lifetime.{h,cc}: the admission controller of a native host *)
(* process.  Every public call runs under SharedState::mutex, so each is   *)
(* one action.  A call's time sample was taken before the mutex was, so it *)
(* may be older than the clock and older than samples already observed.    *)
(***************************************************************************)
EXTENDS Integers, FiniteSets

CONSTANTS Owners,          \* connection generations (OwnerId), never reused
          Guards,          \* WorkGuard objects of the host
          MaxTime,         \* TimePoint::max(), and where the clock stops
          ReconnectGrace,  \* kReconnectGrace
          StartupDeadline, \* the deadline the host is constructed with
          MaxDelay,        \* how stale a time sample may be (a bound)
          None             \* std::nullopt

Time == 0 .. MaxTime

ASSUME TimeAssumption ==
  /\ MaxTime \in Nat
  /\ ReconnectGrace \in Time
  /\ StartupDeadline \in Time
  /\ MaxDelay \in Nat

States == {"AwaitingFirstOwner", "Accepting", "Draining", "Grace",
           "ShutdownCommitted"}

\* What a WorkGuard that holds an admission remembers.  HTTP work has no owner.
Admissions == [owner : Owners \cup {None}, stopping_http : BOOLEAN]

ASSUME NoneAssumption ==
  None \notin Owners /\ None \notin Int /\ None \notin Admissions
ASSUME GuardsAssumption == IsFiniteSet(Guards)

VARIABLES
  state, owners, ipc_work_count, http_work_count, stopping_http, deadline,
  latest_observation,
  guard,     \* what each WorkGuard holds, None when it is empty
  clock,     \* the steady clock
  removed,   \* the generations the transport has removed
  last_use   \* history: latest_observation when an owner or work was last there

sharedState == <<state, owners, ipc_work_count, http_work_count, stopping_http,
                 deadline, latest_observation>>
vars == <<sharedState, guard, clock, removed, last_use>>

TypeOK ==
  /\ state \in States
  /\ owners \in SUBSET Owners
  /\ ipc_work_count \in Nat
  /\ http_work_count \in Nat
  /\ stopping_http \in BOOLEAN
  /\ deadline \in Time \cup {None}
  /\ latest_observation \in Time
  /\ guard \in [Guards -> Admissions \cup {None}]
  /\ clock \in Time
  /\ removed \in SUBSET Owners
  /\ last_use \in Time \cup {None}

Init ==
  /\ state = "AwaitingFirstOwner"
  /\ owners = {}
  /\ ipc_work_count = 0
  /\ http_work_count = 0
  /\ stopping_http = FALSE
  /\ deadline = StartupDeadline
  /\ latest_observation = 0
  /\ guard = [g \in Guards |-> None]
  /\ clock = 0
  /\ removed = {}
  /\ last_use = None

-----------------------------------------------------------------------------
\* Mutant: work done over IPC is forgotten.
NoIpcWork == http_work_count = 0
NoWork == ipc_work_count = 0 /\ http_work_count = 0
InUse == owners # {} \/ ~NoWork

\* The time samples a call may carry: taken now, or up to MaxDelay ago.
Samples == {t \in Time : t <= clock /\ clock - t <= MaxDelay}

\* Mutant: the addition runs past TimePoint::max().
GraceUnsaturated(t) == t + ReconnectGrace
\* BeginGrace's deadline, saturating at TimePoint::max().
GraceFrom(t) == IF t > MaxTime - ReconnectGrace THEN MaxTime
                                                ELSE t + ReconnectGrace

\* Mutant: a late sample takes the observation back.
Unclamped(t) == t
\* Observe clamps the sample to the latest one ...
Clamped(t) == IF t > latest_observation THEN t ELSE latest_observation
\* Mutant: only RemoveOwner and Complete start the grace.
NeverStartsGrace == FALSE
\* ... starts the grace a drained host has been waiting for ...
StartsGrace == state = "Draining" /\ NoWork
ObservedDeadline(t) == IF StartsGrace THEN GraceFrom(Clamped(t)) ELSE deadline
\* ... and commits at or after the deadline.
Commits(t) == ObservedDeadline(t) # None /\ Clamped(t) >= ObservedDeadline(t)
ObservedState(t) == IF Commits(t) THEN "ShutdownCommitted"
                    ELSE IF StartsGrace THEN "Grace" ELSE state

Observe(t) ==
  /\ state' = ObservedState(t)
  /\ deadline' = IF Commits(t) THEN None ELSE ObservedDeadline(t)

\* latest_observation and the history of the last use, which every call updates.
SeesTime(t) ==
  /\ latest_observation' = Clamped(t)
  /\ last_use' = IF InUse \/ owners' # {} THEN Clamped(t) ELSE last_use

AddOwner(o, t) ==
  /\ o \notin removed
  /\ IF ObservedState(t) = "ShutdownCommitted"
       THEN Observe(t) /\ UNCHANGED owners
       ELSE /\ owners' = owners \cup {o}
            /\ state' = "Accepting"
            /\ deadline' = None
  /\ SeesTime(t)
  /\ UNCHANGED <<ipc_work_count, http_work_count, stopping_http, guard, clock, removed>>

RemoveOwner(o, t) ==
  /\ removed' = removed \cup {o}
  /\ owners' = owners \ {o}
  /\ IF o \in owners /\ owners' = {}
       THEN IF NoWork
              THEN /\ state' = "Grace"
                   /\ deadline' = GraceFrom(Clamped(t))
              ELSE /\ state' = "Draining"
                   /\ deadline' = IF Commits(t) THEN None ELSE ObservedDeadline(t)
       ELSE Observe(t)
  /\ SeesTime(t)
  /\ UNCHANGED <<ipc_work_count, http_work_count, stopping_http, guard, clock>>

RetireUnusedStartup(t) ==
  /\ IF ObservedState(t) = "AwaitingFirstOwner"
       THEN state' = "ShutdownCommitted" /\ deadline' = None
       ELSE Observe(t)
  /\ UNCHANGED owners
  /\ SeesTime(t)
  /\ UNCHANGED <<ipc_work_count, http_work_count, stopping_http, guard, clock, removed>>

\* Mutant: HTTP work does not look at stopping_http.
AdmissibleDuringStop(o, stop, t) ==
  /\ ObservedState(t) = "Accepting"
  /\ owners # {}
  /\ o # None => o \in owners
  /\ stop => Cardinality(owners) = 1 /\ http_work_count = 0 /\ ~stopping_http
\* TryAdmitWork's two early returns.  o is None for HTTP work.
Admissible(o, stop, t) ==
  /\ ObservedState(t) = "Accepting"
  /\ owners # {}
  /\ o # None => o \in owners
  /\ o = None => ~stopping_http
  /\ stop => Cardinality(owners) = 1 /\ http_work_count = 0 /\ ~stopping_http

TryAdmitWork(g, o, stop, t) ==
  /\ guard[g] = None
  /\ IF Admissible(o, stop, t)
       THEN /\ guard' = [guard EXCEPT ![g] = [owner |-> o, stopping_http |-> stop]]
            /\ stopping_http' = (stopping_http \/ stop)
            /\ ipc_work_count' = IF o # None THEN ipc_work_count + 1 ELSE ipc_work_count
            /\ http_work_count' = IF o = None THEN http_work_count + 1 ELSE http_work_count
       ELSE UNCHANGED <<guard, stopping_http, ipc_work_count, http_work_count>>
  /\ Observe(t)
  /\ UNCHANGED owners
  /\ SeesTime(t)
  /\ UNCHANGED <<clock, removed>>

TryAdmitIpcWork(g, o, t) == TryAdmitWork(g, o, FALSE, t)
TryAdmitHttpWork(g, t) == TryAdmitWork(g, None, FALSE, t)
TryAdmitWebServiceStop(g, o, t) == TryAdmitWork(g, o, TRUE, t)

Poll(t) ==
  /\ Observe(t)
  /\ UNCHANGED owners
  /\ SeesTime(t)
  /\ UNCHANGED <<ipc_work_count, http_work_count, stopping_http, guard, clock, removed>>

\* The part of Release that both forms share: the counters and the stop flag.
Free(g) ==
  /\ guard[g] # None
  /\ guard' = [guard EXCEPT ![g] = None]
  /\ ipc_work_count' = IF guard[g].owner # None THEN ipc_work_count - 1 ELSE ipc_work_count
  /\ http_work_count' = IF guard[g].owner = None THEN http_work_count - 1 ELSE http_work_count
  /\ stopping_http' = (stopping_http /\ ~guard[g].stopping_http)

\* WorkGuard::Complete: observe, release, and start the grace if that drained the host.
Complete(g, t) ==
  /\ Free(g)
  /\ IF ObservedState(t) = "Draining" /\ NoWork'
       THEN state' = "Grace" /\ deadline' = GraceFrom(Clamped(t))
       ELSE Observe(t)
  /\ UNCHANGED owners
  /\ SeesTime(t)
  /\ UNCHANGED <<clock, removed>>

\* ~WorkGuard without Complete: no time is known, so no grace starts here.
Destroy(g) ==
  /\ Free(g)
  /\ last_use' = latest_observation
  /\ UNCHANGED <<state, owners, deadline, latest_observation, clock, removed>>

Tick ==
  /\ clock < MaxTime
  /\ clock' = clock + 1
  /\ UNCHANGED <<sharedState, guard, removed, last_use>>

Next ==
  \/ Tick
  \/ \E t \in Samples :
       \/ \E o \in Owners : AddOwner(o, t) \/ RemoveOwner(o, t)
       \/ RetireUnusedStartup(t)
       \/ \E g \in Guards, o \in Owners :
            TryAdmitIpcWork(g, o, t) \/ TryAdmitWebServiceStop(g, o, t)
       \/ \E g \in Guards : TryAdmitHttpWork(g, t) \/ Complete(g, t)
       \/ Poll(t)
  \/ \E g \in Guards : Destroy(g)

\* Time passes, and host_server.cc's monitor thread polls with the current time.
Fairness == WF_vars(Tick) /\ WF_vars(Poll(clock))

Spec == Init /\ [][Next]_vars
FairSpec == Spec /\ Fairness

-----------------------------------------------------------------------------
Busy == {g \in Guards : guard[g] # None}

(***************************************************************************)
(* The controller keeps the contract of HostContract: attachment and the   *)
(* commitment to shut down are serialised, work is admitted only on behalf *)
(* of an attached owner, and the commitment finds neither owner nor work.  *)
(***************************************************************************)
Contract == INSTANCE HostContract WITH
  Clients <- Owners, Jobs <- Guards, clients <- owners, jobs <- Busy,
  closed <- (state = "ShutdownCommitted")
KeepsContract == Contract!Spec

(***************************************************************************)
(* A web-service stop excludes HTTP work for as long as it runs: from the  *)
(* admission of the stop to the release of its guard there is no HTTP work *)
(* and no second stop, even if its owner has gone and others have attached.*)
(***************************************************************************)
StopExcludesHttp ==
  \A g \in Busy : guard[g].stopping_http =>
    /\ stopping_http
    /\ \A h \in Busy \ {g} : guard[h].owner # None /\ ~guard[h].stopping_http

(***************************************************************************)
(* A host that has been used waits out the whole reconnect grace, counted  *)
(* from the last observation at which it had an owner or work, before it   *)
(* commits, however late, early or out of order the samples are.           *)
(***************************************************************************)
FullGrace ==
  state = "ShutdownCommitted" /\ last_use # None
    => latest_observation >= GraceFrom(last_use)

(***************************************************************************)
(* A host that stays unused commits: the grace never gets lost, whether    *)
(* its last guard was completed or only destroyed.                         *)
(***************************************************************************)
UnusedHostCommits == <>[](~InUse) => <>(state = "ShutdownCommitted")
=============================================================================
