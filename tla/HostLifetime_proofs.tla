------------------------ MODULE HostLifetime_proofs ------------------------
(***************************************************************************)
(* Proofs about HostLifetime, for any number of owners and guards and any  *)
(* times.  The inductive invariant says what each state of the controller  *)
(* knows about owners, work and the deadline.                              *)
(***************************************************************************)
EXTENDS HostLifetime, FiniteSetTheorems, TLAPS

USE TimeAssumption, NoneAssumption

IpcBusy == {g \in Busy : guard[g].owner # None}
HttpBusy == {g \in Busy : guard[g].owner = None}

\* The counters count the guards.
WorkCounts ==
  /\ ipc_work_count = Cardinality(IpcBusy)
  /\ http_work_count = Cardinality(HttpBusy)

\* What each state of the controller knows.
Phases ==
  /\ state = "Accepting" <=> owners # {}
  /\ state \in {"AwaitingFirstOwner", "Grace", "ShutdownCommitted"} => NoWork
  /\ deadline # None <=> state \in {"AwaitingFirstOwner", "Grace"}

\* How the deadline relates to the history of the last use.
GraceKept ==
  /\ last_use # None => last_use <= latest_observation
  /\ state = "AwaitingFirstOwner" => last_use = None
  /\ state = "Grace" /\ last_use # None => deadline >= GraceFrom(last_use)
  /\ FullGrace

IInv == TypeOK /\ WorkCounts /\ Phases /\ StopExcludesHttp /\ GraceKept

-----------------------------------------------------------------------------
\* BeginGrace's deadline is a time, not before the observation, and monotonic.
LEMMA GraceFromFacts ==
  /\ \A t \in Time : GraceFrom(t) \in Time /\ GraceFrom(t) >= t
  /\ \A s, t \in Time : s <= t => GraceFrom(s) <= GraceFrom(t)
BY DEF GraceFrom, Time

\* The observed sample is a time and never goes back.
LEMMA ClampedFacts ==
  ASSUME TypeOK, NEW t \in Time
  PROVE  Clamped(t) \in Time /\ Clamped(t) >= latest_observation
BY DEF Clamped, TypeOK, Time

\* What Observe leaves, state by state.
LEMMA ObserveFacts ==
  ASSUME TypeOK, Phases, NEW t \in Time
  PROVE  /\ ObservedState(t) \in States
         /\ ObservedDeadline(t) \in Time \cup {None}
         /\ ObservedState(t) = "Accepting" <=> state = "Accepting"
         /\ ObservedState(t) = "AwaitingFirstOwner" => state = "AwaitingFirstOwner"
         /\ ObservedState(t) = "ShutdownCommitted" =>
              \/ state = "ShutdownCommitted"
              \/ Commits(t) /\ NoWork /\ owners = {}
         /\ ObservedState(t) = "Draining" => state = "Draining" /\ ~NoWork
         /\ ObservedState(t) = "Grace" => NoWork /\ owners = {}
         /\ Commits(t) => ObservedState(t) = "ShutdownCommitted" /\ NoWork /\ owners = {}
         /\ ~Commits(t) =>
              ObservedDeadline(t) # None <=> ObservedState(t) \in {"AwaitingFirstOwner", "Grace"}
<1>1. GraceFrom(Clamped(t)) \in Time /\ GraceFrom(Clamped(t)) # None
  BY GraceFromFacts, ClampedFacts DEF Time
<1> QED
  BY <1>1, ClampedFacts
  DEF TypeOK, Phases, ObservedState, ObservedDeadline, Commits, StartsGrace, States, Time

-----------------------------------------------------------------------------
\* The two sets of guards are finite, so the counters are natural numbers.
LEMMA BusyFinite ==
  /\ IsFiniteSet(IpcBusy) /\ IsFiniteSet(HttpBusy)
  /\ Cardinality(IpcBusy) \in Nat /\ Cardinality(HttpBusy) \in Nat
<1>1. IpcBusy \in SUBSET Guards /\ HttpBusy \in SUBSET Guards
  BY DEF IpcBusy, HttpBusy, Busy
<1> QED
  BY <1>1, FS_Subset, FS_CardinalityType, GuardsAssumption

\* Filling an empty guard adds it to the set its owner decides, and to no other.
LEMMA FillCounts ==
  ASSUME TypeOK, WorkCounts, NEW g \in Guards, guard[g] = None,
         NEW a \in Admissions, guard' = [guard EXCEPT ![g] = a],
         ipc_work_count' = IF a.owner # None THEN ipc_work_count + 1 ELSE ipc_work_count,
         http_work_count' = IF a.owner = None THEN http_work_count + 1 ELSE http_work_count
  PROVE  WorkCounts' /\ ipc_work_count' \in Nat /\ http_work_count' \in Nat
<1>1. CASE a.owner # None
  <2>1. IpcBusy' = IpcBusy \cup {g} /\ HttpBusy' = HttpBusy /\ g \notin IpcBusy
    BY <1>1 DEF TypeOK, IpcBusy, HttpBusy, Busy
  <2>2. Cardinality(IpcBusy') = Cardinality(IpcBusy) + 1
    BY <2>1, BusyFinite, FS_AddElement
  <2> QED
    BY <1>1, <2>1, <2>2, BusyFinite DEF WorkCounts, TypeOK
<1>2. CASE a.owner = None
  <2>1. HttpBusy' = HttpBusy \cup {g} /\ IpcBusy' = IpcBusy /\ g \notin HttpBusy
    BY <1>2 DEF TypeOK, IpcBusy, HttpBusy, Busy
  <2>2. Cardinality(HttpBusy') = Cardinality(HttpBusy) + 1
    BY <2>1, BusyFinite, FS_AddElement
  <2> QED
    BY <1>2, <2>1, <2>2, BusyFinite DEF WorkCounts, TypeOK
<1> QED
  BY <1>1, <1>2

\* Releasing a guard takes it from the set its owner decides, and never below zero.
LEMMA FreeCounts ==
  ASSUME TypeOK, WorkCounts, NEW g \in Guards, Free(g)
  PROVE  WorkCounts' /\ ipc_work_count' \in Nat /\ http_work_count' \in Nat
<1>1. CASE guard[g].owner # None
  <2>1. IpcBusy' = IpcBusy \ {g} /\ HttpBusy' = HttpBusy /\ g \in IpcBusy
    BY <1>1 DEF TypeOK, Free, IpcBusy, HttpBusy, Busy
  <2>2. Cardinality(IpcBusy') = Cardinality(IpcBusy) - 1 /\ Cardinality(IpcBusy') \in Nat
    BY <2>1, BusyFinite, FS_RemoveElement, FS_CardinalityType
  <2> QED
    BY <1>1, <2>1, <2>2, BusyFinite DEF WorkCounts, TypeOK, Free
<1>2. CASE guard[g].owner = None
  <2>1. HttpBusy' = HttpBusy \ {g} /\ IpcBusy' = IpcBusy /\ g \in HttpBusy
    BY <1>2 DEF TypeOK, Free, IpcBusy, HttpBusy, Busy
  <2>2. Cardinality(HttpBusy') = Cardinality(HttpBusy) - 1 /\ Cardinality(HttpBusy') \in Nat
    BY <2>1, BusyFinite, FS_RemoveElement, FS_CardinalityType
  <2> QED
    BY <1>2, <2>1, <2>2, BusyFinite DEF WorkCounts, TypeOK, Free
<1> QED
  BY <1>1, <1>2

\* The history and the observation that every timed call leaves.
LEMMA SeesTimeFacts ==
  ASSUME IInv, NEW t \in Time, SeesTime(t)
  PROVE  /\ latest_observation' \in Time /\ latest_observation' >= latest_observation
         /\ last_use' \in Time \cup {None}
         /\ last_use' # None => last_use' <= latest_observation'
         /\ last_use' # None => GraceFrom(last_use') <= GraceFrom(Clamped(t))
<1>1. Clamped(t) \in Time /\ Clamped(t) >= latest_observation
  BY ClampedFacts DEF IInv
<1>2. last_use' \in Time \cup {None} /\ (last_use' # None => last_use' <= Clamped(t))
  BY <1>1 DEF SeesTime, IInv, TypeOK, GraceKept, Time
<1> QED
  BY <1>1, <1>2, GraceFromFacts DEF SeesTime

\* A call that leaves the guards alone leaves what depends on them alone.
LEMMA SameGuards ==
  ASSUME WorkCounts, StopExcludesHttp,
         UNCHANGED <<ipc_work_count, http_work_count, stopping_http, guard>>
  PROVE  WorkCounts' /\ StopExcludesHttp' /\ (NoWork' <=> NoWork)
BY DEF WorkCounts, StopExcludesHttp, IpcBusy, HttpBusy, Busy, NoWork

\* A call that does no more to the state and the deadline than Observe keeps
\* the phases and the grace.
LEMMA ObserveKeeps ==
  ASSUME IInv, NEW t \in Time, Observe(t), SeesTime(t),
         state = "Accepting" \/ (NoWork' <=> NoWork),
         owners' = {} <=> owners = {}
  PROVE  /\ state' \in States /\ deadline' \in Time \cup {None}
         /\ Phases' /\ GraceKept'
<1> DEFINE d == ObservedDeadline(t)
<1>1. Clamped(t) \in Time /\ Clamped(t) >= latest_observation
  BY ClampedFacts DEF IInv
<1>2. state' \in States /\ deadline' \in Time \cup {None} /\ Phases'
  BY ObserveFacts DEF IInv, Phases, Observe, NoWork, TypeOK
<1>3. d # None /\ last_use' # None /\ state # "AwaitingFirstOwner" => d >= GraceFrom(last_use')
  BY <1>1, SeesTimeFacts, GraceFromFacts
  DEF IInv, TypeOK, Phases, GraceKept, ObservedDeadline, StartsGrace, SeesTime, InUse, NoWork, Time
<1>4. (last_use' # None => last_use' <= latest_observation')
      /\ (state' = "AwaitingFirstOwner" => last_use' = None)
  BY SeesTimeFacts, ObserveFacts
  DEF IInv, GraceKept, Phases, Observe, SeesTime, InUse
<1>5. ASSUME state' = "Grace", last_use' # None PROVE deadline' >= GraceFrom(last_use')
  BY <1>3, <1>5, ObserveFacts DEF IInv, Phases, Observe, GraceKept, SeesTime, InUse
<1>6. FullGrace'
  <2> SUFFICES ASSUME state' = "ShutdownCommitted", last_use' # None
               PROVE  latest_observation' >= GraceFrom(last_use')
    BY DEF FullGrace
  <2>1. owners = {} /\ NoWork /\ last_use' = last_use
    BY ObserveFacts DEF IInv, Phases, Observe, SeesTime, InUse
  <2>2. CASE state = "ShutdownCommitted"
    <3>1. last_use \in Time /\ latest_observation >= GraceFrom(last_use)
      BY <2>1, <2>2 DEF IInv, TypeOK, GraceKept, FullGrace
    <3> QED
      BY <1>1, <2>1, <3>1, GraceFromFacts DEF SeesTime, IInv, TypeOK, Time
  <2>3. CASE Commits(t)
    <3>1. d \in Time /\ Clamped(t) >= d /\ d >= GraceFrom(last_use')
      BY <1>3, <2>1, <2>3, ObserveFacts DEF IInv, Commits, GraceKept
    <3> QED
      BY <1>1, <2>1, <3>1, GraceFromFacts DEF SeesTime, IInv, TypeOK, Time
  <2> QED
    BY <2>2, <2>3, ObserveFacts DEF IInv, Observe
<1> QED
  BY <1>2, <1>4, <1>5, <1>6 DEF GraceKept

-----------------------------------------------------------------------------
LEMMA InitIInv == Init => IInv
<1> SUFFICES ASSUME Init PROVE IInv
  OBVIOUS
<1>1. TypeOK
  <2>1. guard \in [Guards -> Admissions \cup {None}]
    BY DEF Init
  <2>2. 0 \in Time /\ StartupDeadline \in Time
    BY DEF Time
  <2>3. state \in States /\ owners \in SUBSET Owners /\ removed \in SUBSET Owners
    BY DEF Init, States
  <2> QED
    BY <2>1, <2>2, <2>3 DEF Init, TypeOK
<1>2. IpcBusy = {} /\ HttpBusy = {} /\ Busy = {}
  BY DEF Init, IpcBusy, HttpBusy, Busy
<1>3. WorkCounts
  BY <1>2, FS_EmptySet DEF Init, WorkCounts
<1>4. Phases
  BY DEF Init, Phases, NoWork, Time
<1> QED
  BY <1>1, <1>2, <1>3, <1>4 DEF Init, IInv, StopExcludesHttp, GraceKept, FullGrace

-----------------------------------------------------------------------------
\* Calls that only observe: Poll, and every early return.
LEMMA OnlyObserves ==
  ASSUME IInv, NEW t \in Time, Observe(t), SeesTime(t), removed' \in SUBSET Owners,
         UNCHANGED <<owners, ipc_work_count, http_work_count, stopping_http, guard, clock>>
  PROVE  IInv'
<1>1. WorkCounts' /\ StopExcludesHttp' /\ (NoWork' <=> NoWork)
  BY SameGuards DEF IInv
<1>2. state' \in States /\ deadline' \in Time \cup {None} /\ Phases' /\ GraceKept'
  BY <1>1, ObserveKeeps
<1>3. latest_observation' \in Time /\ last_use' \in Time \cup {None}
  BY SeesTimeFacts
<1>4. TypeOK'
  BY <1>2, <1>3 DEF IInv, TypeOK
<1> QED
  BY <1>1, <1>2, <1>4 DEF IInv

LEMMA AddOwnerIInv ==
  ASSUME IInv, NEW o \in Owners, NEW t \in Time, AddOwner(o, t)
  PROVE  IInv'
<1>1. CASE ObservedState(t) = "ShutdownCommitted"
  BY <1>1, OnlyObserves DEF AddOwner, IInv, TypeOK
<1>2. CASE ObservedState(t) # "ShutdownCommitted"
  <2>1. WorkCounts' /\ StopExcludesHttp'
    BY SameGuards DEF IInv, AddOwner
  <2>2. SeesTime(t) /\ owners' # {} /\ state' = "Accepting" /\ deadline' = None
        /\ owners' \in SUBSET Owners
    BY <1>2 DEF AddOwner, IInv, TypeOK
  <2>3. latest_observation' \in Time /\ last_use' \in Time
        /\ last_use' <= latest_observation'
    BY <2>2, ClampedFacts DEF IInv, SeesTime, Time
  <2>4. TypeOK'
    BY <2>2, <2>3 DEF IInv, TypeOK, AddOwner, States
  <2>5. Phases' /\ GraceKept'
    BY <2>2, <2>3, <2>4 DEF Phases, GraceKept, FullGrace, NoWork, AddOwner, IInv
  <2> QED
    BY <2>1, <2>4, <2>5 DEF IInv
<1> QED
  BY <1>1, <1>2

LEMMA RemoveOwnerIInv ==
  ASSUME IInv, NEW o \in Owners, NEW t \in Time, RemoveOwner(o, t)
  PROVE  IInv'
<1> DEFINE last == o \in owners /\ owners' = {}
<1>1. WorkCounts' /\ StopExcludesHttp' /\ (NoWork' <=> NoWork)
  BY SameGuards DEF IInv, RemoveOwner
<1>2. SeesTime(t) /\ owners' \in SUBSET Owners /\ removed' \in SUBSET Owners
  BY DEF RemoveOwner, IInv, TypeOK
<1>3. /\ latest_observation' \in Time /\ latest_observation' = Clamped(t)
      /\ last_use' \in Time \cup {None}
      /\ last_use' # None => last_use' <= latest_observation'
      /\ last_use' # None => GraceFrom(last_use') <= GraceFrom(Clamped(t))
  BY <1>2, SeesTimeFacts DEF SeesTime
<1>4. CASE ~last
  <2>1. Observe(t) /\ (owners' = {} <=> owners = {})
    BY <1>4 DEF RemoveOwner
  <2>2. state' \in States /\ deadline' \in Time \cup {None} /\ Phases' /\ GraceKept'
    BY <1>1, <1>2, <2>1, ObserveKeeps
  <2> QED
    BY <1>1, <1>2, <1>3, <2>2 DEF IInv, TypeOK, RemoveOwner
<1>5. CASE last /\ NoWork
  <2>1. state' = "Grace" /\ deadline' = GraceFrom(Clamped(t)) /\ deadline' \in Time
    BY <1>3, <1>5, GraceFromFacts DEF RemoveOwner
  <2>2. Phases' /\ GraceKept'
    BY <1>1, <1>3, <1>5, <2>1 DEF Phases, GraceKept, FullGrace, Time
  <2> QED
    BY <1>1, <1>2, <1>3, <2>1, <2>2 DEF IInv, TypeOK, RemoveOwner, States
<1>6. CASE last /\ ~NoWork
  <2>1. state' = "Draining" /\ deadline' = None
    BY <1>6, ObserveFacts DEF RemoveOwner, IInv, Phases
  <2>2. Phases' /\ GraceKept'
    BY <1>1, <1>3, <1>6, <2>1 DEF Phases, GraceKept, FullGrace
  <2> QED
    BY <1>1, <1>2, <1>3, <2>1, <2>2 DEF IInv, TypeOK, RemoveOwner, States
<1> QED
  BY <1>4, <1>5, <1>6

LEMMA RetireUnusedStartupIInv ==
  ASSUME IInv, NEW t \in Time, RetireUnusedStartup(t)
  PROVE  IInv'
<1>1. CASE ObservedState(t) # "AwaitingFirstOwner"
  BY <1>1, OnlyObserves DEF RetireUnusedStartup, IInv, TypeOK
<1>2. CASE ObservedState(t) = "AwaitingFirstOwner"
  <2>1. WorkCounts' /\ StopExcludesHttp' /\ (NoWork' <=> NoWork)
    BY SameGuards DEF IInv, RetireUnusedStartup
  <2>2. NoWork /\ owners = {} /\ last_use = None
    BY <1>2, ObserveFacts DEF IInv, Phases, GraceKept
  <2>3. state' = "ShutdownCommitted" /\ deadline' = None /\ owners' = {} /\ last_use' = None
        /\ latest_observation' \in Time
    BY <1>2, <2>2, ClampedFacts DEF RetireUnusedStartup, SeesTime, InUse, IInv
  <2>4. TypeOK'
    BY <2>3 DEF IInv, TypeOK, RetireUnusedStartup, States
  <2> QED
    BY <2>1, <2>2, <2>3, <2>4 DEF IInv, Phases, GraceKept, FullGrace
<1> QED
  BY <1>1, <1>2

\* A stop is admitted only when no guard is a stop and none is HTTP work.
LEMMA AdmitStop ==
  ASSUME IInv, NEW g \in Guards, guard[g] = None, NEW o \in Owners \cup {None},
         NEW stop \in BOOLEAN, NEW t \in Time, Admissible(o, stop, t),
         guard' = [guard EXCEPT ![g] = [owner |-> o, stopping_http |-> stop]],
         stopping_http' = (stopping_http \/ stop), stop => o # None
  PROVE  StopExcludesHttp'
<1>1. stop => \A h \in Busy : guard[h].owner # None /\ ~guard[h].stopping_http
  <2>1. stop => HttpBusy = {}
    BY BusyFinite, FS_EmptySet DEF IInv, WorkCounts, Admissible
  <2> QED
    BY <2>1 DEF HttpBusy, Busy, IInv, StopExcludesHttp, Admissible
<1>2. Busy' = Busy \cup {g} /\ g \notin Busy
      /\ guard'[g] = [owner |-> o, stopping_http |-> stop]
      /\ \A h \in Busy : guard'[h] = guard[h]
  BY DEF Busy, IInv, TypeOK, Admissions
<1> SUFFICES ASSUME NEW x \in Busy', guard'[x].stopping_http,
                    NEW y \in Busy' \ {x}
             PROVE  stopping_http' /\ guard'[y].owner # None /\ ~guard'[y].stopping_http
  <2>1. \A x \in Busy' : guard'[x].stopping_http => stopping_http'
    BY <1>2 DEF IInv, StopExcludesHttp
  <2> QED
    BY <2>1 DEF StopExcludesHttp
<1>3. CASE x = g
  BY <1>1, <1>2, <1>3
<1>4. CASE x # g
  <2>1. x \in Busy /\ guard[x].stopping_http
    BY <1>2, <1>4
  <2>2. stopping_http /\ ~stop /\ o # None
    BY <1>1, <2>1 DEF IInv, StopExcludesHttp, Admissible
  <2>3. CASE y = g
    <3>1. guard'[y].owner = o /\ guard'[y].stopping_http = stop
      BY <1>2, <2>3
    <3>2. stopping_http'
      BY <2>2
    <3> QED
      BY <2>2, <3>1, <3>2
  <2>4. CASE y # g
    BY <1>2, <2>1, <2>2, <2>4 DEF IInv, StopExcludesHttp
  <2> QED
    BY <2>3, <2>4
<1> QED
  BY <1>3, <1>4

LEMMA TryAdmitWorkIInv ==
  ASSUME IInv, NEW g \in Guards, NEW o \in Owners \cup {None}, NEW stop \in BOOLEAN,
         NEW t \in Time, TryAdmitWork(g, o, stop, t), stop => o # None
  PROVE  IInv'
<1>1. CASE ~Admissible(o, stop, t)
  BY <1>1, OnlyObserves DEF TryAdmitWork, IInv, TypeOK
<1>2. CASE Admissible(o, stop, t)
  <2> DEFINE a == [owner |-> o, stopping_http |-> stop]
  <2>1. a \in Admissions /\ a.owner = o /\ guard' = [guard EXCEPT ![g] = a]
        /\ guard' \in [Guards -> Admissions \cup {None}]
    BY <1>2 DEF Admissions, TryAdmitWork, IInv, TypeOK
  <2>2. WorkCounts' /\ ipc_work_count' \in Nat /\ http_work_count' \in Nat
    BY <1>2, <2>1, FillCounts DEF TryAdmitWork, IInv
  <2>3. StopExcludesHttp'
    BY <1>2, AdmitStop DEF TryAdmitWork
  <2>4. state = "Accepting"
    BY <1>2, ObserveFacts DEF Admissible, IInv
  <2>5. state' \in States /\ deadline' \in Time \cup {None} /\ Phases' /\ GraceKept'
    BY <2>4, ObserveKeeps DEF TryAdmitWork
  <2>6. latest_observation' \in Time /\ last_use' \in Time \cup {None}
    BY SeesTimeFacts DEF TryAdmitWork
  <2>7. stopping_http' \in BOOLEAN
    BY <1>2 DEF TryAdmitWork, IInv, TypeOK
  <2> QED
    BY <2>1, <2>2, <2>3, <2>5, <2>6, <2>7 DEF IInv, TypeOK, TryAdmitWork
<1> QED
  BY <1>1, <1>2

\* Releasing any guard keeps the exclusion, and clears the flag only for the stop.
LEMMA FreeStop ==
  ASSUME IInv, NEW g \in Guards, Free(g)
  PROVE  /\ StopExcludesHttp' /\ stopping_http' \in BOOLEAN
         /\ guard' \in [Guards -> Admissions \cup {None}]
         /\ ~NoWork
<1>1. guard' \in [Guards -> Admissions \cup {None}]
      /\ Busy' = Busy \ {g} /\ g \in Busy /\ \A h \in Busy' : guard'[h] = guard[h]
  BY DEF Free, IInv, TypeOK, Busy
<1>2. StopExcludesHttp'
  BY <1>1 DEF StopExcludesHttp, IInv, Free
<1>3. g \in IpcBusy \/ g \in HttpBusy
  BY <1>1 DEF IpcBusy, HttpBusy
<1>4. ~NoWork
  BY <1>3, BusyFinite, FS_EmptySet DEF IInv, WorkCounts, NoWork
<1> QED
  BY <1>1, <1>2, <1>4 DEF Free, IInv, TypeOK

LEMMA CompleteIInv ==
  ASSUME IInv, NEW g \in Guards, NEW t \in Time, Complete(g, t)
  PROVE  IInv'
<1>1. /\ WorkCounts' /\ ipc_work_count' \in Nat /\ http_work_count' \in Nat
      /\ StopExcludesHttp' /\ stopping_http' \in BOOLEAN
      /\ guard' \in [Guards -> Admissions \cup {None}] /\ ~NoWork
  BY FreeCounts, FreeStop DEF Complete, IInv
<1>2. /\ latest_observation' \in Time /\ latest_observation' = Clamped(t)
      /\ last_use' \in Time \cup {None}
      /\ last_use' # None => last_use' <= latest_observation'
      /\ last_use' # None => GraceFrom(last_use') <= GraceFrom(Clamped(t))
  BY SeesTimeFacts DEF SeesTime, Complete
<1>3. CASE ObservedState(t) = "Draining" /\ NoWork'
  <2>1. owners' = {} /\ state' = "Grace" /\ deadline' = GraceFrom(Clamped(t)) /\ deadline' \in Time
    BY <1>2, <1>3, ObserveFacts, GraceFromFacts DEF Complete, IInv, Phases
  <2>2. Phases' /\ GraceKept'
    BY <1>2, <1>3, <2>1 DEF Phases, GraceKept, FullGrace, Time
  <2> QED
    BY <1>1, <1>2, <2>1, <2>2 DEF IInv, TypeOK, Complete, States
<1>4. CASE ~(ObservedState(t) = "Draining" /\ NoWork')
  <2>1. state \in {"Accepting", "Draining"} /\ ObservedState(t) = state /\ ~Commits(t)
        /\ ObservedDeadline(t) = None
    BY <1>1, ObserveFacts DEF IInv, TypeOK, Phases, States, ObservedState, ObservedDeadline, StartsGrace
  <2>2. state' = state /\ deadline' = None /\ owners' = owners
    BY <1>4, <2>1 DEF Complete, Observe
  <2>3. Phases' /\ GraceKept'
    BY <1>2, <2>1, <2>2 DEF Phases, GraceKept, FullGrace, IInv
  <2> QED
    BY <1>1, <1>2, <2>1, <2>2, <2>3 DEF IInv, TypeOK, Complete
<1> QED
  BY <1>3, <1>4

LEMMA DestroyIInv ==
  ASSUME IInv, NEW g \in Guards, Destroy(g)
  PROVE  IInv'
<1>1. /\ WorkCounts' /\ ipc_work_count' \in Nat /\ http_work_count' \in Nat
      /\ StopExcludesHttp' /\ stopping_http' \in BOOLEAN
      /\ guard' \in [Guards -> Admissions \cup {None}] /\ ~NoWork
  BY FreeCounts, FreeStop DEF Destroy, IInv
<1>2. state \in {"Accepting", "Draining"}
  BY <1>1 DEF IInv, TypeOK, Phases, States
<1>3. Phases' /\ GraceKept'
  BY <1>2 DEF Destroy, IInv, TypeOK, Phases, GraceKept, FullGrace, Time
<1> QED
  BY <1>1, <1>3 DEF IInv, TypeOK, Destroy

LEMMA TickIInv == IInv /\ Tick => IInv'
<1> SUFFICES ASSUME IInv, Tick PROVE IInv'
  OBVIOUS
<1>1. WorkCounts' /\ StopExcludesHttp' /\ (NoWork' <=> NoWork)
  BY SameGuards DEF IInv, Tick, sharedState
<1>2. TypeOK'
  BY DEF IInv, TypeOK, Tick, sharedState, Time
<1> QED
  BY <1>1, <1>2 DEF IInv, Phases, GraceKept, FullGrace, GraceFrom, Tick, sharedState

-----------------------------------------------------------------------------
LEMMA NextIInv == IInv /\ [Next]_vars => IInv'
<1> SUFFICES ASSUME IInv, [Next]_vars PROVE IInv'
  OBVIOUS
<1>1. CASE Tick
  BY <1>1, TickIInv
<1>2. ASSUME NEW t \in Samples, NEW o \in Owners, AddOwner(o, t) \/ RemoveOwner(o, t)
      PROVE  IInv'
  BY <1>2, AddOwnerIInv, RemoveOwnerIInv DEF Samples
<1>3. ASSUME NEW t \in Samples, RetireUnusedStartup(t) PROVE IInv'
  BY <1>3, RetireUnusedStartupIInv DEF Samples
<1>4. ASSUME NEW t \in Samples, NEW g \in Guards, NEW o \in Owners,
             TryAdmitIpcWork(g, o, t) \/ TryAdmitWebServiceStop(g, o, t)
      PROVE  IInv'
  BY <1>4, TryAdmitWorkIInv DEF Samples, TryAdmitIpcWork, TryAdmitWebServiceStop
<1>5. ASSUME NEW t \in Samples, NEW g \in Guards, TryAdmitHttpWork(g, t) \/ Complete(g, t)
      PROVE  IInv'
  BY <1>5, TryAdmitWorkIInv, CompleteIInv DEF Samples, TryAdmitHttpWork
<1>6. ASSUME NEW t \in Samples, Poll(t) PROVE IInv'
  BY <1>6, OnlyObserves DEF Samples, Poll, IInv, TypeOK
<1>7. ASSUME NEW g \in Guards, Destroy(g) PROVE IInv'
  BY <1>7, DestroyIInv
<1>8. CASE UNCHANGED vars
  <2>1. WorkCounts' /\ StopExcludesHttp' /\ (NoWork' <=> NoWork)
    BY <1>8, SameGuards DEF IInv, vars, sharedState
  <2> QED
    BY <1>8, <2>1 DEF IInv, TypeOK, Phases, GraceKept, FullGrace, GraceFrom, vars, sharedState
<1> QED
  BY <1>1, <1>2, <1>3, <1>4, <1>5, <1>6, <1>7, <1>8 DEF Next

(***************************************************************************)
(* Every reachable state of the controller satisfies the inductive         *)
(* invariant: types, counters, phases, stop exclusion and the grace.       *)
(***************************************************************************)
THEOREM Invariant == Spec => []IInv
BY InitIInv, NextIInv, PTL DEF Spec

(***************************************************************************)
(* Type correctness; with it, no work counter ever goes below zero and no  *)
(* deadline past TimePoint::max().                                         *)
(***************************************************************************)
THEOREM TypeCorrect == Spec => []TypeOK
<1>1. IInv => TypeOK
  BY DEF IInv
<1> QED
  BY <1>1, Invariant, PTL

(***************************************************************************)
(* A web-service stop excludes HTTP work and a second stop while it runs.  *)
(***************************************************************************)
THEOREM StopExcludes == Spec => []StopExcludesHttp
<1>1. IInv => StopExcludesHttp
  BY DEF IInv
<1> QED
  BY <1>1, Invariant, PTL

(***************************************************************************)
(* A used host waits out the whole reconnect grace before it commits.      *)
(***************************************************************************)
THEOREM WholeGrace == Spec => []FullGrace
<1>1. IInv => FullGrace
  BY DEF IInv, GraceKept
<1> QED
  BY <1>1, Invariant, PTL

-----------------------------------------------------------------------------
Committed == state = "ShutdownCommitted"

\* A call that only observes either commits an unused host or changes nothing.
LEMMA ObserveRefines ==
  ASSUME IInv, NEW t \in Time, Observe(t), UNCHANGED <<owners, guard>>
  PROVE  [Contract!Next]_(Contract!vars)
<1>1. Committed => Committed'
  BY ObserveFacts DEF IInv, TypeOK, Phases, Committed, Observe, ObservedState, StartsGrace, Commits
<1>2. Busy' = Busy
  BY DEF Busy
<1>3. NoWork => Busy = {}
  <2>1. NoWork => IpcBusy = {} /\ HttpBusy = {}
    BY BusyFinite, FS_EmptySet DEF IInv, WorkCounts, NoWork
  <2> QED
    BY <2>1 DEF IpcBusy, HttpBusy
<1>4. Committed' => Committed \/ (owners = {} /\ NoWork)
  BY ObserveFacts DEF IInv, Committed, Observe
<1> QED
  BY <1>1, <1>2, <1>3, <1>4 DEF Committed, Contract!Next, Contract!Close, Contract!vars

\* Every step of the controller is a step of the contract or leaves it alone.
LEMMA StepRefines == IInv /\ IInv' /\ [Next]_vars => [Contract!Next]_(Contract!vars)
<1> SUFFICES ASSUME IInv, IInv', [Next]_vars PROVE [Contract!Next]_(Contract!vars)
  OBVIOUS
<1>1. CASE Tick \/ UNCHANGED vars
  BY <1>1 DEF Tick, vars, sharedState, Contract!vars, Busy
<1>2. ASSUME NEW t \in Samples, NEW o \in Owners, AddOwner(o, t)
      PROVE  [Contract!Next]_(Contract!vars)
  <2>1. CASE ObservedState(t) = "ShutdownCommitted"
    BY <1>2, <2>1, ObserveRefines DEF AddOwner, Samples
  <2>2. CASE ObservedState(t) # "ShutdownCommitted"
    <3>1. state # "ShutdownCommitted"
      BY <2>2 DEF ObservedState, StartsGrace
    <3>2. Contract!Attach(o)
      BY <1>2, <2>2, <3>1 DEF AddOwner, Contract!Attach, Busy
    <3> QED
      BY <3>2 DEF Contract!Next
  <2> QED
    BY <2>1, <2>2
<1>3. ASSUME NEW t \in Samples, NEW o \in Owners, RemoveOwner(o, t)
      PROVE  [Contract!Next]_(Contract!vars)
  <2>1. Busy' = Busy
    BY <1>3 DEF RemoveOwner, Busy
  <2>2. CASE o \in owners
    <3>1. Contract!Detach(o)
      <4>1. state # "ShutdownCommitted" /\ state' # "ShutdownCommitted"
        BY <1>3, <2>2, ObserveFacts DEF RemoveOwner, IInv, Phases, Samples, Observe
      <4> QED
        BY <1>3, <2>1, <4>1 DEF RemoveOwner, Contract!Detach
    <3> QED
      BY <3>1 DEF Contract!Next
  <2>3. CASE o \notin owners
    BY <1>3, <2>3, ObserveRefines DEF RemoveOwner, Samples
  <2> QED
    BY <2>2, <2>3
<1>4. ASSUME NEW t \in Samples, RetireUnusedStartup(t)
      PROVE  [Contract!Next]_(Contract!vars)
  <2>1. CASE ObservedState(t) = "AwaitingFirstOwner"
    <3>1. owners = {} /\ Busy = {} /\ Busy' = Busy
      <4>1. NoWork /\ owners = {}
        BY <2>1, ObserveFacts DEF IInv, Phases, Samples
      <4>2. IpcBusy = {} /\ HttpBusy = {}
        BY <4>1, BusyFinite, FS_EmptySet DEF IInv, WorkCounts, NoWork
      <4> QED
        BY <1>4, <4>1, <4>2 DEF IpcBusy, HttpBusy, RetireUnusedStartup, Busy
    <3>2. Contract!Close
      BY <1>4, <2>1, <3>1 DEF RetireUnusedStartup, Contract!Close
    <3> QED
      BY <3>2 DEF Contract!Next
  <2>2. CASE ObservedState(t) # "AwaitingFirstOwner"
    BY <1>4, <2>2, ObserveRefines DEF RetireUnusedStartup, Samples
  <2> QED
    BY <2>1, <2>2
<1>5. ASSUME NEW t \in Samples, NEW g \in Guards, NEW o \in Owners \cup {None},
             NEW stop \in BOOLEAN, TryAdmitWork(g, o, stop, t)
      PROVE  [Contract!Next]_(Contract!vars)
  <2>1. CASE Admissible(o, stop, t)
    <3>1. state = "Accepting" /\ state' = "Accepting" /\ owners # {}
      BY <1>5, <2>1, ObserveFacts DEF Admissible, TryAdmitWork, Observe, IInv, Samples
    <3>2. Busy' = Busy \cup {g} /\ g \notin Busy
      <4> DEFINE a == [owner |-> o, stopping_http |-> stop]
      <4>1. a \in Admissions /\ guard' = [guard EXCEPT ![g] = a]
        BY <1>5, <2>1 DEF TryAdmitWork, Admissions
      <4> HIDE DEF a
      <4> QED
        BY <1>5, <4>1 DEF Busy, IInv, TypeOK, TryAdmitWork
    <3>3. Contract!Admit(g)
      BY <1>5, <3>1, <3>2 DEF Contract!Admit, TryAdmitWork
    <3> QED
      BY <3>3 DEF Contract!Next
  <2>2. CASE ~Admissible(o, stop, t)
    BY <1>5, <2>2, ObserveRefines DEF TryAdmitWork, Samples
  <2> QED
    BY <2>1, <2>2
<1>6. ASSUME NEW t \in Samples, Poll(t) PROVE [Contract!Next]_(Contract!vars)
  BY <1>6, ObserveRefines DEF Poll, Samples
<1>7. ASSUME NEW g \in Guards, Free(g), state' # "ShutdownCommitted", owners' = owners
      PROVE  [Contract!Next]_(Contract!vars)
  <2>1. ~NoWork /\ Busy' = Busy \ {g}
    BY <1>7, FreeStop DEF Free, Busy, IInv, TypeOK
  <2>2. Contract!Finish(g)
    BY <1>7, <2>1 DEF Contract!Finish, IInv, Phases
  <2> QED
    BY <2>2 DEF Contract!Next
<1>8. ASSUME NEW t \in Samples, NEW g \in Guards, Complete(g, t)
      PROVE  state' # "ShutdownCommitted" /\ Free(g) /\ owners' = owners
  <2>1. ~NoWork /\ Free(g) /\ owners' = owners
    BY <1>8, FreeStop DEF Complete
  <2> QED
    BY <1>8, <2>1, ObserveFacts DEF Complete, Observe, IInv, Phases, Samples
<1>9. ASSUME NEW g \in Guards, Destroy(g)
      PROVE  state' # "ShutdownCommitted" /\ Free(g) /\ owners' = owners
  BY <1>9, FreeStop DEF Destroy, IInv, Phases
<1> QED
  BY <1>1, <1>2, <1>3, <1>4, <1>5, <1>6, <1>7, <1>8, <1>9
  DEF Next, TryAdmitIpcWork, TryAdmitHttpWork, TryAdmitWebServiceStop

(***************************************************************************)
(* The controller implements HostContract: no client is attached and no    *)
(* work is admitted by a host that has committed to shut down, and it      *)
(* commits only when it has neither.                                       *)
(***************************************************************************)
THEOREM ImplementsContract == Spec => KeepsContract
<1>1. Init => Contract!Init
  BY DEF Init, Contract!Init, Busy
<1> QED
  BY <1>1, Invariant, StepRefines, PTL DEF Spec, Contract!Spec, KeepsContract
=============================================================================
