------------------------- MODULE HostStartup_proofs -------------------------
(***************************************************************************)
(* Proofs about HostStartup, for any clients, incarnations and number of   *)
(* faults.  A client inside Connect has the startup lock; with it, no      *)
(* launcher runs unless it is waiting for its own; without a launch of its *)
(* own, no process has the lease either.                                   *)
(***************************************************************************)
EXTENDS HostStartup, TLAPS

USE FaultAssumption, StartupNoneAssumption

Inside == {"loop", "descriptor", "recorded", "reaping", "observed", "retiring", "failing"}
Alive(i) == LauncherRuns(i) \/ DaemonRuns(i)

\* Only the client that has the lock is between Lock and the end of its call.
Exclusive == \A c \in Clients : pc[c] \in Inside <=> lock = c

\* What has become of an incarnation is in its files.
Lineage ==
  \A i \in Incarnations :
    /\ launcher[i] = "none" => daemon[i] = "none"
    /\ DaemonRuns(i) /\ daemon[i] # "unpublished" => i \in published
    /\ LauncherRuns(i) /\ daemon[i] = "none" => i \in bootstraps

\* Which processes may run beside the client that has the lock.
Alone ==
  \A c \in Clients : pc[c] \in Inside =>
    /\ \A i \in Incarnations : LauncherRuns(i) => pc[c] = "reaping" /\ i = current[c]
    /\ pc[c] # "reaping" /\ ~launched[c] => \A i \in Incarnations : ~Leased(i)

\* The record and the incarnation of that client, step by step.
Turns ==
  \A c \in Clients :
    /\ pc[c] \in {"descriptor", "recorded"} =>
         current[c] \in bootstraps /\ launcher[current[c]] = "none"
    /\ pc[c] \in {"descriptor", "recorded", "reaping"} => current[c] \in Incarnations
    /\ pc[c] = "descriptor" => launch = None
    /\ pc[c] = "recorded" => launch # None /\ launch.incarnation = current[c]
    /\ pc[c] \in {"retiring", "failing"} => launch # None /\ ~Alive(launch.incarnation)

\* An owner is attached, and to one host.
Attached ==
  \A c \in Clients, i \in Incarnations : c \in owners[i] =>
    /\ pc[c] = "attached"
    /\ \A j \in Incarnations \ {i} : c \notin owners[j]

IInv == TypeOK /\ Attached /\ Exclusive /\ Lineage /\ Alone /\ Turns /\ NothingForgotten
-----------------------------------------------------------------------------
\* The name that NewHostIncarnation makes up is not used yet.
LEMMA NewFacts ==
  ASSUME \E i \in Incarnations : ~Used(i)
  PROVE  NewHostIncarnation \in Incarnations /\ ~Used(NewHostIncarnation)
BY DEF NewHostIncarnation

\* Leaving Connect closes the lock and forgets the incarnation.
LEMMA LeavesType ==
  ASSUME TypeOK, NEW c \in Clients, NEW from, NEW to \in Steps, Leaves(c, from, to)
  PROVE  /\ pc' \in [Clients -> Steps]
         /\ lock' \in Clients \cup {None}
         /\ current' \in [Clients -> Incarnations \cup {None}]
         /\ launched' \in [Clients -> BOOLEAN]
<1>1. pc' \in [Clients -> Steps] /\ lock' \in Clients \cup {None}
  BY DEF TypeOK, Leaves, Moves
<1>2. current' \in [Clients -> Incarnations \cup {None}]
  BY DEF TypeOK, Leaves
<1>3. launched' \in [Clients -> BOOLEAN]
  BY DEF TypeOK, Leaves
<1> QED BY <1>1, <1>2, <1>3

\* The types are inductive, given that the steps inside Connect have what they work on.
LEMMA TypeStep ==
  ASSUME TypeOK, Turns, [Next]_vars
  PROVE  TypeOK'
<1> USE DEF TypeOK, Turns, Steps, Records, LauncherRuns, DaemonRuns, files, processes,
           client, Moves, Fault, DaemonMoves
<1>1. CASE UNCHANGED vars
  BY <1>1 DEF vars
<1>2. ASSUME NEW c \in Clients, Connecting(c) \/ ObserveNothing(c) \/ Detach(c) \/ Crash(c)
      PROVE  TypeOK'
  <2>1. CASE Connect(c)
    BY <2>1 DEF Connect
  <2>2. CASE Lock(c)
    BY <2>2 DEF Lock
  <2>3. CASE WriteDescriptor(c)
    BY <2>3, NewFacts DEF WriteDescriptor
  <2>4. CASE WriteRecord(c)
    BY <2>4 DEF WriteRecord
  <2>5. CASE Spawn(c)
    BY <2>5 DEF Spawn
  <2>6. CASE Reap(c)
    <3>1. CASE Leaves(c, "reaping", "idle")
      <4>1. launcher' \in [Incarnations -> {"none", "running", "done", "failed"}]
        BY <2>6 DEF Reap
      <4> QED BY <2>6, <3>1, <4>1, LeavesType DEF Reap
    <3>2. CASE Moves(c, "reaping", "loop")
      <4>1. pc'[c] = "loop" /\ pc' \in [Clients -> Steps]
        BY <3>2
      <4>2. /\ launched' = [launched EXCEPT ![c] = TRUE]
            /\ UNCHANGED <<files, lock, processes, current, faults>>
        BY <2>6, <4>1 DEF Reap, Leaves
      <4> QED BY <4>1, <4>2
    <3> QED BY <2>6, <3>1, <3>2 DEF Reap
  <2>7. CASE ReadPublishedProcess(c)
    BY <2>7 DEF ReadPublishedProcess
  <2>8. CASE ForgetAbandoned(c)
    BY <2>8 DEF ForgetAbandoned
  <2>9. CASE ForgetExited(c)
    BY <2>9 DEF ForgetExited, IsExited
  <2>10. CASE RemoveRecord(c)
    <3>1. CASE Leaves(c, "failing", "idle")
      BY <2>10, <3>1, LeavesType DEF RemoveRecord
    <3>2. CASE Moves(c, "retiring", "loop") /\ UNCHANGED <<lock, current, launched>>
      BY <2>10, <3>2 DEF RemoveRecord
    <3> QED BY <2>10, <3>1, <3>2 DEF RemoveRecord
  <2>11. CASE ObserveProcess(c)
    BY <2>11 DEF ObserveProcess, IsExited
  <2>12. CASE Attach(c)
    <3>1. CASE Leaves(c, "observed", "attached")
      <4>1. owners' \in [Incarnations -> SUBSET Clients]
        BY <2>12 DEF Attach
      <4> QED BY <2>12, <3>1, <4>1, LeavesType DEF Attach
    <3>2. CASE ~Leaves(c, "observed", "attached")
      BY <2>12, <3>2 DEF Attach
    <3> QED BY <3>1, <3>2
  <2>13. CASE TimeOut(c)
    BY <2>13, LeavesType DEF TimeOut
  <2>14. CASE Restart(c)
    BY <2>14 DEF Restart
  <2>15. CASE ObserveNothing(c)
    BY <2>15, LeavesType DEF ObserveNothing
  <2>16. CASE Detach(c)
    BY <2>16 DEF Detach
  <2>17. CASE Crash(c)
    BY <2>17, LeavesType DEF Crash
  <2> QED BY <1>2, <2>1, <2>2, <2>3, <2>4, <2>5, <2>6, <2>7, <2>8, <2>9, <2>10, <2>11,
       <2>12, <2>13, <2>14, <2>15, <2>16, <2>17 DEF Connecting
<1>3. ASSUME NEW i \in Incarnations, Hosting(i) \/ Commit(i)
      PROVE  TypeOK'
  <2>1. CASE Fork(i)
    BY <2>1 DEF Fork
  <2>2. CASE LauncherExits(i)
    BY <2>2 DEF LauncherExits
  <2>3. CASE PublishHostProcess(i)
    BY <2>3 DEF PublishHostProcess
  <2>4. CASE CloseLease(i) \/ ObserveStarter(i) \/ Listen(i) \/ Commit(i)
    BY <2>4 DEF CloseLease, ObserveStarter, Listen, Commit
  <2>5. CASE Exits(i)
    BY <2>5 DEF Exits
  <2> QED BY <1>3, <2>1, <2>2, <2>3, <2>4, <2>5 DEF Hosting
<1> QED BY <1>1, <1>2, <1>3 DEF Next

\* A client that is attached does nothing but leave.
LEMMA AttachedStep ==
  ASSUME TypeOK, Exclusive, Attached, [Next]_vars
  PROVE  Attached'
<1> USE DEF TypeOK, Exclusive, Inside, Attached, files, processes, client, Moves, Leaves,
           Fault, DaemonMoves
<1>1. CASE UNCHANGED vars
  BY <1>1 DEF vars
<1>2. ASSUME NEW c \in Clients, Connecting(c) \/ ObserveNothing(c) \/ Detach(c) \/ Crash(c)
      PROVE  Attached'
  <2>1. CASE Connect(c) \/ WriteDescriptor(c) \/ WriteRecord(c) \/ Spawn(c) \/
           ReadPublishedProcess(c)
    BY <2>1 DEF Connect, WriteDescriptor, WriteRecord, Spawn, ReadPublishedProcess
  <2>2. CASE Lock(c)
    BY <2>2 DEF Lock
  <2>3. CASE Reap(c)
    BY <2>3 DEF Reap
  <2>4. CASE ForgetAbandoned(c) \/ ForgetExited(c) \/ ObserveProcess(c) \/ Restart(c)
    BY <2>4 DEF ForgetAbandoned, ForgetExited, ObserveProcess, Restart, IsExited
  <2>5. CASE RemoveRecord(c)
    BY <2>5 DEF RemoveRecord
  <2>6. CASE Attach(c)
    BY <2>6 DEF Attach
  <2>7. CASE TimeOut(c)
    BY <2>7 DEF TimeOut
  <2>8. CASE ObserveNothing(c)
    BY <2>8 DEF ObserveNothing
  <2>9. CASE Detach(c)
    BY <2>9 DEF Detach
  <2>10. CASE Crash(c)
    BY <2>10 DEF Crash
  <2> QED BY <1>2, <2>1, <2>2, <2>3, <2>4, <2>5, <2>6, <2>7, <2>8, <2>9, <2>10 DEF
       Connecting
<1>3. ASSUME NEW i \in Incarnations, Hosting(i) \/ Commit(i)
      PROVE  Attached'
  <2>1. CASE Fork(i) \/ LauncherExits(i) \/ PublishHostProcess(i) \/ CloseLease(i) \/
           ObserveStarter(i) \/ Listen(i) \/ Commit(i)
    BY <2>1 DEF Fork, LauncherExits, PublishHostProcess, CloseLease, ObserveStarter,
          Listen, Commit
  <2>2. CASE Exits(i)
    BY <2>2 DEF Exits
  <2> QED BY <1>3, <2>1, <2>2 DEF Hosting
<1> QED BY <1>1, <1>2, <1>3 DEF Next

\* flock gives the lock to one client, and whoever leaves Connect closes it.
LEMMA ExclusiveStep ==
  ASSUME TypeOK, Attached, Exclusive, [Next]_vars
  PROVE  Exclusive'
<1> USE DEF TypeOK, Attached, Exclusive, Inside, files, processes, client, Moves, Leaves,
           Fault, DaemonMoves
<1>1. CASE UNCHANGED vars
  BY <1>1 DEF vars
<1>2. ASSUME NEW c \in Clients, Connecting(c) \/ ObserveNothing(c) \/ Detach(c) \/ Crash(c)
      PROVE  Exclusive'
  <2>1. CASE Connect(c) \/ WriteDescriptor(c) \/ WriteRecord(c) \/ Spawn(c) \/
           ReadPublishedProcess(c)
    BY <2>1 DEF Connect, WriteDescriptor, WriteRecord, Spawn, ReadPublishedProcess
  <2>2. CASE Lock(c)
    BY <2>2 DEF Lock
  <2>3. CASE Reap(c)
    BY <2>3 DEF Reap
  <2>4. CASE ForgetAbandoned(c) \/ ForgetExited(c) \/ ObserveProcess(c) \/ Restart(c)
    BY <2>4 DEF ForgetAbandoned, ForgetExited, ObserveProcess, Restart, IsExited
  <2>5. CASE RemoveRecord(c)
    BY <2>5 DEF RemoveRecord
  <2>6. CASE Attach(c)
    BY <2>6 DEF Attach
  <2>7. CASE ObserveNothing(c) \/ Detach(c) \/ TimeOut(c)
    BY <2>7 DEF ObserveNothing, Detach, TimeOut
  <2>8. CASE Crash(c)
    BY <2>8 DEF Crash
  <2> QED BY <1>2, <2>1, <2>2, <2>3, <2>4, <2>5, <2>6, <2>7, <2>8 DEF Connecting
<1>3. ASSUME NEW i \in Incarnations, Hosting(i) \/ Commit(i)
      PROVE  Exclusive'
  <2>1. CASE Fork(i) \/ LauncherExits(i) \/ PublishHostProcess(i) \/ CloseLease(i) \/
           ObserveStarter(i) \/ Listen(i) \/ Commit(i)
    BY <2>1 DEF Fork, LauncherExits, PublishHostProcess, CloseLease, ObserveStarter,
          Listen, Commit
  <2>2. CASE Exits(i)
    BY <2>2 DEF Exits
  <2> QED BY <1>3, <2>1, <2>2 DEF Hosting
<1> QED BY <1>1, <1>2, <1>3 DEF Next

\* The files of an incarnation are removed when its processes are gone.
LEMMA LineageStep ==
  ASSUME TypeOK, Exclusive, Lineage, Alone, Turns, [Next]_vars
  PROVE  Lineage'
<1> USE DEF TypeOK, Exclusive, Lineage, Inside, Alone, Turns, Alive, Leased, LauncherRuns,
           DaemonRuns, files, processes, client, Moves, Leaves, Fault, DaemonMoves
<1>1. CASE UNCHANGED vars
  BY <1>1 DEF vars
<1>2. ASSUME NEW c \in Clients, Connecting(c) \/ ObserveNothing(c) \/ Detach(c) \/ Crash(c)
      PROVE  Lineage'
  <2>1. CASE Connect(c) \/ ObserveProcess(c) \/ Restart(c) \/ Attach(c)
    BY <2>1 DEF Connect, ObserveProcess, Restart, Attach, IsExited
  <2>2. CASE Lock(c)
    BY <2>2 DEF Lock
  <2>3. CASE WriteDescriptor(c)
    BY <2>3, NewFacts DEF WriteDescriptor
  <2>4. CASE WriteRecord(c)
    BY <2>4 DEF WriteRecord
  <2>5. CASE Spawn(c)
    BY <2>5 DEF Spawn
  <2>6. CASE Reap(c)
    BY <2>6 DEF Reap
  <2>7. CASE ReadPublishedProcess(c)
    BY <2>7 DEF ReadPublishedProcess
  <2>8. CASE ForgetAbandoned(c)
    BY <2>8 DEF ForgetAbandoned
  <2>9. CASE ForgetExited(c)
    BY <2>9 DEF ForgetExited, IsExited
  <2>10. CASE RemoveRecord(c)
    BY <2>10 DEF RemoveRecord
  <2>11. CASE ObserveNothing(c) \/ Detach(c) \/ TimeOut(c)
    BY <2>11 DEF ObserveNothing, Detach, TimeOut
  <2>12. CASE Crash(c)
    BY <2>12 DEF Crash
  <2> QED BY <1>2, <2>1, <2>2, <2>3, <2>4, <2>5, <2>6, <2>7, <2>8, <2>9, <2>10, <2>11,
       <2>12 DEF Connecting
<1>3. ASSUME NEW i \in Incarnations, Hosting(i) \/ Commit(i)
      PROVE  Lineage'
  <2>1. CASE Fork(i)
    BY <2>1 DEF Fork
  <2>2. CASE LauncherExits(i)
    BY <2>2 DEF LauncherExits
  <2>3. CASE PublishHostProcess(i)
    BY <2>3 DEF PublishHostProcess
  <2>4. CASE CloseLease(i)
    BY <2>4 DEF CloseLease
  <2>5. CASE ObserveStarter(i) \/ Listen(i) \/ Commit(i)
    BY <2>5 DEF ObserveStarter, Listen, Commit
  <2>6. CASE Exits(i)
    BY <2>6 DEF Exits
  <2> QED BY <1>3, <2>1, <2>2, <2>3, <2>4, <2>5, <2>6 DEF Hosting
<1> QED BY <1>1, <1>2, <1>3 DEF Next

\* The lock is proof that no launch is under way; a launch of its own ends the proof.
LEMMA AloneStep ==
  ASSUME TypeOK, Exclusive, Lineage, Alone, [Next]_vars
  PROVE  Alone'
<1> USE DEF TypeOK, Exclusive, Lineage, Alone, Inside, Leased, LauncherRuns, DaemonRuns,
           files, processes, client, Moves, Leaves, Fault, DaemonMoves
<1>1. CASE UNCHANGED vars
  BY <1>1 DEF vars
<1>2. ASSUME NEW c \in Clients, Connecting(c) \/ ObserveNothing(c) \/ Detach(c) \/ Crash(c)
      PROVE  Alone'
  <2>1. CASE Connect(c) \/ ObserveProcess(c) \/ Restart(c) \/ Attach(c)
    BY <2>1 DEF Connect, ObserveProcess, Restart, Attach, IsExited
  <2>2. CASE Lock(c)
    BY <2>2 DEF Lock
  <2>3. CASE WriteDescriptor(c) \/ WriteRecord(c)
    BY <2>3 DEF WriteDescriptor, WriteRecord
  <2>4. CASE Spawn(c)
    BY <2>4 DEF Spawn
  <2>5. CASE Reap(c)
    <3>1. CASE lock' = None
      BY <2>5, <3>1 DEF Reap
    <3>2. CASE lock' # None
      <4>1. /\ pc[c] = "reaping" /\ launcher[current[c]] = "done" /\ lock = c
            /\ launched'[c] /\ UNCHANGED <<launcher, daemon>>
            /\ \A d \in Clients \ {c} : pc'[d] = pc[d] /\ pc[d] \notin Inside
        BY <2>5, <3>2 DEF Reap
      <4>2. \A i \in Incarnations : ~LauncherRuns(i)
        BY <4>1
      <4> QED BY <4>1, <4>2
    <3> QED BY <3>1, <3>2
  <2>6. CASE ReadPublishedProcess(c)
    BY <2>6 DEF ReadPublishedProcess
  <2>7. CASE ForgetAbandoned(c) \/ ForgetExited(c)
    BY <2>7 DEF ForgetAbandoned, ForgetExited, IsExited
  <2>8. CASE RemoveRecord(c)
    BY <2>8 DEF RemoveRecord
  <2>9. CASE ObserveNothing(c) \/ Detach(c) \/ TimeOut(c)
    BY <2>9 DEF ObserveNothing, Detach, TimeOut
  <2>10. CASE Crash(c)
    BY <2>10 DEF Crash
  <2> QED BY <1>2, <2>1, <2>2, <2>3, <2>4, <2>5, <2>6, <2>7, <2>8, <2>9, <2>10 DEF
       Connecting
<1>3. ASSUME NEW i \in Incarnations, Hosting(i) \/ Commit(i)
      PROVE  Alone'
  <2>1. CASE Fork(i)
    BY <2>1 DEF Fork
  <2>2. CASE LauncherExits(i)
    BY <2>2 DEF LauncherExits
  <2>3. CASE PublishHostProcess(i)
    BY <2>3 DEF PublishHostProcess
  <2>4. CASE CloseLease(i) \/ ObserveStarter(i) \/ Listen(i) \/ Commit(i)
    BY <2>4 DEF CloseLease, ObserveStarter, Listen, Commit
  <2>5. CASE Exits(i)
    BY <2>5 DEF Exits
  <2> QED BY <1>3, <2>1, <2>2, <2>3, <2>4, <2>5 DEF Hosting
<1> QED BY <1>1, <1>2, <1>3 DEF Next

\* Nobody else touches the record of the client that has the lock.
LEMMA TurnsStep ==
  ASSUME TypeOK, Exclusive, Lineage, Alone, Turns, NothingForgotten, [Next]_vars
  PROVE  Turns'
<1> USE DEF TypeOK, Exclusive, Lineage, Alone, Turns, Inside, Alive, Leased,
           NothingForgotten, Records, LauncherRuns, DaemonRuns, files, processes, client,
           Moves, Leaves, Fault, DaemonMoves
<1>1. CASE UNCHANGED vars
  BY <1>1 DEF vars
<1>2. ASSUME NEW c \in Clients, Connecting(c) \/ ObserveNothing(c) \/ Detach(c) \/ Crash(c)
      PROVE  Turns'
  <2>1. CASE Connect(c) \/ ObserveProcess(c) \/ Restart(c) \/ Attach(c)
    BY <2>1 DEF Connect, ObserveProcess, Restart, Attach, IsExited
  <2>2. CASE Lock(c)
    BY <2>2 DEF Lock
  <2>3. CASE WriteDescriptor(c)
    BY <2>3, NewFacts DEF WriteDescriptor, Used
  <2>4. CASE WriteRecord(c)
    <3>1. launch' \in Records /\ launch'.incarnation = current[c]
      BY <2>4 DEF WriteRecord
    <3>2. /\ pc[c] = "descriptor" /\ pc' = [pc EXCEPT ![c] = "recorded"]
          /\ lock = c /\ UNCHANGED <<lock, bootstraps, launcher, daemon, current>>
      BY <2>4 DEF WriteRecord
    <3>3. \A d \in Clients \ {c} : pc[d] \notin Inside
      BY <3>2
    <3> HIDE DEF Records, Alive
    <3> QED BY <3>1, <3>2, <3>3
  <2>5. CASE Spawn(c)
    BY <2>5 DEF Spawn
  <2>6. CASE Reap(c)
    BY <2>6 DEF Reap
  <2>7. CASE ReadPublishedProcess(c)
    BY <2>7 DEF ReadPublishedProcess
  <2>8. CASE ForgetAbandoned(c)
    BY <2>8 DEF ForgetAbandoned
  <2>9. CASE ForgetExited(c)
    BY <2>9 DEF ForgetExited, IsExited
  <2>10. CASE RemoveRecord(c)
    BY <2>10 DEF RemoveRecord
  <2>11. CASE ObserveNothing(c) \/ Detach(c) \/ TimeOut(c)
    BY <2>11 DEF ObserveNothing, Detach, TimeOut
  <2>12. CASE Crash(c)
    BY <2>12 DEF Crash
  <2> QED BY <1>2, <2>1, <2>2, <2>3, <2>4, <2>5, <2>6, <2>7, <2>8, <2>9, <2>10, <2>11,
       <2>12 DEF Connecting
<1>3. ASSUME NEW i \in Incarnations, Hosting(i) \/ Commit(i)
      PROVE  Turns'
  <2>1. CASE Fork(i)
    BY <2>1 DEF Fork
  <2>2. CASE LauncherExits(i)
    BY <2>2 DEF LauncherExits
  <2>3. CASE PublishHostProcess(i)
    BY <2>3 DEF PublishHostProcess
  <2>4. CASE CloseLease(i) \/ ObserveStarter(i) \/ Listen(i) \/ Commit(i)
    BY <2>4 DEF CloseLease, ObserveStarter, Listen, Commit
  <2>5. CASE Exits(i)
    BY <2>5 DEF Exits
  <2> QED BY <1>3, <2>1, <2>2, <2>3, <2>4, <2>5 DEF Hosting
<1> QED BY <1>1, <1>2, <1>3 DEF Next

\* A process is alive under the name of the record, from Spawn until it is gone.
LEMMA NamedStep ==
  ASSUME TypeOK, Exclusive, Lineage, Alone, Turns, NothingForgotten, [Next]_vars
  PROVE  NothingForgotten'
<1> USE DEF TypeOK, Exclusive, Lineage, Alone, Turns, Inside, Alive, Leased,
           NothingForgotten, Records, LauncherRuns, DaemonRuns, files, processes, client,
           Moves, Leaves, Fault, DaemonMoves
<1>1. CASE UNCHANGED vars
  BY <1>1 DEF vars
<1>2. ASSUME NEW c \in Clients, Connecting(c) \/ ObserveNothing(c) \/ Detach(c) \/ Crash(c)
      PROVE  NothingForgotten'
  <2>1. CASE Connect(c) \/ ObserveProcess(c) \/ Restart(c) \/ Attach(c)
    BY <2>1 DEF Connect, ObserveProcess, Restart, Attach, IsExited
  <2>2. CASE Lock(c)
    BY <2>2 DEF Lock
  <2>3. CASE WriteDescriptor(c)
    BY <2>3, NewFacts DEF WriteDescriptor, Used
  <2>4. CASE WriteRecord(c)
    BY <2>4 DEF WriteRecord
  <2>5. CASE Spawn(c)
    BY <2>5 DEF Spawn
  <2>6. CASE Reap(c)
    BY <2>6 DEF Reap
  <2>7. CASE ReadPublishedProcess(c)
    <3>1. launch' \in Records /\ launch'.incarnation = launch.incarnation
      BY <2>7 DEF ReadPublishedProcess
    <3>2. UNCHANGED <<launcher, daemon, bootstraps>>
      BY <2>7 DEF ReadPublishedProcess
    <3> HIDE DEF Records
    <3> QED BY <3>1, <3>2
  <2>8. CASE ForgetAbandoned(c)
    BY <2>8 DEF ForgetAbandoned
  <2>9. CASE ForgetExited(c)
    BY <2>9 DEF ForgetExited, IsExited
  <2>10. CASE RemoveRecord(c)
    BY <2>10 DEF RemoveRecord
  <2>11. CASE ObserveNothing(c) \/ Detach(c) \/ TimeOut(c)
    BY <2>11 DEF ObserveNothing, Detach, TimeOut
  <2>12. CASE Crash(c)
    BY <2>12 DEF Crash
  <2> QED BY <1>2, <2>1, <2>2, <2>3, <2>4, <2>5, <2>6, <2>7, <2>8, <2>9, <2>10, <2>11,
       <2>12 DEF Connecting
<1>3. ASSUME NEW i \in Incarnations, Hosting(i) \/ Commit(i)
      PROVE  NothingForgotten'
  <2>1. CASE Fork(i)
    BY <2>1 DEF Fork
  <2>2. CASE LauncherExits(i)
    BY <2>2 DEF LauncherExits
  <2>3. CASE PublishHostProcess(i)
    BY <2>3 DEF PublishHostProcess
  <2>4. CASE CloseLease(i) \/ ObserveStarter(i) \/ Listen(i) \/ Commit(i)
    BY <2>4 DEF CloseLease, ObserveStarter, Listen, Commit
  <2>5. CASE Exits(i)
    BY <2>5 DEF Exits
  <2> QED BY <1>3, <2>1, <2>2, <2>3, <2>4, <2>5 DEF Hosting
<1> QED BY <1>1, <1>2, <1>3 DEF Next

-----------------------------------------------------------------------------
\* There is nothing yet.
LEMMA InitInv == Init => IInv
  BY DEF Init, IInv, Attached, TypeOK, Steps, Exclusive, Inside, Lineage, Alone, Turns, Alive, Leased,
         LauncherRuns, DaemonRuns, NothingForgotten

\* Every step keeps every part.
LEMMA NextInv == IInv /\ [Next]_vars => IInv'
  BY TypeStep, AttachedStep, ExclusiveStep, LineageStep, AloneStep, TurnsStep, NamedStep DEF IInv

\* The invariant holds in every reachable state.
LEMMA Invariance == Spec => []IInv
  BY InitInv, NextInv, PTL DEF Spec

\* Every state of the profile, its clients and its processes is well formed.
THEOREM TypeCorrect == Spec => []TypeOK
<1>1. IInv => TypeOK
  BY DEF IInv
<1> QED BY <1>1, Invariance, PTL

\* HostCoordinator::Connect, host_state.cc and the host's executable: whatever
\* crashes, a process of a launch is the one that the record names, so there is
\* one host at most, for any clients and any number of faults.
THEOREM OneHost == Spec => []NothingForgotten
<1>1. IInv => NothingForgotten
  BY DEF IInv
<1> QED BY <1>1, Invariance, PTL
=============================================================================
