---------------------------- MODULE HostStartup -----------------------------
(***************************************************************************)
(* hosting/{host_coordinator,host_state,host_process}.cc and the host's    *)
(* executable, tools/foundry-local-host.cc, on POSIX: how the processes of *)
(* one profile agree on one native host, through files, an flock and the   *)
(* handshake, when any of them may crash at any step.                      *)
(*                                                                         *)
(* A launch is named by its incarnation.  The startup lock belongs to the  *)
(* open file that a client locked; the launcher and the daemon inherit it  *)
(* (the startup lease), and it is unlocked when the last of them closes it.*)
(* The process between the two, which only forks again, is one with the    *)
(* daemon here: it dies, or becomes it, before anything is published.      *)
(* A client acts on the launch record it has read: nobody else writes it   *)
(* while the client has the lock, so the record is not copied here.  Files *)
(* are written to a temporary and renamed, so each write is one step.      *)
(***************************************************************************)
EXTENDS Naturals, FiniteSets

CONSTANTS Clients,     \* processes that connect to the profile's host
          Incarnations, \* the names that are made up; a bound, for there is always a new one
          MaxFaults,   \* how many things may go wrong (a bound)
          None         \* no record, no host

ASSUME FaultAssumption == MaxFaults \in Nat

\* A launch record: the incarnation, and whether its process is known.
Records == [incarnation : Incarnations, process : BOOLEAN]
ASSUME StartupNoneAssumption == None \notin Clients \cup Incarnations \cup Records

VARIABLES
  launch,     \* launch.json
  bootstraps, \* the incarnations whose bootstrap descriptor exists
  published,  \* the incarnations whose process publication exists
  lock,       \* the client that has the startup lock open
  launcher,   \* of each incarnation: the process that posix_spawn started,
  daemon,     \* the daemon which that one forks,
  starter,    \* and the client that started them, while it lives
  owners,     \* of each incarnation: the clients attached to the host
  pc,         \* of each client: the step of HostCoordinator::Connect
  current,    \* the incarnation it has just made up
  launched,   \* this call has started the host itself
  faults

files == <<launch, bootstraps, published>>
processes == <<launcher, daemon, starter, owners>>
client == <<pc, current, launched>>
vars == <<files, lock, processes, client, faults>>

Steps == {"idle", "locking", "loop", "descriptor", "recorded", "reaping",
          "observed", "retiring", "failing", "attached", "gone"}

TypeOK ==
  /\ launch \in Records \cup {None}
  /\ bootstraps \subseteq Incarnations
  /\ published \subseteq Incarnations
  /\ lock \in Clients \cup {None}
  /\ launcher \in [Incarnations -> {"none", "running", "done", "failed"}]
  /\ daemon \in [Incarnations ->
       {"none", "unpublished", "published", "starting", "verified",
        "listening", "committed", "exited"}]
  /\ starter \in [Incarnations -> Clients \cup {None}]
  /\ owners \in [Incarnations -> SUBSET Clients]
  /\ pc \in [Clients -> Steps]
  /\ current \in [Clients -> Incarnations \cup {None}]
  /\ launched \in [Clients -> BOOLEAN]
  /\ faults \in 0 .. MaxFaults

Init ==
  /\ launch = None
  /\ bootstraps = {}
  /\ published = {}
  /\ lock = None
  /\ launcher = [i \in Incarnations |-> "none"]
  /\ daemon = [i \in Incarnations |-> "none"]
  /\ starter = [i \in Incarnations |-> None]
  /\ owners = [i \in Incarnations |-> {}]
  /\ pc = [c \in Clients |-> "idle"]
  /\ current = [c \in Clients |-> None]
  /\ launched = [c \in Clients |-> FALSE]
  /\ faults = 0

-----------------------------------------------------------------------------
LauncherRuns(i) == launcher[i] = "running"
DaemonRuns(i) == daemon[i] \notin {"none", "exited"}
\* Mutant: the launcher's scrub of descriptors takes the lease with it.
LauncherLeased(i) == LauncherRuns(i)
\* The processes of the incarnation have the startup lock open.
Leased(i) == LauncherRuns(i) \/ daemon[i] \in {"unpublished", "published"}
Listening(i) == daemon[i] \in {"listening", "committed"}

Fault == faults < MaxFaults /\ faults' = faults + 1

Moves(c, from, to) == pc[c] = from /\ pc' = [pc EXCEPT ![c] = to]

\* A client leaves Connect: its copy of the lock is closed.
Leaves(c, from, to) ==
  /\ Moves(c, from, to)
  /\ lock' = IF lock = c THEN None ELSE lock
  /\ current' = [current EXCEPT ![c] = None]
  /\ launched' = [launched EXCEPT ![c] = FALSE]

-----------------------------------------------------------------------------
(* HostCoordinator::Connect.                                               *)

Connect(c) ==
  /\ Moves(c, "idle", "locking")
  /\ UNCHANGED <<files, lock, processes, current, launched, faults>>

\* flock succeeds when no other open file has the lock.
Lock(c) ==
  /\ Moves(c, "locking", "loop")
  /\ lock = None /\ \A i \in Incarnations : ~Leased(i)
  /\ lock' = c
  /\ UNCHANGED <<files, processes, current, launched, faults>>

\* An observer, which does not acquire, starts no host.
ObserveNothing(c) ==
  /\ launch = None /\ ~launched[c]
  /\ Leaves(c, "loop", "idle")
  /\ Fault
  /\ UNCHANGED <<files, processes>>

\* Incarnations are random names, so which new one it is makes no difference.
Used(i) == i \in bootstraps \/ launcher[i] # "none" \/ \E c \in Clients : current[c] = i
NewHostIncarnation == CHOOSE i \in Incarnations : ~Used(i)

\* A new incarnation: its descriptor is written first, its record next.
WriteDescriptor(c) ==
  /\ launch = None
  /\ \E i \in Incarnations : ~Used(i)
  /\ Moves(c, "loop", "descriptor")
  /\ current' = [current EXCEPT ![c] = NewHostIncarnation]
  /\ bootstraps' = bootstraps \cup {NewHostIncarnation}
  /\ UNCHANGED <<launch, published, lock, processes, launched, faults>>

\* Mutant: the record is written before there is an incarnation.
RecordsFirst(c) ==
  /\ launch = None
  /\ Moves(c, "loop", "recorded")
  /\ launch' = [incarnation |-> current[c], process |-> FALSE]
  /\ UNCHANGED <<bootstraps, published, lock, processes, current, launched, faults>>
WriteRecord(c) ==
  /\ Moves(c, "descriptor", "recorded")
  /\ launch' = [incarnation |-> current[c], process |-> FALSE]
  /\ UNCHANGED <<bootstraps, published, lock, processes, current, launched, faults>>

\* posix_spawn hands the lease down, or is rejected before there is a child.
Spawn(c) ==
  LET i == current[c] IN
  \/ /\ Moves(c, "recorded", "reaping")
     /\ launcher' = [launcher EXCEPT ![i] = "running"]
     /\ starter' = [starter EXCEPT ![i] = c]
     /\ UNCHANGED <<files, lock, daemon, owners, current, launched, faults>>
  \/ /\ Moves(c, "recorded", "failing")
     /\ bootstraps' = bootstraps \ {i}
     /\ Fault
     /\ UNCHANGED <<launch, published, lock, processes, current, launched>>

\* waitpid: the launcher has done its work; it has failed; or it is killed at
\* the deadline.  In the last two cases the record is left to others.
Reap(c) ==
  LET i == current[c] IN
  \/ /\ Moves(c, "reaping", "loop")
     /\ launcher[i] = "done"
     /\ launched' = [launched EXCEPT ![c] = TRUE]
     /\ UNCHANGED <<files, lock, processes, current, faults>>
  \/ /\ pc[c] = "reaping" /\ launcher[i] = "failed"
     /\ Leaves(c, "reaping", "idle")
     /\ UNCHANGED <<files, processes, faults>>
  \/ /\ pc[c] = "reaping" /\ LauncherRuns(i)
     /\ Leaves(c, "reaping", "idle")
     /\ launcher' = [launcher EXCEPT ![i] = "failed"]
     /\ Fault
     /\ UNCHANGED <<files, daemon, starter, owners>>

\* The process of the record is learnt from its publication.
ReadPublishedProcess(c) ==
  /\ pc[c] = "loop" /\ launch # None /\ ~launch.process
  /\ launch.incarnation \in published
  /\ launch' = [launch EXCEPT !.process = TRUE]
  /\ UNCHANGED <<bootstraps, published, lock, processes, client, faults>>

\* Mutant: an interrupted launch is never given up.
KeepsInterrupted(c) == FALSE
\* A launch of somebody else that has published nothing: the lock is proof that
\* no process of it is left, so it is retired.
ForgetAbandoned(c) ==
  /\ launch # None /\ ~launch.process /\ ~launched[c]
  /\ launch.incarnation \notin published
  /\ Moves(c, "loop", "retiring")
  /\ bootstraps' = bootstraps \ {launch.incarnation}
  /\ UNCHANGED <<launch, published, lock, processes, current, launched, faults>>

\* Mutant: a host that does not listen is taken for one that has exited.
Silent(i) == ~Listening(i)
\* The process watch of the recorded process says that it has exited.
IsExited(i) == daemon[i] = "exited"

\* Its files go first and the record goes last.
ForgetExited(c) ==
  /\ launch # None /\ launch.process
  /\ IsExited(launch.incarnation)
  /\ Moves(c, "loop", IF launched[c] THEN "failing" ELSE "retiring")
  /\ published' = published \ {launch.incarnation}
  /\ bootstraps' = bootstraps \ {launch.incarnation}
  /\ UNCHANGED <<launch, lock, processes, current, launched, faults>>

\* The record is removed; the call goes round again, or throws.
RemoveRecord(c) ==
  /\ \/ Moves(c, "retiring", "loop") /\ UNCHANGED <<lock, current, launched>>
     \/ Leaves(c, "failing", "idle")
  /\ launch' = None
  /\ UNCHANGED <<bootstraps, published, processes, faults>>

\* Otherwise the process is watched ...
ObserveProcess(c) ==
  /\ launch # None /\ launch.process
  /\ ~IsExited(launch.incarnation)
  /\ Moves(c, "loop", "observed")
  /\ UNCHANGED <<files, lock, processes, current, launched, faults>>

\* ... and attached to.  A host that has committed its shutdown, or does not
\* listen (any more), gives no context, and the call goes round again.
Attach(c) ==
  LET i == launch.incarnation IN
  \/ /\ pc[c] = "observed" /\ daemon[i] = "listening"
     /\ Leaves(c, "observed", "attached")
     /\ owners' = [owners EXCEPT ![i] = @ \cup {c}]
     /\ UNCHANGED <<files, launcher, daemon, starter, faults>>
  \/ /\ pc[c] = "observed" /\ daemon[i] # "listening"
     /\ Moves(c, "observed", "loop")
     /\ UNCHANGED <<files, lock, processes, current, launched, faults>>

\* The deadline passes while the call waits, and it throws, leaving the record:
\* early, or because its own child died before it published its process.
TimeOut(c) ==
  /\ \/ pc[c] \in {"locking", "loop", "observed"} /\ Fault
     \/ /\ pc[c] = "loop" /\ launched[c] /\ ~launch.process
        /\ ~DaemonRuns(launch.incarnation) /\ launch.incarnation \notin published
        /\ UNCHANGED faults
  /\ Leaves(c, pc[c], "idle")
  /\ UNCHANGED <<files, processes>>

\* The client releases its manager, or its connection is lost.
Detach(c) ==
  /\ Moves(c, "attached", "idle")
  /\ owners' = [i \in Incarnations |-> owners[i] \ {c}]
  /\ Fault
  /\ UNCHANGED <<files, lock, launcher, daemon, starter, current, launched>>

\* The process dies, wherever it is; another may take its place.
Crash(c) ==
  /\ pc[c] # "gone"
  /\ Leaves(c, pc[c], "gone")
  /\ owners' = [i \in Incarnations |-> owners[i] \ {c}]
  /\ starter' = [i \in Incarnations |-> IF starter[i] = c THEN None ELSE starter[i]]
  /\ Fault
  /\ UNCHANGED <<files, launcher, daemon>>
Restart(c) ==
  /\ Moves(c, "gone", "idle")
  /\ UNCHANGED <<files, lock, processes, current, launched, faults>>

-----------------------------------------------------------------------------
(* The launcher and the daemon.                                            *)

DaemonMoves(i, from, to) ==
  /\ daemon[i] = from
  /\ daemon' = [daemon EXCEPT ![i] = to]

\* The launcher forks the daemon and exits; or it fails to.
Fork(i) ==
  /\ LauncherRuns(i)
  /\ DaemonMoves(i, "none", "unpublished")
  /\ UNCHANGED <<files, lock, launcher, starter, owners, client, faults>>

LauncherExits(i) ==
  /\ LauncherRuns(i)
  /\ \/ daemon[i] # "none" /\ launcher' = [launcher EXCEPT ![i] = "done"] /\ UNCHANGED faults
     \/ daemon[i] = "none" /\ launcher' = [launcher EXCEPT ![i] = "failed"] /\ Fault
  /\ UNCHANGED <<files, lock, daemon, starter, owners, client>>

\* Run publishes the process when it has read its descriptor ...
PublishHostProcess(i) ==
  /\ i \in bootstraps
  /\ DaemonMoves(i, "unpublished", "published")
  /\ published' = published \cup {i}
  /\ UNCHANGED <<launch, bootstraps, lock, launcher, starter, owners, client, faults>>

\* ... and closes the lease after that.
CloseLease(i) ==
  /\ DaemonMoves(i, "published", "starting")
  /\ UNCHANGED <<files, lock, launcher, starter, owners, client, faults>>

\* A host whose starter is gone by now does not go on.
ObserveStarter(i) ==
  /\ starter[i] # None
  /\ DaemonMoves(i, "starting", "verified")
  /\ UNCHANGED <<files, lock, launcher, starter, owners, client, faults>>

Listen(i) ==
  /\ DaemonMoves(i, "verified", "listening")
  /\ UNCHANGED <<files, lock, launcher, starter, owners, client, faults>>

\* HostLifetime commits the shutdown of an unused host, sooner when the starter
\* is gone.
Commit(i) ==
  /\ DaemonMoves(i, "listening", "committed")
  /\ owners[i] = {}
  /\ (starter[i] = None /\ UNCHANGED faults) \/ Fault
  /\ UNCHANGED <<files, lock, launcher, starter, owners, client>>

\* The daemon exits at the end of its shutdown, without its starter, or dies.
Exits(i) ==
  /\ \/ DaemonMoves(i, "committed", "exited") /\ UNCHANGED faults
     \/ starter[i] = None /\ DaemonMoves(i, "starting", "exited") /\ UNCHANGED faults
     \/ DaemonRuns(i) /\ DaemonMoves(i, daemon[i], "exited") /\ Fault
  /\ owners' = [owners EXCEPT ![i] = {}]
  /\ pc' = [c \in Clients |-> IF c \in owners[i] THEN "idle" ELSE pc[c]]
  /\ UNCHANGED <<files, lock, launcher, starter, current, launched>>

-----------------------------------------------------------------------------
Connecting(c) ==
  \/ Connect(c) \/ Lock(c)
  \/ WriteDescriptor(c) \/ WriteRecord(c) \/ Spawn(c) \/ Reap(c)
  \/ ReadPublishedProcess(c) \/ ForgetAbandoned(c) \/ ForgetExited(c) \/ RemoveRecord(c)
  \/ ObserveProcess(c) \/ Attach(c) \/ TimeOut(c) \/ Restart(c)

Hosting(i) ==
  \/ Fork(i) \/ LauncherExits(i)
  \/ PublishHostProcess(i) \/ CloseLease(i) \/ ObserveStarter(i) \/ Listen(i) \/ Exits(i)

Next ==
  \/ \E c \in Clients : Connecting(c) \/ ObserveNothing(c) \/ Detach(c) \/ Crash(c)
  \/ \E i \in Incarnations : Hosting(i) \/ Commit(i)

\* Processes run on; a client that was refused tries again; the lock is polled
\* every 5 ms, and a waiter that polls gets it before its deadline.
Fairness ==
  /\ \A c \in Clients : SF_vars(Lock(c)) /\ WF_vars(Connecting(c))
  /\ \A i \in Incarnations : WF_vars(Hosting(i))

Spec == Init /\ [][Next]_vars
FairSpec == Spec /\ Fairness

-----------------------------------------------------------------------------
(***************************************************************************)
(* A process of a launch, from the launcher to the last moment of the      *)
(* host, is the one that the launch record names, so no second host is     *)
(* ever started beside it; and a daemon that has not read its descriptor   *)
(* yet finds it.  "Never use missing IPC/files as exit evidence."          *)
(***************************************************************************)
NothingForgotten ==
  \A i \in Incarnations : LauncherRuns(i) \/ DaemonRuns(i) =>
    /\ launch # None /\ launch.incarnation = i
    /\ daemon[i] = "unpublished" => i \in bootstraps

(***************************************************************************)
(* No crash leaves the profile unusable: when nothing goes wrong any more, *)
(* every client that keeps connecting ends up attached to the host.        *)
(***************************************************************************)
Recovers == <>(\A c \in Clients : pc[c] = "attached")
=============================================================================
