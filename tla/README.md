# Foundry Local: a verification project

TLA+ models of the C++ core of Foundry Local (`sdk_v2/cpp/src`), the TLC runs
that check them and the TLAPS proofs about them.  Paths below are relative to
`sdk_v2/cpp/src/` unless they begin with another directory of the repository.

Foundry Local runs models on the user's machine.  An application links the
library; its calls are served either in its own process ("embedded") or by a
*native host*, a daemon that all processes of one profile share.  The core has
four kinds of difficulty: processes that find, start and leave a shared daemon
and may die at any moment; threads that load, use and take down models; calls
that generate, stream, cross a connection and are cancelled at the same time; and
files that several processes download into one cache.

## Reading order

| Module | What it is |
|---|---|
| `HostContract` | what a shared host promises: attach, admit, close once |
| `HostLifetime` | the host's admission controller, which implements it |
| `HostStartup` | how processes agree on one host through files, a lock and a handshake |
| `ModelLoadManager` | who may load, hold, unload and remove a model |
| `SessionRequest` | one invocation: admission, cancellation, streaming, completion |
| `DownloadManager` | the shared cache: file lock, download, removal, crashes |
| `BlobDownload` | one blob: workers, bitmap, resume after failure, crash and power loss |
| `ResponseStore` | what conversations can be continued from: leases, eviction, deletion |
| `ResponseService` | the responses handlers over it, the session cache, and the manager's shutdown |
| `SdkConnection` | calls multiplexed between a client process and the host |
| `*_proofs` | theorems about the module they extend |
| `MC_*` | instances for TLC; each `.cfg` is one run |

`PROJECT.json` maps each definition to the lines it models, lists the runs, the
mutants (for each property a plausible bug that breaks it), the hazards, the
findings and the theorems.

## Inventory

Each entry gives the state a component keeps, its operations, whom it talks to,
what is hard about it, and what makes it correct.

**Native host lifetime** (`hosting/host_lifetime.cc`).  State: phase, owners
(connection generations), counts of IPC and HTTP work, a stop flag, a deadline
and the latest time observed, all under one mutex.  Operations: add and remove
an owner, admit work and web-service stops (a `WorkGuard` each), complete or
destroy a guard, poll, retire an unused startup.  Called by the host server's
peers and monitor, by dispatchers and by the web service.  Hard: time samples are
taken before the mutex; a guard may be dropped without being completed; an
owner may go while its stop runs.  Correct when attachment and the commitment to
shut down are serialised, a stop is exclusive, the reconnect grace is whole and
an unused host commits.  *Modelled completely.*

**Host discovery and startup** (`hosting/host_coordinator.cc`, `host_state.cc`,
`host_process.cc`, `bootstrap_descriptor.cc`, `tools/foundry-local-host.cc`).
State: `launch.json`, bootstrap descriptors, process publications, the startup
lock and whoever inherited it.  Operations: connect, start, read a publication,
retire an exited or an abandoned launch, attach; the launcher forks, the daemon
publishes, closes its lease, checks its starter and listens.  Hard: every one of
these processes may die between any two steps.  Correct when no live host is
ever forgotten (a second one would be started beside it) and no crash leaves the
profile unusable.  *Modelled for POSIX.*

**Host server and peers** (`hosting/host_server.cc`, dispatchers,
`host_objects.cc`).  State: peers with their connection, owner flag and objects;
call slots; stop and failure flags.  A peer's thread accepts calls, asks
`HostLifetime` for admission and starts a worker for each; a monitor thread
polls the lifetime every 20 ms, closes dead peers and drains at the end.  Hard:
a peer is closed from several threads while its workers run; calls may hold all
slots while a release is needed to free them.  Correct when a closed peer keeps
no owner and no object, releases get through, and the drain ends.  *The accept
loop, workers and input threads are modelled in `SdkConnection`; the rest is
planned.*

**SDK connection and IPC channel** (`hosting/sdk_connection.cc`,
`ipc_channel*.cc`).  State: outstanding invocations and identities seen, on both
ends; a data and a control queue each, with a thread that writes, one that reads
and one that runs cancellation hooks; delivery slots.  Operations: call, cancel,
push and finish input on one side; accept, send an event, read input, complete
on the other; close.  Hard: cancellation, input and result cross each other,
control frames overtake data, and whatever looks like an error of the peer fails
the whole connection with all its calls.  Correct when no legal exchange looks
like an error, releases find a slot, slots come back exactly once, and nobody waits
for a call that is over.  *Modelled, without the disconnect handler and byte budgets.*

**Model load manager and admission** (`inferencing/model_load_manager.cc`,
`predictive/non_generative_admission.cc`).  State: loaded runtimes, loads in
progress with a shared future, session reference counts, the shutdown flag,
budgets.  Operations: load, acquire for a session, unload, typed load, removal
of a directory, reject-new-loads, unload-all.  Hard: factories run outside the
mutex; waiters join a load that may fail; shutdown polls reference counts.
Correct when nothing in use is unloaded or removed, a typed model is loaded once,
waiters get an answer, and shutdown returns with everything unloaded.
*Modelled, without preserved selections and predictive leases.*

**Sessions and requests** (`inferencing/session/session.cc`, `request.h`,
`callback_handler.h`, `items/item_queue.h`).  State: a request's atomic state and
its cancel-on-start flag, a session's table of active requests and its cancelled
flag, a queue to a callback worker.  Operations: process, cancel (by the caller,
a callback, a closed connection, a shutdown), stream.  Hard: nearly everything is
concurrent and the states are joined by compare-and-swap.  Correct when a cancel
that was accepted wins, no cancel is lost in an admission, a turn is committed
only after its callback has answered, and every item is delivered.
*Modelled.*

**Session manager** (`inferencing/session/session_manager.cc`).  State:
registered sessions, an LRU cache of idle chat sessions, the shutdown flag.
Operations: register, deregister, check out, check in, evict, cancel all, wait
for drain (ten seconds).  Hard: a check-in after the cache was cleared; sessions
that outlive the drain; it is called with the response store's mutex held.
Correct when a cached session has seen exactly the conversation of its id, no
session escapes `CancelAll`, and sessions die before their models.
*Modelled in `ResponseService`.*

**Manager and shutdown** (`manager.cc`).  Owns all others; `Shutdown` rejects
loads, cancels sessions, stops the web service, waits for the drain and unloads
all models.  Hard: it may be requested from two sides at once, and joins threads
that only a cancellation ends.  *Start and stop of the web service, shutdown and
the order of destruction are modelled in `ResponseService`, `UnloadAll` in
`ModelLoadManager`.*

**Model handles and variants, catalogs** (`model.cc`, `catalog/`).  State: a
container's variants and selection, a lifecycle mutex that is tried, never
waited for, by refreshes; active downloads; cached catalogs.  Hard: a refresh
retires a variant while it is downloaded or loaded.  *Planned.*

**Download manager and file lock** (`download/download_manager.cc`,
`platform/cross_process_file_lock.cc`, `platform/posix/`).  State: one mutex per
process, a lock file per model directory, a signal file, `inference_model.json`
and the blobs.  Operations: download, remove.  Hard: the lock file is unlinked on
release; the mutex is given up while waiting; any process may die.  Correct when
the lock excludes, what the cache serves is complete, and nobody deadlocks.
*Modelled (POSIX).*

**Blob downloader and resume state** (`download/blob_downloader.cc`,
`blob_download_state.cc`, `file_writer.cc`).  State: a chunk bitmap, its saved
window, the data file, a receipt, worker threads.  Hard: data and bitmap are
saved at different times; rounding of the window; a data file that was damaged
or shrank; a blob that is replaced meanwhile.  Correct when what is reported as
downloaded is whole, and no remains make every later attempt fail.  *Modelled
for one blob.*

**Responses store** (`generative/openresponses/response_store.cc`,
`service/responses_handler.cc`).  State: entries in LRU order, compacted replay
prefixes, leases of responses in flight.  Operations: begin, commit, read, delete
with dependents, evict.  Hard: a deletion while a continuation is generated; an
eviction in the midst of a chain; a session cache that is bounded separately.
Correct when nothing that depends on a deleted response is published and every
retained chain can be replayed.  *Modelled, with the handlers.*

**Predictive sessions** (`inferencing/predictive/`).  A pool of executors with
leases and cancellation.  *Planned.*

**Chat, audio and embeddings sessions, tool calling** (`generative/`).  Generation
belongs to ONNX Runtime GenAI; around it are sequential text algorithms.  What a
session does before and after (drain, claim, commit) is part of
`SessionRequest`; stop strings and the stream splitter are candidates for
operators.  *Otherwise not modelled.*

**Execution providers** (`ep_detection/`).  A detector with a download mutex and
an installer with staging and rename.  *Planned last.*

**Hosted backend** (`api/hosted_*.cc`, `api/request_admission.cc`).  Translates
API calls into calls of the connection.  *Not modelled; `SdkConnection` has the
client's end.*

**Web service** (`service/`).  The responses routes and the start and stop of the
service are in `ResponseService`, the admission of HTTP work in `HostLifetime`;
routing, formats and the stateless routes are *not modelled*.

**C API, contracts and items, telemetry, HTTP, platform and utilities, language
bindings** (`sdk_v2/{cs,java,js,python,rust}`), **the first-generation SDK**
(`sdk/`), **samples, docs, site, pipelines**.  Conversion, reporting and wrappers:
no protocol of their own.  *Not modelled.*

## How the modules correspond to the code

**HostLifetime.**  Every public call runs under one mutex, so each is one
action.  The caller's time sample is an input, up to `MaxDelay` behind the clock.
`guard[g]` is what a `WorkGuard` object holds; `Complete` and `Destroy` are its
two ends.  `last_use` is a history variable: no code reads it.  `HostContract` is
reached by `INSTANCE` with owners for clients, busy guards for jobs and the
committed state for closed.

**HostStartup.**  A launch is named by its incarnation, a random name in the
code.  Each file write is a temporary and a rename, hence one step.  The startup
lock belongs to an open file that `posix_spawn` and `fork` hand down; `Leased(i)`
says which processes still have it open.  A client's steps are the iterations of
`HostCoordinator::Connect`; a client acts on the record it has read, which nobody
else writes as long as it has the lock.  The process watch is an oracle: it
says "exited" exactly when the process has.  Not modelled: Windows, a corrupt
record, the startup failure that a host reports, and the exceptions that
`ForgetExited` raises when the dead host's socket cannot be removed.

**ModelLoadManager.**  A call is made once, by some thread, and moves through
the steps between which the code holds no lock.  The shared future is named by
the call that builds the runtime.  `UnloadAll` is a process of its own: snapshot,
poll, unload, and a deadline (`Expire`).  Left out is a failure of `on_admitted`
(line 394), after which the entry in `loading_runtimes_` would stay: what `Model`
passes there gives up a mutex that it holds, which does not throw.

**SessionRequest.**  A thread is a call of `ProcessRequest`; each of its steps is
one compare-and-swap or one critical section.  The worker is a second process
per thread, with one step per critical section of the queue, so the time between
"the queue is empty" and "the queue is finished" is visible.  A queue is the
number of its items: items differ in nothing that the properties mention.
`closing` is the position of `CancelCurrentOrNext`, which is not atomic.

**DownloadManager.**  A thread makes one call at a time.  Inodes are identities
that are free again once no path and no open file has them.  `open`, `flock`,
`fstat`/`stat`, `unlink` and `close` are five steps.  A model's blobs are one
variable: none, part, or whole.  A crash closes a process's files and leaves
everything on disk.

**BlobDownload.**  A download attempt and its workers; `remote` is the service,
whose blob may be replaced, and `data`, `sidecar` and `receipt` are the files,
which may be lost or torn by a crash of the process or of the machine.  A chunk's
content is a version, a hole, or torn.  The bitmap is a start and a set of bits;
the rounding of its start to bytes and words is arithmetic on the model's own
(small) word and byte.  `marked` is a history variable.  One process works on a
blob: `LockExclusive` of `DownloadManager` says so.

**ResponseStore, ResponseService.**  Every operation of the store holds its mutex,
so each is one step; a replay prefix is the sequence of its hops, a hop goes by
its response's id.  `ResponseService` EXTENDS the store and adds the session
cache, the requests' threads and the manager.  The code keeps two stores, of
public and of local clients, over one session cache; one is modelled, since ids
are drawn at random and the stores never meet.  Where nobody can see the state in
between, registration and deregistration are part of the step next to them.  A
transcript is the sequence of hops a live session has seen: `WarmIsWhole` compares
it with what the store would replay.  A web service that has stopped leaves its
sessions in the cache until shutdown, as its store dies without evicting them
(cf. `response_store.h:39`); `earlier` exempts exactly these.

**SdkConnection.**  Each end has its calls, queues and threads; `sender`,
`receiver` and `canceller` are the threads inside `Send`, `Receive` and `Cancel`.
What a frame does when it is read follows `ReadOne` case by case, and each of the
code's exceptions there is `ProtocolError`, which fails both ends.  A frame is
read when it is written: on its way it can no longer be overtaken, and what is
read waits in the call's mailbox for its thread.  Steps of two critical sections
are merged where the other end cannot tell (an offer and its `Ready`, a permit
and its fragment, a slot and its `Pull`).  Events have two fragments in the run,
so a result can come in the middle of one.  Left out: the disconnect handler, the
budget of request bytes, `Stop` and the joins of the connection's own threads,
requests of several fragments, the handshake, and the refusal of calls beyond
`kMaxConcurrentCalls`, which the accept loop completes itself
(`host_server.cc:215`).  The limit of pending requests is modelled: it fails the
connection with the value `limit`, apart from the errors of the protocol.
The set `seen` is kept as ranges in the code.

## Runs

| Run | Shows | Bounds |
|---|---|---|
| `lifetime` | types, exclusive stop, whole grace, the contract, and that an unused host commits | 2 generations, 3 guards, clock to 7, grace 2, samples 2 late |
| `host_startup` | no live host is forgotten; everybody ends up attached | 2 clients, 3 faults, 4 incarnations |
| `model_loads` | sessions pin their model, single flight, files outlive the runtime, typed models stay unloaded, waiters are answered, `UnloadAll` returns | 3 calls, 4 handles with 3 ids and 2 directories, budget 1, 1 readiness slot |
| `late_load` | finding: a late `LoadModel` survives `UnloadAll` | 1 call |
| `requests` | cancellation wins, calls are tracked, shutdown and closing reach every call, a claim finds nothing undecided, a cancelled call returns | 2 threads, 2 requests, a chat and a concurrent session, queue 2, window 1 |
| `lost_item` | finding: the last streamed item may stay undelivered | 1 thread, queue 3 |
| `downloads` | the lock excludes, hits are whole, cached stays cached, every call returns | 3 threads in 2 processes, 2 models, 5 inodes, 1 crash |
| `torn_removal` | finding: an interrupted removal leaves an incomplete model that is served | same with 1 model |
| `blob` | what is reported as downloaded is whole, the bitmap is read back as it was saved, an attempt succeeds once things stop going wrong | 6 chunks, words of 4 bits and bytes of 2, 2 workers, 2 versions, 2 faults |
| `serving` | what is retained can be replayed, what was deleted does not come back, warm sessions equal the stored chains, sessions die before models, `Shutdown` returns | 3 responses, capacity 1, cache 2, 2 requests, 1 restart |
| `connection` | no legal exchange is taken for an error, a release finds a slot, slots come back, everybody who waits for a call that is over gets out | a streaming call and two releases, limit 1, 1 delivery slot, 1 queued frame, events of 2 fragments, 1 loss |
| `call_limit` | finding: calls that the client admits exceed the server's limit | a streaming call and a release, limit 1, no loss |

Why these bounds are enough.  *lifetime*: two generations are the least at which
an owner leaves while another attaches during its stop, three guards let
work of two kinds meet a stop, and the clock is long enough for the startup
deadline, two graces and saturation at the maximum.  *host_startup*: one
incarnation more than faults, as a launch is lost only to a fault; three faults
allow a crash in the recovery of a crash.  *model_loads*: three calls are a
builder, a waiter and somebody who interferes; the handles include two
registrations of one id and two models in one directory.  *requests*: the races
are between two threads on one request or one session, and the callers that
cancel are always enabled; the queue exceeds the cancellation window, so the drop
of a backlog happens.  *downloads*: three threads are the
releaser, one that locks the orphan and one that creates the new file, which is
the race the inode check is for; an inode per thread and per model means that
creation never waits for one.  *blob*: the last word is not full and a byte is
half a word, as the roundings need; two faults are a crash and a damage found
while recovering from it.  *serving*: the cache holds more than the store, so what the
store evicts is still cached; and a store of one evicts, with every commit, what the
other request is continuing, so that the lease's snapshot has to restore it and a
deletion may find nothing but the lease.  What a larger store adds, the choice of a
root among several and the order that touches give, is beyond this run: theorems
`Replays` and `Deletes` cover every capacity and any number of responses.
*connection*: with one slot and one queued frame everybody who can wait for another
does.  With a limit of one the ordinary call takes every ordinary slot, so the
requests meet the limit, and the second release comes while the first is not
retired.  The releases differ in nothing but their names and nobody has to make one,
so `FirstIsR1` leaves out the behaviours in which `r2` is called before `r1` ever
was: each of these becomes one that is checked when the two names are exchanged, and the
properties do not tell the names apart.

Each property has a mutant: a plausible bug in one mapped definition (a dropped
guard, a reset that is missing, an order that is swapped) under which the same
run reports that property.  A mutant is written next to the definition it changes.

Deadlock is checked in `lifetime`, `model_loads` and `requests`.  In the other
passing runs all calls end at some time by design, and their liveness properties say
that they do.

## Fairness

* `HostLifetime`: time passes, and the host server's monitor thread polls with
  the current time (every 20 ms, until the commitment).
* `HostStartup`: strong fairness of taking the lock, which is polled every 5 ms
  until a deadline far above the time it is held; weak fairness of processes that
  run.  A client that was refused tries again; this is the application's part.
* `ModelLoadManager`: some thread inside a call runs on; `UnloadAll` runs on or
  its deadline passes.  Sessions may be kept for ever.
* `SessionRequest`: a call that is under way goes on and so does its worker:
  generation looks for cancellation and ends, and callbacks return having popped
  an item.  An exception is never needed to make progress, so it is not fair.
* `DownloadManager`: weak fairness of each call's own steps.  A poll for the file
  lock is an attempt that may fail, so `EveryCallReturns` says that the number of
  failed attempts is finite because holders finish; cancelling and timing out are
  not needed, hence not fair.
* `BlobDownload`: the attempt and its workers run on and a failed download is
  tried again.  Faults are not fair, and bounded.
* `ResponseService`: some request that is being handled goes on, and so does the
  manager's thread.  A streamed generation may go on for ever unless it is
  cancelled; that is what makes `ShutdownReturns` hard.
* `SdkConnection`: some thread that can run runs.  Nobody has to call, send input,
  cancel or lose the connection, and an operation that streams ends only when its
  hook has run or an event could not be sent.  Weak fairness of all the threads
  together is enough, since each has few steps between two choices.

## Proofs

All theorems hold for every value of the constants under the named assumptions of
their module, and are checked without any axiom.

**HostLifetime_proofs.**  `IInv` is the type, the fact that the counters count the
guards (`WorkCounts`), what each phase knows (`Phases`: accepting exactly with an
owner, no work in a phase that waits for nobody, a deadline exactly in the phases
that wait), the exclusive stop and the kept grace (`GraceKept`).  None is
inductive alone: that a commitment finds no work needs the phases, and these need
the counters, whose decrement needs that they count.  From `IInv`: `TypeCorrect`,
`StopExcludes`, `WholeGrace`; and `ImplementsContract`, step by step, which is the
refinement of `HostContract`.

**DownloadManager_proofs.**  `LockInv` is the type, that a call under way has a
model, that flock excludes inode by inode (`FlockUnique`), and that a holder's
inode is the one at its path (`HolderAtPath`).  Exclusion follows: two holders of
one model have the same path, so the same inode, so the same flock.  A release
breaks the path, but its thread is then no holder and no other can be one.
`CachedStaysCached` follows from what the steps do under the lock.  For
`HitsAreWhole`, `WholeInv` says that data is whole from the end of the fetch to
the removal of the signal, and for every stamped model that no removal is at work
on; it assumes `~RemovalMayFail`, which is the finding `torn_removal`.

**SessionRequest_proofs.**  Everything rests on `Ownership`: from `TryBegin` to
the publication of its completion a thread is the only one that processes its
request, so the state's compare-and-swaps race with cancellation and nothing else.
With it `Decided` (an accepted cancel stays in the state; a success or a commit
was claimed) gives `CancelHonoured`, and `Tracked` gives `ActiveTracked`.
`ShutdownReachesAll` and `ClosedNeverRuns` are conjuncts of `IInv` themselves; the
latter needs that a connection's request has one thread (`OneShots`) and where the
cancel-on-start flag is between the two halves of `CancelCurrentOrNext`
(`Flagged`).  `NothingUndecided` needs that `in_progress` covers the callback and
that a drained turn has neither item nor callback (`Callbacks`).

**ModelLoadManager_proofs.**  `Counted` says that an identity's reference count is
the number of factories that construct a session plus the number of sessions;
`SessionsPinModel` is inductive only with it.  `Builders` says that a typed
identity's entry in `loading_runtimes_` is the call that builds it, hence
`SingleFlight`, and that nobody builds what is loaded (`Loaded`), hence
`FilesOutliveRuntime`.  `TypedStayUnloaded` needs that `UnloadAll` starts after
loads are rejected (`Rejected`).

**HostStartup_proofs.**  `NothingForgotten` is inductive with: only the client that
has the lock is inside `Connect` (`Exclusive`); beside it no launcher runs but the
one it reaps, and without a launch of its own nobody has the inherited lease
(`Alone`); what became of an incarnation is in its files (`Lineage`); and what the
record says at each of the client's steps (`Turns`).  The lease is the heart of it:
the lock is free only when every process that could still become the host of an
earlier attempt is gone or has published.  `WriteDescriptor` draws a name that is
not in use; the code draws it at random.

**BlobDownload_proofs.**  The operators first: what the bitmap's start, count and
highest bit are after a mark (`MarkFacts` and its neighbours), that the window
`SaveState` writes has the same complete chunks (`SavedReadable`), and that the
rounding of its start to a byte keeps every chunk below it complete
(`StartFacts`), for every size, word and byte.  Then `IInv`: memory and disk are
sound (`Records`), the saved state says what was complete when it was saved
(`Truthful`), a complete chunk is on the disk in the listed version (`Fetched`),
what an attempt has at each step (`Steps`), one worker per chunk (`Claimed`), and
that a save is due in time (`Counted`).  `FinishedIsWhole` and `ReadsBack` follow,
after any number of crashes, losses and replacements.

**ResponseService_proofs**, in which the store is proved too.  `Segment`, `Without`
and the conversation are recursive functions on the store's ids or on positions:
`Recursion` says that such a function exists, from the well-foundedness of `<` on
the numbers, and `Induction`, first-order over a set of numbers, what it computes.
From there each function of the store has a lemma (`WithoutFacts`, `SegmentFacts`,
`WalkFacts`, `EvictFacts`, `AttachFacts`, `EraseFacts`, ...), and the store is
`Whole`: an entry whose parent was evicted has the whole conversation up to that
parent as its prefix, and no other entry has a prefix.  This is more than
`Replayable` says and is what eviction, which moves the root's prefix to its
children, preserves; a commit leaves it broken until `AttachReplaySnapshot`, from
the lease, repairs it.  `DeletedStaysGone` is `Clean`, inductive only with what
leases know (`Leased`: the chain of a lease is the conversation it continues, and
one with a deleted hop in it is invalidated) and with the order of publication
(`Issued`).  `WarmIsWhole` needs that a session that generates has seen its lease's
chain (`Served`) and a cached one its response's conversation (`Cached`).
`SessionsDieFirst` follows from where requests may still be at each stage of the
shutdown (`Late`).  `ServiceKeeps` is the store's promises inside the service.
`ChainAssumption` says only that `None` is no chain and no lease.

**SdkConnection_proofs.** `TypeCorrect` counts the delivery slots: a slot in use is
reserved by exactly one call, whatever its cancellation, input and result do to each
other.  `Protocol` says that no exchange of two ends that keep to the protocol is
taken for an error (`Orderly`) and that a release finds a slot at the server
(`ReleasesFit`); `NoProtocolError` is both.  The invariant is stated call by call:
an offer is a `Ready` frame, known to the other end, its `Pull`, or a permit, and
only one of these (`Offered`); what has been permitted is a `Pull`, a permit, a
fragment or a delivery (`Permitted`); the fragments that come continue what is
assembled (`Sequenced`); and where each end's threads are (`ClientSide`,
`ServerSide`, `Cancels`, ...).  A step of one call leaves what the other calls see
in the queues the same, so each action is treated for its own call only.  What the
server has room for is a matter of all calls together, `RoomInv`: each end has at
most `MaxPendingCalls` ordinary calls; one release at a time is active at the client
(`release_mutex`) and one is executed at the server (the accept loop); and a result
is on its way, or there, only if its worker has finished with the operation.  So
beside a release only the one before it can be left at the server, and its request
fits (`Fit`).  And a cancellation that comes before its request is one of an
ordinary call that is outstanding at the client, so those that are kept are never
more than the limit.  The theorem neither bounds the number of calls in a
connection's life nor assumes anything of the limit: where an ordinary request
exceeds it, the connection fails by `limit`, which is finding 4 and not
`NoProtocolError`'s.

Every safety property of the passing runs is proved.  Only model-checked is
liveness (`UnusedHostCommits`, `Recovers`, `WaitersAnswered`, `UnloadAllReturns`,
`CanceledReturns`, `EveryCallReturns`, `Finishes`, `ShutdownReturns`,
`CallUnwinds`): its fairness, and whatever needs ENABLED, is out of the provers'
reach.  `CallUnwinds` says of all calls together that from some point on whatever is
over is unwound; since what is over stays over and the calls are finitely many, this
is that each call that is over is unwound in the end and stays so.

## Findings

1. **A late load survives UnloadAll** (`model_load_manager.cc:507`).  `LoadModel`
   reads `shutdown_` before it waits for the mutex and not again.
2. **The last streamed item may be lost** (`callback_handler.h:126`).  The worker
   asks for the size and for the end in two critical sections.  Chat text is safe,
   as a chat turn drains before it ends; an audio transcript's last segment and
   the final chunk of a streamed JSON completion are not.
3. **An interrupted removal leaves a hit** (`download_manager.cc:601`).  Entries
   are removed in directory order without a signal file, so
   `inference_model.json` may outlive the blobs.
4. **A call within the client's limit fails the connection**
   (`hosting/sdk_connection.cc:436`).  A client admits an ordinary call while fewer
   than `kMaxPendingCalls` calls are outstanding, and one release beyond that
   (`AllocateInvocation`, line 666); `sdk_connection.h:126` calls it a reserved slot.
   The server accepts an ordinary request only while fewer than `kMaxPendingCalls`
   calls *of any kind* are outstanding at its end (`ReadRequest`, line 436), and
   otherwise throws out of its `Reader`, which fails the connection and every call on
   it.  So the last ordinary call and a release, both admitted, fail it when the
   release's request is written first (the run's trace); and so may an ordinary call
   that follows a result whose invocation the server has not retired yet, for which
   line 434 makes room on behalf of releases only.

## Plan

Next, in this order:

1. Proofs: action properties of the proved components from the same invariants
   (an action in the code may not undo a commit, a claim, or a saved mark).
2. `HostServer`: peers, the limit of concurrent calls and the drain, composed with
   `HostLifetime` by INSTANCE.
3. `ModelVariants`: preserved selections, refresh and retirement of variants.
4. `SessionExecutor` for predictive sessions; the EP installer.

## Not modelled

Text and data without interleavings: tool-call decoders, stream splitters, wire
formats, catalogs' parsing, items.  What is the platform's: file permissions,
sockets, process identity, ONNX Runtime.  The Windows branches of the lock, the
startup and the channel.  The language bindings and the first-generation SDK, which
add no protocol.  The map therefore covers a small share of the repository's lines:
the concurrent core is some ten thousand lines of its C++ sources, and the
conversions around it are many times that.

## Running

    tlc -workers 2 -config MC_HostLifetime.cfg MC_HostLifetime
    tlapm HostLifetime_proofs.tla

Each run ends within four minutes on two workers.  `MC_LateLoad.cfg`, `MC_LostItem.cfg`,
`MC_TornRemoval.cfg` and `MC_CallLimit.cfg` (with the module `MC_SdkConnection`)
report the violation that is their finding.
