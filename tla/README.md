# Verification of Kinakaze's session service

Kinakaze runs Linux programs as native Windows processes. A session is served
by one `init` process (`apps/init`). It holds the state that a Linux kernel
would hold for a process tree: who is which logical process, which fork or exec
is under way, which named state a module keeps, which dirty files are to be
flushed. Guest workers (`apps/worker`, with the engine and the guest libraries
loaded) talk to it over pipes. Workers are ordinary Windows processes: each may
lose its pipe or die at any instruction, and the service must stay consistent.

This directory holds TLA+ models of that service and of the shared memory it
shares with the workers, TLC configurations that check them on small instances,
and TLAPS proofs for instances of any size.

## Inventory

### Components

| Component | State it keeps | Operations | Hard behaviour |
|---|---|---|---|
| Process state manager, `crates/manager/src/lib.rs` | clients, logical processes, modules, state objects, fork and exec transactions, retired peers, exit log | `connect`, `handle` (one request per variant of the protocol), `acknowledge`, `disconnect`, `process_exited_with_status` | requests, EOFs and native deaths in any order; replies lost and repeated; two native processes behind one pid during exec |
| Writeback queue, `apps/init/src/writeback.rs` | entries per file, pending count, bounded channel, two threads | `submit`, `wait`, `shutdown`, drop | completion races with waiters that remove the entry; error of one hint among many; shutdown during the grace period |
| RPC service, `apps/init/src/main.rs` | one mutex round the manager, one condition variable, exit watchers, session stop | `serve`, `await_*`, `stop` | missed wake-ups, lock order at stop |
| Native fork custody, `apps/init/src/native_fork.rs` | standby processes, leases by fork | refill, lease, reap | a lease outlives the image that asked for it; retries |
| Native exec custody, `apps/init/src/native_exec.rs` | created candidates and their deadline | deliver, claim, reap | a 30 s deadline racing `PrepareExec` |
| Worker pool, `apps/init/src/pool.rs` | slots, launched workers, demand, failures | refill, give up; launchers reserve, wait, activate | a launch races the pass that looks after its slot; waiters while workers die or come late |
| Kernel objects, `apps/init/src/kernel.rs`, `kernel/resources.rs` | retained sections, references, leases, resource bundles, directory watches | retain, lease, remove, collect, publish mounts | handles that workers open and close during a collection; dead lease holders; cycles |
| Shared store, `kinakaze-vfs/src/mount/shared.rs` | two banks and a publication word in shared memory, a native mutex | read without a lock, update, inspect | writers killed in the middle; banks reused under a reader |
| Mount topology, `mount/propagation.rs`, `mount.rs` | one store per namespace, a topology word, a cache per process | mount with propagation, unshare, snapshot | a writer dies while init publishes for it; stale caches |
| Image cache, native catalog | mapped image snapshots, module table | load, read, evict | concurrent first use |
| Engine (`engine/crates`), guest libraries (`libs`) | guest memory, descriptors, futexes, locks | the Linux ABI | single mechanisms with real concurrency (futex, eventfd, pipes, record locks) |
| Front ends, host layer, rootfs, tools | terminals, Win32 handles, archives | I/O | none a model would settle |

`PROJECT.json` lists all of them with their sources and what is and is not
modelled.

### How they interact

The service holds the manager behind one mutex. A connection thread calls
`connect` once, then `handle` per request and `acknowledge` when the transport
has delivered a terminal answer; `disconnect` when the pipe ends. An exit
watcher per worker connection waits for the native process and calls
`process_exited_with_status`. EOF is no proof of death: a worker that has lost
its pipe is still running. So a death and the EOF of the same process arrive in
either order, and a death may be reported more than once.

fork: the parent's `PrepareFork` reserves a pid and freezes a snapshot; a new
native process redeems the ticket (`connect`), declares itself ready, and the
parent commits or aborts. exec: the owner names a replacement process it had
created (`PrepareExec`); the replacement attaches as a candidate, declares
itself ready, and the owner commits. From the commit on the old image may not
act any more, but the process changes hands only when the old image is dead;
if the replacement dies first, its exit is deferred until then.

The writeback queue is called by RPC threads and by `stop`; it shares nothing
with the manager but the session's life.

### What makes each part correct

- Manager: one native owner per logical process and one process per owner;
  ownership changes only by a committed exec and only after the old image is
  dead; fork transaction and child agree; replay records and transactions
  correspond; the exit status of a process is that of its last image; quotas
  count reservations; state objects are neither leaked nor shared by accident;
  a child gets what was frozen for it; a pool worker is handed out once.
- Writeback: counters exact, so that no `unwrap` can fail; a failure reaches a
  waiter; `wait` covers the hints accepted before it; shutdown drains and
  returns.
- Service: no await misses a wake-up; stop does not deadlock; nothing is created
  once it has returned.
- Custody pools: a native process is leased once, is not killed when a commit
  has published it or a reservation still needs it, and none is leaked.
- Worker pool: a launched worker belongs to its application; a waiting launcher
  is served or refused.
- Shared store: a reader gets a whole published value under its own revision and
  waits for nobody; a killed writer damages nothing.
- Mount topology: an event is in all its namespaces or in none, none is lost,
  and a snapshot is that of one topology revision.
- Kernel objects: nothing needed is collected, everything unreachable is, and no
  reference dangles.

## Modules

| Module | Models | Role |
|---|---|---|
| `StateManager` | `crates/manager/src/lib.rs` | specification and properties |
| `ProcessLife`, `ManagerLife` | | what the manager promises about processes, and the refinement mapping |
| `MCLifecycle`, `MCState`, `MCPool` | | instances: fork/exec/death; module state; the whole next-state relation with pool and control connections |
| `StateManagerProofs` | | theorems on native ownership, execs and registrations, forks, the worker pool, replay records, module state, quotas and types |
| `LifeProofs` | | the refinement of `ProcessLife`, by the manager and by the manager beside its worker pool, and the theorem on launched workers |
| `Writeback`, `MCWriteback`, `WritebackProofs` | `apps/init/src/writeback.rs` | specification, instance, theorems |
| `NativePool` | the common part of `native_fork.rs` and `native_exec.rs` | native processes, stock, leases, pool thread, deliveries; extends `StateManager` |
| `NativeExec`, `MCNativeExec` | `apps/init/src/native_exec.rs` | custody of exec replacements, composed with the manager |
| `NativeFork`, `MCNativeFork` | `apps/init/src/native_fork.rs` | custody of fork children and their template, composed with the manager |
| `NativePoolProofs` | | theorems on both custody pools, on top of those on the manager |
| `WorkerPool`, `MCWorkerPool` (proofs in `LifeProofs`) | `apps/init/src/pool.rs`, parts of `main.rs` | refill thread and waiting launchers, composed with the manager |
| `Session`, `MCSession`, `SessionProofs` | `apps/init/src/main.rs`, `host-win/src/pipes.rs` | threads, locks, notifications, accept loop and stop |
| `SharedStore`, `MCSharedStore`, `SharedStoreProofs` | `kinakaze-vfs/src/mount/shared.rs` | the two-bank store |
| `MountTopology`, `MCMountTopology`, `MountTopologyProofs` | `mount/propagation.rs`, `mount/shared.rs`, `mount.rs`, `apps/init/src/kernel.rs` | mount publication over the stores |
| `KernelObjects`, `MCKernelObjects`, `KernelObjectsProofs` | `apps/init/src/kernel.rs` | retained objects and collection |

The `map` of `PROJECT.json` gives the source lines of every definition. A
definition that begins "Mutated form:" is a plausible bug; it is used by no
specification and serves to show that a property can fail.

### StateManager

Every public entry point runs under the service's mutex, hence one call is one
action. A refused request leaves the manager unchanged and so needs no action.
The correspondence is direct: the variables carry the field names of
`StateManager`, the actions the names of the requests; `BTreeMap`s are functions
on their present keys, an `Option` is a set of at most one element or the
identifier 0.

What is abstracted:

- A peer `(host pid, creation time)` is a model value: the pair is unique over
  the life of a session. The environment variable `exited` remembers the deaths
  reported since the peer last registered. It guards nothing: `connect` does not
  ask whether its peer is alive. A connection thread opens the peer's process
  (`main.rs:133`) before it takes the mutex (`main.rs:168`), and in between the
  watcher of another connection may report the death (`main.rs:185`). The
  manager has then forgotten the peer and the late Hello registers it again, as a
  second process; its new watcher will report the death once more.
- The random adoption ticket is the fork's transaction id, its only bearer in
  the model is whoever connects: *any* fresh worker may redeem any ticket.
- Which client sends what is left open: any connection may send any request at
  any time. Requests whose answer does not depend on mutable state, and reads
  (`stats`, `await_*`, identity, memory target), have no action.
- A key given again answers from its record and changes nothing; what such an
  answer says is the property `ReplayReturnsTicket`.
- `process_exited_with_status` calls itself for a deferred exit. `ProcessExited`
  computes the combined effect: `dying` is the peer and the replacements whose
  exit had been deferred, `dead` the processes that end with them.
- Capacity limits and the ends of the identifier spaces are constants. The
  latter (`LAST_CLIENT`, `LAST_PID`, `LAST_TRANSACTION`) bound the model where
  the code has `u64::MAX` and `i32::MAX`; the guard is the code's own
  `checked_add`.
- `registered` is a history variable: the pid each native process registered for.

### Writeback

A region under the state mutex is one action; receiving from the channel and
flushing happen outside it and are actions of their own. Sleeping on the
condition variable is a state from which the thread may continue when its
condition holds (the code's `while` loops). A submission that meets a full
channel rolls its counters back, that is, it changes nothing. The file handle a
command owns is the number of the hint. `Start` may fail, as `OnceLock` keeps a
failed start for good.

### ProcessLife and its refinement

`ProcessLife` knows processes, native images, verdicts and a log of exits, and
nothing of connections, tickets, retry keys, quotas or pools: a process is run
by one image, a fork or exec is decided once, an elected heir inherits when the
old image is dead, a process ends with its last image and that image's status,
orphans lose their parent. An image that was found dead may be given a process
(`Appear`) or become a candidate (`Return`) once more, and is found dead again
later. `ManagerLife` maps the manager's tables to it: the
heir of a process is the target of its committed, still retiring exec; the
verdict of a transaction is `open` until it is terminal. One death report of the
manager, with the deferred exits it settles, is one `Death`.

### The custody pools and the worker pool

`NativePool`, `NativeExec`, `NativeFork` and `WorkerPool` extend `StateManager`:
the manager in them is the real one, with every request the pool's client can
make. What the code does under the manager mutex is one step. The native pools
have steps of their own where the code gives the mutex up: creation, publication
of the created process, the moment between the decision to sleep and
`Condvar::wait` (the pool thread holds the manager mutex there but not the stock
mutex, and `take` needs only the latter), the reply. A timeout is a step that can
happen at any time, as are the death of a process and the end of a connection.
`killed` records what the pool ended, `released` what it let go.

In `WorkerPool` a pass of the thread is one step, creation included, because the
code holds the manager mutex across it. Creation may fail at any time, a worker
may die, connect and never get ready, or never connect. A launcher waits inside
`ReservePoolWorker`, is woken by every notification and looks again.

In all three pools a process connects, and is named in a request, also after it
died (`Heard`: what it sent is still read), whether or not its death was reported.

### Session

Each thread has a program counter. The manager is reduced to what other threads
notice: who holds its mutex, and which awaiting requests have their answer
(`Change`: any change may provide it). The pipe has one pending instance; a
client may connect to it before the server waits on it, and close it again.
`stop` is modelled lock by lock: manager, gates, drain, notification, and the
connection that wakes `accept`. One `Creator` stands for a native pool thread
with its gate.

### SharedStore and MountTopology

In `SharedStore` every access to a shared word is one step and any thread may be
killed between two. The model is sequentially consistent; the code's Acquire,
Release and SeqCst accesses are what it relies on for that. `MountTopology`
builds on its result: reading one store is one step there. A table is the set of
the events it shows. A worker makes one event for its own namespace or for all;
init checks, publishes store by store and replies; the worker may be killed at
any point, with the topology mutex abandoned. An unshare lets init retain the new
store (`RetainChild`), fills it (`FillChild`) and moves to it (`InstallChild`); in
between the store is known and empty, and stays so if the worker is killed.
Readers load the revision of their store, compare it with that of the cache the
threads of a process share, and read the store if they differ.

### KernelObjects

A command is one step under the kernel mutex; a collection is not, since workers
open and close handles without a request while it queries one object after the
other. A worker finds an object through a root or an object it holds, or creates
it. `steady` records the handles held during the whole collection.

## Runs

| Run | Instance | What it shows |
|---|---|---|
| `writeback` | 2 files, 2 threads, 2 waiters, capacity 2, 3 hints | counters, failures, handles, draining; `shutdown` returns |
| `lifecycle` | 4 native processes, one root, 3 pids in use at once, 2 transactions | fork, exec and death; `ImplementsLife` |
| `state` | 3 native processes, 1 module, 2 schemas, 2 names, 2 values | Copy, Share and Reset objects; collection |
| `pool` | 3 native processes, several roots, every action of the manager | launches, separation of roles |
| `worker_pool` | 1 slot, 2 workers, 4 connections, 2 failures allowed | launched workers are left alone; waiting launchers are served |
| `native_exec` | 1 guest, 2 pooled processes, stock 1, 2 execs | commit and reservation beat the deadline; revoked candidates end |
| `native_fork` | 1 guest, 2 pooled processes, stock 1, 2 templates | custody, template, published children |
| `session` | 2 connections, 1 watcher, 1 native pool, the worker pool | awaits and stop return, nothing is created after stop |
| `session_end` | 1 connection, 1 watcher, 1 native pool | the accept loop need not end (below) |
| `shared_store` | 3 threads, values of up to 2 words, 3 publications | exact snapshots, intact publication, readers return |
| `mount_topology` | 2 namespaces and a third to unshare, 2 workers, 2 readers | whole, lasting events; snapshots of one revision |
| `kernel_objects` | a root, two objects that refer to each other, one of them System V, a token, room for 2 | references, collection and its liveness |

Why the bounds are enough for the interesting cases:

- `writeback`: with three hints of two keys both threads can hold a hint of the
  same key while a third waits in the channel; two waiters compete for one
  error; capacity two is reached by pending hints and by entries kept for their
  errors.
- `lifecycle`: four native processes are a parent, its child, a replacement and
  a bystander; each of them may connect again, alive or reported dead. Two
  transactions at once allow a fork pending across an exec, two siblings, or a retry; four transaction ids in
  total allow a second attempt after an abort. Two exit statuses tell the two
  images of an exec apart, one exit record makes eviction happen. It has no
  objects: the object quota of `QuotasHold` is left to the theorem.
- `state`: one fork suffices for what a snapshot freezes; three objects fill
  the object quota with two states of the parent.
- `pool`: three native processes give a launcher, a pool worker and another
  role; five connections let a connection be lost and replaced.
- `worker_pool`: two launchers wait at once, a first worker is launched, lost or
  late and a second replaces it; once no process is left creation fails and the
  pool gives up, so every wait has an end to reach.
- `native_exec`, `native_fork`: with two pooled processes one is delivered while
  the other is created, asked for again, or built for another template.
- `session`: two connections are one that awaits and one that changes the manager
  or shuts down; both and the watcher may call `stop`.
- `shared_store`: three publications reuse both banks under a reader that began
  before the first; three threads are a reader and two writers, one of which
  dies.
- `mount_topology`: one writer dies while init works for it and the other goes
  on; the third namespace appears in between, filled or left empty by a worker that
  was killed; two readers share a cache.
- `kernel_objects`: the cycle makes tracing necessary, room for two makes the
  collection inside `retain` happen.

Peers, statuses, schemas, values, workers and namespaces are interchangeable in
the runs without liveness, which therefore use symmetry. Deadlock is not checked
where the system may stop: the identifier space of the instance is used up, every
process has exited, the queue is dropped, the session has ended.

### Fairness

No run assumes anything of guests, clients or launchers: they may stop at any
point. What is assumed is that the operating system runs the threads of init.

- `writeback`: weak fairness of each worker thread, of each sleeping `wait` and
  of `shutdown`. None of `GraceElapsed`: shutdown has to cut the grace period
  short by itself.
- `native_exec`: weak fairness of the pool thread and of replies. The pool thread
  may miss a notification; `RevokedDies` holds because a lease makes the next
  wait a timed one.
- `worker_pool`: weak fairness of the pool thread and its timer, of the 30 s limit,
  of exit watchers and of a woken request. Two waiting launchers wake each other
  at every round (`main.rs:296`), which costs processor time but no progress.
- `session`: weak fairness of steps that wait for nothing, strong fairness of a
  thread inside `stop`: a mutex that is free again and again is obtained.
- `shared_store`: only a thread that reads is sure to go on. A writer may be
  suspended for ever with the mutex, as siblings of a forking thread are.
- `kernel_objects`: the collection thread wakes every second and a collection ends;
  strong, since commands take the mutex in between.

### Where the code differs from its text

`session_end` is a run of its own: `stop` wakes the accept loop with one
connection, which it drops at once. If main has tested the flag and not yet
called `ConnectNamedPipe`, `accept` finds the instance closed and empty, replaces
it and waits again. `pipes.rs:90` says that to connect once is enough. The
session process then stays, although `stop` has returned.

These configurations each show one more sentence that the code does not keep;
TLC finds the violation within seconds (`tlc -config X.cfg M`):

| Configuration, module | Sentence | What the code does |
|---|---|---|
| `CommitTransfers.cfg`, `MCLifecycle` | manager README, line 15: `CommitExec` transfers the native ownership atomically | the old image stays the owner until its death is reported, which is the safer order (`OneOwner`) |
| `RecordsKept.cfg`, `MCLifecycle` | line 11: completed records stay until the parent exits | `acknowledge` drops them earlier |
| `RetryHistory.cfg`, `MCLifecycle` | line 19: exec keeps the retry history | the take-over clears the exec keys and those of decided forks |
| `ForkReplay.cfg`, `MCLifecycle` | line 11: the same request returns the original transaction | `PrepareForkWithParent` repeated after the logical parent died is refused |
| `LateHello.cfg`, `MCLifecycle` | manager README, line 5: a worker can create one guest process only | a Hello handled after the death of its process was reported registers the process again |
| `PoolUnused.cfg`, `MCPool` | `MarkPoolReady`: only an unused root joins the pool | a root that has forked is accepted |
| `ExecExpiry.cfg`, `MCNativeExec` | `docs/native-exec-pool.md:31`: an unreserved candidate expires after 30 s | a delivery between the pool thread's decision to sleep and its untimed wait is not noticed |
| `ExecExit.cfg`, `MCNativeExec` | manager README, line 17: the exit of either party revokes the exec | a replacement that dies before its Hello has no watcher |
| `ForkAcrossExec.cfg`, `MCNativeFork` | `lib.rs:1029`: a pending fork may be completed by the replacement | `reap_leases` ends its pooled child when the old image dies |
| `UnshareRace.cfg`, `MCMountTopology` | `shared.rs:760`: topology mutations are serialized across namespaces | `prepare_owned` copies the parent under an abandoned guard while init still publishes for the dead owner; the new namespace misses the event |
| `SweepRace.cfg`, `MCKernelObjects` | `kernel.rs:511`: native handles cover fork, exec and namespace descriptors | a handle opened through another object, which is then closed, between two queries of one collection is overlooked |

## Proofs

TLAPS proves the theorems below for every value of the constants that satisfies
the named assumption of each specification. None of the invariants is inductive
as it stands; each proof module first defines the strengthening, as a
conjunction of named parts, and has one lemma per action.

What is assumed of the constants, and why the code justifies it:

- `ManagerAssumption`, `StoreAssumption`, `KernelAssumption`, `PoolAssumption`,
  `WorkerPoolAssumption`: limits are natural numbers, a pooled native process is
  a native process, a published value fits its bank and there is an empty one,
  references relate keys.
- `WritebackAssumption`: a positive capacity, non-zero error codes, and finitely
  many threads but at least one (`writeback.rs:118` starts two; with none the
  queue would be drained only in the sense that nobody ever flushes).
- `SessionAssumption`: a thread that creates processes is not a connection thread
  or exit watcher. They are started by different functions.
- `TopologyAssumption`: a process that publishes and a thread that takes a
  snapshot have program counters of their own; there is a first namespace.

### Manager (`StateManagerProofs`)

- `OneOwnerCorrect`, `OwnershipChangesByExec`. The strengthening `IInv` adds:
  identifiers in use have been issued and are not issued again (`Shape`), the pid
  of a reserved child is free and reserved once (`ForkSlots`), only controllers
  and launchers have several connections (`Seats`), a native process is the
  replacement of one exec (`Targets`), the connection that prepared an exec
  belongs to the image recorded as its owner (`Signers`), what the candidate's
  connection is (`Candidates`), and that between commit and death no connection
  acts for the process and only one exec retires an image (`Retiring`,
  `OneRetiring`). The hard step is the death of a native process: `OneRetiring`
  makes the exec that hands over unique, hence the successor well defined;
  `Candidates` says the successor owned nothing before; `Retiring` that no worker
  connection is left behind with the old owner. The lemmas `ExitProcesses`, `ExitClients`,
  `ExitExecs` and `ExitForks` state once what a death settles; the later proofs
  start from them.
- `ExecBackedCorrect`, `RolesCorrect`, `RegistrationCorrect` share `ExecInv`, on top
  of `IInv`. `RegistersOnce` says that a native process whose death was not
  reported does not register a second time, whatever closes, is revoked or commits. It is kept
  from that by its retirement, its process, its connection or the exec that chose
  it (`Known`), and each action but the report of its death may take one of these
  away only by giving another. The reservation is no assumption about the caller:
  after the report the code does register it again (`LateHello.cfg`), and then the
  theorem holds of the new registration. `Attached` says that the candidate of a revoked exec is
  among the retired peers, `Decided` that an early death of a replacement that is
  waiting to be settled was a reported one. `Roles` is stronger than
  `RolesSeparate`: a launcher's native process is the replacement of no exec, not
  even of a decided one, since otherwise a hand-over could make it an owner.
- `ForkAgreementCorrect` from `Agreed`, which adds the states a fork can be in and
  uses `ForkSlots` for the freshness of the child's pid.
- `PoolHandoutCorrect` from the shape of the records, action by action.
- `KeysCorrect`: `KeysResolve` is inductive relative to `IInv`. A death is the hard
  step: it removes the records of the dead process with its transactions, while
  the forks that lose their child and the execs that are handed over keep both.
- `ObjectsCorrect` and `PrivacyCorrect` share `ObjectInv`, stated in terms of holders:
  a process holds its snapshot, a reserved fork the one it captured. An object
  exists exactly if it has a holder (`Exact`), two holders have only shared objects
  in common and none has an object under two names (`Private`), and identifiers
  are issued once (`ObjectShape`). Adoption moves a snapshot from one holder to
  another, which `Agreed` (of `ForkAgreementCorrect`) makes possible: the child's
  pid is free. What the code collects at the end of a request is then exactly what
  lost its last holder in it.
- `FrozenCorrect` from `Private` and `Agreed`: the process that writes is Active and
  the child of an undecided fork Pending or not there yet, so they are different
  holders, and what they have in common is shared.
- `QuotasCorrect` from `QuotaInv`, which adds that the retirement records are finite.
  Adoption, commit, abort, EOF and death check no quota; each puts into a table at
  most what it takes out of a reservation (`Prepared`, `PendingExecs`). That tables
  are finite follows from `IInv` and `ObjectInv`: their keys have been issued.
- `TypesCorrect` from `TypeInv`, relative to `IInv`, `Agreed` and `ObjectInv`, one
  lemma per table. Most of it is a matter of records; the exit log is not: the
  status recorded for a process whose replacement died before the old image
  (`FinalStatus`) is one that was reported, since a process ends that way only if
  the exec that hands it over has such a status.
- `LifeCorrect` (`LifeProofs`): the manager implements `ProcessLife`. `LifeInv` adds what the
  mapping needs: parents are processes (`Family`) and a prepared pool worker has none
  yet (`Unattached`); only a waiting child names a fork (`Settled`); the image that
  runs a process was not reported dead since it registered (`Alive`); a committed exec knows whether its replacement
  is dead and with which status (`Reported`); the completions that are kept, at most
  as many as remembered, are of processes that are gone (`Logged`). Every request is
  one step of `ProcessLife` or none, and each kind of step has its lemma (`Appears`,
  which also covers an image that registers after its death was reported, `Opens`, `Aborts`, `Forgets`). A first death is one step there, however much it
  settles here: by `EndingByHeir` exactly the processes end whose heirs are dead
  already, and there is at most one (`OneEnds`); `DeathRow` follows a surviving
  process, `DeathVerdicts` the transactions aborted and forgotten, `DeathLog` the
  completion log at its limit. A repeated report of a death ends no
  process and at most aborts execs (`DiesAgain`).

### Writeback queue (`WritebackProofs`)

- `AccountingCorrect`, `FailuresPinned`. The strengthening is `HintsDistinct`: no
  two commands carry the same handle, without which a completion could remove two
  hints from a key's count.
- `ShutdownDrains` and `WaitCovers` from `DInv`: every accepted hint is flushed, in
  the channel, or with a thread that has not flushed it (`Flow`); a thread ends
  only with the channel empty and no sender (`Ending`); what a waiter waits for is
  flushed or counted (`Covered`). That pending is zero implies an empty channel is
  where the counting of `Accounting` is needed.
- `FailuresReachWaiters`: no completion, hint or foreign waiter drops an error.

### Pools

- `LaunchesRespected` (`LifeProofs`): a launched worker leaves the slots in
  the next pass, and until then it is among the consumed.
- `PooledLivesCorrect` (`LifeProofs`), `ForkPoolIsManager`, `ExecPoolIsManager`
  (`NativePoolProofs`): the composed specifications take only steps of the manager,
  so that everything proved of the manager holds beside the pools, the refinement
  of `ProcessLife` included.
- `NativePoolProofs` works over the composition with the manager, relative to
  `IInv` and `ExecInv`, which the steps of the composed specifications preserve as
  they contain the manager's. `CustodyCorrect`, `TemplateCorrect` and
  `CommittedForksSurvive` for the fork pool rest on: an answer on its way and an
  answer that arrived name processes that left the stock once (`Answered`), the
  manager knows a pooled process only after its caller received it (`Introduced`),
  a connection that is being served is that of a worker, unless the worker is dead
  (`Served`), only dead processes are reported (`ReportsTrue`), the child of an
  answer is the only live one of its fork (`Sole`), and the process being created
  is for the present template or will be discarded (`Stocked`).
  `CommittedExecsSurvive` and `ReservationsRespected` for the exec pool use the
  same common part; that no lease but its own names a replacement (`Answered`) and
  that `Targets` makes its exec unique are what makes the pool's view of one lease
  a verdict on the process.

### Session (`SessionProofs`)

`StopCorrect`: a caller of `stop` that has passed a lock owns it (`Stoppers`), and
whoever creates holds the manager mutex or its gate (`Creators`).

### Shared memory and kernel objects

- `PublicationCorrect`, `SnapshotsCorrect` (`SharedStoreProofs`): a writer in the
  critical section owns the mutex and knows the present revision (`OneWriter`,
  `Labels`), it stages in the bank that is not published (`Staged`), and what a
  reader has copied is a prefix of the published value as long as the revision has
  not moved (`Copied`). Banks are reused, hence the revision and not the bank has
  to be compared.
- `WholeCorrect`, `SnapshotsOfEpoch`, `EventsStay` (`MountTopologyProofs`): the
  topology word is odd exactly while init publishes (`Parity`), the history has the
  tables of every even revision (`Past`), the tables still to be published are
  those the worker computed from (`Working`), a cache entry or a table read is not
  ahead of its store and equals it if it has its revision (`CacheOK`, `Entry`).
  The topology mutex (`Mutex`) is needed for unshare only: a store that is retained
  and not filled yet is in nobody's list (`Children`), so that filling it takes
  nothing away. The store itself is one step here, which is what `SharedStore`
  establishes.
- `ReferencesCorrect`, `CollectionCorrect` (`KernelObjectsProofs`): what is marked
  live refers to live objects only (`LiveClosed`), roots and leased objects are
  live (`LiveRoots`), and a handle that was held since the collection began has
  made its object live by the time it was queried (`LiveSteady`).

### Only model-checked

- All liveness: `ShutdownReturns`, `LaunchServed`, `RevokedDies`, `AwaitsReturn`,
  `StopReturns`, `ReadersReturn`, `GarbageGoes`. They need fairness, whose meaning
  is in terms of ENABLED, which the prover does not support.
- The configurations of the divergence table, which show violations.

## Not modelled

Reads and reports, the encoding of messages, Win32 calls and their failure
codes, credentials and version checks of `connect` (they refuse), the text of
errors, memory allocation. Poisoning of a mutex by a panic is not modelled: the
properties show that the `expect`s and `unwrap`s named in their comments do not
fail.

By component: of the service, authentication, start-up of the desktop and the
prewarmed process, and the catalog, image and kernel requests; of the kernel
objects, resource bundles, directory watches and the cgroup catalogue; of the
virtual file system, all but the store and the mounts, and of the mounts what an
event does to a table. Weak memory orders beyond the ones named above are not
modelled. The engine, the guest libraries (by far the largest part of the
repository), the front ends, the host layer apart from the pipe listener, and the
provisioning of the root file system are not modelled: most of it translates one
API into another and keeps no state that several parties change. Exceptions
worth a model are listed in the plan.

## Plan

1. Single mechanisms of the engine and the guest libraries with concurrency of
   their own: futex, eventfd and pipes, record locks, condition variables; the
   image cache; resource bundles.
