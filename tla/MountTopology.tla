--------------------------- MODULE MountTopology ----------------------------
(***************************************************************************)
(* Mount tables of several namespaces: workers that change them under the  *)
(* topology mutex (kinakaze-vfs/src/mount/propagation.rs, mount/shared.rs), *)
(* init, which publishes a change to all of them (apps/init/src/kernel.rs), *)
(* and readers that take no lock (kinakaze-vfs/src/mount.rs).              *)
(*                                                                         *)
(* A table is the set of the mount events it shows; a worker makes one     *)
(* event.  Reading one store is one step: SnapshotExact of SharedStore.    *)
(***************************************************************************)
EXTENDS Naturals, FiniteSets

CONSTANTS
    Namespace,          \* namespaces; the first ones exist
    Existing,           \* namespaces at the start
    Worker,             \* processes that mount or unshare
    Reader              \* threads that read, of one process

ASSUME TopologyAssumption ==
    /\ Existing \subseteq Namespace /\ Existing # {}
    /\ "none" \notin Worker
    /\ Worker \cap Reader = {}

VARIABLES
    topology,           \* topology word of the root namespace
    revision,           \* publication word of each namespace
    table,              \* published table of each namespace
    retained,           \* namespaces init knows
    guard,              \* owner of the topology mutex
    home,               \* namespace of each worker and reader
    pc,
    epoch,              \* local: the topology revision loaded
    seen,               \* local: the tables read
    expected,           \* local: the revisions to replace
    dead,               \* workers that were killed
    init,               \* the publication init is working on
    cache,              \* decoded table kept for each namespace by the readers
    past                \* history: the tables at each even topology revision

workerVars == <<epoch, seen, expected>>
publicVars == <<topology, revision, table, past>>
topologyVars ==
    <<topology, revision, table, retained, guard, home, pc, epoch, seen, expected,
      dead, init, cache, past>>

None == [n \in {} |-> 0]

\* Init works on no publication.
Idle == [work |-> "none"]

\* f with the value v at n.
Put(f, n, v) == [k \in DOMAIN f \cup {n} |-> IF k = n THEN v ELSE f[k]]

TopologyInit ==
    /\ topology = 0
    /\ revision = [n \in Namespace |-> 0]
    /\ table = [n \in Namespace |-> {}]
    /\ retained = Existing
    /\ guard = "none"
    /\ home \in [Worker \cup Reader -> Existing]
    /\ pc = [t \in Worker \cup Reader |-> "idle"]
    /\ epoch = [t \in Worker \cup Reader |-> 0]
    /\ seen = [t \in Worker \cup Reader |-> None]
    /\ expected = [w \in Worker |-> None]
    /\ dead = {}
    /\ init = Idle
    /\ cache = [n \in Namespace |-> [revision |-> 0, table |-> {}]]
    /\ past = [e \in {0} |-> table]

At(t, step) == t \notin dead /\ pc[t] = step
Goto(t, step) == pc' = [pc EXCEPT ![t] = step]
-----------------------------------------------------------------------------
(* update: a worker mounts *)

\* topology_guard, for a mount or for unshare.
TakeGuard(w) ==
    /\ At(w, "idle")
    /\ guard = "none" \/ guard \in dead
    /\ guard' = w
    /\ \E step \in {"epoch", "copy"} : Goto(w, step)
    /\ UNCHANGED <<publicVars, retained, home, workerVars, dead, init, cache>>

\* An odd revision is waited for: init is still at work for a dead worker.
LoadEpoch(w) ==
    /\ At(w, "epoch")
    /\ topology % 2 = 0
    /\ epoch' = [epoch EXCEPT ![w] = topology]
    /\ Goto(w, "own")
    /\ UNCHANGED <<publicVars, retained, guard, home, seen, expected, dead, init, cache>>

\* Its own table.  An event on a private mount stays there, ...
ReadOwn(w) ==
    /\ At(w, "own")
    /\ seen' = [seen EXCEPT ![w] = Put(None, home[w], table[home[w]])]
    /\ Goto(w, "expect") \/ Goto(w, "list")
    /\ UNCHANGED <<publicVars, retained, guard, home, epoch, expected, dead, init, cache>>

\* ... one on a shared mount goes to the namespaces init knows: a request for
\* them, which waits for the kernel mutex, ...
ListNamespaces(w) ==
    /\ At(w, "list")
    /\ init.work = "none"
    /\ Goto(w, "others")
    /\ UNCHANGED <<publicVars, retained, guard, home, workerVars, dead, init, cache>>

\* ... and their tables, one by one.
ReadOther(w) ==
    /\ At(w, "others")
    /\ \/ \E n \in retained \ DOMAIN seen[w] :
             /\ seen' = [seen EXCEPT ![w] = Put(seen[w], n, table[n])]
             /\ UNCHANGED pc
       \/ /\ retained \subseteq DOMAIN seen[w]
          /\ Goto(w, "expect")
          /\ UNCHANGED seen
    /\ UNCHANGED <<publicVars, retained, guard, home, epoch, expected, dead, init, cache>>

\* publish_mounts: the revision of each store, then the request.
Expect(w) ==
    /\ At(w, "expect")
    /\ \/ \E n \in DOMAIN seen[w] \ DOMAIN expected[w] :
             /\ expected' = [expected EXCEPT ![w] = Put(expected[w], n, revision[n])]
             /\ UNCHANGED pc
       \/ /\ DOMAIN expected[w] = DOMAIN seen[w]
          /\ Goto(w, "sent")
          /\ UNCHANGED expected
    /\ UNCHANGED <<publicVars, retained, guard, home, epoch, seen, dead, init, cache>>

\* The reply has come: the guard is released.
Done(w) ==
    /\ At(w, "replied")
    /\ guard' = "none"
    /\ Goto(w, "over")
    /\ UNCHANGED <<publicVars, retained, home, workerVars, dead, init, cache>>

\* The process is killed; a mutex it owns is abandoned.
Kill(w) ==
    /\ w \notin dead
    /\ dead' = dead \cup {w}
    /\ UNCHANGED <<publicVars, retained, guard, home, pc, workerVars, init, cache>>
-----------------------------------------------------------------------------
(* prepare_owned: a worker unshares its namespace *)

ReadParent(w) ==
    /\ At(w, "copy")
    /\ seen' = [seen EXCEPT ![w] = Put(None, home[w], table[home[w]])]
    /\ Goto(w, "create")
    /\ UNCHANGED <<publicVars, retained, guard, home, epoch, expected, dead, init, cache>>

\* A new store, which init retains on request; it is empty, ...
RetainChild(w) ==
    /\ At(w, "create")
    /\ init.work = "none"
    /\ \E n \in Namespace \ retained :
          /\ retained' = retained \cup {n}
          /\ expected' = [expected EXCEPT ![w] = Put(None, n, revision[n])]
    /\ Goto(w, "fill")
    /\ UNCHANGED <<publicVars, guard, home, epoch, seen, dead, init, cache>>

\* ... until the copy is published in it.
FillChild(w) ==
    /\ At(w, "fill")
    /\ \E n \in DOMAIN expected[w] :
          /\ table' = [table EXCEPT ![n] = seen[w][home[w]]]
          /\ revision' = [revision EXCEPT ![n] = expected[w][n] + 1]
    /\ Goto(w, "install")
    /\ UNCHANGED <<topology, past, retained, guard, home, workerVars, dead, init, cache>>

\* install: the worker moves to its namespace, still with the guard.
InstallChild(w) ==
    /\ At(w, "install")
    /\ \E n \in DOMAIN expected[w] : home' = [home EXCEPT ![w] = n]
    /\ Goto(w, "replied")
    /\ UNCHANGED <<publicVars, retained, guard, workerVars, dead, init, cache>>
-----------------------------------------------------------------------------
(* publish, in init, under the kernel mutex *)

\* transfer duplicates the tables out of the process, which must be alive.
Accept(w) ==
    /\ init.work = "none"
    /\ At(w, "sent")
    /\ init' = [work |-> "check", worker |-> w]
    /\ UNCHANGED <<publicVars, retained, guard, home, pc, workerVars, dead, cache>>

\* Mutated form: only the revisions of the stores are compared.
FreshByRevision(w) ==
    \A n \in DOMAIN expected[w] : n \in retained /\ revision[n] = expected[w][n]

\* The request is based on what is published now.
Fresh(w) ==
    /\ topology = epoch[w] /\ topology % 2 = 0
    /\ \A n \in DOMAIN expected[w] : n \in retained /\ revision[n] = expected[w][n]

Reply(w) == pc' = IF w \in dead THEN pc ELSE [pc EXCEPT ![w] = "replied"]

Refuse ==
    /\ init.work = "check"
    /\ ~Fresh(init.worker)
    /\ init' = Idle
    /\ Reply(init.worker)
    /\ UNCHANGED <<publicVars, retained, guard, home, workerVars, dead, cache>>

\* Every bank is staged; then the topology revision becomes odd.
Begin ==
    /\ init.work = "check"
    /\ Fresh(init.worker)
    /\ topology' = topology + 1
    /\ init' = [work |-> "publish", worker |-> init.worker,
                left |-> DOMAIN expected[init.worker]]
    /\ UNCHANGED <<revision, table, past, retained, guard, home, pc, workerVars, dead, cache>>

PublishOne ==
    /\ init.work = "publish"
    /\ \E n \in init.left :
          /\ revision' = [revision EXCEPT ![n] = expected[init.worker][n] + 1]
          /\ table' = [table EXCEPT ![n] = seen[init.worker][n] \cup {init.worker}]
          /\ init' = [init EXCEPT !.left = init.left \ {n}]
    /\ UNCHANGED <<topology, past, retained, guard, home, pc, workerVars, dead, cache>>

\* Mutated form: the revision is made even again with one table to go.
FinishEarly ==
    /\ init.work = "publish"
    /\ Cardinality(init.left) <= 1
    /\ topology' = topology + 1
    /\ past' = Put(past, topology + 1, table)
    /\ init' = Idle
    /\ Reply(init.worker)
    /\ UNCHANGED <<revision, table, retained, guard, home, workerVars, dead, cache>>

Finish ==
    /\ init.work = "publish"
    /\ init.left = {}
    /\ topology' = topology + 1
    /\ past' = Put(past, topology + 1, table)
    /\ init' = Idle
    /\ Reply(init.worker)
    /\ UNCHANGED <<revision, table, retained, guard, home, workerVars, dead, cache>>
-----------------------------------------------------------------------------
(* snapshot and namespace_snapshot *)

StartSnapshot(r) ==
    /\ At(r, "idle")
    /\ topology % 2 = 0
    /\ epoch' = [epoch EXCEPT ![r] = topology]
    /\ Goto(r, "lookup")
    /\ UNCHANGED <<publicVars, retained, guard, home, seen, expected, dead, init, cache>>

\* The revision of the store, to be compared with that of the cache.
LoadRevision(r) ==
    /\ At(r, "lookup")
    /\ seen' = [seen EXCEPT ![r] = [revision |-> revision[home[r]]]]
    /\ Goto(r, "compare")
    /\ UNCHANGED <<publicVars, retained, guard, home, epoch, expected, dead, init, cache>>

\* Mutated form: a cached table is used whatever its revision.
LookUpAny(r) ==
    /\ At(r, "compare")
    /\ \/ /\ cache[home[r]].revision # 0
          /\ seen' = [seen EXCEPT ![r] = cache[home[r]]]
          /\ Goto(r, "verify")
       \/ /\ cache[home[r]].revision = 0
          /\ Goto(r, "read")
          /\ UNCHANGED seen
    /\ UNCHANGED <<publicVars, retained, guard, home, epoch, expected, dead, init, cache>>

\* The cached table of that revision, if there is one.
LookUp(r) ==
    /\ At(r, "compare")
    /\ \/ /\ cache[home[r]].revision = seen[r].revision
          /\ seen' = [seen EXCEPT ![r] = cache[home[r]]]
          /\ Goto(r, "verify")
       \/ /\ cache[home[r]].revision # seen[r].revision
          /\ Goto(r, "read")
          /\ UNCHANGED seen
    /\ UNCHANGED <<publicVars, retained, guard, home, epoch, expected, dead, init, cache>>

ReadStore(r) ==
    /\ At(r, "read")
    /\ seen' = [seen EXCEPT ![r] =
                   [revision |-> revision[home[r]], table |-> table[home[r]]]]
    /\ Goto(r, "cache")
    /\ UNCHANGED <<publicVars, retained, guard, home, epoch, expected, dead, init, cache>>

\* The decoded table goes to the cache unless it has that revision or a later
\* one, which is returned then.
FillCache(r) ==
    /\ At(r, "cache")
    /\ IF cache[home[r]].revision >= seen[r].revision
       THEN seen' = [seen EXCEPT ![r] = cache[home[r]]] /\ UNCHANGED cache
       ELSE cache' = [cache EXCEPT ![home[r]] = seen[r]] /\ UNCHANGED seen
    /\ Goto(r, "verify")
    /\ UNCHANGED <<publicVars, retained, guard, home, epoch, expected, dead, init>>

\* The result counts if the topology has not moved.
Verify(r) ==
    /\ At(r, "verify")
    /\ Goto(r, IF topology = epoch[r] THEN "result" ELSE "idle")
    /\ UNCHANGED <<publicVars, retained, guard, home, workerVars, dead, init, cache>>

\* The caller uses the table and calls again.
Use(r) ==
    /\ At(r, "result")
    /\ Goto(r, "idle")
    /\ seen' = [seen EXCEPT ![r] = None]
    /\ epoch' = [epoch EXCEPT ![r] = 0]
    /\ UNCHANGED <<publicVars, retained, guard, home, expected, dead, init, cache>>
-----------------------------------------------------------------------------
Mount(w) ==
    \/ TakeGuard(w) \/ LoadEpoch(w) \/ ReadOwn(w) \/ ListNamespaces(w) \/ ReadOther(w)
    \/ Expect(w) \/ Done(w)

Unshare(w) == ReadParent(w) \/ RetainChild(w) \/ FillChild(w) \/ InstallChild(w)

Publish == (\E w \in Worker : Accept(w)) \/ Refuse \/ Begin \/ PublishOne \/ Finish

Snapshot(r) ==
    \/ StartSnapshot(r) \/ LoadRevision(r) \/ LookUp(r) \/ ReadStore(r) \/ FillCache(r)
    \/ Verify(r) \/ Use(r)

TopologyNext ==
    \/ \E w \in Worker : Mount(w) \/ Unshare(w) \/ Kill(w)
    \/ Publish
    \/ \E r \in Reader : Snapshot(r)

TopologySpec == TopologyInit /\ [][TopologyNext]_topologyVars
-----------------------------------------------------------------------------
\* A publication never loses an event that an earlier one has shown, although
\* its tables are computed from stores that are read without a common lock and
\* an earlier writer may die with its publication under way.
NothingLost == [][\A n \in Namespace : table[n] \subseteq table'[n]]_topologyVars

\* The namespaces the event of worker w was computed for.
Targets(w) == DOMAIN seen[w]

\* While the topology revision is even an event is in all tables it was
\* published to or in none of them.
EvenIsWhole ==
    topology % 2 = 0 => \A w \in Worker :
        \/ \A n \in Targets(w) : w \in table[n]
        \/ \A n \in Targets(w) : w \notin table[n]

\* A snapshot is the table of its namespace at the even revision it was begun
\* under, from the store or from the cache.
SnapshotOfEpoch ==
    \A r \in Reader : pc[r] = "result" => seen[r].table = past[epoch[r]][home[r]]

\* mount/shared.rs: "Serialize topology mutations across namespaces" - a
\* namespace copied from another is copied before an event, and then receives
\* it, or after it, and then shows it.
UnshareSerialized ==
    topology % 2 = 0 => \A w, v \in Worker :
        (v \notin dead /\ home[v] \notin Existing /\ Existing \subseteq Targets(w))
            => \A n \in Existing : w \in table[n] => w \in table[home[v]]
=============================================================================
