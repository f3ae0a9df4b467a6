---------------------------- MODULE StateManager ----------------------------
(***************************************************************************)
(* The ownership and fork/exec transaction state machine of a session      *)
(* (crates/manager/src/lib.rs).  The server calls it under one mutex, so a *)
(* call of `connect`, `handle`, `acknowledge`, `disconnect` or             *)
(* `process_exited_with_status` is one step.  A request that is refused    *)
(* changes nothing and is no step.                                         *)
(*                                                                         *)
(* Maps are functions whose domain is the set of present keys, an Option   *)
(* is a set with at most one element, and the identifier 0 means "none".   *)
(* The unguessable adoption ticket of a fork is its transaction id.        *)
(***************************************************************************)
EXTENDS Naturals, Sequences, FiniteSets, Functions

CONSTANTS
    Peer,               \* native processes: (host pid, creation time)
    RequestKey,         \* idempotency keys of PrepareFork and PrepareExec
    Module, Schema,     \* guest modules and their schema versions
    Name, Value,        \* state names and values
    Launch,             \* launch descriptions given to a pool worker
    Status,             \* native exit codes
    SINGLE_ROOT,        \* StateManager::for_process_tree
    MAX_CLIENTS, MAX_PROCESSES, MAX_MODULES, MAX_STATES_PER_PROCESS,
    MAX_REQUEST_KEYS, MAX_TRANSACTIONS, MAX_OBJECTS, MAX_EXIT_RECORDS,
    LAST_CLIENT,        \* ends of the identifier spaces (u64::MAX and
    LAST_PID,           \* i32::MAX in the code): these bound the model
    LAST_TRANSACTION

Limit == {MAX_CLIENTS, MAX_PROCESSES, MAX_MODULES, MAX_STATES_PER_PROCESS,
          MAX_REQUEST_KEYS, MAX_TRANSACTIONS, MAX_OBJECTS, MAX_EXIT_RECORDS,
          LAST_CLIENT, LAST_PID, LAST_TRANSACTION}

ASSUME ManagerAssumption ==
    /\ Limit \subseteq Nat
    /\ SINGLE_ROOT \in BOOLEAN

VARIABLES
    clients,            \* connections
    processes,          \* logical Linux processes by pid
    modules,            \* schema of each module, session-wide
    objects,            \* state objects by id
    transactions,       \* fork transactions by id
    exec_transactions,  \* exec transactions by id
    retired_peers,      \* native processes that may not register again
    exit_records,       \* exit status by pid
    exit_order,         \* pids with an exit record, oldest first
    next_client, next_pid, next_object, next_transaction,
    shutdown_requested,
    exited,             \* history: reported native deaths and their status,
                        \* until a late Hello of the process registers it again
    registered          \* history: the pid each native process registered for

sessionVars == <<modules, shutdown_requested>>
objectVars == <<objects, next_object>>
forkVars == <<transactions, next_transaction>>
execVars == <<exec_transactions, retired_peers>>
recordVars == <<exit_records, exit_order>>
exitVars == <<exit_records, exit_order, exited>>
connectVars == <<clients, next_client, registered>>
processVars == <<processes, next_pid>>

vars == <<sessionVars, objectVars, forkVars, execVars, exitVars, connectVars,
          processVars>>
-----------------------------------------------------------------------------
(* Records *)

Id == Nat
NoId == 0

ClientKind == {"Helper", "Controller", "Launcher", "Worker", "ExecCandidate",
               "Retired"}

Client == [peer : Peer, kind : ClientKind, pid : Id, transaction : Id]

ForkPolicy == {"Copy", "Share", "Reset"}

Object == [value : Value, initial : Value, fork : ForkPolicy]

StateKey == Module \X Name

\* A map from some of the keys in S to values in T.
IsMap(f, S, T) == DOMAIN f \subseteq S /\ f \in [DOMAIN f -> T]

IsSnapshot(s) ==
    /\ s = [modules |-> s.modules, states |-> s.states]
    /\ IsMap(s.modules, Module, Schema)
    /\ IsMap(s.states, StateKey, Id)

EmptyMap == [x \in {} |-> 0]

PrewarmState ==
    [at : {"Fresh", "Ready", "Activated", "PoolReady"}]
        \cup [at : {"PoolReserved"}, client : Id]
        \cup [at : {"PoolActivated"}, launch : Launch, client : Id, parent : Id]

Prewarm(stage) == [at |-> stage]

IsProcess(p) ==
    /\ p \in [parent_pid : Id, peer : Peer, snapshot : {p.snapshot},
              state : {"Active", "Pending", "Aborted"}, transaction : Id,
              request_keys : {p.request_keys},
              exec_request_keys : {p.exec_request_keys},
              prewarm : PrewarmState]
    /\ IsSnapshot(p.snapshot)
    /\ IsMap(p.request_keys, RequestKey, Id)
    /\ IsMap(p.exec_request_keys, RequestKey, Id)

TransactionState == {"Prepared", "Adopted", "Ready", "Committed", "Aborted"}

\* `child` and `child_parent` are the ticket's reserved identity.
IsTransaction(t) ==
    /\ t \in [parent : Id, requested_parent : Id, child : Id, child_parent : Id,
              snapshot : {t.snapshot}, state : TransactionState]
    /\ \A s \in t.snapshot : IsSnapshot(s)

ExecTransaction ==
    [process : Id, owner : Id, owner_peer : Peer, target : Peer,
     candidate : Id, state : TransactionState, retiring : BOOLEAN,
     candidate_exit : SUBSET Status]

NewProcess(parent, peer, snapshot, state, id) ==
    [parent_pid |-> parent, peer |-> peer, snapshot |-> snapshot,
     state |-> state, transaction |-> id, request_keys |-> EmptyMap,
     exec_request_keys |-> EmptyMap, prewarm |-> Prewarm("Fresh")]

EmptySnapshot == [modules |-> EmptyMap, states |-> EmptyMap]

With(f, x, v) == [y \in DOMAIN f \cup {x} |-> IF y = x THEN v ELSE f[y]]
Without(f, x) == Restrict(f, DOMAIN f \ {x})
Keep(f, S) == Restrict(f, DOMAIN f \cap S)
-----------------------------------------------------------------------------
(* State functions *)

Terminal(t) == t.state \in {"Committed", "Aborted"}

Prepared == {id \in DOMAIN transactions : transactions[id].state = "Prepared"}

PendingExecs ==
    {id \in DOMAIN exec_transactions : ~Terminal(exec_transactions[id])}

\* Mutated form: reserved children are not counted.
CapacityIgnoresReservations == Cardinality(DOMAIN processes) < MAX_PROCESSES

\* check_process_capacity: a reserved child already counts.
ProcessCapacity ==
    Cardinality(DOMAIN processes) + Cardinality(Prepared) < MAX_PROCESSES

TransactionCapacity ==
    /\ Cardinality(DOMAIN transactions)
         + Cardinality(DOMAIN exec_transactions) < MAX_TRANSACTIONS
    /\ next_transaction < LAST_TRANSACTION

KeyCapacity(pid) ==
    Cardinality(DOMAIN processes[pid].request_keys)
      + Cardinality(DOMAIN processes[pid].exec_request_keys) < MAX_REQUEST_KEYS

\* check_object_capacity
ObjectCapacity(count) == Cardinality(DOMAIN objects) + count <= MAX_OBJECTS

ClientsOf(peer) == {c \in DOMAIN clients : clients[c].peer = peer}

ProcessesOf(peer) == {pid \in DOMAIN processes : processes[pid].peer = peer}

ReservedFor(peer) ==
    {id \in DOMAIN exec_transactions : exec_transactions[id].target = peer}

\* known_worker in `connect`
KnownWorker(peer) ==
    \/ ProcessesOf(peer) # {}
    \/ \E c \in ClientsOf(peer) : clients[c].kind \notin {"Controller", "Launcher"}
    \/ peer \in retired_peers

\* The connection of a worker that still owns its process, as `handle` and
\* `acknowledge` require.
OwnsProcess(c) ==
    /\ c \in DOMAIN clients
    /\ clients[c].kind = "Worker"
    /\ clients[c].pid \in DOMAIN processes
    /\ processes[clients[c].pid].peer = clients[c].peer

\* Only an active process may issue the requests that change shared state.
ActiveWorker(c) ==
    OwnsProcess(c) /\ processes[clients[c].pid].state = "Active"

ControlClient(c) ==
    c \in DOMAIN clients /\ clients[c].kind \in {"Controller", "Launcher"}

\* The object ids referenced by processes and by reservations of forks.
Referenced(procs, txs) ==
    (UNION {Range(procs[pid].snapshot.states) : pid \in DOMAIN procs})
      \cup (UNION {UNION {Range(s.states) : s \in txs[id].snapshot} :
                      id \in DOMAIN txs})

\* Mutated form: unreferenced objects stay.
CollectNothing == UNCHANGED objects

\* collect_objects, after processes and transactions have changed.
CollectObjects == objects' = Keep(objects, Referenced(processes', transactions'))
-----------------------------------------------------------------------------
Init ==
    /\ clients = EmptyMap
    /\ processes = EmptyMap
    /\ modules = EmptyMap
    /\ objects = EmptyMap
    /\ transactions = EmptyMap
    /\ exec_transactions = EmptyMap
    /\ retired_peers = {}
    /\ exit_records = EmptyMap
    /\ exit_order = <<>>
    /\ next_client = 1
    /\ next_pid = 1
    /\ next_object = 1
    /\ next_transaction = 1
    /\ shutdown_requested = FALSE
    /\ exited = EmptyMap
    /\ registered = EmptyMap
-----------------------------------------------------------------------------
(* connect: the credential, version and identity checks have passed.  The   *)
(* transport opens the peer's process before it takes the mutex and does    *)
(* not look again, so the peer may be dead, and its death reported by the   *)
(* watcher of an earlier connection: a late Hello is served like any other. *)

CanConnect ==
    /\ ~shutdown_requested
    /\ Cardinality(DOMAIN clients) < MAX_CLIENTS
    /\ next_client < LAST_CLIENT

\* Mutated form: the connection counter does not advance.
AddClientReusesId(peer, kind, pid, id) ==
    /\ clients' = With(clients, next_client,
           [peer |-> peer, kind |-> kind, pid |-> pid, transaction |-> id])
    /\ registered' = IF pid = NoId THEN registered
                     ELSE With(registered, peer, pid)
    /\ exited' = IF pid = NoId THEN exited ELSE Without(exited, peer)
    /\ UNCHANGED next_client

AddClient(peer, kind, pid, id) ==
    /\ clients' = With(clients, next_client,
           [peer |-> peer, kind |-> kind, pid |-> pid, transaction |-> id])
    /\ next_client' = next_client + 1
    /\ registered' = IF pid = NoId THEN registered
                     ELSE With(registered, peer, pid)
    /\ exited' = IF pid = NoId THEN exited ELSE Without(exited, peer)

ConnectHelper(peer) ==
    /\ CanConnect
    /\ ~KnownWorker(peer)
    /\ ReservedFor(peer) = {}
    /\ ClientsOf(peer) = {}
    /\ AddClient(peer, "Helper", NoId, NoId)
    /\ UNCHANGED <<sessionVars, objectVars, forkVars, execVars, recordVars,
                   processVars>>

\* Mutated form: a worker identity may open a controller.
ConnectControlFromWorker(peer, kind) ==
    /\ CanConnect
    /\ ReservedFor(peer) = {}
    /\ AddClient(peer, kind, NoId, NoId)
    /\ UNCHANGED <<sessionVars, objectVars, forkVars, execVars, recordVars,
                   processVars>>

\* Controllers and launchers may open several connections.
ConnectControl(peer, kind) ==
    /\ CanConnect
    /\ ~KnownWorker(peer)
    /\ ReservedFor(peer) = {}
    /\ AddClient(peer, kind, NoId, NoId)
    /\ UNCHANGED <<sessionVars, objectVars, forkVars, execVars, recordVars,
                   processVars>>

FreshWorker(peer) ==
    /\ CanConnect
    /\ ~KnownWorker(peer)
    /\ ClientsOf(peer) = {}

\* A worker without a ticket or a reservation becomes a root process.
ConnectRoot(peer) ==
    /\ FreshWorker(peer)
    /\ ReservedFor(peer) = {}
    /\ SINGLE_ROOT => next_pid = 1
    /\ ProcessCapacity
    /\ next_pid <= LAST_PID
    /\ processes' = With(processes, next_pid,
           NewProcess(NoId, peer, EmptySnapshot, "Active", NoId))
    /\ next_pid' = next_pid + 1
    /\ AddClient(peer, "Worker", next_pid, NoId)
    /\ UNCHANGED <<sessionVars, objectVars, forkVars, execVars, recordVars>>

\* adopt: a fresh worker redeems the ticket of a prepared fork.
ConnectFork(peer, id) ==
    LET t == transactions[id]
    IN  /\ FreshWorker(peer)
        /\ ReservedFor(peer) = {}
        /\ id \in DOMAIN transactions
        /\ t.state = "Prepared"
        /\ processes' = With(processes, t.child,
               NewProcess(t.child_parent, peer, CHOOSE s \in t.snapshot : TRUE,
                          "Pending", id))
        /\ transactions' = [transactions EXCEPT ![id].snapshot = {},
                                                ![id].state = "Adopted"]
        /\ AddClient(peer, "Worker", t.child, NoId)
        /\ UNCHANGED <<sessionVars, objectVars, next_transaction, execVars,
                       recordVars, next_pid>>

\* adopt_exec: the worker reserved by an exec attaches to the owner's pid.
ConnectExec(peer, id) ==
    LET t == exec_transactions[id]
    IN  /\ FreshWorker(peer)
        /\ id \in ReservedFor(peer)
        /\ t.state = "Prepared"
        /\ t.process \in DOMAIN processes
        /\ exec_transactions' =
               [exec_transactions EXCEPT ![id].candidate = next_client,
                                         ![id].state = "Adopted"]
        /\ AddClient(peer, "ExecCandidate", t.process, id)
        /\ UNCHANGED <<sessionVars, objectVars, forkVars, retired_peers,
                       recordVars, processVars>>
-----------------------------------------------------------------------------
(* Prewarmed and pooled root workers *)

\* MarkPrewarmReady
MarkPrewarmReady(c) ==
    LET pid == clients[c].pid
    IN  /\ ActiveWorker(c)
        /\ processes[pid].parent_pid = NoId
        /\ processes[pid].prewarm.at \in {"Fresh", "Ready"}
        /\ processes' = [processes EXCEPT ![pid].prewarm = Prewarm("Ready")]
        /\ UNCHANGED <<sessionVars, objectVars, forkVars, execVars, exitVars,
                       connectVars, next_pid>>

\* activate_prewarm; a launcher is not allowed to.
ActivatePrewarm(c, pid) ==
    /\ c \in DOMAIN clients /\ clients[c].kind = "Controller"
    /\ pid \in DOMAIN processes
    /\ processes[pid].prewarm.at \in {"Ready", "Activated"}
    /\ processes' = [processes EXCEPT ![pid].prewarm = Prewarm("Activated")]
    /\ UNCHANGED <<sessionVars, objectVars, forkVars, execVars, exitVars,
                   connectVars, next_pid>>

\* MarkPoolReady
MarkPoolReady(c) ==
    LET pid == clients[c].pid
    IN  /\ ActiveWorker(c)
        /\ processes[pid].parent_pid = NoId
        /\ processes[pid].prewarm.at \in {"Fresh", "PoolReady"}
        /\ processes' = [processes EXCEPT ![pid].prewarm = Prewarm("PoolReady")]
        /\ UNCHANGED <<sessionVars, objectVars, forkVars, execVars, exitVars,
                       connectVars, next_pid>>

PoolReady == {pid \in DOMAIN processes : processes[pid].prewarm.at = "PoolReady"}

HeldBy(pid, c) ==
    /\ processes[pid].prewarm.at = "PoolReserved"
    /\ processes[pid].prewarm.client = c

\* reserve_pool_worker takes the lowest prepared pid.
ReservePoolWorker(c) ==
    /\ ControlClient(c)
    /\ \E pid \in PoolReady :
         /\ \A other \in PoolReady : pid <= other
         /\ processes' = [processes EXCEPT ![pid].prewarm =
                [at |-> "PoolReserved", client |-> c]]
    /\ UNCHANGED <<sessionVars, objectVars, forkVars, execVars, exitVars,
                   connectVars, next_pid>>

\* release_pool_worker
ReleasePoolWorker(c, pid) ==
    /\ ControlClient(c)
    /\ pid \in DOMAIN processes
    /\ HeldBy(pid, c)
    /\ processes' = [processes EXCEPT ![pid].prewarm = Prewarm("PoolReady")]
    /\ UNCHANGED <<sessionVars, objectVars, forkVars, execVars, exitVars,
                   connectVars, next_pid>>

\* A process a pool worker may be attached to.
Application(pid) ==
    /\ pid \in DOMAIN processes
    /\ processes[pid].state = "Active"
    /\ processes[pid].prewarm.at \notin {"Ready", "PoolReady", "PoolReserved"}
    /\ processes[pid].peer \notin retired_peers

\* activate_pool_worker; parent is 0 for ActivatePoolWorker.
ActivatePoolWorker(c, pid, parent, launch) ==
    /\ ControlClient(c)
    /\ parent # pid
    /\ pid \in DOMAIN processes
    /\ HeldBy(pid, c)
    /\ parent = NoId \/ Application(parent)
    /\ processes' = [processes EXCEPT
           ![pid].parent_pid = parent,
           ![pid].prewarm = [at |-> "PoolActivated", launch |-> launch,
                             client |-> c, parent |-> parent]]
    /\ UNCHANGED <<sessionVars, objectVars, forkVars, execVars, exitVars,
                   connectVars, next_pid>>

Shutdown(c) ==
    /\ c \in DOMAIN clients /\ clients[c].kind = "Controller"
    /\ shutdown_requested' = TRUE
    /\ UNCHANGED <<modules, objectVars, forkVars, execVars, exitVars,
                   connectVars, processVars>>
-----------------------------------------------------------------------------
(* Module state *)

\* register_module: the first schema of a module binds the whole session.
RegisterModule(c, module, schema) ==
    LET pid == clients[c].pid
    IN  /\ ActiveWorker(c)
        /\ module \notin DOMAIN processes[pid].snapshot.modules
        /\ IF module \in DOMAIN modules THEN modules[module] = schema
           ELSE Cardinality(DOMAIN modules) < MAX_MODULES
        /\ modules' = With(modules, module, schema)
        /\ processes' = [processes EXCEPT ![pid].snapshot.modules =
                             With(@, module, schema)]
        /\ UNCHANGED <<shutdown_requested, objectVars, forkVars, execVars,
                       exitVars, connectVars, next_pid>>

\* define_state of a new name; defining an old one again changes nothing.
DefineState(c, key, initial, fork) ==
    LET pid == clients[c].pid
    IN  /\ ActiveWorker(c)
        /\ key[1] \in DOMAIN processes[pid].snapshot.modules
        /\ key \notin DOMAIN processes[pid].snapshot.states
        /\ Cardinality(DOMAIN processes[pid].snapshot.states)
             < MAX_STATES_PER_PROCESS
        /\ ObjectCapacity(1)
        /\ objects' = With(objects, next_object,
               [value |-> initial, initial |-> initial, fork |-> fork])
        /\ next_object' = next_object + 1
        /\ processes' = [processes EXCEPT ![pid].snapshot.states =
                             With(@, key, next_object)]
        /\ UNCHANGED <<sessionVars, forkVars, execVars, exitVars, connectVars,
                       next_pid>>

\* write_state
WriteState(c, key, value) ==
    LET states == processes[clients[c].pid].snapshot.states
    IN  /\ ActiveWorker(c)
        /\ key \in DOMAIN states
        /\ objects' = [objects EXCEPT ![states[key]].value = value]
        /\ UNCHANGED <<sessionVars, next_object, forkVars, execVars, exitVars,
                       connectVars, processVars>>
-----------------------------------------------------------------------------
(* Fork transactions: Prepared, Adopted, Ready, Committed; or Aborted *)

\* Mutated form: a Copy state shares the object of the parent.
CopiedOnlyReset(pid) ==
    LET states == processes[pid].snapshot.states
    IN  {k \in DOMAIN states : objects[states[k]].fork = "Reset"}

\* The states of a process that a fork gives objects of their own.
Copied(pid) ==
    LET states == processes[pid].snapshot.states
    IN  {k \in DOMAIN states : objects[states[k]].fork # "Share"}

\* The object a child starts with: a copy, or a reset to the initial value.
Cloned(object) ==
    IF object.fork = "Reset" THEN [object EXCEPT !.value = object.initial]
    ELSE object

\* prepare_fork for a new key; a known key is answered from its record.
Reserve(pid, key, parent) ==
    LET process == processes[pid]
        states == process.snapshot.states
        count == Cardinality(Copied(pid))
        fresh == CHOOSE f \in Bijection(Copied(pid),
                               next_object .. (next_object + count - 1)) : TRUE
        child == [process.snapshot EXCEPT !.states =
                     [k \in DOMAIN states |-> IF k \in Copied(pid)
                                              THEN fresh[k] ELSE states[k]]]
        clone(i) == Cloned(objects[states[CHOOSE k \in Copied(pid) : fresh[k] = i]])
    IN  /\ key \notin DOMAIN process.request_keys
        /\ KeyCapacity(pid)
        /\ TransactionCapacity
        /\ ProcessCapacity
        /\ ObjectCapacity(count)
        /\ next_pid <= LAST_PID
        /\ next_pid' = next_pid + 1
        /\ objects' = [i \in DOMAIN objects \cup Range(fresh) |->
                          IF i \in DOMAIN objects THEN objects[i] ELSE clone(i)]
        /\ next_object' = next_object + count
        /\ transactions' = With(transactions, next_transaction,
               [parent |-> pid, requested_parent |-> parent,
                child |-> next_pid, child_parent |-> parent,
                snapshot |-> {child}, state |-> "Prepared"])
        /\ next_transaction' = next_transaction + 1
        /\ processes' = [processes EXCEPT ![pid].request_keys =
                             With(@, key, next_transaction)]
        /\ UNCHANGED <<sessionVars, execVars, exitVars, connectVars>>

PrepareFork(c, key) ==
    ActiveWorker(c) /\ Reserve(clients[c].pid, key, clients[c].pid)

\* CLONE_PARENT: the child becomes a sibling of the caller.
PrepareForkWithParent(c, key) ==
    /\ ActiveWorker(c)
    /\ clients[c].pid # 1
    /\ Reserve(clients[c].pid, key, processes[clients[c].pid].parent_pid)

\* mark_ready by the attached child.
MarkReady(c) ==
    LET p == processes[clients[c].pid]
    IN  /\ OwnsProcess(c)
        /\ p.state = "Pending"
        /\ transactions' = [transactions EXCEPT ![p.transaction].state = "Ready"]
        /\ UNCHANGED <<sessionVars, objectVars, next_transaction, execVars,
                       exitVars, connectVars, processVars>>

\* owned_transaction
OwnedFork(c, id) ==
    /\ ActiveWorker(c)
    /\ id \in DOMAIN transactions
    /\ transactions[id].parent = clients[c].pid

\* commit_fork
CommitFork(c, id) ==
    /\ OwnedFork(c, id)
    /\ transactions[id].state = "Ready"
    /\ processes' = [processes EXCEPT
           ![transactions[id].child].state = "Active",
           ![transactions[id].child].transaction = NoId]
    /\ transactions' = [transactions EXCEPT ![id].state = "Committed"]
    /\ UNCHANGED <<sessionVars, objectVars, next_transaction, execVars,
                   exitVars, connectVars, next_pid>>

\* abort_transaction, for a set of transactions that are not terminal: the
\* reservation is released; an attached child keeps its references.
AbortedForks(ids) ==
    [id \in DOMAIN transactions |->
        IF id \in ids
        THEN [transactions[id] EXCEPT !.state = "Aborted", !.snapshot = {}]
        ELSE transactions[id]]

ChildrenOf(ids) == {transactions[id].child : id \in ids}

\* The processes after their fork has been aborted.
Revoked(p) == [p EXCEPT !.state = "Aborted", !.transaction = NoId]

\* Mutated form: the fork a dead child was waiting for goes on.
PendingForksOfParent(pids) ==
    {id \in DOMAIN transactions :
        ~Terminal(transactions[id]) /\ transactions[id].parent \in pids}

\* abort_pending_for
PendingForksOf(pids) ==
    {id \in DOMAIN transactions :
        /\ ~Terminal(transactions[id])
        /\ transactions[id].parent \in pids \/ transactions[id].child \in pids}

\* abort_fork; aborting twice changes nothing.
AbortFork(c, id) ==
    /\ OwnedFork(c, id)
    /\ ~Terminal(transactions[id])
    /\ transactions' = AbortedForks({id})
    /\ processes' = [pid \in DOMAIN processes |->
                        IF pid \in ChildrenOf({id}) THEN Revoked(processes[pid])
                        ELSE processes[pid]]
    /\ CollectObjects
    /\ UNCHANGED <<sessionVars, next_object, next_transaction, execVars,
                   exitVars, connectVars, next_pid>>
-----------------------------------------------------------------------------
(* Exec transactions *)

\* prepare_exec for a new key; the caller names the replacement it created.
PrepareExec(c, key, target) ==
    LET pid == clients[c].pid
    IN  /\ ActiveWorker(c)
        /\ key \notin DOMAIN processes[pid].exec_request_keys
        /\ \A id \in PendingExecs : exec_transactions[id].process # pid
        /\ ProcessesOf(target) = {}
        /\ ClientsOf(target) = {}
        /\ target \notin retired_peers
        /\ ReservedFor(target) = {}
        /\ KeyCapacity(pid)
        /\ TransactionCapacity
        /\ Cardinality(retired_peers) + Cardinality(PendingExecs)
             < MAX_TRANSACTIONS
        /\ exec_transactions' = With(exec_transactions, next_transaction,
               [process |-> pid, owner |-> c,
                owner_peer |-> processes[pid].peer, target |-> target,
                candidate |-> NoId, state |-> "Prepared", retiring |-> FALSE,
                candidate_exit |-> {}])
        /\ next_transaction' = next_transaction + 1
        /\ processes' = [processes EXCEPT ![pid].exec_request_keys =
                             With(@, key, next_transaction)]
        /\ UNCHANGED <<sessionVars, objectVars, transactions, retired_peers,
                       exitVars, connectVars, next_pid>>

\* MarkReady in handle_exec_candidate.
MarkExecReady(c) ==
    LET id == clients[c].transaction
        t == exec_transactions[id]
    IN  /\ c \in DOMAIN clients
        /\ clients[c].kind = "ExecCandidate"
        /\ id \in DOMAIN exec_transactions
        /\ ~Terminal(t)
        /\ t.process = clients[c].pid /\ t.candidate = c
        /\ t.process \in DOMAIN processes
        /\ exec_transactions' = [exec_transactions EXCEPT ![id].state = "Ready"]
        /\ UNCHANGED <<sessionVars, objectVars, forkVars, retired_peers,
                       exitVars, connectVars, processVars>>

\* owned_exec
OwnedExec(c, id) ==
    /\ ActiveWorker(c)
    /\ id \in DOMAIN exec_transactions
    /\ exec_transactions[id].process = clients[c].pid
    /\ exec_transactions[id].owner = c

\* Mutated form: the commit hands the process over at once.
CommitExecSwitchesOwner(c, id) ==
    LET pid == clients[c].pid
    IN  /\ OwnedExec(c, id)
        /\ exec_transactions[id].state = "Ready"
        /\ retired_peers' = retired_peers \cup {processes[pid].peer}
        /\ clients' = [clients EXCEPT ![c].kind = "Retired",
                                      ![c].transaction = id]
        /\ exec_transactions' =
               [exec_transactions EXCEPT ![id].state = "Committed",
                                         ![id].retiring = TRUE]
        /\ processes' = [processes EXCEPT ![pid].peer =
                             exec_transactions[id].target]
        /\ UNCHANGED <<sessionVars, objectVars, forkVars, exitVars,
                       next_client, registered, next_pid>>

\* commit_exec: irreversible, but the process changes hands only when the
\* death of its present native owner is reported.
CommitExec(c, id) ==
    LET pid == clients[c].pid
    IN  /\ OwnedExec(c, id)
        /\ exec_transactions[id].state = "Ready"
        /\ retired_peers' = retired_peers \cup {processes[pid].peer}
        /\ clients' = [clients EXCEPT ![c].kind = "Retired",
                                      ![c].transaction = id]
        /\ exec_transactions' =
               [exec_transactions EXCEPT ![id].state = "Committed",
                                         ![id].retiring = TRUE]
        /\ UNCHANGED <<sessionVars, objectVars, forkVars, exitVars,
                       next_client, registered, processVars>>

\* abort_exec_transaction, for a set of transactions that are not terminal.
AbortedExecs(ids) ==
    [id \in DOMAIN exec_transactions |->
        IF id \in ids THEN [exec_transactions[id] EXCEPT !.state = "Aborted"]
        ELSE exec_transactions[id]]

\* Mutated form: a revoked candidate is not remembered.
RevokesNobody(ids) == {}

\* An attached candidate may not register again while it lives.
RevokedCandidates(ids) ==
    {exec_transactions[id].target :
        id \in {i \in ids : exec_transactions[i].candidate # NoId}}

\* Mutated form: the execs of a lost owner are not revoked.
PendingExecsForgotten(pids) == {}

\* abort_pending_exec_for
PendingExecsOf(pids) ==
    {id \in PendingExecs : exec_transactions[id].process \in pids}

\* abort_exec
AbortExec(c, id) ==
    /\ OwnedExec(c, id)
    /\ id \in PendingExecs
    /\ exec_transactions' = AbortedExecs({id})
    /\ retired_peers' = retired_peers \cup RevokedCandidates({id})
    /\ UNCHANGED <<sessionVars, objectVars, forkVars, exitVars, connectVars,
                   processVars>>

\* Mutated form: the key of an acknowledged request stays.
KeepRecord(keys, id) == keys

\* acknowledge: the owner confirms the receipt of a terminal answer and its
\* replay record is dropped.
DropRecord(keys, id) == Restrict(keys, {k \in DOMAIN keys : keys[k] # id})

AcknowledgeFork(c, id) ==
    /\ OwnsProcess(c)
    /\ id \in DOMAIN transactions
    /\ transactions[id].parent = clients[c].pid
    /\ Terminal(transactions[id])
    /\ transactions' = Without(transactions, id)
    /\ processes' = [processes EXCEPT ![clients[c].pid].request_keys =
                         DropRecord(@, id)]
    /\ UNCHANGED <<sessionVars, objectVars, next_transaction, execVars,
                   exitVars, connectVars, next_pid>>

AcknowledgeExec(c, id) ==
    /\ OwnsProcess(c)
    /\ id \in DOMAIN exec_transactions
    /\ exec_transactions[id].process = clients[c].pid
    /\ exec_transactions[id].owner = c
    /\ exec_transactions[id].state = "Aborted"
    /\ exec_transactions' = Without(exec_transactions, id)
    /\ processes' = [processes EXCEPT ![clients[c].pid].exec_request_keys =
                         DropRecord(@, id)]
    /\ UNCHANGED <<sessionVars, objectVars, forkVars, retired_peers, exitVars,
                   connectVars, next_pid>>
-----------------------------------------------------------------------------
(* Connections that end and native processes that die *)

\* Mutated form: launched workers go back to the pool too.
ReleasesActivated(prewarm, gone) ==
    IF prewarm.at \in {"PoolReserved", "PoolActivated"} /\ prewarm.client \in gone
    THEN Prewarm("PoolReady") ELSE prewarm

\* disconnect gives the unused pool workers of a connection back.
Released(prewarm, gone) ==
    IF prewarm.at = "PoolReserved" /\ prewarm.client \in gone
    THEN Prewarm("PoolReady") ELSE prewarm

\* disconnect: EOF revokes pending work; it is no proof of death.
Disconnect(c) ==
    LET client == clients[c]
        owned == IF OwnsProcess(c) THEN {client.pid} ELSE {}
        forks == PendingForksOf(owned)
        execs == PendingExecsOf(owned)
                   \cup {id \in PendingExecs : /\ client.kind = "ExecCandidate"
                                               /\ client.transaction = id}
    IN  /\ c \in DOMAIN clients
        /\ clients' = Without(clients, c)
        /\ transactions' = AbortedForks(forks)
        /\ exec_transactions' = AbortedExecs(execs)
        /\ retired_peers' = retired_peers \cup RevokedCandidates(execs)
        /\ processes' = [pid \in DOMAIN processes |->
               LET p == [processes[pid] EXCEPT !.prewarm = Released(@, {c})]
               IN  IF pid \in ChildrenOf(forks) THEN Revoked(p) ELSE p]
        /\ CollectObjects
        /\ UNCHANGED <<sessionVars, next_object, next_transaction, exitVars,
                       next_client, registered, next_pid>>

\* record_exit keeps the latest MAX_EXIT_RECORDS completions.
RecordExit(pid, status) ==
    LET kept == IF Len(exit_order) < MAX_EXIT_RECORDS THEN exit_order
                ELSE SubSeq(exit_order, Len(exit_order) - MAX_EXIT_RECORDS + 2,
                            Len(exit_order))
    IN  IF MAX_EXIT_RECORDS = 0 THEN UNCHANGED <<exit_records, exit_order>>
        ELSE /\ exit_order' = Append(kept, pid)
             /\ exit_records' = With(Keep(exit_records, Range(kept)), pid, status)

\* Committed execs whose old image is `peer`: the replacement takes over now.
TakenOver(peer) ==
    {id \in DOMAIN exec_transactions :
        exec_transactions[id].retiring /\ exec_transactions[id].owner_peer = peer}

\* The exec of a process that completes with the death of `peer`.
Succession(pid, peer) ==
    {id \in TakenOver(peer) : exec_transactions[id].process = pid}

\* The native owner of a process after the death of `peer`.
Successor(pid, peer) ==
    IF Succession(pid, peer) = {} THEN processes[pid].peer
    ELSE exec_transactions[CHOOSE id \in Succession(pid, peer) : TRUE].target

\* Mutated form: an early death of the replacement is lost.
DeferredForgotten(peer) == {}

\* Replacements that died before the image they replace: their exit was
\* deferred and is processed by the recursive call.
Deferred(peer) == {id \in TakenOver(peer) : exec_transactions[id].candidate_exit # {}}

\* Children, attached or only reserved, outlive their parent.
Reparented(parent, dead) == IF parent \in dead THEN NoId ELSE parent

\* process_exited_with_status, the deferred exits included.  At most one
\* process belongs to a peer (OneOwner), so each loop over processes runs
\* at most once.
ProcessExited(peer, status) ==
    LET dying == {peer} \cup {exec_transactions[id].target : id \in Deferred(peer)}
        dead == {pid \in DOMAIN processes : Successor(pid, peer) \in dying}
        replaced == {exec_transactions[id].process : id \in TakenOver(peer)}
        final(pid) ==
            IF pid \in replaced
            THEN CHOOSE e \in Status : \E id \in Succession(pid, peer) :
                     e \in exec_transactions[id].candidate_exit
            ELSE status
        candidates == {exec_transactions[id].candidate : id \in TakenOver(peer)}
        cut == {c \in DOMAIN clients : clients[c].peer \in dying}
        forks == PendingForksOf(dead)
        execs == PendingExecsOf(dead)
                   \cup {id \in PendingExecs : exec_transactions[id].target = peer}
        spent == {id \in DOMAIN transactions :
                     \/ transactions[id].parent \in dead
                     \/ /\ transactions[id].parent \in replaced
                        /\ Terminal(transactions[id])}
    IN  /\ exited' = IF peer \in DOMAIN exited THEN exited
                     ELSE With(exited, peer, status)
        /\ clients' = [c \in DOMAIN clients \ cut |->
               IF c \in candidates
               THEN [clients[c] EXCEPT !.kind = "Worker", !.transaction = NoId]
               ELSE clients[c]]
        /\ transactions' = [id \in DOMAIN transactions \ spent |->
               [AbortedForks(forks)[id] EXCEPT !.child_parent =
                    Reparented(@, dead)]]
        /\ exec_transactions' =
               [id \in {i \in DOMAIN exec_transactions :
                          exec_transactions[i].process \notin dead \cup replaced} |->
                  [AbortedExecs(execs)[id] EXCEPT !.candidate_exit =
                       IF exec_transactions[id].retiring
                            /\ exec_transactions[id].target = peer /\ @ = {}
                       THEN {status} ELSE @]]
        /\ processes' = [pid \in DOMAIN processes \ dead |->
               LET p == [processes[pid] EXCEPT
                            !.peer = Successor(pid, peer),
                            !.prewarm = Released(@, cut),
                            !.parent_pid = Reparented(@, dead),
                            !.request_keys =
                                IF pid \notin replaced THEN @
                                ELSE Restrict(@, {k \in DOMAIN @ : @[k] \notin spent}),
                            !.exec_request_keys =
                                IF pid \in replaced THEN EmptyMap ELSE @]
               IN  IF pid \in ChildrenOf(forks) THEN Revoked(p) ELSE p]
        /\ retired_peers' = (retired_peers \cup RevokedCandidates(execs)) \ dying
        /\ IF dead = {} THEN UNCHANGED <<exit_records, exit_order>>
           ELSE LET pid == CHOOSE pid \in dead : TRUE
                IN  RecordExit(pid, final(pid))
        /\ CollectObjects
        /\ UNCHANGED <<sessionVars, next_object, next_transaction, next_client,
                       registered, next_pid>>
-----------------------------------------------------------------------------
Connect(peer) ==
    \/ ConnectHelper(peer)
    \/ \E kind \in {"Controller", "Launcher"} : ConnectControl(peer, kind)
    \/ ConnectRoot(peer)
    \/ \E id \in DOMAIN transactions : ConnectFork(peer, id)
    \/ \E id \in DOMAIN exec_transactions : ConnectExec(peer, id)

ForkRequest(c) ==
    \/ \E key \in RequestKey : PrepareFork(c, key) \/ PrepareForkWithParent(c, key)
    \/ MarkReady(c)
    \/ \E id \in DOMAIN transactions :
           CommitFork(c, id) \/ AbortFork(c, id) \/ AcknowledgeFork(c, id)

ExecRequest(c) ==
    \/ \E key \in RequestKey, target \in Peer : PrepareExec(c, key, target)
    \/ MarkExecReady(c)
    \/ \E id \in DOMAIN exec_transactions :
           CommitExec(c, id) \/ AbortExec(c, id) \/ AcknowledgeExec(c, id)

StateRequest(c) ==
    \/ \E module \in Module, schema \in Schema : RegisterModule(c, module, schema)
    \/ \E key \in StateKey, value \in Value :
           \/ WriteState(c, key, value)
           \/ \E fork \in ForkPolicy : DefineState(c, key, value, fork)

PoolRequest(c) ==
    \/ MarkPrewarmReady(c)
    \/ MarkPoolReady(c)
    \/ ReservePoolWorker(c)
    \/ \E pid \in DOMAIN processes :
           \/ ActivatePrewarm(c, pid)
           \/ ReleasePoolWorker(c, pid)
           \/ \E parent \in DOMAIN processes \cup {NoId}, launch \in Launch :
                  ActivatePoolWorker(c, pid, parent, launch)

Transport ==
    \/ \E c \in DOMAIN clients : Disconnect(c)
    \/ \E peer \in Peer, status \in Status : ProcessExited(peer, status)

Next ==
    \/ \E peer \in Peer : Connect(peer)
    \/ \E c \in DOMAIN clients :
           \/ ForkRequest(c)
           \/ ExecRequest(c)
           \/ StateRequest(c)
           \/ PoolRequest(c)
           \/ Shutdown(c)
    \/ Transport

Spec == Init /\ [][Next]_vars
-----------------------------------------------------------------------------
(* Invariants *)

\* Every table holds well-formed records and every identifier in use has
\* been issued.
TypeOK ==
    /\ DOMAIN clients \subseteq 1..(next_client - 1)
    /\ \A c \in DOMAIN clients : clients[c] \in Client
    /\ DOMAIN processes \subseteq 1..(next_pid - 1)
    /\ \A pid \in DOMAIN processes : IsProcess(processes[pid])
    /\ IsMap(modules, Module, Schema)
    /\ DOMAIN objects \subseteq 1..(next_object - 1)
    /\ \A i \in DOMAIN objects : objects[i] \in Object
    /\ DOMAIN transactions \subseteq 1..(next_transaction - 1)
    /\ \A id \in DOMAIN transactions : IsTransaction(transactions[id])
    /\ DOMAIN exec_transactions \subseteq 1..(next_transaction - 1)
    /\ \A id \in DOMAIN exec_transactions :
           exec_transactions[id] \in ExecTransaction
    /\ retired_peers \subseteq Peer
    /\ IsMap(exit_records, 1..(next_pid - 1), Status)
    /\ exit_order \in Seq(1..(next_pid - 1))
    /\ next_client \in Nat /\ next_pid \in Nat
    /\ next_object \in Nat /\ next_transaction \in Nat
    /\ shutdown_requested \in BOOLEAN
    /\ IsMap(exited, Peer, Status)
    /\ IsMap(registered, Peer, Id)

\* A logical process has one native owner and a native process owns one
\* logical process: two processes never share a peer, each worker connection
\* belongs to the owner and is its only one, and a replacement owns nothing
\* before the image it replaces is dead.
OneOwner ==
    /\ \A p, q \in DOMAIN processes : processes[p].peer = processes[q].peer => p = q
    /\ \A c \in DOMAIN clients : clients[c].kind = "Worker" => OwnsProcess(c)
    /\ \A c, d \in DOMAIN clients :
          (/\ clients[c].kind = "Worker" /\ clients[d].kind = "Worker"
           /\ clients[c].pid = clients[d].pid) => c = d
    /\ \A id \in DOMAIN exec_transactions :
          LET t == exec_transactions[id]
          IN  /\ t.state # "Aborted" => ProcessesOf(t.target) = {}
              /\ t.retiring => processes[t.process].peer = t.owner_peer

\* The fork protocol and the child agree: a reservation holds the child's
\* snapshot and its pid is free; an attached child waits for exactly that
\* transaction.  The `unwrap` in mark_ready, the `expect` in adopt and the
\* `expect("ready child must exist")` in commit_fork cannot fail.
ForkAgreement ==
    /\ \A id \in DOMAIN transactions :
          LET t == transactions[id]
          IN  /\ t.state = "Prepared" => /\ t.child \notin DOMAIN processes
                                         /\ Cardinality(t.snapshot) = 1
              /\ t.state # "Prepared" => t.snapshot = {}
              /\ t.state \in {"Adopted", "Ready"} =>
                    /\ t.child \in DOMAIN processes
                    /\ processes[t.child].state = "Pending"
                    /\ processes[t.child].transaction = id
    /\ \A pid \in DOMAIN processes :
          processes[pid].state = "Pending" =>
              LET id == processes[pid].transaction
              IN  /\ id \in DOMAIN transactions
                  /\ transactions[id].state \in {"Adopted", "Ready"}
                  /\ transactions[id].child = pid

\* Replay records and transactions correspond one to one: the lookups
\* `self.transactions[id]` and `self.exec_transactions[&id]` of a replayed key
\* never fail, and no transaction outlives its process or loses its key.
KeysResolve ==
    /\ DOMAIN transactions \cap DOMAIN exec_transactions = {}
    /\ \A pid \in DOMAIN processes :
          /\ IsInjective(processes[pid].request_keys)
          /\ IsInjective(processes[pid].exec_request_keys)
          /\ Range(processes[pid].request_keys) =
                {id \in DOMAIN transactions : transactions[id].parent = pid}
          /\ Range(processes[pid].exec_request_keys) =
                {id \in DOMAIN exec_transactions : exec_transactions[id].process = pid}
    /\ \A id \in DOMAIN transactions : transactions[id].parent \in DOMAIN processes
    /\ \A id \in DOMAIN exec_transactions :
          exec_transactions[id].process \in DOMAIN processes

\* Before its commit an exec is backed by two open connections, the owner's
\* and, once attached, the replacement's; a process has one live exec.
ExecBacked ==
    /\ \A i, j \in DOMAIN exec_transactions :
          (/\ exec_transactions[i].process = exec_transactions[j].process
           /\ exec_transactions[i].state # "Aborted"
           /\ exec_transactions[j].state # "Aborted") => i = j
    /\ \A id \in PendingExecs :
          LET t == exec_transactions[id]
          IN  /\ OwnsProcess(t.owner) /\ clients[t.owner].pid = t.process
              /\ t.state # "Prepared" =>
                    /\ t.candidate \in DOMAIN clients
                    /\ clients[t.candidate] =
                          [peer |-> t.target, kind |-> "ExecCandidate",
                           pid |-> t.process, transaction |-> id]

\* The object table holds exactly the objects some process or reservation
\* refers to: reads find their object, and nothing is leaked.
ObjectsExact == DOMAIN objects = Referenced(processes, transactions)

\* The snapshots of processes and of reservations, each with its holder.
Holders ==
    {<<"process", pid, processes[pid].snapshot.states>> : pid \in DOMAIN processes}
      \cup (UNION {{<<"fork", id, s.states>> : s \in transactions[id].snapshot} :
                      id \in DOMAIN transactions})

\* Only a Share object has more than one holder, or more than one name.
PrivateObjects ==
    /\ \A h \in Holders : IsInjective(h[3])
    /\ \A g, h \in Holders :
          g # h => \A i \in Range(g[3]) \cap Range(h[3]) : objects[i].fork = "Share"

\* Reservations count: the process quota covers prepared children, and the
\* retirement records stay bounded because a pending exec reserves one.
QuotasHold ==
    /\ Cardinality(DOMAIN processes) + Cardinality(Prepared) <= MAX_PROCESSES
    /\ Cardinality(DOMAIN objects) <= MAX_OBJECTS
    /\ Cardinality(DOMAIN transactions) + Cardinality(DOMAIN exec_transactions)
         <= MAX_TRANSACTIONS
    /\ Cardinality(retired_peers) + Cardinality(PendingExecs) <= MAX_TRANSACTIONS

\* Launching and running are separate privileges: the native process behind a
\* helper, controller or launcher connection owns no process, has no worker
\* or candidate connection and is not the replacement a pending exec waits for.
RolesSeparate ==
    \A c \in DOMAIN clients :
        clients[c].kind \in {"Helper", "Controller", "Launcher"} =>
            /\ ProcessesOf(clients[c].peer) = {}
            /\ \A d \in ClientsOf(clients[c].peer) :
                  clients[d].kind \in {"Helper", "Controller", "Launcher"}
            /\ ReservedFor(clients[c].peer) \cap PendingExecs = {}
-----------------------------------------------------------------------------
(* Action properties *)

\* A native process registers for one logical process as long as its death is
\* not reported: neither a revoked candidate nor a replaced image that is still
\* alive, or not yet found dead, comes back as another worker.
RegistersOnce ==
    [][\A peer \in DOMAIN registered \ DOMAIN exited :
          registered'[peer] = registered[peer]]_vars

\* A process changes its native owner only by a committed exec, from the image
\* that committed it to the replacement it named, and only when the old image
\* is dead.
OwnerChangesByExec ==
    [][\A pid \in DOMAIN processes \cap DOMAIN processes' :
          processes'[pid].peer # processes[pid].peer =>
              /\ processes[pid].peer \in DOMAIN exited'
              /\ \E id \in DOMAIN exec_transactions :
                    LET t == exec_transactions[id]
                    IN  /\ t.process = pid /\ t.state = "Committed"
                        /\ t.owner_peer = processes[pid].peer
                        /\ t.target = processes'[pid].peer]_vars

\* A pool worker is handed out once: from one connection to another it goes
\* only through the pool, it is activated only for the connection that
\* reserved it, and an accepted launch is never changed or withdrawn.
PoolHandout ==
    [][\A pid \in DOMAIN processes \cap DOMAIN processes' :
          LET old == processes[pid].prewarm
              new == processes'[pid].prewarm
          IN  /\ old.at = "PoolActivated" => new = old
              /\ (old.at = "PoolReserved" /\ new # old) =>
                    new.at = "PoolReady" \/ (/\ new.at = "PoolActivated"
                                            /\ new.client = old.client)
              /\ (new.at = "PoolReserved" /\ new # old) =>
                    old.at = "PoolReady" /\ new.client \in DOMAIN clients']_vars

\* The states a child was given by PrepareFork: in the reservation, then in
\* the waiting process.
ChildStates(txs, procs, id) ==
    IF txs[id].state = "Prepared"
    THEN (CHOOSE s \in txs[id].snapshot : TRUE).states
    ELSE procs[txs[id].child].snapshot.states

\* What PrepareFork froze for a child reaches it unchanged: until the commit
\* no step of anyone changes which objects it has or the value of one that is
\* not shared.
FrozenUntilCommit ==
    [][\A id \in DOMAIN transactions \cap DOMAIN transactions' :
          ~Terminal(transactions'[id]) =>
              LET states == ChildStates(transactions, processes, id)
              IN  /\ ChildStates(transactions', processes', id) = states
                  /\ \A i \in Range(states) :
                        objects[i].fork # "Share" => objects'[i] = objects[i]]_vars
-----------------------------------------------------------------------------
(* What documents and messages of the repository say and the code does not *)

\* crates/manager/README.md: a worker can create one guest Process only.
WorkerCreatesOneProcess ==
    [][\A peer \in DOMAIN registered : registered'[peer] = registered[peer]]_vars

\* crates/manager/README.md: CommitExec atomically transfers the ownership of
\* the process to the replacement.
CommitTransfersOwnership ==
    \A id \in DOMAIN exec_transactions :
        exec_transactions[id].state = "Committed" =>
            processes[exec_transactions[id].process].peer = exec_transactions[id].target

\* crates/manager/README.md: completed fork records are kept until the parent
\* really exits.
RecordsKeptUntilParentExits ==
    [][\A id \in DOMAIN transactions \ DOMAIN transactions' :
          transactions[id].parent \notin DOMAIN processes']_vars

\* crates/manager/README.md: exec keeps the retry history of the process.
ExecKeepsRetryHistory ==
    [][\A pid \in DOMAIN processes \cap DOMAIN processes' :
          processes'[pid].peer # processes[pid].peer =>
              /\ processes'[pid].request_keys = processes[pid].request_keys
              /\ processes'[pid].exec_request_keys =
                    processes[pid].exec_request_keys]_vars

\* crates/manager/README.md: the same successful request returns the original
\* transaction.  A PrepareFork names the caller as parent, a
\* PrepareForkWithParent the parent it was prepared with; the latter is
\* checked against the present parent of the caller before the key is looked
\* up, and the record is checked against the parent of the request.
ReplayReturnsTicket ==
    \A pid \in DOMAIN processes : \A key \in DOMAIN processes[pid].request_keys :
        LET t == transactions[processes[pid].request_keys[key]]
        IN  t.requested_parent \in {pid, processes[pid].parent_pid}

\* The error text of MarkPoolReady: only an unused root worker can join the
\* pool.
PoolWorkersUnused ==
    \A pid \in PoolReady :
        /\ \A id \in DOMAIN transactions : transactions[id].parent # pid
        /\ \A child \in DOMAIN processes : processes[child].parent_pid # pid
=============================================================================
