----------------------------- MODULE NativePool -----------------------------
(***************************************************************************)
(* What the two stocks of prepared native processes in init have in common *)
(* (apps/init/src/native_fork.rs and native_exec.rs): one thread that      *)
(* spawns, retires and reaps standbys, leases that hold a delivered        *)
(* process until the manager has decided about it, and the native          *)
(* processes themselves.  The manager is the real one: this module extends *)
(* StateManager and a manager request is a step of both.                   *)
(*                                                                         *)
(* Clocks are left out: a deadline may pass at any moment (Expire).  A     *)
(* change of the manager and the notification that follows it are one      *)
(* step; a change of the stock and its notification are two.               *)
(***************************************************************************)
EXTENDS StateManager

CONSTANTS
    Pooled,             \* the peers that the pool creates
    STOCK,              \* CAPACITY and STOCK of the code
    MAX_FAILURES,       \* 3 in the code
    MAX_LEASES          \* 128 in the code

ASSUME PoolAssumption ==
    /\ Pooled \subseteq Peer
    /\ {STOCK, MAX_FAILURES, MAX_LEASES} \subseteq Nat

VARIABLES
    native,             \* "unborn", "live" or "dead" for each native process
    prepared,           \* standbys whose bootstrap has parked
    late,               \* processes whose 30 s deadline has passed
    slots,              \* unused standbys
    leases,             \* delivered processes in the custody of init
    failures,
    thread,             \* control state of the pool thread
    created,            \* what the pool thread has spawned and not published
    delivery,           \* per connection: the request for a process
    received,           \* (parent, child) pairs whose reply arrived
    stopping,
    killed,             \* history: processes the pool terminated
    released            \* history: processes let go by a committed transaction

threadVars == <<thread, created, failures>>
stockVars == <<slots, leases, late>>
nativeVars == <<native, prepared, killed, released>>
requestVars == <<delivery, received>>
poolVars == <<native, prepared, late, slots, leases, failures, created,
              delivery, received, stopping, killed, released>>
allVars == <<vars, poolVars, thread>>

Idle == [step |-> "idle"]
Nobody == {}

\* The pool thread holds the manager mutex between its last look at the stock
\* and its untimed sleep.
ManagerFree == thread # "parking"

Woken == IF thread \in {"asleep", "dozing"} THEN "top" ELSE thread

\* Mutated form: the pool thread is not notified.
ManagerCallSilent ==
    /\ ManagerFree
    /\ UNCHANGED <<poolVars, thread>>

\* A request of the manager, or the end of a connection, with its notify_all.
ManagerCall ==
    /\ ManagerFree
    /\ thread' = Woken
    /\ UNCHANGED poolVars

Live(peer) == native[peer] = "live"

Dead(peer) == native[peer] = "dead"

\* What a process sent before it died is still handled.
Heard(peer) == native[peer] # "unborn"

Children == {l.child : l \in leases}

Free(c) == c \in DOMAIN clients /\ delivery[c] = Idle /\ ~stopping

\* Dropping a Standby whose `kill` flag is set terminates the process.
Terminated(peers) ==
    /\ native' = [p \in Peer |-> IF p \in peers THEN "dead" ELSE native[p]]
    /\ killed' = killed \cup {p \in peers : Live(p)}

PoolInit ==
    /\ Init
    /\ native = [p \in Peer |-> IF p \in Pooled THEN "unborn" ELSE "live"]
    /\ prepared = {}
    /\ late = {}
    /\ slots = {}
    /\ leases = {}
    /\ failures = 0
    /\ thread = "top"
    /\ created = Nobody
    /\ delivery = [c \in 1..LAST_CLIENT |-> Idle]
    /\ received = {}
    /\ stopping = FALSE
    /\ killed = {}
    /\ released = {}
-----------------------------------------------------------------------------
(* The native processes *)

\* A process ends by itself, by a crash, or because a guest ends it.
Die(peer) ==
    /\ Live(peer)
    /\ native' = [native EXCEPT ![peer] = "dead"]
    /\ UNCHANGED <<vars, prepared, stockVars, threadVars, requestVars, stopping,
                   killed, released>>

\* The bootstrap of a standby sets its event and parks.
Park(peer) ==
    /\ peer \in Pooled /\ Live(peer)
    /\ prepared' = prepared \cup {peer}
    /\ prepared' # prepared
    /\ UNCHANGED <<vars, native, stockVars, threadVars, requestVars, stopping,
                   killed, released>>

\* `since` or `delivered` is 30 s ago.
Expire(peer) ==
    /\ peer \in slots \cup Children
    /\ late' = late \cup {peer}
    /\ late' # late
    /\ UNCHANGED <<vars, nativeVars, slots, leases, threadVars, requestVars,
                   stopping>>

\* The watcher of a worker that registered reports its death.
Watched(peer) == peer \in DOMAIN registered /\ peer \notin DOMAIN exited

ReportExit(peer) ==
    /\ Dead(peer) /\ Watched(peer)
    /\ \E status \in Status : ProcessExited(peer, status)
    /\ ManagerCall

\* serve ends after a failed read or write, or when the session stops.
Hangup(c) ==
    /\ c \in DOMAIN clients
    /\ delivery[c] = Idle
    /\ Disconnect(c)
    /\ ManagerCall
-----------------------------------------------------------------------------
(* The pool thread *)

\* Standbys that died, or did not park in time, count as failures.
Spoiled == {p \in slots : Dead(p) \/ (p \notin prepared /\ p \in late)}

Good == slots \ Spoiled
Failed == failures + Cardinality(Spoiled)

\* One pass of the loop: under the manager and the stock mutex.  `let_go` are
\* the leases of committed transactions, `kept` those that stay.
Maintain(let_go, kept, wanted, busy) ==
    LET dropped == {l.child : l \in leases \ (let_go \cup kept)}
    IN  /\ thread = "top"
        /\ ~stopping
        /\ leases' = kept
        /\ released' = released \cup {l.child : l \in let_go}
        /\ slots' = Good
        /\ failures' = Failed
        /\ Terminated(dropped \cup Spoiled)
        /\ thread' = IF Failed < MAX_FAILURES /\ Cardinality(Good) < STOCK /\ wanted
                     THEN "creating"
                     ELSE IF busy THEN "dozing" ELSE "parking"
        /\ UNCHANGED <<vars, prepared, late, created, requestVars, stopping>>

\* When the session stops the thread clears everything and ends.
Finish ==
    /\ thread = "top"
    /\ stopping
    /\ Terminated(slots \cup Children)
    /\ slots' = {} /\ leases' = {}
    /\ thread' = "gone"
    /\ UNCHANGED <<vars, prepared, late, failures, created, requestVars,
                   stopping, released>>

\* Under the creation gate, which stop holds when it sets `stopping`.
Create ==
    /\ thread = "creating"
    /\ \/ /\ stopping
          /\ created' = Nobody
          /\ thread' = "top"
          /\ UNCHANGED native
       \/ /\ ~stopping
          /\ \E peer \in Pooled :
                /\ native[peer] = "unborn"
                /\ native' = [native EXCEPT ![peer] = "live"]
                /\ created' = {peer}
          /\ thread' = "made"
       \/ /\ ~stopping
          /\ created' = Nobody
          /\ thread' = "made"
          /\ UNCHANGED native
    /\ UNCHANGED <<vars, prepared, stockVars, failures, requestVars, stopping,
                   killed, released>>

\* Mutated form: a process that came too late is forgotten, not ended.
PublishForgets(current) ==
    /\ thread = "made"
    /\ thread' = "top"
    /\ created' = Nobody
    /\ IF ~stopping /\ current
       THEN /\ slots' = slots \cup created
            /\ failures' = IF created = Nobody THEN failures + 1 ELSE failures
       ELSE UNCHANGED <<slots, failures>>
    /\ UNCHANGED <<vars, nativeVars, late, leases, requestVars, stopping>>

\* The spawned process joins the stock, or is dropped if it came too late; a
\* failed creation is counted.  `current`: the stock still wants it.
Publish(current) ==
    /\ thread = "made"
    /\ thread' = "top"
    /\ created' = Nobody
    /\ IF ~stopping /\ current
       THEN /\ slots' = slots \cup created
            /\ failures' = IF created = Nobody THEN failures + 1 ELSE failures
            /\ UNCHANGED <<native, killed>>
       ELSE /\ Terminated(created)
            /\ UNCHANGED <<slots, failures>>
    /\ UNCHANGED <<vars, prepared, late, leases, requestVars, stopping, released>>

\* Condvar::wait releases the manager mutex.
FallAsleep ==
    /\ thread = "parking"
    /\ thread' = "asleep"
    /\ UNCHANGED <<vars, poolVars>>

\* wait_timeout of 10 ms.
Timeout ==
    /\ thread = "dozing"
    /\ thread' = "top"
    /\ UNCHANGED <<vars, poolVars>>

\* Service::stop, with the mutex and both gates; it notifies before it unlocks.
Stop ==
    /\ ManagerFree
    /\ ~stopping
    /\ stopping' = TRUE
    /\ thread' = Woken
    /\ UNCHANGED <<vars, nativeVars, stockVars, created, failures, requestVars>>
-----------------------------------------------------------------------------
(* Requests for a prepared process.  The serving thread keeps the identity  *)
(* of its peer: it goes on when the manager has dropped the connection.     *)

Answer(c, lease) == [step |-> "reply", peer |-> delivery[c].peer, lease |-> lease]

\* `take` found a standby: it becomes the lease of the caller, or is dropped
\* when a handle cannot be duplicated into the caller.
Lease(c, lease) ==
    /\ slots' = slots \ {lease.child}
    /\ \/ /\ Live(lease.parent)
          /\ leases' = leases \cup {lease}
          /\ late' = late \ {lease.child}
          /\ delivery' = [delivery EXCEPT ![c] = Answer(c, {lease})]
          /\ UNCHANGED <<native, killed>>
       \/ /\ Terminated({lease.child})
          /\ delivery' = [delivery EXCEPT ![c] = Answer(c, {})]
          /\ UNCHANGED <<leases, late>>

\* `take` answered None or an error.
Miss(c) ==
    /\ delivery' = [delivery EXCEPT ![c] = Answer(c, {})]
    /\ UNCHANGED <<slots, leases, late, native, killed>>

\* notify_all without the manager mutex, then the reply.
Reply(c) ==
    /\ delivery[c].step = "reply"
    /\ thread' = Woken
    /\ delivery' = [delivery EXCEPT ![c] = Idle]
    /\ received' = received \cup
           {<<delivery[c].peer, l.child>> : l \in delivery[c].lease}
    /\ UNCHANGED <<vars, nativeVars, stockVars, created, failures, stopping>>
-----------------------------------------------------------------------------
(* Properties *)

\* No process the pool created gets away: as long as it lives it is in the
\* stock, in one lease, on its way into the stock, or it was let go because
\* its transaction committed.  Once the thread has ended only those are left.
EveryProcessHeld ==
    /\ \A p \in Pooled : Live(p) => p \in slots \cup Children \cup created \cup released
    /\ slots \cap Children = {} /\ created \cap (slots \cup Children) = {}
    /\ \A l, m \in leases : l.child = m.child => l = m
    /\ thread = "gone" => slots = {} /\ leases = {} /\ created = {}

\* A process that runs a Linux process, or that a committed exec has chosen.
Published(peer) ==
    \/ \E pid \in ProcessesOf(peer) : processes[pid].state = "Active"
    \/ \E id \in ReservedFor(peer) : exec_transactions[id].state = "Committed"

\* The pool never terminates a process that a commit has published, whatever
\* the order of the commit, its acknowledgement, the death of the parent and
\* the passes of the pool thread.  (Session shutdown ends everything.)
PublishedSurvives ==
    [][\A p \in killed' \ killed : stopping \/ ~Published(p)]_allVars
=============================================================================
