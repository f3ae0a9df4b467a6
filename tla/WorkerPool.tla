----------------------------- MODULE WorkerPool -----------------------------
(***************************************************************************)
(* The pool of prewarmed workers (apps/init/src/pool.rs): the thread that  *)
(* keeps its slots filled, and the launchers that wait for a worker        *)
(* (apps/init/src/main.rs, web.rs).  The manager is the real one.          *)
(*                                                                         *)
(* One pass of the thread runs under the manager mutex and is one step.    *)
(* Clocks are left out: a slot is late, and the refill delay over, at any  *)
(* moment.  A change of the manager and its notification are one step.     *)
(***************************************************************************)
EXTENDS StateManager

CONSTANTS
    Pooled,             \* the peers the pool can create
    SIZE,               \* slots of the pool
    MAX_FAILURES        \* 3 in the code

ASSUME WorkerPoolAssumption ==
    /\ Pooled \subseteq Peer
    /\ {SIZE, MAX_FAILURES} \subseteq Nat

VARIABLES
    native,             \* "unborn", "live" or "dead" for each native process
    slots,              \* workers the thread looks after
    late,               \* slots whose preparation time is over
    consumed,           \* workers launched since the last pass
    demand,             \* a launcher waits
    delayed,            \* next_spawn is in the future
    failures,
    failed,             \* the pool has given up
    thread,             \* "top", "asleep" without and "dozing" with a timeout, "gone"
    waiting,            \* connections that wait for a worker -> "awake" or "asleep"
    launched,           \* history: workers that were alive when they were launched
    blamed              \* history: workers counted as failures

poolVars == <<native, slots, late, consumed, demand, delayed, failures, failed,
              thread, waiting, launched, blamed>>
allVars == <<vars, poolVars>>

PoolInit ==
    /\ Init
    /\ native = [p \in Peer |-> IF p \in Pooled THEN "unborn" ELSE "live"]
    /\ slots = {} /\ late = {} /\ consumed = {}
    /\ demand = FALSE /\ delayed = FALSE
    /\ failures = 0 /\ failed = FALSE
    /\ thread = "top"
    /\ waiting = EmptyMap
    /\ launched = {} /\ blamed = {}

Live(peer) == native[peer] = "live"

\* What a process sent before it died is still handled.
Heard(peer) == native[peer] # "unborn"

\* notify_all
Woken == IF thread \in {"asleep", "dozing"} THEN "top" ELSE thread
Roused(w) == [c \in DOMAIN w |-> "awake"]

\* pool_peer_is_prepared
PreparedWorker(peer) ==
    \E pid \in ProcessesOf(peer) : processes[pid].prewarm.at \in {"PoolReady", "PoolReserved"}
-----------------------------------------------------------------------------
(* Native processes *)

Die(peer) ==
    /\ Live(peer)
    /\ native' = [native EXCEPT ![peer] = "dead"]
    /\ UNCHANGED <<vars, slots, late, consumed, demand, delayed, failures, failed,
                   thread, waiting, launched, blamed>>

\* 30 s have passed since the worker was created.
Expire(peer) ==
    /\ peer \in slots \ late
    /\ late' = late \cup {peer}
    /\ UNCHANGED <<vars, native, slots, consumed, demand, delayed, failures, failed,
                   thread, waiting, launched, blamed>>

\* next_spawn is reached; a thread that waits with a timeout goes on.
Elapse ==
    /\ delayed \/ thread = "dozing"
    /\ delayed' = FALSE
    /\ thread' = IF thread = "dozing" THEN "top" ELSE thread
    /\ UNCHANGED <<vars, native, slots, late, consumed, demand, failures, failed,
                   waiting, launched, blamed>>
-----------------------------------------------------------------------------
(* maintain *)

\* What one pass makes of the slots.
Launched == slots \cap consumed
Exited == {p \in slots \ consumed : ~Live(p)}
Overdue == {p \in slots \ (consumed \cup Exited) : p \in late /\ ~PreparedWorker(p)}
Remaining == slots \ (Launched \cup Exited \cup Overdue)
Failures == failures + Cardinality(Exited \cup Overdue)

\* next_spawn after the launches, the demand and the shortcut for a session
\* without an application.
Delayed ==
    /\ delayed \/ (Launched # {} /\ Cardinality(slots) = SIZE)
    /\ ~demand
    /\ ~(Failures = 0 /\ Cardinality(DOMAIN processes) = Cardinality(PoolReady))

\* The part every pass has in common.
Inspect ==
    /\ thread = "top"
    /\ consumed' = {}
    /\ demand' = FALSE
    /\ blamed' = blamed \cup Exited \cup Overdue
    /\ UNCHANGED <<vars, launched>>

Killed == [p \in Peer |-> IF p \in Overdue THEN "dead" ELSE native[p]]

\* Mutated form: nobody is told.
GiveUpSilently ==
    /\ Inspect
    /\ Failures >= MAX_FAILURES
    /\ failed' = TRUE
    /\ thread' = "gone"
    /\ slots' = {} /\ late' = {}
    /\ failures' = Failures /\ delayed' = Delayed /\ native' = Killed
    /\ UNCHANGED waiting

\* Too many failures: the pool is disabled.
GiveUp ==
    /\ Inspect
    /\ Failures >= MAX_FAILURES
    /\ failed' = TRUE
    /\ thread' = "gone"
    /\ slots' = {} /\ late' = {}
    /\ failures' = Failures /\ delayed' = Delayed /\ native' = Killed
    /\ waiting' = Roused(waiting)

\* The pool is full and every worker prepared.
Rest ==
    /\ Inspect
    /\ Failures < MAX_FAILURES
    /\ Cardinality(Remaining) = SIZE
    /\ \A p \in Remaining : PreparedWorker(p)
    /\ thread' = "asleep"
    /\ failures' = 0
    /\ slots' = Remaining /\ late' = late \cap Remaining
    /\ delayed' = Delayed /\ native' = Killed
    /\ UNCHANGED <<failed, waiting>>

Unborn == {p \in Pooled : native[p] = "unborn"}

\* Any unborn process would do: they differ in their names only.
NextWorker == CHOOSE p \in Unborn : TRUE

\* A worker is created, and enters the Job, or the creation fails.
Spawn ==
    /\ Inspect
    /\ Failures < MAX_FAILURES
    /\ Cardinality(Remaining) < SIZE
    /\ ~Delayed
    /\ \/ /\ Unborn # {}
          /\ native' = [Killed EXCEPT ![NextWorker] = "live"]
          /\ slots' = Remaining \cup {NextWorker}
          /\ failures' = Failures
          /\ delayed' = FALSE
       \/ /\ native' = Killed
          /\ slots' = Remaining
          /\ failures' = Failures + 1
          /\ delayed' = TRUE
    /\ late' = late \cap Remaining
    /\ UNCHANGED <<failed, thread, waiting>>

\* Otherwise the thread waits, 100 ms at most.
Doze ==
    /\ Inspect
    /\ Failures < MAX_FAILURES
    /\ \/ Cardinality(Remaining) < SIZE /\ Delayed
       \/ Cardinality(Remaining) = SIZE /\ \E p \in Remaining : ~PreparedWorker(p)
    /\ thread' = "dozing"
    /\ failures' = Failures
    /\ slots' = Remaining /\ late' = late \cap Remaining
    /\ delayed' = Delayed /\ native' = Killed
    /\ UNCHANGED <<failed, waiting>>

Maintain == GiveUp \/ Rest \/ Spawn \/ Doze
-----------------------------------------------------------------------------
(* Requests *)

\* A request of the manager that the pool has no part in.
Notified ==
    /\ thread' = Woken
    /\ waiting' = Roused([c \in DOMAIN waiting \cap DOMAIN clients' |-> waiting[c]])
    /\ UNCHANGED <<native, slots, late, consumed, demand, delayed, failures, failed,
                   launched, blamed>>

\* The connection is not inside a request.
Free(c) == c \in DOMAIN clients \ DOMAIN waiting

WorkerConnects(peer) ==
    /\ peer \in Pooled /\ Heard(peer)
    /\ ConnectRoot(peer)
    /\ Notified

LauncherConnects(peer) ==
    /\ peer \notin Pooled
    /\ ConnectControl(peer, "Launcher")
    /\ Notified

WorkerReady(c) ==
    /\ Free(c)
    /\ MarkPoolReady(c)
    /\ Notified

\* ReservePoolWorker: a worker, ...
Obtain(c) ==
    /\ Free(c) \/ (c \in DOMAIN waiting /\ waiting[c] = "awake")
    /\ ReservePoolWorker(c)
    /\ thread' = Woken
    /\ waiting' = Roused(Without(waiting, c))
    /\ UNCHANGED <<native, slots, late, consumed, demand, delayed, failures, failed,
                   launched, blamed>>

\* ... or the wait for one; every round tells the pool and the other waiters.
\* A pool that failed is reported.
WaitForWorker(c) ==
    /\ Free(c) \/ (c \in DOMAIN waiting /\ waiting[c] = "awake")
    /\ ControlClient(c) /\ PoolReady = {}
    /\ demand' = TRUE
    /\ thread' = Woken
    /\ waiting' = IF failed THEN Roused(Without(waiting, c))
                  ELSE With(Roused(waiting), c, "asleep")
    /\ UNCHANGED <<vars, native, slots, late, consumed, delayed, failures, failed,
                   launched, blamed>>

\* Mutated form: the pool does not hear of a launch.
ConsumedNot(peer) == consumed

\* Pool::consumed
Consumed(peer) == consumed \cup {peer}

Activate(c, pid) ==
    /\ Free(c)
    /\ \E launch \in Launch : ActivatePoolWorker(c, pid, NoId, launch)
    /\ consumed' = Consumed(processes[pid].peer)
    /\ launched' = launched \cup {p \in {processes[pid].peer} : Live(p)}
    /\ thread' = Woken
    /\ waiting' = Roused(waiting)
    /\ UNCHANGED <<native, slots, late, demand, delayed, failures, failed, blamed>>

GiveBack(c, pid) ==
    /\ Free(c)
    /\ ReleasePoolWorker(c, pid)
    /\ Notified

Hangup(c) ==
    /\ Free(c)
    /\ Disconnect(c)
    /\ Notified

ReportExit(peer) ==
    /\ native[peer] = "dead" /\ peer \in DOMAIN registered /\ peer \notin DOMAIN exited
    /\ \E status \in Status : ProcessExited(peer, status)
    /\ Notified
-----------------------------------------------------------------------------
PoolNext ==
    \/ \E p \in Pooled : Die(p) \/ Expire(p) \/ WorkerConnects(p) \/ ReportExit(p)
    \/ \E p \in Peer : LauncherConnects(p)
    \/ \E c \in DOMAIN clients :
          \/ WorkerReady(c) \/ Obtain(c) \/ WaitForWorker(c) \/ Hangup(c)
          \/ \E pid \in DOMAIN processes : Activate(c, pid) \/ GiveBack(c, pid)
    \/ Elapse
    \/ Maintain

PoolSpec == PoolInit /\ [][PoolNext]_allVars

\* The thread runs, time passes, a dead worker is reported, and a woken request
\* is looked at again.  Workers and launchers need not do anything.
FairPoolSpec ==
    /\ PoolSpec
    /\ WF_allVars(Maintain)
    /\ WF_allVars(Elapse)
    /\ WF_allVars(\E p \in Pooled : Expire(p))
    /\ WF_allVars(\E p \in Pooled : ReportExit(p))
    /\ \A c \in 1..LAST_CLIENT :
          WF_allVars(c \in DOMAIN waiting /\ (Obtain(c) \/ WaitForWorker(c)))
-----------------------------------------------------------------------------
\* A worker that was launched is the application's: the pool neither kills it
\* nor counts its exit as a failed preparation, however short it runs.
LaunchedLeftAlone == blamed \cap launched = {}

\* A worker is reserved for a connection that can still use it.
Held ==
    \E pid \in DOMAIN processes :
        /\ processes[pid].prewarm.at = "PoolReserved"
        /\ ControlClient(processes[pid].prewarm.client)

\* A launcher that waits gets a worker or is refused, unless another one that
\* is connected keeps the workers to itself: dead, late and unconnected workers
\* are replaced until the pool gives up, and giving up wakes the waiters.
LaunchServed ==
    \A c \in 1..LAST_CLIENT :
        c \in DOMAIN waiting ~> (c \notin DOMAIN waiting \/ Held)
=============================================================================
