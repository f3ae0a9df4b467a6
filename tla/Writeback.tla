----------------------------- MODULE Writeback -----------------------------
(***************************************************************************)
(* The session-owned data writeback queue of the init service              *)
(* (apps/init/src/writeback.rs).  A submitted hint outlives its submitter; *)
(* two worker threads flush the hinted files; a failed flush is remembered *)
(* until one waiter consumes it; shutdown drains every accepted hint.      *)
(*                                                                         *)
(* `state` is guarded by one mutex, so each region that holds the mutex is *)
(* one action.  The flush itself and the reception from the bounded        *)
(* channel happen outside the mutex and are actions of their own.          *)
(***************************************************************************)
EXTENDS Naturals, Sequences, FiniteSets, Functions

CONSTANTS
    Key,        \* identities (volume serial, file id) of ordinary files
    Client,     \* RPC threads that block in `wait`
    Worker,     \* the file-writeback threads
    Errors,     \* non-zero Win32 error codes a flush can return
    CAPACITY,   \* bound on entries, on pending hints and on the channel
    MaxHints    \* model bound: hints accepted in one behaviour

ASSUME WritebackAssumption ==
    /\ CAPACITY \in Nat \ {0}
    /\ MaxHints \in Nat
    /\ 0 \notin Errors
    /\ IsFiniteSet(Worker) /\ Worker # {}

VARIABLES
    entries,    \* State.entries: partial function from keys to entries
    pending,    \* State.pending: hints accepted and not yet completed
    closing,    \* State.closing
    channel,    \* commands in the bounded mpsc channel
    workers,    \* the OnceLock: "unset", "running", "failed" or "dropped"
    thread,     \* what each worker thread is doing
    waiter,     \* what each client is doing inside `wait`
    closer,     \* the call of `shutdown`: "idle", "waiting" or "returned"
    nextHint,   \* number given to the next accepted hint
    flushed     \* hints whose flush has been performed

vars == <<entries, pending, closing, channel, workers, thread, waiter,
          closer, nextHint, flushed>>

Hint == 1..MaxHints

\* A queued command; `hint` stands for the duplicated file handle it owns.
Command == [key : Key, hint : Hint]

\* failed_file is the handle of a failed hint, 0 for None.
Entry == [pending : Nat, error : Errors \cup {0}, urgent : BOOLEAN,
          failed_file : Hint \cup {0}]

NewEntry == [pending |-> 0, error |-> 0, urgent |-> FALSE, failed_file |-> 0]

Idle == [at |-> "recv"]

Without(f, k) == Restrict(f, DOMAIN f \ {k})
With(f, k, v) == [x \in DOMAIN f \cup {k} |-> IF x = k THEN v ELSE f[x]]

\* Clients that are not inside `wait` remember the last value it returned.
Resting(result) == [at |-> "idle", result |-> result]

\* Threads between the reception of a command and its completion.
Busy == {w \in Worker : thread[w].at \in {"grace", "flush", "publish"}}

\* Hints for a key that have been accepted and not yet completed.
Outstanding(k) ==
    {h \in Hint :
        \/ \E i \in DOMAIN channel : channel[i].key = k /\ channel[i].hint = h
        \/ \E w \in Busy : thread[w].key = k /\ thread[w].hint = h}
-----------------------------------------------------------------------------
Init ==
    /\ entries = <<>>
    /\ pending = 0
    /\ closing = FALSE
    /\ channel = <<>>
    /\ workers = "unset"
    /\ thread = [w \in Worker |-> Idle]
    /\ waiter = [c \in Client |-> Resting(0)]
    /\ closer = "idle"
    /\ nextHint = 1
    /\ flushed = {}

\* `start`: the first submission creates both threads or gives up for good.
Start ==
    /\ workers = "unset"
    /\ workers' \in {"running", "failed"}
    /\ UNCHANGED <<entries, pending, closing, channel, thread, waiter, closer,
                   nextHint, flushed>>

\* `submit` under the mutex.  A refused hint changes nothing.  A full channel
\* rolls both counters back, which restores the previous state.
Submit(k) ==
    LET old == IF k \in DOMAIN entries THEN entries[k] ELSE NewEntry
    IN  /\ workers = "running"
        /\ nextHint <= MaxHints
        /\ ~closing
        /\ pending < CAPACITY
        /\ k \in DOMAIN entries \/ Cardinality(DOMAIN entries) < CAPACITY
        /\ Len(channel) < CAPACITY
        /\ entries' = With(entries, k, [old EXCEPT !.pending = @ + 1])
        /\ pending' = pending + 1
        /\ channel' = Append(channel, [key |-> k, hint |-> nextHint])
        /\ nextHint' = nextHint + 1
        /\ UNCHANGED <<closing, workers, thread, waiter, closer, flushed>>

\* A worker takes the oldest command, holding only the receiver mutex.
Receive(w) ==
    /\ workers \in {"running", "dropped"}
    /\ thread[w].at = "recv"
    /\ channel # <<>>
    /\ thread' = [thread EXCEPT ![w] =
           [at |-> "grace", key |-> Head(channel).key,
            hint |-> Head(channel).hint]]
    /\ channel' = Tail(channel)
    /\ UNCHANGED <<entries, pending, closing, workers, waiter, closer,
                   nextHint, flushed>>

\* Mutated form: closing does not cut the grace period short.
GraceIgnoresClosing(w) ==
    /\ thread[w].at = "grace"
    /\ thread[w].key \in DOMAIN entries /\ entries[thread[w].key].urgent
    /\ thread' = [thread EXCEPT ![w].at = "flush"]
    /\ UNCHANGED <<entries, pending, closing, channel, workers, waiter, closer,
                   nextHint, flushed>>

\* The grace period of a command ends early: the queue is closing, or a
\* waiter marked the key urgent.
GraceBypassed(w) ==
    /\ thread[w].at = "grace"
    /\ \/ closing
       \/ thread[w].key \in DOMAIN entries /\ entries[thread[w].key].urgent
    /\ thread' = [thread EXCEPT ![w].at = "flush"]
    /\ UNCHANGED <<entries, pending, closing, channel, workers, waiter, closer,
                   nextHint, flushed>>

\* ... or its deadline `ready` has passed.
GraceElapsed(w) ==
    /\ thread[w].at = "grace"
    /\ thread' = [thread EXCEPT ![w].at = "flush"]
    /\ UNCHANGED <<entries, pending, closing, channel, workers, waiter, closer,
                   nextHint, flushed>>

\* `flush` outside the mutex; the outcome is up to the file system.
Flush(w, e) ==
    /\ thread[w].at = "flush"
    /\ thread' = [thread EXCEPT ![w] =
           [at |-> "publish", key |-> @.key, hint |-> @.hint, error |-> e]]
    /\ flushed' = flushed \cup {thread[w].hint}
    /\ UNCHANGED <<entries, pending, closing, channel, workers, waiter, closer,
                   nextHint>>

\* Mutated form: a later success drops the handle kept for a failure.
SettledDropsFile(entry, h, e) ==
    [entry EXCEPT !.pending = @ - 1,
                  !.error = IF @ = 0 THEN e ELSE @,
                  !.failed_file = IF e # 0 THEN h ELSE 0]

\* The entry after the completion of hint h with outcome e: the first error
\* sticks, the handle of the last failure replaces the previous one.
Settled(entry, h, e) ==
    [entry EXCEPT !.pending = @ - 1,
                  !.error = IF @ = 0 THEN e ELSE @,
                  !.failed_file = IF e # 0 THEN h ELSE @]

\* Mutated form: an entry without pending hints is removed, error or not.
CompleteForgetsError(w) ==
    LET k == thread[w].key
        entry == Settled(entries[k], thread[w].hint, thread[w].error)
    IN  /\ thread[w].at = "publish"
        /\ entries' = IF entry.pending = 0
                      THEN Without(entries, k)
                      ELSE [entries EXCEPT ![k] = entry]
        /\ pending' = pending - 1
        /\ thread' = [thread EXCEPT ![w] = Idle]
        /\ UNCHANGED <<closing, channel, workers, waiter, closer, nextHint,
                       flushed>>

\* The worker publishes the completion under the mutex.
Complete(w) ==
    LET k == thread[w].key
        entry == Settled(entries[k], thread[w].hint, thread[w].error)
    IN  /\ thread[w].at = "publish"
        /\ entries' = IF entry.pending = 0 /\ entry.error = 0
                      THEN Without(entries, k)
                      ELSE [entries EXCEPT ![k] = entry]
        /\ pending' = pending - 1
        /\ thread' = [thread EXCEPT ![w] = Idle]
        /\ UNCHANGED <<closing, channel, workers, waiter, closer, nextHint,
                       flushed>>

\* `wait` on a key with pending hints marks it urgent and sleeps.  The hints
\* accepted before the call are remembered for the property only.
WaitBegin(c, k) ==
    /\ waiter[c].at = "idle"
    /\ workers # "dropped"
    /\ k \in DOMAIN entries
    /\ entries[k].pending # 0
    /\ entries' = [entries EXCEPT ![k].urgent = TRUE]
    /\ waiter' = [waiter EXCEPT ![c] =
           [at |-> "waiting", key |-> k, before |-> Outstanding(k)]]
    /\ UNCHANGED <<pending, closing, channel, workers, thread, closer,
                   nextHint, flushed>>

\* What `wait` returns when no hint of the key is pending.
Reported(k) == IF k \in DOMAIN entries THEN entries[k].error ELSE 0

\* Mutated form: any notification ends the wait (`if` instead of `while`).
WaitReturnOnNotify(c) ==
    LET k == waiter[c].key
    IN  /\ waiter[c].at = "waiting"
        /\ entries' = Without(entries, k)
        /\ waiter' = [waiter EXCEPT ![c] = Resting(Reported(k))]
        /\ UNCHANGED <<pending, closing, channel, workers, thread, closer,
                       nextHint, flushed>>

\* The tail of `wait`: the entry is removed and its error handed out.
WaitReturn(c) ==
    LET k == waiter[c].key
    IN  /\ waiter[c].at = "waiting"
        /\ k \in DOMAIN entries => entries[k].pending = 0
        /\ entries' = Without(entries, k)
        /\ waiter' = [waiter EXCEPT ![c] = Resting(Reported(k))]
        /\ UNCHANGED <<pending, closing, channel, workers, thread, closer,
                       nextHint, flushed>>

\* `wait` on a key with nothing pending returns in the same critical section.
WaitAtOnce(c, k) ==
    /\ waiter[c].at = "idle"
    /\ workers # "dropped"
    /\ k \in DOMAIN entries => entries[k].pending = 0
    /\ entries' = Without(entries, k)
    /\ waiter' = [waiter EXCEPT ![c] = Resting(Reported(k))]
    /\ UNCHANGED <<pending, closing, channel, workers, thread, closer,
                   nextHint, flushed>>

\* `shutdown` refuses further hints and sleeps until none is pending.
ShutdownBegin ==
    /\ closer = "idle"
    /\ workers # "dropped"
    /\ closing' = TRUE
    /\ closer' = IF pending = 0 THEN "returned" ELSE "waiting"
    /\ UNCHANGED <<entries, pending, channel, workers, thread, waiter,
                   nextHint, flushed>>

\* Mutated form: shutdown returns on the first notification.
ShutdownReturnOnNotify ==
    /\ closer = "waiting"
    /\ closer' = "returned"
    /\ UNCHANGED <<entries, pending, closing, channel, workers, thread, waiter,
                   nextHint, flushed>>

ShutdownReturn ==
    /\ closer = "waiting"
    /\ pending = 0
    /\ closer' = "returned"
    /\ UNCHANGED <<entries, pending, closing, channel, workers, thread, waiter,
                   nextHint, flushed>>

\* Dropping the queue needs exclusive ownership: no call is inside it.
DropQueue ==
    /\ workers = "running"
    /\ closer # "waiting"
    /\ \A c \in Client : waiter[c].at = "idle"
    /\ workers' = "dropped"
    /\ UNCHANGED <<entries, pending, closing, channel, thread, waiter, closer,
                   nextHint, flushed>>

\* `recv` fails once the sender is dropped and the channel is empty.
ThreadExit(w) ==
    /\ workers = "dropped"
    /\ channel = <<>>
    /\ thread[w].at = "recv"
    /\ thread' = [thread EXCEPT ![w] = [at |-> "exited"]]
    /\ UNCHANGED <<entries, pending, closing, channel, workers, waiter, closer,
                   nextHint, flushed>>

WorkerStep(w) ==
    \/ Receive(w)
    \/ GraceBypassed(w)
    \/ \E e \in Errors \cup {0} : Flush(w, e)
    \/ Complete(w)
    \/ ThreadExit(w)

Next ==
    \/ Start
    \/ \E k \in Key : Submit(k)
    \/ \E w \in Worker : WorkerStep(w)
    \/ \E w \in Worker : GraceElapsed(w)
    \/ \E c \in Client : WaitReturn(c) \/ \E k \in Key : WaitBegin(c, k) \/ WaitAtOnce(c, k)
    \/ ShutdownBegin
    \/ ShutdownReturn
    \/ DropQueue

Spec == Init /\ [][Next]_vars

\* The operating system runs every thread and wakes every condition variable
\* waiter whose condition holds.  No fairness is assumed of GraceElapsed: what
\* is proved live below does not depend on a deadline passing.
Fairness ==
    /\ \A w \in Worker : WF_vars(WorkerStep(w))
    /\ \A c \in Client : WF_vars(WaitReturn(c))
    /\ WF_vars(ShutdownReturn)

FairSpec == Spec /\ Fairness
-----------------------------------------------------------------------------
ThreadState ==
    [at : {"recv", "exited"}]
        \cup [at : {"grace", "flush"}, key : Key, hint : Hint]
        \cup [at : {"publish"}, key : Key, hint : Hint, error : Errors \cup {0}]

WaiterState ==
    [at : {"idle"}, result : Errors \cup {0}]
        \cup [at : {"waiting"}, key : Key, before : SUBSET Hint]

\* Every variable keeps its type; in particular no counter underflows.
TypeOK ==
    /\ DOMAIN entries \subseteq Key
    /\ \A k \in DOMAIN entries : entries[k] \in Entry
    /\ pending \in Nat
    /\ closing \in BOOLEAN
    /\ channel \in Seq(Command)
    /\ workers \in {"unset", "running", "failed", "dropped"}
    /\ thread \in [Worker -> ThreadState]
    /\ waiter \in [Client -> WaiterState]
    /\ closer \in {"idle", "waiting", "returned"}
    /\ nextHint \in 1..(MaxHints + 1)
    /\ flushed \subseteq Hint

\* The per-key and the global counters of the mutex-guarded state count
\* exactly the commands in the channel and in the hands of the workers, and an
\* entry is present for each of them: `entries.get_mut(&key).unwrap()` in the
\* worker cannot fail although waiters remove entries, no subtraction can
\* underflow, and an entry without pending hints exists only for its error.
Accounting ==
    /\ pending = Len(channel) + Cardinality(Busy)
    /\ \A k \in Key :
         IF k \in DOMAIN entries
         THEN /\ entries[k].pending = Cardinality(Outstanding(k))
              /\ entries[k].pending = 0 => entries[k].error # 0
         ELSE Outstanding(k) = {}

\* A recorded failure keeps a handle of its inode open until it is reported,
\* so the file id cannot be reused by another inode that would inherit it.
FailurePinsFile ==
    \A k \in DOMAIN entries :
        entries[k].error # 0 <=> entries[k].failed_file # 0

\* A recorded failure leaves the table only through a `wait` on its key that
\* returns it: neither a later successful flush, nor a later hint, nor the
\* waiter of another key can swallow it.
FailureReachesAWaiter ==
    [][\A k \in DOMAIN entries :
          \/ entries[k].error = 0
          \/ k \in DOMAIN entries' /\ entries'[k].error = entries[k].error
          \/ \E c \in Client : /\ WaitReturn(c) \/ WaitAtOnce(c, k)
                               /\ waiter'[c].result = entries[k].error]_vars

\* `wait` returns only after the flush of every hint for the key that had been
\* accepted when it was called.
WaitCoversEarlierHints ==
    [][\A c \in Client : WaitReturn(c) => waiter[c].before \subseteq flushed]_vars

\* When `shutdown` has returned, or the dropped queue has joined its threads,
\* every hint that was ever accepted has been flushed.
Drained ==
    (closer = "returned" \/ \A w \in Worker : thread[w].at = "exited")
        => flushed = 1..(nextHint - 1)

\* No two commands carry the same handle, and every handle was issued.
HintsDistinct ==
    /\ \A i, j \in DOMAIN channel : channel[i].hint = channel[j].hint => i = j
    /\ \A i \in DOMAIN channel : channel[i].hint < nextHint
    /\ \A w \in Busy : thread[w].hint < nextHint
    /\ \A w \in Busy, i \in DOMAIN channel : channel[i].hint # thread[w].hint
    /\ \A v, w \in Busy : thread[v].hint = thread[w].hint => v = w

\* `shutdown` returns, without waiting for any grace period to elapse.
ShutdownReturns == closer = "waiting" ~> closer = "returned"
============================================================================
