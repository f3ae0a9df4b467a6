--------------------------- MODULE SessionProofs ----------------------------
(***************************************************************************)
(* NothingCreatedAfterStop for any number of connections, watchers and     *)
(* creating threads, and any number of concurrent callers of stop.         *)
(*                                                                         *)
(* stopping is set with all locks held, but the locks are taken one after  *)
(* the other and the creators test the flag before they take theirs back.  *)
(* The proof needs to know who holds what at every step of stop: the       *)
(* manager mutex from LockManager on and every gate at the end (Stoppers), *)
(* and that a creator holds its own gate, or the pool the manager mutex,   *)
(* for as long as it creates (Creators).                                   *)
(***************************************************************************)
EXTENDS Session, TLAPS

Types ==
    /\ DOMAIN pc = Thread
    /\ manager \in Thread \cup {"free"}
    /\ gate \in [Creator -> Thread \cup {"free"}]
    /\ stopping \in BOOLEAN

\* A caller of stop that is past LockManager owns the manager mutex, and one
\* that drains owns every gate.
Stoppers ==
    \A t \in Conn \cup Watcher :
        /\ pc[t] \in {"gates", "drain"} => manager = t
        /\ pc[t] = "drain" => \A k \in Creator : gate[k] = t

\* Whoever creates holds the lock that stop waits for.
Creators ==
    /\ \A k \in Creator : pc[k] = "create" => gate[k] = k
    /\ pc["pool"] = "create" => manager = "pool"

IInv == Types /\ Stoppers /\ Creators /\ NothingCreatedAfterStop
-----------------------------------------------------------------------------
\* The threads, by name.
LEMMA Threads ==
    /\ "main" \in Thread /\ "pool" \in Thread
    /\ "free" \notin Thread
    /\ \A t \in Conn \cup Watcher : t \in Thread /\ t \notin Creator \cup {"main", "pool", "free"}
    /\ \A k \in Creator : k \in Thread /\ k \notin {"main", "pool", "free"}
BY SessionAssumption DEF Thread

\* A step that moves threads only to places without a lock, and changes no
\* lock and no flag.
LEMMA QuietStep ==
    ASSUME IInv, UNCHANGED <<manager, gate, stopping>>, DOMAIN pc' = Thread,
           \A t \in Thread : pc'[t] = pc[t] \/ pc'[t] \notin {"gates", "drain", "create"}
    PROVE  IInv'
<1>1. Types'
  BY DEF IInv, Types
<1>2. Stoppers' /\ Creators' /\ NothingCreatedAfterStop'
  BY Threads DEF IInv, Stoppers, Creators, NothingCreatedAfterStop
<1> QED
  BY <1>1, <1>2 DEF IInv

\* notify_all sends sleepers to take the mutex again.
LEMMA NotifyFacts ==
    ASSUME IInv, NEW t \in Thread, NEW step, Notify(t, step)
    PROVE  /\ DOMAIN pc' = Thread /\ pc'[t] = step
           /\ \A u \in Thread \ {t} : pc'[u] = pc[u] \/ pc'[u] \in {"await", "lock"}
BY DEF Notify

\* Taking a connection of the pipe.
LEMMA DialFacts ==
    ASSUME IInv, NEW t \in Thread, NEW client, NEW step, Dial(t, client, step)
    PROVE  /\ DOMAIN pc' = Thread
           /\ \A u \in Thread : pc'[u] = pc[u] \/ pc'[u] \in {step, "accepted"}
BY Threads DEF Dial, Goto, IInv, Types

\* The first state.
LEMMA InitIInv == SessionInit => IInv
<1> SUFFICES ASSUME SessionInit PROVE IInv
  OBVIOUS
<1>1. Types
  BY DEF SessionInit, Types
<1>2. \A t \in Thread : pc[t] \in {"out", "watch", "top", "lock"}
  BY DEF SessionInit
<1>3. Stoppers /\ Creators /\ NothingCreatedAfterStop
  BY <1>2, Threads DEF Stoppers, Creators, NothingCreatedAfterStop
<1> QED
  BY <1>1, <1>3 DEF IInv

\* The accept loop.
LEMMA MainStep ==
    ASSUME IInv, Main
    PROVE  IInv'
<1>1. CASE Check \/ Accept
  <2>1. /\ UNCHANGED <<manager, gate, stopping>>
        /\ pc' = pc \/ \E step \in {"returned", "accept", "blocked", "accepted"} :
                           pc' = [pc EXCEPT !["main"] = step]
    BY <1>1 DEF Check, Accept, Goto, lockVars
  <2> QED
    BY <2>1, QuietStep DEF IInv, Types
<1>2. CASE Dispatch
  <2>1. /\ UNCHANGED <<manager, gate, stopping>> /\ DOMAIN pc' = Thread
        /\ \A t \in Thread : pc'[t] = pc[t] \/ pc'[t] \in {"returned", "top", "read", "gone"}
    BY <1>2 DEF Dispatch, lockVars
  <2> QED
    BY <2>1, QuietStep
<1> QED
  BY <1>1, <1>2 DEF Main

\* The serving threads.
LEMMA ConnectionStep ==
    ASSUME IInv, NEW c \in Conn, Connect(c) \/ Read(c) \/ Serve(c)
    PROVE  IInv'
<1>0. c \in Thread
  BY Threads
<1>1. UNCHANGED <<manager, gate, stopping>>
  BY DEF Connect, Read, Serve, Handle, Await, Reply, Disconnect, End, lockVars
<1>2. CASE Connect(c)
  BY <1>0, <1>1, <1>2, DialFacts, QuietStep DEF Connect
<1>3. CASE Read(c) \/ Handle(c) \/ Await(c) \/ Disconnect(c)
  <2>1. \E step \in {"end", "lock", "await", "notify", "shutdown", "asleep", "ended"} :
            pc' = [pc EXCEPT ![c] = step]
    BY <1>3 DEF Read, Handle, Await, Disconnect, Goto
  <2> QED
    BY <1>1, <2>1, QuietStep DEF IInv, Types
<1>4. CASE Reply(c) \/ End(c)
  <2>1. PICK step \in {"read", "stop", "gone"} : Notify(c, step)
    BY <1>4 DEF Reply, End
  <2> QED
    BY <1>0, <1>1, <2>1, NotifyFacts, QuietStep
<1> QED
  BY <1>2, <1>3, <1>4 DEF Serve

\* The exit watchers.
LEMMA WatcherStep ==
    ASSUME IInv, NEW w \in Watcher, Exited(w) \/ Tell(w) \/ CallStop(w)
    PROVE  IInv'
<1>0. w \in Thread
  BY Threads
<1>1. UNCHANGED <<manager, gate, stopping>>
  BY DEF Exited, Tell, CallStop, lockVars
<1>2. CASE Exited(w) \/ CallStop(w)
  <2>1. \E step \in {"notify", "stop"} : pc' = [pc EXCEPT ![w] = step]
    BY <1>2 DEF Exited, CallStop, Goto
  <2> QED
    BY <1>1, <2>1, QuietStep DEF IInv, Types
<1>3. CASE Tell(w)
  <2>1. PICK step \in {"stop", "done"} : Notify(w, step)
    BY <1>3 DEF Tell
  <2> QED
    BY <1>0, <1>1, <2>1, NotifyFacts, QuietStep
<1> QED
  BY <1>2, <1>3

\* A thread that creates native processes.
LEMMA ProduceStep ==
    ASSUME IInv, NEW k \in Creator, Produce(k)
    PROVE  IInv'
<1>0. k \in Thread /\ k \notin Conn \cup Watcher \cup {"main", "pool", "free"}
  BY Threads
<1>1. CASE Maintain(k) \/ (TakeGate(k) /\ stopping)
  <2>1. /\ UNCHANGED <<manager, gate, stopping>>
        /\ \E step \in {"gone", "gate", "asleep", "lock"} : pc' = [pc EXCEPT ![k] = step]
    BY <1>1 DEF Maintain, TakeGate, Goto, lockVars
  <2> QED
    BY <2>1, QuietStep DEF IInv, Types
<1>2. CASE TakeGate(k) /\ ~stopping
  <2>1. /\ gate[k] = "free" /\ gate' = [gate EXCEPT ![k] = k]
        /\ pc' = [pc EXCEPT ![k] = "create"] /\ UNCHANGED <<manager, stopping>>
    BY <1>2 DEF TakeGate, Goto
  <2>2. Types'
    BY <1>0, <2>1 DEF IInv, Types
  <2>3. Stoppers'
    BY <1>0, <2>1, Threads DEF IInv, Types, Stoppers
  <2>4. Creators' /\ NothingCreatedAfterStop'
    BY <1>0, <1>2, <2>1 DEF IInv, Types, Creators, NothingCreatedAfterStop
  <2> QED
    BY <2>2, <2>3, <2>4 DEF IInv
<1>3. CASE Create(k)
  <2>1. /\ pc[k] = "create" /\ gate' = [gate EXCEPT ![k] = "free"]
        /\ pc' = [pc EXCEPT ![k] = "lock"] /\ UNCHANGED <<manager, stopping>>
    BY <1>3 DEF Create, At, Goto
  <2>2. Types'
    BY <2>1 DEF IInv, Types
  <2>3. Stoppers'
    <3>1. gate[k] = k
      BY <2>1 DEF IInv, Creators
    <3> QED
      BY <1>0, <2>1, <3>1 DEF IInv, Types, Stoppers
  <2>4. Creators' /\ NothingCreatedAfterStop'
    BY <1>0, <2>1 DEF IInv, Types, Creators, NothingCreatedAfterStop
  <2> QED
    BY <2>2, <2>3, <2>4 DEF IInv
<1> QED
  BY <1>1, <1>2, <1>3 DEF Produce

\* The worker pool creates under the manager mutex.
LEMMA PoolStep ==
    ASSUME IInv, MaintainPool \/ SpawnWorker
    PROVE  IInv'
<1>0. "pool" \in Thread /\ "pool" \notin Creator \cup Conn \cup Watcher
  BY Threads
<1>1. CASE MaintainPool /\ UNCHANGED manager
  <2>1. /\ UNCHANGED <<manager, gate, stopping>>
        /\ \E step \in {"gone", "asleep"} : pc' = [pc EXCEPT !["pool"] = step]
    BY <1>1 DEF MaintainPool, Goto
  <2> QED
    BY <2>1, QuietStep DEF IInv, Types
<1>2. CASE MaintainPool /\ manager' # manager
  <2>1. /\ ~stopping /\ manager = "free" /\ manager' = "pool"
        /\ pc' = [pc EXCEPT !["pool"] = "create"] /\ UNCHANGED <<gate, stopping>>
    BY <1>2 DEF MaintainPool, Goto
  <2> QED
    BY <1>0, <2>1, Threads DEF IInv, Types, Stoppers, Creators, NothingCreatedAfterStop
<1>3. CASE SpawnWorker
  <2>1. /\ pc["pool"] = "create" /\ manager' = "free"
        /\ pc' = [pc EXCEPT !["pool"] = "lock"] /\ UNCHANGED <<gate, stopping>>
    BY <1>3 DEF SpawnWorker, At, Goto
  <2>2. manager = "pool"
    BY <2>1 DEF IInv, Creators
  <2> QED
    BY <1>0, <2>1, <2>2 DEF IInv, Types, Stoppers, Creators, NothingCreatedAfterStop
<1> QED
  BY <1>1, <1>2, <1>3

\* Service::stop.
LEMMA StopStep ==
    ASSUME IInv, NEW t \in Conn \cup Watcher, Stopping(t)
    PROVE  IInv'
<1>0. t \in Thread /\ t \notin Creator \cup {"main", "pool", "free"}
  BY Threads
<1>1. CASE Wake(t)
  <2>1. UNCHANGED <<manager, gate, stopping>>
    BY <1>1 DEF Wake, lockVars
  <2>2. PICK step \in {"hang up"} : Dial(t, "wake", step)
    BY <1>1 DEF Wake
  <2>3. /\ DOMAIN pc' = Thread
        /\ \A u \in Thread : pc'[u] = pc[u] \/ pc'[u] \in {step, "accepted"}
    BY <1>0, <2>2, DialFacts
  <2> QED
    BY <2>1, <2>2, <2>3, QuietStep
<1>2. CASE HangUp(t)
  <2>1. /\ UNCHANGED <<manager, gate, stopping>>
        /\ \E step \in {"end", "done"} : pc' = [pc EXCEPT ![t] = step]
    BY <1>2 DEF HangUp, After, Goto, lockVars
  <2> QED
    BY <2>1, QuietStep DEF IInv, Types
<1>3. CASE LockManager(t)
  <2>1. /\ manager = "free" /\ manager' = t
        /\ pc' = [pc EXCEPT ![t] = "gates"] /\ UNCHANGED <<gate, stopping>>
    BY <1>3 DEF LockManager, Goto
  <2>2. /\ \A u \in Conn \cup Watcher : pc[u] \notin {"gates", "drain"}
        /\ pc["pool"] # "create"
    BY <2>1, Threads DEF IInv, Stoppers, Creators
  <2>3. pc'[t] = "gates" /\ \A u \in Thread \ {t} : pc'[u] = pc[u]
    BY <1>0, <2>1 DEF IInv, Types
  <2>4. Types'
    BY <1>0, <2>1 DEF IInv, Types
  <2>5. Stoppers'
    BY <2>1, <2>2, <2>3, Threads DEF Stoppers
  <2>6. Creators' /\ NothingCreatedAfterStop'
    BY <1>0, <2>1, <2>2, <2>3, Threads DEF IInv, Creators, NothingCreatedAfterStop
  <2> QED
    BY <2>4, <2>5, <2>6 DEF IInv
<1>4. CASE LockGates(t)
  <2>0. /\ pc[t] = "gates" /\ manager = t /\ UNCHANGED <<manager, stopping>>
    BY <1>4 DEF LockGates, At, IInv, Stoppers
  <2>1. CASE UNCHANGED gate
    <3>1. pc' = pc \/ ((\A k \in Creator : gate[k] = t) /\ pc' = [pc EXCEPT ![t] = "drain"])
      BY <1>4 DEF LockGates, Goto
    <3> QED
      BY <1>0, <2>0, <2>1, <3>1, Threads
         DEF IInv, Types, Stoppers, Creators, NothingCreatedAfterStop
  <2>2. CASE gate' # gate
    <3>1. PICK k \in Creator : gate[k] = "free" /\ gate' = [gate EXCEPT ![k] = t] /\ UNCHANGED pc
      BY <1>4, <2>2 DEF LockGates
    <3> QED
      BY <1>0, <2>0, <3>1, Threads
         DEF IInv, Types, Stoppers, Creators, NothingCreatedAfterStop
  <2> QED
    BY <2>1, <2>2
<1>5. CASE Finish(t)
  <2> DEFINE step == IF stopping THEN After(t) ELSE "wake"
  <2>1. /\ pc[t] = "drain" /\ stopping' = TRUE /\ manager' = "free" /\ Notify(t, step)
        /\ gate' = [k \in Creator |-> IF gate[k] = t THEN "free" ELSE gate[k]]
    BY <1>5 DEF Finish, At
  <2>2. manager = t /\ \A k \in Creator : gate[k] = t
    BY <2>1 DEF IInv, Stoppers
  <2>3. step \in {"end", "done", "wake"}
    BY DEF After
  <2> HIDE DEF step
  <2>4. /\ DOMAIN pc' = Thread /\ pc'[t] = step
        /\ \A u \in Thread \ {t} : pc'[u] = pc[u] \/ pc'[u] \in {"await", "lock"}
    BY <1>0, <2>1, NotifyFacts
  <2>5. \A u \in Conn \cup Watcher : pc'[u] \notin {"gates", "drain"}
    BY <2>2, <2>3, <2>4, Threads DEF IInv, Stoppers
  <2>6. \A k \in Creator \cup {"pool"} : pc'[k] # "create"
    BY <1>0, <2>2, <2>4, Threads DEF IInv, Creators
  <2>7. Types'
    BY <2>1, <2>4 DEF IInv, Types
  <2> QED
    BY <2>5, <2>6, <2>7 DEF IInv, Stoppers, Creators, NothingCreatedAfterStop
<1> QED
  BY <1>1, <1>2, <1>3, <1>4, <1>5 DEF Stopping
-----------------------------------------------------------------------------
\* Once Service::stop has set the flag no thread of init creates a native
\* process any more, whichever caller stopped the session and however many
\* did so at once: nothing can be created outside the Job that closes with
\* the session.
THEOREM StopCorrect == SessionSpec => []NothingCreatedAfterStop
<1>1. IInv /\ [SessionNext]_sessionVars => IInv'
  <2> SUFFICES ASSUME IInv, [SessionNext]_sessionVars PROVE IInv'
    OBVIOUS
  <2>1. CASE UNCHANGED sessionVars
    BY <2>1, QuietStep DEF sessionVars, IInv, Types
  <2>2. CASE SessionNext
    BY <2>2, MainStep, ConnectionStep, WatcherStep, ProduceStep, PoolStep, StopStep
       DEF SessionNext
  <2> QED
    BY <2>1, <2>2
<1>2. IInv => NothingCreatedAfterStop
  BY DEF IInv
<1> QED
  BY <1>1, <1>2, InitIInv, PTL DEF SessionSpec
=============================================================================
