------------------------------ MODULE Session -------------------------------
(***************************************************************************)
(* The threads of an init session and how it stops (apps/init/src/main.rs, *)
(* crates/host-win/src/pipes.rs): the accept loop, the serving threads     *)
(* with their Await requests, the exit watchers, the threads that create   *)
(* native processes, and the callers of Service::stop.                     *)
(*                                                                         *)
(* What the manager decides is left to StateManager: here an Await request *)
(* has its answer or not, and any change of the manager may give it.  A    *)
(* section under the manager mutex that takes no other lock is one step.   *)
(* Writeback::shutdown returns (ShutdownReturns of module Writeback).      *)
(***************************************************************************)
EXTENDS Naturals, FiniteSets

CONSTANTS
    Conn,               \* clients that connect
    Watcher,            \* exit watchers of workers and of the controller
    Creator,            \* native fork and exec pool threads, each with its gate
    MAX_CONNECTIONS     \* 128 in the code

ASSUME SessionAssumption ==
    /\ MAX_CONNECTIONS \in Nat
    /\ {"main", "pool", "wake", "free"} \cap (Conn \cup Watcher \cup Creator) = {}
    /\ Creator \cap (Conn \cup Watcher) = {}

Thread == Conn \cup Watcher \cup Creator \cup {"main", "pool"}

VARIABLES
    pc,                 \* where each thread is
    manager,            \* owner of the manager mutex
    gate,               \* owner of each creation gate
    answer,             \* connections whose Await request has its answer
    stopping,
    pending,            \* the listening pipe instance and its client
    closed              \* the client of that instance is gone again

lockVars == <<manager, gate>>
pipeVars == <<pending, closed>>
sessionVars == <<pc, manager, gate, answer, stopping, pending, closed>>

SessionInit ==
    /\ pc = [t \in Thread |->
                CASE t \in Conn -> "out" [] t \in Watcher -> "watch"
                  [] t = "main" -> "top" [] OTHER -> "lock"]
    /\ manager = "free"
    /\ gate = [k \in Creator |-> "free"]
    /\ answer = {}
    /\ stopping = FALSE
    /\ pending = "free"
    /\ closed = FALSE

Running == pc["main"] # "returned"

At(t, step) == Running /\ pc[t] = step

Goto(t, step) == pc' = [pc EXCEPT ![t] = step]

\* notify_all, and where the notifying thread goes.  A woken thread takes the
\* manager mutex again.
Notify(t, step) ==
    pc' = [u \in Thread |->
              CASE u = t -> step
                [] u # t /\ pc[u] = "asleep" -> IF u \in Conn THEN "await" ELSE "lock"
                [] OTHER -> pc[u]]
-----------------------------------------------------------------------------
(* The listener.  A client can connect to the pending instance before the   *)
(* server waits on it, and close it again.                                  *)

\* CreateFile on the pipe name; a busy instance is waited for.
Dial(t, client, step) ==
    /\ pending = "free"
    /\ IF pc["main"] = "blocked"
       THEN /\ pc' = [pc EXCEPT ![t] = step, !["main"] = "accepted"]
            /\ pending' = client /\ closed' = FALSE
       ELSE /\ Goto(t, step)
            /\ pending' = client /\ closed' = FALSE

\* accept: ConnectNamedPipe on the pending instance.  An empty instance whose
\* client is gone is replaced and waited on again.
Accept ==
    /\ At("main", "accept")
    /\ \/ /\ pending = "free"
          /\ Goto("main", "blocked")
          /\ UNCHANGED pipeVars
       \/ /\ pending # "free" /\ ~closed
          /\ Goto("main", "accepted")
          /\ UNCHANGED pipeVars
       \/ /\ pending # "free" /\ closed
          /\ pending' = "free" /\ closed' = FALSE
          /\ UNCHANGED pc
    /\ UNCHANGED <<lockVars, answer, stopping>>

\* The loop condition of main.
Check ==
    /\ At("main", "top")
    /\ Goto("main", IF stopping THEN "returned" ELSE "accept")
    /\ UNCHANGED <<lockVars, answer, stopping, pipeVars>>

Served == {c \in Conn : pc[c] \notin {"out", "dialled", "gone"}}

\* After accept: stop, drop the connection over the limit, or serve it.
Dispatch ==
    /\ At("main", "accepted")
    /\ pending' = "free" /\ closed' = FALSE
    /\ pc' = [t \in Thread |->
                 IF t = "main" THEN IF stopping THEN "returned" ELSE "top"
                 ELSE IF t = pending /\ ~stopping
                      THEN IF Cardinality(Served) < MAX_CONNECTIONS THEN "read"
                           ELSE "gone"
                 ELSE pc[t]]
    /\ UNCHANGED <<lockVars, answer, stopping>>

Connect(c) ==
    /\ At(c, "out")
    /\ Dial(c, c, "dialled")
    /\ UNCHANGED <<lockVars, answer, stopping>>
-----------------------------------------------------------------------------
(* Serving threads *)

\* A change of the manager: it may be what awaiting requests wait for.
Awaiting == {c \in Conn : pc[c] \in {"await", "asleep"}}
Change == answer' \in {answer, answer \cup Awaiting}

\* The loop of serve: the next request, or the end of the connection.  What
\* an Await request asks for may be there already.
Read(c) ==
    /\ At(c, "read")
    /\ \/ Goto(c, "end") /\ UNCHANGED answer
       \/ ~stopping /\ Goto(c, "lock") /\ UNCHANGED answer
       \/ ~stopping /\ Goto(c, "await") /\ answer' \in {answer, answer \cup {c}}
    /\ UNCHANGED <<lockVars, stopping, pipeVars>>

\* manager.handle of a request that is answered at once; it may complete what
\* others await.  A Shutdown request goes on to stop.
Handle(c) ==
    /\ At(c, "lock")
    /\ manager = "free"
    /\ Change
    /\ \/ Goto(c, "notify")
       \/ ~stopping /\ Goto(c, "shutdown")
    /\ UNCHANGED <<lockVars, stopping, pipeVars>>

\* An Await request: it ends with its answer or the session, else it sleeps.
Await(c) ==
    /\ At(c, "await")
    /\ manager = "free"
    /\ IF stopping \/ c \in answer
       THEN answer' = answer \ {c} /\ Goto(c, "notify")
       ELSE UNCHANGED answer /\ Goto(c, "asleep")
    /\ UNCHANGED <<lockVars, stopping, pipeVars>>

\* notify_all and the reply; then the next request, or stop.
Reply(c) ==
    /\ \/ At(c, "notify") /\ Notify(c, "read")
       \/ At(c, "shutdown") /\ Notify(c, "stop")
    /\ UNCHANGED <<lockVars, answer, stopping, pipeVars>>

\* disconnect, then notify_all.
Disconnect(c) ==
    /\ At(c, "end")
    /\ manager = "free"
    /\ Change
    /\ Goto(c, "ended")
    /\ UNCHANGED <<lockVars, stopping, pipeVars>>

End(c) ==
    /\ At(c, "ended")
    /\ Notify(c, "gone")
    /\ UNCHANGED <<lockVars, answer, stopping, pipeVars>>
-----------------------------------------------------------------------------
(* Exit watchers *)

\* process_exited_with_status under the mutex, ...
Exited(w) ==
    /\ At(w, "watch")
    /\ manager = "free"
    /\ Change
    /\ Goto(w, "notify")
    /\ UNCHANGED <<lockVars, stopping, pipeVars>>

\* Mutated form: the watcher does not notify.
TellSilent(w) ==
    /\ At(w, "notify")
    /\ Goto(w, "stop") \/ Goto(w, "done")
    /\ UNCHANGED <<lockVars, answer, stopping, pipeVars>>

\* ... notify_all after it; the death of a desktop's init stops the session.
Tell(w) ==
    /\ At(w, "notify")
    /\ Notify(w, "stop") \/ Notify(w, "done")
    /\ UNCHANGED <<lockVars, answer, stopping, pipeVars>>
-----------------------------------------------------------------------------
(* Threads that create native processes *)

\* One pass of a native pool thread under the manager mutex: end, create, or
\* sleep.  A process created before is published here.
Maintain(k) ==
    /\ At(k, "lock")
    /\ manager = "free"
    /\ IF stopping THEN Goto(k, "gone") ELSE Goto(k, "gate") \/ Goto(k, "asleep")
    /\ UNCHANGED <<lockVars, answer, stopping, pipeVars>>

\* The gate, and under it the flag.
TakeGate(k) ==
    /\ At(k, "gate")
    /\ gate[k] = "free"
    /\ IF stopping THEN Goto(k, "lock") /\ UNCHANGED gate
       ELSE Goto(k, "create") /\ gate' = [gate EXCEPT ![k] = k]
    /\ UNCHANGED <<manager, answer, stopping, pipeVars>>

\* Mutated form: the process is published before the gate is released.
CreateAndPublish(k) ==
    /\ At(k, "create")
    /\ manager = "free"
    /\ gate' = [gate EXCEPT ![k] = "free"]
    /\ Goto(k, "lock")
    /\ UNCHANGED <<manager, answer, stopping, pipeVars>>

\* The process exists and is in the Job: the gate is released before the
\* manager mutex is taken to publish it.
Create(k) ==
    /\ At(k, "create")
    /\ gate' = [gate EXCEPT ![k] = "free"]
    /\ Goto(k, "lock")
    /\ UNCHANGED <<manager, answer, stopping, pipeVars>>

\* The worker pool creates with the manager mutex held.
MaintainPool ==
    /\ At("pool", "lock")
    /\ manager = "free"
    /\ \/ stopping /\ Goto("pool", "gone") /\ UNCHANGED manager
       \/ ~stopping /\ Goto("pool", "asleep") /\ UNCHANGED manager
       \/ ~stopping /\ Goto("pool", "create") /\ manager' = "pool"
    /\ UNCHANGED <<gate, answer, stopping, pipeVars>>

SpawnWorker ==
    /\ At("pool", "create")
    /\ manager' = "free"
    /\ Goto("pool", "lock")
    /\ UNCHANGED <<gate, answer, stopping, pipeVars>>
-----------------------------------------------------------------------------
(* Service::stop, by any of its callers *)

\* The controller has exited, or a wait failed.
CallStop(w) ==
    /\ At(w, "watch")
    /\ Goto(w, "stop")
    /\ UNCHANGED <<lockVars, answer, stopping, pipeVars>>

LockManager(t) ==
    /\ At(t, "stop")
    /\ manager = "free"
    /\ manager' = t
    /\ Goto(t, "gates")
    /\ UNCHANGED <<gate, answer, stopping, pipeVars>>

\* Mutated form: stop does not wait for the gates.
LockGatesNever(t) ==
    /\ At(t, "gates")
    /\ Goto(t, "drain")
    /\ UNCHANGED <<lockVars, answer, stopping, pipeVars>>

\* Both gates, one after the other; each may have to be waited for.
LockGates(t) ==
    /\ At(t, "gates")
    /\ \/ \E k \in Creator :
             /\ gate[k] = "free"
             /\ gate' = [gate EXCEPT ![k] = t]
             /\ UNCHANGED pc
       \/ /\ \A k \in Creator : gate[k] = t
          /\ Goto(t, "drain")
          /\ UNCHANGED gate
    /\ UNCHANGED <<manager, answer, stopping, pipeVars>>

\* A serving thread that stopped the session leaves its loop.
After(t) == IF t \in Conn THEN "end" ELSE "done"

\* The writeback queue has drained: set the flag, notify, release everything.
\* The first caller wakes the accept loop.
Finish(t) ==
    /\ At(t, "drain")
    /\ stopping' = TRUE
    /\ Notify(t, IF stopping THEN After(t) ELSE "wake")
    /\ manager' = "free"
    /\ gate' = [k \in Creator |-> IF gate[k] = t THEN "free" ELSE gate[k]]
    /\ UNCHANGED <<answer, pipeVars>>

\* PipeConnection::connect ...
Wake(t) ==
    /\ At(t, "wake")
    /\ Dial(t, "wake", "hang up")
    /\ UNCHANGED <<lockVars, answer, stopping>>

\* ... whose result is dropped at once.
HangUp(t) ==
    /\ At(t, "hang up")
    /\ Goto(t, After(t))
    /\ closed' = (closed \/ pending = "wake")
    /\ UNCHANGED <<lockVars, answer, stopping, pending>>
-----------------------------------------------------------------------------
Serve(c) ==
    \/ Handle(c) \/ Await(c) \/ Reply(c) \/ Disconnect(c) \/ End(c)

Produce(k) ==
    Maintain(k) \/ TakeGate(k) \/ Create(k)

Stopping(t) ==
    LockManager(t) \/ LockGates(t) \/ Finish(t) \/ Wake(t) \/ HangUp(t)

Main == Check \/ Accept \/ Dispatch

SessionNext ==
    \/ Main
    \/ \E c \in Conn : Connect(c) \/ Read(c) \/ Serve(c)
    \/ \E w \in Watcher : Exited(w) \/ Tell(w) \/ CallStop(w)
    \/ \E k \in Creator : Produce(k)
    \/ MaintainPool \/ SpawnWorker
    \/ \E t \in Conn \cup Watcher : Stopping(t)

SessionSpec == SessionInit /\ [][SessionNext]_sessionVars

\* A thread that can run runs, and one that waits for a mutex which becomes
\* free again and again gets it.  Clients and workers need not do anything.
SessionFairness ==
    /\ WF_sessionVars(Main)
    /\ WF_sessionVars(\E c \in Conn : Reply(c) \/ End(c))
    /\ WF_sessionVars(\E w \in Watcher : Tell(w))
    /\ WF_sessionVars(SpawnWorker \/ \E k \in Creator : Create(k))
    /\ \A t \in Conn \cup Watcher : SF_sessionVars(Stopping(t))

FairSessionSpec == SessionSpec /\ SessionFairness
-----------------------------------------------------------------------------
\* No native process is created once stop has set the flag: stop waits for the
\* creation under way, and main returns only after the flag is set, so every
\* process is in the Job that closes with it.
NothingCreatedAfterStop ==
    stopping => \A t \in Creator \cup {"pool"} : pc[t] # "create"

\* An Await request returns once its answer is there or the session stops:
\* every change of the manager is followed by a notification.
AwaitsReturn ==
    \A c \in Conn :
        (pc[c] = "asleep" /\ (c \in answer \/ stopping)) ~> (pc[c] # "asleep" \/ ~Running)

InStop(t) == pc[t] \in {"stop", "gates", "drain", "wake", "hang up"}

\* stop returns: it waits for the manager mutex, both gates and the pipe, and
\* nobody who holds one of them waits for another.
StopReturns ==
    \A t \in Conn \cup Watcher : InStop(t) ~> (~InStop(t) \/ ~Running)

\* main.rs: "Wake the synchronous accept once" - after stop main returns.
SessionEnds == stopping ~> ~Running
=============================================================================
