----------------------------- MODULE NativeExec -----------------------------
(***************************************************************************)
(* The stock of prepared exec replacements (apps/init/src/native_exec.rs)  *)
(* composed with the manager.  A worker asks for a process (NativeExec),   *)
(* gets it as a lease, names it in PrepareExec, and the process connects   *)
(* as the replacement.                                                     *)
(***************************************************************************)
EXTENDS NativePool

\* native_exec_state: what the manager says about a delivered process.
NativeExecState(lease) ==
    LET ids == {id \in ReservedFor(lease.child) :
                   exec_transactions[id].owner_peer = lease.parent}
        states == {exec_transactions[id].state : id \in ids}
        active(peer) == \E pid \in ProcessesOf(peer) : processes[pid].state = "Active"
    IN  IF active(lease.child) \/ "Committed" \in states THEN "Committed"
        ELSE IF "Aborted" \in states THEN "Aborted"
        ELSE IF ids # {} THEN "Pending"
        ELSE IF active(lease.parent) THEN "Unreserved" ELSE "Aborted"

\* Mutated form: the old image is looked at before the commit.
LetGoTestsParent ==
    {l \in leases : NativeExecState(l) = "Committed" /\ Live(l.parent)}

\* reap: the leases of committed execs, ...
LetGoExecs == {l \in leases : NativeExecState(l) = "Committed"}

\* Mutated form: the deadline holds for reserved processes too.
KeptUntilDeadline ==
    {l \in leases :
        /\ NativeExecState(l) \in {"Pending", "Unreserved"}
        /\ Live(l.child) /\ Live(l.parent)
        /\ l.child \notin late}

\* ... and the ones that stay.  Without a reservation they expire.
KeptExecs ==
    {l \in leases :
        /\ NativeExecState(l) \in {"Pending", "Unreserved"}
        /\ Live(l.child) /\ Live(l.parent)
        /\ NativeExecState(l) = "Pending" \/ l.child \notin late}

ExecBusy == KeptExecs # {} \/ \E p \in Good : p \notin prepared

MaintainExecs == Maintain(LetGoExecs, KeptExecs, TRUE, ExecBusy)

\* The request passes the manager: any active worker may ask.
RequestExec(c) ==
    /\ Free(c) /\ ActiveWorker(c)
    /\ ManagerFree
    /\ delivery' = [delivery EXCEPT ![c] =
           [step |-> "take", peer |-> clients[c].peer]]
    /\ UNCHANGED <<vars, nativeVars, stockVars, threadVars, received, stopping>>

\* One live process per caller.
CanTakeExec(peer) ==
    /\ Cardinality(leases) < MAX_LEASES
    /\ ~\E l \in leases : l.parent = peer /\ Live(l.child)

\* Pool::take, under the stock mutex only.
TakeExec(c) ==
    LET peer == delivery[c].peer
        ready == {p \in slots : Live(p) /\ p \in prepared}
    IN  /\ delivery[c].step = "take"
        /\ IF CanTakeExec(peer) /\ ready # {} /\ Live(peer)
           THEN \E p \in ready : Lease(c, [parent |-> peer, child |-> p])
           ELSE Miss(c)
        /\ UNCHANGED <<vars, prepared, threadVars, received, stopping, released>>

\* The reply could not be written: cancel_delivery drops exactly this lease.
FailedExecReply(c) ==
    LET gone == leases \cap delivery[c].lease
    IN  /\ delivery[c].step = "reply"
        /\ leases' = leases \ gone
        /\ Terminated({l.child : l \in gone})
        /\ thread' = Woken
        /\ delivery' = [delivery EXCEPT ![c] = Idle]
        /\ UNCHANGED <<vars, prepared, late, slots, created, failures, received,
                       stopping, released>>

\* prepare_exec names a process the caller holds a handle of.
NameReplacement(c, key, peer) ==
    /\ Free(c)
    /\ <<clients[c].peer, peer>> \in received
    /\ PrepareExec(c, key, peer)
    /\ ManagerCall
-----------------------------------------------------------------------------
ExecManagerStep ==
    \/ \E peer \in Peer :
          /\ Heard(peer) /\ ~stopping
          /\ \/ peer \notin Pooled /\ ConnectRoot(peer)
             \/ \E id \in DOMAIN exec_transactions : ConnectExec(peer, id)
          /\ ManagerCall
    \/ \E c \in DOMAIN clients :
          /\ Free(c)
          /\ \/ MarkExecReady(c)
             \/ \E id \in DOMAIN exec_transactions :
                   CommitExec(c, id) \/ AbortExec(c, id) \/ AcknowledgeExec(c, id)
          /\ ManagerCall
    \/ \E c \in DOMAIN clients, key \in RequestKey, peer \in Pooled :
          NameReplacement(c, key, peer)

ExecPoolThread ==
    \/ MaintainExecs
    \/ Finish
    \/ Create
    \/ Publish(TRUE)
    \/ FallAsleep
    \/ Timeout

ExecServing ==
    \E c \in 1..LAST_CLIENT : TakeExec(c) \/ Reply(c) \/ FailedExecReply(c)

ExecNatives ==
    \E peer \in Peer : Die(peer) \/ Park(peer) \/ Expire(peer) \/ ReportExit(peer)

ExecNext ==
    \/ ExecManagerStep
    \/ \E c \in DOMAIN clients : RequestExec(c) \/ Hangup(c)
    \/ ExecServing
    \/ ExecPoolThread
    \/ ExecNatives
    \/ Stop

ExecSpec == PoolInit /\ [][ExecNext]_allVars

\* The threads of init that can run do run.
ThreadFairness == WF_allVars(ExecPoolThread) /\ WF_allVars(ExecServing)

LiveExecSpec == ExecSpec /\ ThreadFairness

\* In addition a watcher gets the mutex it waits for.  Guests need not do
\* anything.
ExecFairness ==
    /\ ThreadFairness
    /\ \A peer \in Peer : SF_allVars(ReportExit(peer))

FairExecSpec == ExecSpec /\ ExecFairness
-----------------------------------------------------------------------------
RevokedLease(p) ==
    \E l \in leases : l.child = p /\ NativeExecState(l) = "Aborted"

ExpiredLease(p) ==
    /\ p \in late
    /\ \E l \in leases : l.child = p /\ NativeExecState(l) = "Unreserved"

\* A reserved replacement is never taken away from a running exec: while the
\* exec is pending and both images live, the pool does not terminate it, even
\* if the deadline of the delivery passes at the moment of PrepareExec.
ReservationStopsDeadline ==
    [][\A p \in killed' \ killed :
          stopping \/ \A id \in ReservedFor(p) \cap PendingExecs :
                          Dead(exec_transactions[id].owner_peer)]_allVars

\* "Abort, candidate death or native parent death revokes the unpublished
\* candidate" (docs/native-exec-pool.md): no lease stays with an aborted exec
\* for ever, although the pool thread can miss the notification of a delivery.
RevokedDies ==
    \A p \in Pooled :
        RevokedLease(p) ~> (Dead(p) \/ ~RevokedLease(p))

\* docs/native-exec-pool.md: "A delivered candidate that never gets a
\* reservation expires after 30 seconds".
DeliveriesExpire ==
    \A p \in Pooled : ExpiredLease(p) ~> (Dead(p) \/ ~ExpiredLease(p))

\* crates/manager/README.md: before the commit the real exit of either party
\* revokes the exec.
ExitRevokesExec ==
    \A id \in 1..LAST_TRANSACTION :
        (id \in PendingExecs /\ Dead(exec_transactions[id].target))
            ~> (id \notin PendingExecs \/ stopping)
=============================================================================
