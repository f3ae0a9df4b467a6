----------------------------- MODULE NativeFork -----------------------------
(***************************************************************************)
(* The stock of prepared fork children (apps/init/src/native_fork.rs)      *)
(* composed with the manager.  The stock is built for one template, the    *)
(* native modules of the last caller; a caller with another one replaces   *)
(* it, also while a process for the old one is being created.              *)
(***************************************************************************)
EXTENDS NativePool

CONSTANTS ModuleSpec    \* native module specifications of callers

VARIABLES
    template,           \* {} or the specification of the stock
    draft,              \* the specification the pool thread creates for
    current,            \* Arc::ptr_eq: the template is still the cloned one
    built_for           \* the specification each process was created with

templateVars == <<template, draft, current, built_for>>
forkAllVars == <<allVars, templateVars>>

ForkPoolInit ==
    /\ PoolInit
    /\ template = {}
    /\ draft = {}
    /\ current = TRUE
    /\ built_for = [p \in Pooled |-> {}]

\* Mutated form: only the transaction record is asked.
NativeForkStateByRecord(lease) ==
    LET id == lease.transaction
    IN  IF id \notin DOMAIN transactions THEN "revoke"
        ELSE IF transactions[id].state = "Committed" THEN "release"
        ELSE IF transactions[id].state = "Aborted" THEN "revoke" ELSE "keep"

\* native_fork_state: may the delivered process live on?
NativeForkState(lease) ==
    LET id == lease.transaction
    IN  IF \E pid \in ProcessesOf(lease.child) : processes[pid].state = "Active"
        THEN "release"
        ELSE IF id \notin DOMAIN transactions THEN "revoke"
        ELSE IF transactions[id].state = "Committed" THEN "release"
        ELSE IF transactions[id].state = "Aborted" THEN "revoke" ELSE "keep"

\* reap_leases
LetGo == {l \in leases : NativeForkState(l) = "release"}

Kept == {l \in leases : NativeForkState(l) = "keep" /\ Live(l.child) /\ Live(l.parent)}

Busy ==
    \/ Kept # {}
    \/ /\ Failed < MAX_FAILURES
       /\ template # {}
       /\ Cardinality(Good) < STOCK \/ \E p \in Good : p \notin prepared

MaintainForks ==
    /\ Maintain(LetGo, Kept, template # {}, Busy)
    /\ draft' = IF thread' = "creating" THEN template ELSE {}
    /\ current' = TRUE
    /\ UNCHANGED <<template, built_for>>

CreateChild ==
    /\ Create
    /\ built_for' = [p \in Pooled |-> IF p \in created' THEN draft ELSE built_for[p]]
    /\ UNCHANGED <<template, draft, current>>

\* Mutated form: a process for an old template joins the stock.
PublishAny ==
    /\ Publish(Cardinality(slots) < STOCK)
    /\ UNCHANGED templateVars

PublishChild ==
    /\ Publish(current /\ Cardinality(slots) < STOCK)
    /\ UNCHANGED templateVars

\* NativeFork passes the manager: the caller owns the transaction and nobody
\* has adopted it yet.
RequestFork(c, id, spec) ==
    /\ Free(c) /\ ManagerFree
    /\ OwnedFork(c, id)
    /\ transactions[id].state = "Prepared"
    /\ delivery' = [delivery EXCEPT ![c] =
           [step |-> "take", peer |-> clients[c].peer, transaction |-> id,
            spec |-> spec]]
    /\ UNCHANGED <<vars, nativeVars, stockVars, threadVars, received, stopping,
                   templateVars>>

\* Mutated form: a retry gets a second child.
CanTakeMore(id) == Cardinality(leases) < MAX_LEASES

\* The transaction may take again only after its old child died.
CanTake(id) ==
    /\ Cardinality(leases) < MAX_LEASES
    /\ ~\E l \in leases : l.transaction = id /\ Live(l.child)

\* Pool::take for a caller whose template is the stock's.
TakeFromStock(c) ==
    LET d == delivery[c]
        ready == {p \in slots : Live(p) /\ p \in prepared}
    IN  /\ d.step = "take"
        /\ failures < MAX_FAILURES => template = {d.spec}
        /\ IF failures < MAX_FAILURES /\ CanTake(d.transaction) /\ ready # {}
           THEN \/ \E p \in ready :
                       Lease(c, [transaction |-> d.transaction, parent |-> d.peer,
                                 child |-> p])
                \/ Dead(d.peer) /\ Miss(c)
           ELSE Miss(c)
        /\ UNCHANGED <<vars, prepared, threadVars, received, stopping, released,
                       templateVars>>

\* Pool::take for another template: the stock is killed and refilled later.
\* When the modules cannot be pinned nothing changes.
ReplaceTemplate(c) ==
    /\ delivery[c].step = "take"
    /\ failures < MAX_FAILURES
    /\ template # {delivery[c].spec}
    /\ \/ /\ template' = {delivery[c].spec}
          /\ current' = FALSE
          /\ slots' = {}
          /\ Terminated(slots)
          /\ delivery' = [delivery EXCEPT ![c] = Answer(c, {})]
          /\ UNCHANGED <<leases, late>>
       \/ Miss(c) /\ UNCHANGED <<template, current>>
    /\ UNCHANGED <<vars, prepared, threadVars, received, stopping, released,
                   draft, built_for>>

\* The reply could not be written: cancel_delivery drops the lease of this
\* caller and transaction.
FailedForkReply(c) ==
    LET gone == {l \in leases : \E m \in delivery[c].lease :
                    l.parent = m.parent /\ l.transaction = m.transaction}
    IN  /\ delivery[c].step = "reply"
        /\ leases' = leases \ gone
        /\ Terminated({l.child : l \in gone})
        /\ thread' = Woken
        /\ delivery' = [delivery EXCEPT ![c] = Idle]
        /\ UNCHANGED <<vars, prepared, late, slots, created, failures, received,
                       stopping, released, templateVars>>

\* A delivered child redeems the ticket of the fork it was delivered for.
AdoptChild(peer, id) ==
    /\ \E l \in leases : l.child = peer /\ l.transaction = id
    /\ \E parent \in Peer : <<parent, peer>> \in received
    /\ ConnectFork(peer, id)
-----------------------------------------------------------------------------
ManagerStep ==
    /\ \/ \E peer \in Peer :
             /\ Heard(peer) /\ ~stopping
             /\ \/ peer \notin Pooled /\ ConnectRoot(peer)
                \/ \E id \in DOMAIN transactions : AdoptChild(peer, id)
       \/ \E c \in DOMAIN clients :
             /\ Free(c)
             /\ \/ \E key \in RequestKey : PrepareFork(c, key)
                \/ MarkReady(c)
                \/ \E id \in DOMAIN transactions :
                      CommitFork(c, id) \/ AbortFork(c, id) \/ AcknowledgeFork(c, id)
    /\ ManagerCall
    /\ UNCHANGED templateVars

\* The worker execs into an ordinary process while its fork is pending.
ExecStep ==
    /\ \/ \E peer \in Peer, id \in DOMAIN exec_transactions :
             Heard(peer) /\ ~stopping /\ ConnectExec(peer, id)
       \/ \E c \in DOMAIN clients :
             /\ Free(c)
             /\ \/ MarkExecReady(c)
                \/ \E id \in DOMAIN exec_transactions : CommitExec(c, id)
                \/ \E key \in RequestKey, peer \in Peer \ Pooled :
                      Heard(peer) /\ PrepareExec(c, key, peer)
    /\ ManagerCall
    /\ UNCHANGED templateVars

PoolThread ==
    \/ MaintainForks
    \/ CreateChild
    \/ PublishChild
    \/ (Finish \/ FallAsleep \/ Timeout) /\ UNCHANGED templateVars

Serving(c) ==
    \/ TakeFromStock(c)
    \/ ReplaceTemplate(c)
    \/ Reply(c) /\ UNCHANGED templateVars
    \/ FailedForkReply(c)

Natives ==
    /\ \/ \E peer \in Peer : Die(peer) \/ Park(peer) \/ ReportExit(peer)
       \/ \E peer \in slots : Expire(peer)
       \/ \E c \in DOMAIN clients : Hangup(c)
       \/ Stop
    /\ UNCHANGED templateVars

ForkNext ==
    \/ ManagerStep
    \/ \E c \in DOMAIN clients, id \in DOMAIN transactions, spec \in ModuleSpec :
          RequestFork(c, id, spec)
    \/ \E c \in 1..LAST_CLIENT : Serving(c)
    \/ PoolThread
    \/ Natives

ForkSpec == ForkPoolInit /\ [][ForkNext]_forkAllVars

ForkExecSpec == ForkPoolInit /\ [][ForkNext \/ ExecStep]_forkAllVars
-----------------------------------------------------------------------------
\* A fork has one live delivered child: a retry of the request never leaves
\* two processes that could redeem the same ticket.
OneLivePerTransaction ==
    \A l, m \in leases :
        (l.transaction = m.transaction /\ Live(l.child) /\ Live(m.child)) => l = m

\* The custody of fork children: no process the pool created gets away or is
\* held twice, and a fork that is asked for again has one child alive.
Custody == EveryProcessHeld /\ OneLivePerTransaction

\* Every process in the stock was built for the present template, although a
\* caller can replace it while the pool thread creates one: nobody is given a
\* process with the native modules of somebody else.
StockMatchesTemplate == \A p \in slots : built_for[p] = template

\* process_exited_with_status: "Pending forks still belong to the logical PID
\* and may be completed by its replacement."
PendingForkSurvivesExec ==
    [][\A p \in killed' \ killed :
          \A pid \in ProcessesOf(p) :
             (processes[pid].state = "Pending" /\ ~stopping) =>
                 LET t == transactions[processes[pid].transaction]
                 IN  Dead(processes[t.parent].peer)]_forkAllVars
=============================================================================
