---------------------------- MODULE ManagerLife -----------------------------
(***************************************************************************)
(* The manager implements ProcessLife: the refinement mapping.             *)
(***************************************************************************)
EXTENDS StateManager

\* The replacement a committed exec has chosen for a process.
Heir(pid) ==
    {exec_transactions[id].target : id \in
        {i \in DOMAIN exec_transactions :
            exec_transactions[i].process = pid /\ exec_transactions[i].retiring}}

LifeTable ==
    [pid \in DOMAIN processes |->
        [owner |-> processes[pid].peer, heir |-> Heir(pid),
         parent |-> processes[pid].parent_pid, fork |-> processes[pid].transaction,
         phase |-> processes[pid].state]]

Verdict(t) == IF Terminal(t) THEN t.state ELSE "open"

LifeVerdict ==
    [id \in DOMAIN transactions \cup DOMAIN exec_transactions |->
        IF id \in DOMAIN transactions THEN Verdict(transactions[id])
        ELSE Verdict(exec_transactions[id])]

LifeLog ==
    [i \in DOMAIN exit_order |-> <<exit_order[i], exit_records[exit_order[i]]>>]

Life == INSTANCE ProcessLife WITH
    Image <- Peer,
    Pid <- 1..LAST_PID,
    Transaction <- 1..LAST_TRANSACTION,
    HISTORY <- MAX_EXIT_RECORDS,
    table <- LifeTable,
    verdict <- LifeVerdict,
    dead <- exited,
    log <- LifeLog

\* Every request, connection, lost connection and death, in any order, is a
\* step of ProcessLife or changes nothing there: one image runs a process,
\* decisions are final, only the elected heir inherits and only after the
\* death of the old image, and a process ends with its last image and that
\* image's status.
ImplementsLife == Life!LifeSpec
=============================================================================
