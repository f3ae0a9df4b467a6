---------------------------- MODULE ProcessLife -----------------------------
(***************************************************************************)
(* What the manager promises about Linux processes, without connections,   *)
(* tickets, retry keys, quotas or pools.  A process is run by one native   *)
(* image at a time.  A forked child waits for the decision of its fork.    *)
(* An exec elects an heir, who takes over when the present image dies; a   *)
(* process ends when its last image is dead, with the status of that one.  *)
(***************************************************************************)
EXTENDS Naturals, Sequences, FiniteSets, Functions

CONSTANTS
    Image,              \* native processes
    Pid,
    Transaction,        \* fork and exec transactions
    Status,
    HISTORY             \* how many completed processes are remembered

VARIABLES
    table,              \* the processes by pid
    verdict,            \* "open", "Committed" or "Aborted" by transaction
    dead,               \* exit status of each image found dead
    log                 \* completed processes, the latest last

lifeVars == <<table, verdict, dead, log>>

None == 0

\* The images a process depends on: the one that runs it and its heir.
Images(pid) == {table[pid].owner} \cup table[pid].heir

Employed == UNION {Images(pid) : pid \in DOMAIN table}

Put(f, x, v) == [y \in DOMAIN f \cup {x} |-> IF y = x THEN v ELSE f[y]]

LifeInit ==
    /\ table = [pid \in {} |-> None]
    /\ verdict = [id \in {} |-> None]
    /\ dead = [image \in {} |-> None]
    /\ log = <<>>

Drop(f, x) == [y \in DOMAIN f \ {x} |-> f[y]]

\* A process appears: a root, or a child that waits for an open fork.  Its
\* image serves nobody else, its parent exists.  The manager does not look
\* whether the image was found dead before: it will be found dead again.
Appear(pid, image, parent, fork) ==
    /\ pid \notin DOMAIN table
    /\ \A i \in DOMAIN log : log[i][1] # pid
    /\ image \notin Employed
    /\ parent \in DOMAIN table \cup {None}
    /\ fork # None =>
          /\ fork \in DOMAIN verdict /\ verdict[fork] = "open"
          /\ \A q \in DOMAIN table : table[q].fork # fork
    /\ table' = Put(table, pid,
           [owner |-> image, heir |-> {}, parent |-> parent, fork |-> fork,
            phase |-> IF fork = None THEN "Active" ELSE "Pending"])
    /\ dead' = Drop(dead, image)
    /\ UNCHANGED <<verdict, log>>

\* An image that serves nobody offers itself as an heir; if it was found dead
\* before, that does not count any more.
Return(image) ==
    /\ image \notin Employed
    /\ dead' = Drop(dead, image)
    /\ UNCHANGED <<table, verdict, log>>

\* A fork or an exec begins.
Open(id) ==
    /\ id \notin DOMAIN verdict
    /\ verdict' = Put(verdict, id, "open")
    /\ UNCHANGED <<table, dead, log>>

\* A fork is decided for its child, ...
Start(pid) ==
    /\ pid \in DOMAIN table
    /\ table[pid].phase = "Pending"
    /\ verdict[table[pid].fork] = "open"
    /\ verdict' = [verdict EXCEPT ![table[pid].fork] = "Committed"]
    /\ table' = [table EXCEPT ![pid].phase = "Active", ![pid].fork = None]
    /\ UNCHANGED <<dead, log>>

\* ... an exec for its heir, who serves nobody else.
Elect(id, pid, image) ==
    /\ id \in DOMAIN verdict /\ verdict[id] = "open"
    /\ pid \in DOMAIN table
    /\ table[pid].phase = "Active" /\ table[pid].heir = {}
    /\ image \notin Employed \cup DOMAIN dead
    /\ verdict' = [verdict EXCEPT ![id] = "Committed"]
    /\ table' = [table EXCEPT ![pid].heir = {image}]
    /\ UNCHANGED <<dead, log>>

\* The children that wait for one of these forks never run.
Revoke(t, ids) ==
    [pid \in DOMAIN t |->
        IF t[pid].fork \in ids
        THEN [t[pid] EXCEPT !.phase = "Aborted", !.fork = None] ELSE t[pid]]

\* The verdicts after `ids` have been aborted and `gone` forgotten.
Closed(ids, gone) ==
    [id \in DOMAIN verdict \ gone |->
        IF id \in ids THEN "Aborted" ELSE verdict[id]]

OpenIds == {id \in DOMAIN verdict : verdict[id] = "open"}

\* Open transactions are aborted together.
Abort(ids) ==
    /\ ids # {} /\ ids \subseteq OpenIds
    /\ table' = Revoke(table, ids)
    /\ verdict' = Closed(ids, {})
    /\ UNCHANGED <<dead, log>>

\* A decided transaction is forgotten.
Forget(id) ==
    /\ id \in DOMAIN verdict \ OpenIds
    /\ verdict' = Closed({}, {id})
    /\ UNCHANGED <<table, dead, log>>

\* A launched worker gets a parent.
Attach(pid, parent) ==
    /\ pid \in DOMAIN table /\ table[pid].parent = None
    /\ parent \in DOMAIN table \ {pid}
    /\ table' = [table EXCEPT ![pid].parent = parent]
    /\ UNCHANGED <<verdict, dead, log>>

\* An image dies.  The process it ran goes to the heir, or ends if there is
\* none or he is dead already; orphans get no parent; some transactions are
\* aborted and some forgotten, the fork of an ending child among them.
Death(image, status) ==
    LET ends == {pid \in DOMAIN table :
                    /\ table[pid].owner = image
                    /\ table[pid].heir \subseteq DOMAIN dead}
        last(pid) == IF table[pid].heir = {} THEN status
                     ELSE dead[CHOOSE heir \in table[pid].heir : TRUE]
        inherit(p) == [p EXCEPT
            !.owner = IF p.owner = image THEN CHOOSE heir \in p.heir : TRUE ELSE @,
            !.heir = IF p.owner = image THEN {} ELSE @,
            !.parent = IF @ \in ends THEN None ELSE @]
        entries == log \o [i \in 1..Cardinality(ends) |->
            LET pid == CHOOSE pid \in ends : TRUE IN <<pid, last(pid)>>]
        start == IF Len(entries) > HISTORY THEN Len(entries) - HISTORY + 1 ELSE 1
    IN  /\ image \notin DOMAIN dead
        /\ dead' = Put(dead, image, status)
        /\ log' = SubSeq(entries, start, Len(entries))
        /\ \E ids \in SUBSET OpenIds, gone \in SUBSET DOMAIN verdict :
              /\ gone \cap OpenIds \subseteq ids
              /\ {table[pid].fork : pid \in ends} \subseteq ids \cup {None}
              /\ verdict' = Closed(ids, gone)
              /\ table' = Revoke([pid \in DOMAIN table \ ends |-> inherit(table[pid])], ids)

\* The candidates of each action are narrowed to those its guard admits.
LifeNext ==
    \/ \E pid \in (Pid \cap DOMAIN table') \ DOMAIN table, image \in Image \ Employed :
          \E parent \in DOMAIN table \cup {None}, fork \in OpenIds \cup {None} :
             Appear(pid, image, parent, fork)
    \/ \E image \in Image \ Employed : Return(image)
    \/ \E id \in Transaction : Open(id)
    \/ \E pid \in DOMAIN table : Start(pid)
    \/ \E id \in OpenIds, pid \in DOMAIN table, image \in Image \ Employed :
          Elect(id, pid, image)
    \/ \E ids \in SUBSET OpenIds : Abort(ids)
    \/ \E id \in DOMAIN verdict : Forget(id)
    \/ \E pid, parent \in DOMAIN table : Attach(pid, parent)
    \/ \E image \in Image, status \in Status : Death(image, status)

LifeSpec == LifeInit /\ [][LifeNext]_lifeVars
=============================================================================
