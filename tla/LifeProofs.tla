----------------------------- MODULE LifeProofs -----------------------------
(***************************************************************************)
(* Proofs about the lives of processes and of prewarmed workers, for any   *)
(* quotas and any number of native processes, connections, transactions,   *)
(* workers, launchers and slots.                                           *)
(*                                                                         *)
(*   LifeInv  parents, heirs and completions are what ProcessLife says of  *)
(*            them: the manager implements ProcessLife.  It is inductive   *)
(*            relative to IInv, ExecInv, Agreed, KeysResolve and TypeInv   *)
(*   PoolInv  the pool of prewarmed workers leaves a launched worker to    *)
(*            its application, whatever the timing of its thread.  What    *)
(*            the manager does in between does not matter: the argument    *)
(*            needs the pool's own state only                              *)
(***************************************************************************)
EXTENDS StateManagerProofs, ManagerLife, WorkerPool
-----------------------------------------------------------------------------
(* The life of a process *)

\* The parents of processes and of reserved children are processes.
Family ==
    /\ \A pid \in DOMAIN processes : processes[pid].parent_pid \in DOMAIN processes \cup {NoId}
    /\ \A id \in Prepared : transactions[id].child_parent \in DOMAIN processes \cup {NoId}

\* A prepared pool worker has no parent yet.
Unattached ==
    \A pid \in DOMAIN processes :
        processes[pid].prewarm.at \in {"PoolReady", "PoolReserved"} =>
            processes[pid].parent_pid = NoId

\* Only a child that waits for its fork names one.
Settled ==
    \A pid \in DOMAIN processes :
        processes[pid].state # "Pending" => processes[pid].transaction = NoId

\* The image that runs a process was not reported dead since it registered.
Alive == \A pid \in DOMAIN processes : processes[pid].peer \notin DOMAIN exited

\* A committed exec knows whether its replacement has died, and how.
Reported ==
    \A id \in DOMAIN exec_transactions :
        LET t == exec_transactions[id]
        IN  t.candidate_exit = IF t.retiring /\ t.target \in DOMAIN exited
                               THEN {exited[t.target]} ELSE {}

\* The completions that are kept are those of processes that are gone.
Logged ==
    /\ Len(exit_order) <= MAX_EXIT_RECORDS
    /\ \A i \in DOMAIN exit_order :
          /\ exit_order[i] \in DOMAIN exit_records
          /\ exit_order[i] \notin DOMAIN processes
          /\ \A id \in Prepared : transactions[id].child # exit_order[i]

LifeInv == /\ next_pid <= LAST_PID + 1
           /\ Family
           /\ Unattached
           /\ Settled
           /\ Alive
           /\ Reported
           /\ Logged

LifeBase == IInv /\ ExecInv /\ Agreed /\ KeysResolve /\ TypeInv /\ LifeInv

\* A step of ProcessLife, or none.
LifeStep ==
    Life!LifeNext \/ UNCHANGED <<LifeTable, LifeVerdict, exited, LifeLog>>

\* What ProcessLife sees of the processes stays.
TableSame ==
    /\ DOMAIN processes' = DOMAIN processes
    /\ \A pid \in DOMAIN processes :
          LET p == processes[pid]
              q == processes'[pid]
          IN  /\ q.peer = p.peer /\ q.parent_pid = p.parent_pid
              /\ q.state = p.state /\ q.transaction = p.transaction

\* The execs that retire an image stay, and so does what they say.
HeirsSame ==
    /\ \A id \in DOMAIN exec_transactions : exec_transactions[id].retiring =>
          id \in DOMAIN exec_transactions' /\ exec_transactions'[id].retiring
    /\ \A id \in DOMAIN exec_transactions' : exec_transactions'[id].retiring =>
          /\ id \in DOMAIN exec_transactions /\ exec_transactions[id].retiring
          /\ exec_transactions'[id].process = exec_transactions[id].process
          /\ exec_transactions'[id].target = exec_transactions[id].target

\* No decision is taken.
VerdictsSame ==
    /\ DOMAIN transactions' = DOMAIN transactions
    /\ DOMAIN exec_transactions' = DOMAIN exec_transactions
    /\ \A id \in DOMAIN transactions : Verdict(transactions'[id]) = Verdict(transactions[id])
    /\ \A id \in DOMAIN exec_transactions :
          Verdict(exec_transactions'[id]) = Verdict(exec_transactions[id])

ExitsSame == UNCHANGED <<exited, exit_records, exit_order>>

\* Heirs come from the execs that retire an image.
LEMMA HeirsKept == HeirsSame => \A pid : Heir(pid)' = Heir(pid)
  BY DEF HeirsSame, Heir

\* The mapping of the processes, ...
LEMMA TableKept == TableSame /\ HeirsSame => LifeTable' = LifeTable
  BY HeirsKept DEF TableSame, LifeTable

\* ... of the transactions ...
LEMMA VerdictsKept == VerdictsSame => LifeVerdict' = LifeVerdict
  BY DEF VerdictsSame, LifeVerdict

\* ... and of the completions.
LEMMA LogKept == ExitsSame => LifeLog' = LifeLog
  BY DEF ExitsSame, LifeLog

\* A step that ProcessLife does not see.
LEMMA Stutter == TableSame /\ HeirsSame /\ VerdictsSame /\ ExitsSame => LifeStep
  BY TableKept, VerdictsKept, LogKept DEF LifeStep, ExitsSame

\* A step that begins nothing and ends no process.
LEMMA LifeKept ==
  ASSUME IInv, LifeInv, ExitsSame, UNCHANGED next_pid,
         DOMAIN processes' = DOMAIN processes,
         \A pid \in DOMAIN processes :
            LET p == processes[pid]
                q == processes'[pid]
            IN  /\ q.peer = p.peer
                /\ q.parent_pid \in DOMAIN processes \cup {NoId}
                /\ q.prewarm.at \in {"PoolReady", "PoolReserved"} => q.parent_pid = NoId
                /\ q.state # "Pending" => q.transaction = NoId,
         \A id \in Prepared' :
            /\ id \in Prepared
            /\ transactions'[id].child = transactions[id].child
            /\ transactions'[id].child_parent = transactions[id].child_parent,
         \A id \in DOMAIN exec_transactions' :
            /\ id \in DOMAIN exec_transactions
            /\ exec_transactions'[id].retiring = exec_transactions[id].retiring
            /\ exec_transactions'[id].target = exec_transactions[id].target
            /\ exec_transactions'[id].candidate_exit = exec_transactions[id].candidate_exit
  PROVE  LifeInv'
<1>1. Family' /\ Unattached' /\ Settled' /\ Alive'
  BY DEF LifeInv, Family, Unattached, Settled, Alive, ExitsSame
<1>2. Reported'
  BY DEF LifeInv, Reported, ExitsSame
<1>3. Logged'
  BY DEF LifeInv, Logged, ExitsSame
<1> QED
  BY <1>1, <1>2, <1>3 DEF LifeInv

\* As above, when ProcessLife sees nothing of the processes change.
LEMMA LifeSame ==
  ASSUME IInv, LifeInv, ExitsSame, UNCHANGED next_pid, TableSame,
         \A pid \in DOMAIN processes :
            processes'[pid].prewarm.at \in {"PoolReady", "PoolReserved"} =>
               processes[pid].parent_pid = NoId,
         UNCHANGED transactions, UNCHANGED exec_transactions
  PROVE  LifeInv' /\ LifeStep
<1>1. LifeInv'
  <2>1. /\ DOMAIN processes' = DOMAIN processes
        /\ \A pid \in DOMAIN processes :
            LET p == processes[pid]
                q == processes'[pid]
            IN  /\ q.peer = p.peer
                /\ q.parent_pid \in DOMAIN processes \cup {NoId}
                /\ q.prewarm.at \in {"PoolReady", "PoolReserved"} => q.parent_pid = NoId
                /\ q.state # "Pending" => q.transaction = NoId
    BY DEF TableSame, LifeInv, Family, Settled
  <2>2. Prepared' = Prepared
    BY DEF Prepared
  <2> QED
    BY <2>1, <2>2, LifeKept
<1>2. HeirsSame /\ VerdictsSame
  BY DEF HeirsSame, VerdictsSame
<1> QED
  BY <1>1, <1>2, Stutter

\* Module state, and the request to stop.
LEMMA StateLife ==
  ASSUME LifeBase, NEW c \in DOMAIN clients, StateRequest(c) \/ Shutdown(c)
  PROVE  LifeInv' /\ LifeStep
<1>0. \A pid \in DOMAIN processes : DOMAIN processes[pid] = ProcessFields
  BY DEF LifeBase, IInv, Shape
<1>1. ExitsSame /\ UNCHANGED <<next_pid, transactions, exec_transactions>>
  BY Zenon DEF StateRequest, Shutdown, RegisterModule, WriteState, DefineState, ExitsSame, forkVars,
         execVars, exitVars, processVars
<1>2. /\ DOMAIN processes' = DOMAIN processes
      /\ \A pid \in DOMAIN processes :
            \/ processes'[pid] = processes[pid]
            \/ \E s : processes'[pid] = [processes[pid] EXCEPT !.snapshot = s]
  BY Zenon DEF StateRequest, Shutdown, RegisterModule, WriteState, DefineState, processVars
<1>3. /\ TableSame
      /\ \A pid \in DOMAIN processes : processes'[pid].prewarm = processes[pid].prewarm
  BY <1>0, <1>2 DEF TableSame, ProcessFields
<1> QED
  BY <1>1, <1>3, LifeSame DEF LifeBase, LifeInv, Unattached

\* A step that changes how a process was prepared and nothing else.
LEMMA PrewarmLife ==
  ASSUME LifeBase, ExitsSame, UNCHANGED <<next_pid, transactions, exec_transactions>>,
         NEW pid \in DOMAIN processes, NEW v,
         processes' = [processes EXCEPT ![pid].prewarm = v],
         v.at \in {"PoolReady", "PoolReserved"} => processes[pid].parent_pid = NoId
  PROVE  LifeInv' /\ LifeStep
<1>0. \A p \in DOMAIN processes : DOMAIN processes[p] = ProcessFields
  BY DEF LifeBase, IInv, Shape
<1>1. /\ TableSame
      /\ \A p \in DOMAIN processes :
            processes'[p].prewarm = IF p = pid THEN v ELSE processes[p].prewarm
  BY <1>0 DEF TableSame, ProcessFields
<1> QED
  BY <1>1, LifeSame DEF LifeBase, LifeInv, Unattached

\* The worker pool; a worker that is given a parent is attached to it.
LEMMA PoolLife ==
  ASSUME LifeBase, NEW c \in DOMAIN clients, PoolRequest(c)
  PROVE  LifeInv' /\ LifeStep
<1>1. ExitsSame /\ UNCHANGED <<next_pid, transactions, exec_transactions>>
  BY Zenon DEF PoolRequest, MarkPrewarmReady, MarkPoolReady, ReservePoolWorker, ActivatePrewarm,
         ReleasePoolWorker, ActivatePoolWorker, ExitsSame, forkVars, execVars, exitVars
<1>2. Unattached
  BY DEF LifeBase, LifeInv
<1>3. CASE MarkPrewarmReady(c)
  <2>1. /\ clients[c].pid \in DOMAIN processes
        /\ processes' = [processes EXCEPT ![clients[c].pid].prewarm = Prewarm("Ready")]
    BY <1>3 DEF MarkPrewarmReady, ActiveWorker, OwnsProcess
  <2> QED
    BY <1>1, <2>1, PrewarmLife DEF Prewarm
<1>4. CASE MarkPoolReady(c)
  <2>1. /\ clients[c].pid \in DOMAIN processes
        /\ processes[clients[c].pid].parent_pid = NoId
        /\ processes' = [processes EXCEPT ![clients[c].pid].prewarm = Prewarm("PoolReady")]
    BY <1>4 DEF MarkPoolReady, ActiveWorker, OwnsProcess
  <2> QED
    BY <1>1, <2>1, PrewarmLife
<1>5. CASE ReservePoolWorker(c)
  <2>1. PICK pid \in PoolReady :
           processes' = [processes EXCEPT ![pid].prewarm = [at |-> "PoolReserved", client |-> c]]
    BY <1>5 DEF ReservePoolWorker
  <2>2. pid \in DOMAIN processes /\ processes[pid].parent_pid = NoId
    BY <1>2 DEF PoolReady, Unattached
  <2> QED
    BY <1>1, <2>1, <2>2, PrewarmLife
<1>6. ASSUME NEW pid \in DOMAIN processes, ActivatePrewarm(c, pid)
      PROVE  LifeInv' /\ LifeStep
  <2>1. processes' = [processes EXCEPT ![pid].prewarm = Prewarm("Activated")]
    BY <1>6 DEF ActivatePrewarm
  <2> QED
    BY <1>1, <2>1, PrewarmLife DEF Prewarm
<1>7. ASSUME NEW pid \in DOMAIN processes, ReleasePoolWorker(c, pid)
      PROVE  LifeInv' /\ LifeStep
  <2>1. /\ processes' = [processes EXCEPT ![pid].prewarm = Prewarm("PoolReady")]
        /\ processes[pid].parent_pid = NoId
    BY <1>2, <1>7 DEF ReleasePoolWorker, HeldBy, Unattached
  <2> QED
    BY <1>1, <2>1, PrewarmLife
<1>8. ASSUME NEW pid \in DOMAIN processes, NEW parent \in DOMAIN processes \cup {NoId},
             NEW launch \in Launch, ActivatePoolWorker(c, pid, parent, launch)
      PROVE  LifeInv' /\ LifeStep
  <2> DEFINE v == [at |-> "PoolActivated", launch |-> launch, client |-> c, parent |-> parent]
  <2>0. \A p \in DOMAIN processes : DOMAIN processes[p] = ProcessFields
    BY DEF LifeBase, IInv, Shape
  <2>1. /\ processes' = [processes EXCEPT ![pid].parent_pid = parent, ![pid].prewarm = v]
        /\ processes[pid].parent_pid = NoId /\ parent # pid
    BY <1>2, <1>8 DEF ActivatePoolWorker, HeldBy, Unattached
  <2>2. v.at = "PoolActivated"
    OBVIOUS
  <2> HIDE DEF v
  <2>3. /\ DOMAIN processes' = DOMAIN processes
        /\ \A p \in DOMAIN processes :
              /\ processes'[p].peer = processes[p].peer
              /\ processes'[p].state = processes[p].state
              /\ processes'[p].transaction = processes[p].transaction
              /\ processes'[p].parent_pid = IF p = pid THEN parent ELSE processes[p].parent_pid
              /\ processes'[p].prewarm = IF p = pid THEN v ELSE processes[p].prewarm
    <3>1. DOMAIN processes' = DOMAIN processes
      BY <2>1
    <3>2. \A p \in DOMAIN processes : processes'[p] =
             IF p = pid THEN [processes[p] EXCEPT !.parent_pid = parent, !.prewarm = v]
             ELSE processes[p]
      BY <2>1
    <3> QED
      BY <2>0, <3>1, <3>2, Zenon DEF ProcessFields
  <2>4. LifeInv'
    <3>1. /\ \A p \in DOMAIN processes :
            LET q == processes'[p]
            IN  /\ q.peer = processes[p].peer
                /\ q.parent_pid \in DOMAIN processes \cup {NoId}
                /\ q.prewarm.at \in {"PoolReady", "PoolReserved"} => q.parent_pid = NoId
                /\ q.state # "Pending" => q.transaction = NoId
      BY <2>2, <2>3 DEF LifeBase, LifeInv, Family, Unattached, Settled
    <3>2. Prepared' = Prepared
      BY <1>1 DEF Prepared
    <3> QED
      BY <1>1, <2>3, <3>1, <3>2, LifeKept DEF LifeBase
  <2>5. HeirsSame /\ VerdictsSame
    BY <1>1 DEF HeirsSame, VerdictsSame
  <2>6. CASE parent = NoId
    <3>1. TableSame
      BY <2>1, <2>3, <2>6 DEF TableSame
    <3> QED
      BY <1>1, <2>4, <2>5, <3>1, Stutter
  <2>7. CASE parent # NoId
    <3>1. parent \in DOMAIN processes \ {pid}
      BY <2>1, <2>7
    <3>2. LifeTable' = [LifeTable EXCEPT ![pid].parent = parent]
      <4>1. \A p : Heir(p)' = Heir(p)
        BY <2>5, HeirsKept
      <4> QED
        BY <2>3, <4>1 DEF LifeTable
    <3>3. /\ DOMAIN LifeTable = DOMAIN processes
          /\ LifeTable[pid].parent = NoId
      BY <2>1 DEF LifeTable
    <3>4. UNCHANGED <<LifeVerdict, exited, LifeLog>>
      BY <1>1, <2>5, VerdictsKept, LogKept DEF ExitsSame
    <3>5. Life!Attach(pid, parent)
      BY <3>1, <3>2, <3>3, <3>4 DEF Life!Attach, Life!None, NoId
    <3>6. Life!LifeNext
      BY <3>1, <3>3, <3>5 DEF Life!LifeNext
    <3> QED
      BY <2>4, <3>6 DEF LifeStep
  <2> QED
    BY <2>6, <2>7
<1> QED
  BY <1>3, <1>4, <1>5, <1>6, <1>7, <1>8 DEF PoolRequest

\* The images that ProcessLife calls employed.
LEMMA EmployedImages ==
  ASSUME NEW image \in Life!Employed
  PROVE  \/ \E pid \in DOMAIN processes : processes[pid].peer = image
         \/ \E id \in DOMAIN exec_transactions :
               exec_transactions[id].retiring /\ exec_transactions[id].target = image
<1>1. PICK pid \in DOMAIN processes : image \in {processes[pid].peer} \cup Heir(pid)
  BY DEF Life!Employed, Life!Images, LifeTable
<1> QED
  BY <1>1 DEF Heir

\* The verdict on a transaction.
LEMMA VerdictOf ==
  ASSUME KeysResolve
  PROVE  /\ DOMAIN LifeVerdict = DOMAIN transactions \cup DOMAIN exec_transactions
         /\ \A id \in DOMAIN transactions : LifeVerdict[id] = Verdict(transactions[id])
         /\ \A id \in DOMAIN exec_transactions : LifeVerdict[id] = Verdict(exec_transactions[id])
  BY DEF LifeVerdict, KeysResolve

\* The completions that ProcessLife remembers.
LEMMA LoggedPids ==
  /\ DOMAIN LifeLog = DOMAIN exit_order
  /\ \A i \in DOMAIN exit_order :
        LifeLog[i] = <<exit_order[i], exit_records[exit_order[i]]>>
  BY DEF LifeLog

\* An image registers that may have been found dead before: that report does
\* not count any more.
Registers(peer) ==
    /\ UNCHANGED <<exit_records, exit_order>>
    /\ exited' = Without(exited, peer)

\* The other reports stay, and so do the completions.
LEMMA OtherExits ==
  ASSUME NEW peer, Registers(peer)
  PROVE  /\ exited' = Life!Drop(exited, peer)
         /\ DOMAIN exited' = DOMAIN exited \ {peer}
         /\ \A x \in DOMAIN exited : x # peer => exited'[x] = exited[x]
         /\ LifeLog' = LifeLog
<1>1. exited' = Life!Drop(exited, peer)
  BY DEF Registers, Without, Restrict, Life!Drop
<1>2. LifeLog' = LifeLog
  BY DEF Registers, LifeLog
<1> QED
  BY <1>1, <1>2 DEF Life!Drop

\* An image that runs no process and retires none may be missing among the
\* dead: owners are alive and the committed execs name others.
LEMMA OthersReported ==
  ASSUME LifeInv, NEW peer, Registers(peer),
         \A id \in DOMAIN exec_transactions' :
            /\ id \in DOMAIN exec_transactions
            /\ exec_transactions'[id].retiring = exec_transactions[id].retiring
            /\ exec_transactions'[id].target = exec_transactions[id].target
            /\ exec_transactions'[id].candidate_exit = exec_transactions[id].candidate_exit
            /\ exec_transactions[id].retiring => exec_transactions[id].target # peer
  PROVE  Reported'
<1>1. SUFFICES ASSUME NEW id \in DOMAIN exec_transactions'
               PROVE  LET t == exec_transactions'[id]
                      IN  t.candidate_exit = IF t.retiring /\ t.target \in DOMAIN exited'
                                             THEN {exited'[t.target]} ELSE {}
  BY DEF Reported
<1>2. LET t == exec_transactions[id]
      IN  t.candidate_exit = IF t.retiring /\ t.target \in DOMAIN exited
                             THEN {exited[t.target]} ELSE {}
  BY DEF LifeInv, Reported
<1>3. /\ exec_transactions'[id].retiring = exec_transactions[id].retiring
      /\ exec_transactions'[id].target = exec_transactions[id].target
      /\ exec_transactions'[id].candidate_exit = exec_transactions[id].candidate_exit
      /\ exec_transactions[id].retiring => exec_transactions[id].target # peer
  OBVIOUS
<1>4. /\ DOMAIN exited' = DOMAIN exited \ {peer}
      /\ \A x \in DOMAIN exited : x # peer => exited'[x] = exited[x]
  BY OtherExits
<1>5. CASE exec_transactions[id].retiring /\ exec_transactions[id].target \in DOMAIN exited
  <2>1. /\ exec_transactions[id].target \in DOMAIN exited'
        /\ exited'[exec_transactions[id].target] = exited[exec_transactions[id].target]
    BY <1>3, <1>4, <1>5
  <2> QED
    BY <1>2, <1>3, <1>5, <2>1
<1>6. CASE ~(exec_transactions[id].retiring /\ exec_transactions[id].target \in DOMAIN exited)
  <2>1. ~(exec_transactions[id].retiring /\ exec_transactions[id].target \in DOMAIN exited')
    BY <1>4, <1>6
  <2> QED
    BY <1>2, <1>3, <1>6, <2>1
<1> QED
  BY <1>5, <1>6

\* A process begins.
LEMMA Appears ==
  ASSUME LifeBase, UNCHANGED exec_transactions, VerdictsSame,
         next_pid' <= LAST_PID + 1,
         NEW pid \in 1..LAST_PID, pid \notin DOMAIN processes,
         \A i \in DOMAIN exit_order : exit_order[i] # pid,
         NEW peer \in Peer, Registers(peer),
         ProcessesOf(peer) = {}, ReservedFor(peer) = {},
         NEW parent \in DOMAIN processes \cup {NoId}, NEW fork \in Nat, NEW snapshot, NEW state,
         state = IF fork = NoId THEN "Active" ELSE "Pending",
         fork # NoId => /\ fork \in DOMAIN transactions /\ ~Terminal(transactions[fork])
                        /\ \A q \in DOMAIN processes : processes[q].transaction # fork,
         processes' = With(processes, pid, NewProcess(parent, peer, snapshot, state, fork)),
         \A id \in Prepared' :
            /\ id \in Prepared
            /\ transactions'[id].child = transactions[id].child
            /\ transactions'[id].child_parent = transactions[id].child_parent
  PROVE  LifeInv' /\ LifeStep
<1> DEFINE new == NewProcess(parent, peer, snapshot, state, fork)
<1>1. /\ new.peer = peer /\ new.parent_pid = parent /\ new.state = state
      /\ new.transaction = fork /\ new.prewarm.at = "Fresh"
  BY DEF NewProcess, Prewarm
<1> HIDE DEF new
<1>2. /\ DOMAIN processes' = DOMAIN processes \cup {pid}
      /\ processes'[pid] = new
      /\ \A p \in DOMAIN processes : processes'[p] = processes[p]
  BY DEF With, new
<1>3. LifeInv'
  <2>1. Family'
    BY <1>1, <1>2 DEF LifeBase, LifeInv, Family
  <2>2. Unattached' /\ Settled'
    BY <1>1, <1>2 DEF LifeBase, LifeInv, Unattached, Settled
  <2>5. Alive'
    <3>1. DOMAIN exited' = DOMAIN exited \ {peer}
      BY OtherExits
    <3> QED
      BY <1>1, <1>2, <3>1 DEF LifeBase, LifeInv, Alive
  <2>3. Reported'
    BY OthersReported DEF LifeBase, ReservedFor
  <2>4. Logged'
    BY <1>2 DEF LifeBase, LifeInv, Logged, Registers
  <2> QED
    BY <2>1, <2>2, <2>3, <2>4, <2>5 DEF LifeInv
<1>4. HeirsSame
  BY DEF HeirsSame
<1>5. Heir(pid) = {}
  BY DEF LifeBase, IInv, Retiring, Heir
<1>6. LifeTable' = Life!Put(LifeTable, pid,
           [owner |-> peer, heir |-> {}, parent |-> parent, fork |-> fork, phase |-> state])
  <2>1. \A p : Heir(p)' = Heir(p)
    BY <1>4, HeirsKept
  <2> DEFINE row == [owner |-> peer, heir |-> {}, parent |-> parent, fork |-> fork,
                     phase |-> state]
  <2>2. LifeTable' = [p \in DOMAIN processes' |->
            [owner |-> processes'[p].peer, heir |-> Heir(p),
             parent |-> processes'[p].parent_pid, fork |-> processes'[p].transaction,
             phase |-> processes'[p].state]]
    BY <2>1 DEF LifeTable
  <2>3. LifeTable'[pid] = row
    BY <1>1, <1>2, <1>5, <2>2
  <2>4. \A p \in DOMAIN processes : LifeTable'[p] = LifeTable[p]
    BY <1>2, <2>2 DEF LifeTable
  <2>5. DOMAIN LifeTable' = DOMAIN LifeTable \cup {pid} /\ pid \notin DOMAIN LifeTable
    BY <1>2, <2>2 DEF LifeTable
  <2>6. DOMAIN LifeTable = DOMAIN processes
    BY DEF LifeTable
  <2>7. LifeTable' = [p \in DOMAIN LifeTable' |-> LifeTable'[p]]
    BY <2>2
  <2> HIDE DEF row
  <2>8. LifeTable' = Life!Put(LifeTable, pid, row)
    BY <2>3, <2>4, <2>5, <2>6, <2>7 DEF Life!Put
  <2> QED
    BY <2>8 DEF row
<1>7. UNCHANGED <<LifeVerdict, LifeLog>> /\ exited' = Life!Drop(exited, peer)
  BY VerdictsKept, OtherExits
<1>8. peer \notin Life!Employed
  BY EmployedImages DEF ProcessesOf, ReservedFor
<1>9. /\ DOMAIN LifeTable = DOMAIN processes
      /\ \A q \in DOMAIN processes : LifeTable[q].fork = processes[q].transaction
  BY DEF LifeTable
<1>10. fork # NoId => fork \in DOMAIN LifeVerdict /\ LifeVerdict[fork] = "open"
  BY VerdictOf DEF LifeBase, Verdict
<1>11. \A i \in DOMAIN LifeLog : LifeLog[i][1] # pid
  BY LoggedPids
<1>12. Life!Appear(pid, peer, parent, fork)
  BY <1>6, <1>7, <1>8, <1>9, <1>10, <1>11 DEF Life!Appear, Life!None, NoId
<1>13. Life!LifeNext
  <2>1. pid \in DOMAIN LifeTable' \ DOMAIN LifeTable
    BY <1>2 DEF LifeTable
  <2>2. fork \in Life!OpenIds \cup {Life!None}
    BY <1>10 DEF Life!OpenIds, Life!None, NoId
  <2>3. parent \in DOMAIN LifeTable \cup {Life!None}
    BY <1>9 DEF Life!None, NoId
  <2> QED
    BY <1>8, <1>12, <2>1, <2>2, <2>3 DEF Life!LifeNext
<1> QED
  BY <1>3, <1>13 DEF LifeStep

\* A registration.
LEMMA ConnectLife ==
  ASSUME LifeBase, NEW peer \in Peer, Connect(peer)
  PROVE  LifeInv' /\ LifeStep
<1>1. ASSUME ExitsSame, UNCHANGED <<processVars, forkVars, execVars>>
      PROVE  LifeInv' /\ LifeStep
  <2>1. TableSame /\ UNCHANGED <<next_pid, transactions, exec_transactions>>
    BY <1>1 DEF TableSame, processVars, forkVars, execVars
  <2>2. \A p \in DOMAIN processes :
            processes'[p].prewarm.at \in {"PoolReady", "PoolReserved"} =>
               processes[p].parent_pid = NoId
    BY <1>1 DEF LifeBase, LifeInv, Unattached, processVars
  <2> QED
    BY <1>1, <2>1, <2>2, LifeSame DEF LifeBase
<1>2. CASE ConnectHelper(peer)
  <2>1. ExitsSame
    BY <1>2 DEF ConnectHelper, AddClient, recordVars, ExitsSame
  <2> QED
    BY <1>1, <1>2, <2>1 DEF ConnectHelper
<1>3. ASSUME NEW kind \in {"Controller", "Launcher"}, ConnectControl(peer, kind)
      PROVE  LifeInv' /\ LifeStep
  <2>1. ExitsSame
    BY <1>3 DEF ConnectControl, AddClient, recordVars, ExitsSame
  <2> QED
    BY <1>1, <1>3, <2>1 DEF ConnectControl
<1>4. CASE ConnectRoot(peer)
  <2>1. /\ next_pid <= LAST_PID /\ next_pid' = next_pid + 1
        /\ UNCHANGED <<transactions, exec_transactions>>
        /\ processes' = With(processes, next_pid,
               NewProcess(NoId, peer, EmptySnapshot, "Active", NoId))
        /\ ProcessesOf(peer) = {} /\ ReservedFor(peer) = {}
        /\ UNCHANGED <<exit_records, exit_order>>
        /\ AddClient(peer, "Worker", next_pid, NoId)
    BY <1>4 DEF ConnectRoot, FreshWorker, KnownWorker, forkVars, execVars, recordVars
  <2>2. /\ next_pid \in Nat \ {0} /\ LAST_PID \in Nat
        /\ next_pid \notin DOMAIN processes
    BY ManagerAssumption DEF LifeBase, IInv, Shape, Limit
  <2>3. next_pid \in 1..LAST_PID /\ next_pid' <= LAST_PID + 1
    BY <2>1, <2>2
  <2>4. \A i \in DOMAIN exit_order : exit_order[i] # next_pid
    BY <2>2 DEF LifeBase, TypeInv, ExitTypes
  <2>5. VerdictsSame
    BY <2>1 DEF VerdictsSame
  <2>6. Prepared' = Prepared
    BY <2>1 DEF Prepared
  <2>7. NoId \in Nat
    BY DEF NoId
  <2>8. Registers(peer)
    BY <2>1, <2>2, AddClientExits DEF Registers, NoId
  <2> QED
    BY <2>1, <2>2, <2>3, <2>4, <2>5, <2>6, <2>7, <2>8, Appears
<1>5. ASSUME NEW id \in DOMAIN transactions, ConnectFork(peer, id)
      PROVE  LifeInv' /\ LifeStep
  <2> DEFINE t == transactions[id]
             given == CHOOSE s \in t.snapshot : TRUE
  <2>1. /\ UNCHANGED <<next_pid, exec_transactions>>
        /\ id \in Prepared
        /\ processes' = With(processes, t.child,
               NewProcess(t.child_parent, peer, given, "Pending", id))
        /\ transactions' = [transactions EXCEPT ![id].snapshot = {}, ![id].state = "Adopted"]
        /\ ProcessesOf(peer) = {} /\ ReservedFor(peer) = {}
        /\ UNCHANGED <<exit_records, exit_order>>
        /\ AddClient(peer, "Worker", t.child, NoId)
    BY <1>5 DEF ConnectFork, FreshWorker, KnownWorker, Prepared, execVars, recordVars
  <2> HIDE DEF given
  <2>2. /\ \A i \in DOMAIN transactions : DOMAIN transactions[i] = ForkFields
        /\ id \in Nat \ {0} /\ t.child \in 1..(next_pid - 1)
    BY DEF LifeBase, IInv, Shape
  <2>3. /\ DOMAIN transactions' = DOMAIN transactions
        /\ transactions'[id].state = "Adopted"
        /\ \A i \in DOMAIN transactions : i # id => transactions'[i] = transactions[i]
    BY <2>1, <2>2 DEF ForkFields
  <2>4. \A i \in Prepared' : i \in Prepared /\ transactions'[i] = transactions[i]
    BY <2>3 DEF Prepared
  <2>5. VerdictsSame
    BY <2>1, <2>3 DEF VerdictsSame, Verdict, Terminal, Prepared
  <2>6. t.child \in 1..LAST_PID /\ next_pid <= LAST_PID + 1
    <3>1. next_pid \in Nat /\ LAST_PID \in Nat /\ next_pid <= LAST_PID + 1
      BY ManagerAssumption DEF Limit, LifeBase, LifeInv, IInv, Shape
    <3> QED
      BY <2>2, <3>1
  <2>7. t.child \notin DOMAIN processes /\ \A i \in DOMAIN exit_order : exit_order[i] # t.child
    BY <2>1 DEF LifeBase, IInv, ForkSlots, LifeInv, Logged
  <2>8. t.child_parent \in DOMAIN processes \cup {NoId}
    BY <2>1 DEF LifeBase, LifeInv, Family
  <2>9. ~Terminal(t) /\ \A q \in DOMAIN processes : processes[q].transaction # id
    <3>1. t.state = "Prepared"
      BY <2>1 DEF Prepared
    <3>2. \A q \in DOMAIN processes : processes[q].state = "Pending" =>
             transactions[processes[q].transaction].state # "Prepared"
      BY DEF LifeBase, Agreed, ForkAgreement
    <3>3. \A q \in DOMAIN processes : processes[q].state # "Pending" =>
             processes[q].transaction = 0
      BY DEF LifeBase, LifeInv, Settled, NoId
    <3> QED
      BY <2>2, <3>1, <3>2, <3>3 DEF Terminal
  <2> QED
    <3>1. PICK pid, parent, snapshot, state :
             /\ pid = t.child /\ parent = t.child_parent /\ snapshot = given
             /\ state = "Pending"
      OBVIOUS
    <3>2. /\ state = IF id = NoId THEN "Active" ELSE "Pending"
          /\ processes' = With(processes, pid, NewProcess(parent, peer, snapshot, state, id))
          /\ next_pid' <= LAST_PID + 1
      BY <2>1, <2>2, <2>6, <3>1 DEF NoId
    <3>3. /\ pid \in 1..LAST_PID /\ pid \notin DOMAIN processes
          /\ \A i \in DOMAIN exit_order : exit_order[i] # pid
          /\ parent \in DOMAIN processes \cup {NoId}
      BY <2>6, <2>7, <2>8, <3>1
    <3>4. \A i \in Prepared' :
             /\ i \in Prepared
             /\ transactions'[i].child = transactions[i].child
             /\ transactions'[i].child_parent = transactions[i].child_parent
      BY <2>4
    <3>5. /\ id \in Nat /\ id \in DOMAIN transactions /\ ~Terminal(transactions[id])
          /\ \A q \in DOMAIN processes : processes[q].transaction # id
      BY <2>2, <2>9
    <3>6. /\ UNCHANGED exec_transactions
          /\ ProcessesOf(peer) = {} /\ ReservedFor(peer) = {}
      BY <2>1
    <3>7. Registers(peer)
      <4>1. AddClient(peer, "Worker", pid, NoId)
        BY <2>1, <3>1
      <4>2. pid # NoId
        BY <2>6, <3>1 DEF NoId
      <4>3. exited' = Without(exited, peer)
        BY <4>1, <4>2 DEF AddClient
      <4>4. UNCHANGED <<exit_records, exit_order>>
        BY <2>1
      <4> QED
        BY <4>3, <4>4 DEF Registers
    <3> HIDE DEF t
    <3> QED
      BY <2>5, <3>7, <3>2, <3>3, <3>4, <3>5, <3>6, Appears
<1>6. ASSUME NEW id \in DOMAIN exec_transactions, ConnectExec(peer, id)
      PROVE  LifeInv' /\ LifeStep
  <2>1. /\ UNCHANGED <<processes, next_pid, transactions>>
        /\ exec_transactions[id].state = "Prepared"
        /\ exec_transactions' = [exec_transactions EXCEPT ![id].candidate = next_client,
                                                          ![id].state = "Adopted"]
        /\ exec_transactions[id].target = peer
        /\ exec_transactions[id].process \in DOMAIN processes
        /\ AddClient(peer, "ExecCandidate", exec_transactions[id].process, id)
        /\ ProcessesOf(peer) = {}
        /\ UNCHANGED <<exit_records, exit_order>>
    BY <1>6 DEF ConnectExec, FreshWorker, KnownWorker, ReservedFor, forkVars, processVars,
                recordVars
  <2>2. /\ DOMAIN exec_transactions' = DOMAIN exec_transactions
        /\ exec_transactions'[id].state = "Adopted"
        /\ \A i \in DOMAIN exec_transactions :
              /\ i # id => exec_transactions'[i] = exec_transactions[i]
              /\ exec_transactions'[i].retiring = exec_transactions[i].retiring
              /\ exec_transactions'[i].process = exec_transactions[i].process
              /\ exec_transactions'[i].target = exec_transactions[i].target
              /\ exec_transactions'[i].candidate_exit = exec_transactions[i].candidate_exit
    <3>1. \A i \in DOMAIN exec_transactions : DOMAIN exec_transactions[i] = ExecFields
      BY DEF LifeBase, IInv, Shape
    <3> QED
      BY <2>1, <3>1 DEF ExecFields
  <2>3. TableSame /\ HeirsSame /\ VerdictsSame
    BY <2>1, <2>2 DEF TableSame, HeirsSame, VerdictsSame, Verdict, Terminal
  <2>4. Prepared' = Prepared
    BY <2>1 DEF Prepared
  <2>5. exec_transactions[id].process # NoId
    BY <2>1 DEF LifeBase, IInv, Shape, NoId
  <2>6. Registers(peer)
    BY <2>1, <2>5, AddClientExits DEF Registers
  <2>7. \A i \in DOMAIN exec_transactions :
           exec_transactions[i].retiring => exec_transactions[i].target # peer
    BY <2>1 DEF LifeBase, IInv, Targets, Retiring
  <2>8. LifeInv'
    <3>1. Family' /\ Unattached' /\ Settled'
      BY <2>1, <2>4 DEF LifeBase, LifeInv, Family, Unattached, Settled
    <3>2. Alive'
      BY <2>1, <2>6, OtherExits DEF LifeBase, LifeInv, Alive
    <3>3. Reported'
      BY <2>2, <2>6, <2>7, OthersReported DEF LifeBase
    <3>4. Logged' /\ next_pid' <= LAST_PID + 1
      BY <2>1, <2>4 DEF LifeBase, LifeInv, Logged
    <3> QED
      BY <3>1, <3>2, <3>3, <3>4 DEF LifeInv
  <2>9. UNCHANGED <<LifeTable, LifeVerdict, LifeLog>>
    BY <2>3, <2>6, TableKept, VerdictsKept, OtherExits
  <2>10. peer \notin Life!Employed
    BY <2>1, <2>7, EmployedImages DEF ProcessesOf
  <2>11. Life!Return(peer)
    BY <2>6, <2>9, <2>10, OtherExits DEF Life!Return
  <2> QED
    BY <2>8, <2>10, <2>11 DEF Life!LifeNext, LifeStep
<1> QED
  BY <1>2, <1>3, <1>4, <1>5, <1>6 DEF Connect

\* A transaction begins.
LEMMA Opens ==
  ASSUME LifeBase, TableSame, HeirsSame, ExitsSame, NEW id \in 1..LAST_TRANSACTION,
         id \notin DOMAIN transactions \cup DOMAIN exec_transactions,
         \/ \E t : /\ transactions' = With(transactions, id, t) /\ ~Terminal(t)
                   /\ UNCHANGED exec_transactions
         \/ \E t : /\ exec_transactions' = With(exec_transactions, id, t) /\ ~Terminal(t)
                   /\ UNCHANGED transactions
  PROVE  LifeStep
<1>1. LifeVerdict' = Life!Put(LifeVerdict, id, "open")
  <2>1. DOMAIN LifeVerdict = DOMAIN transactions \cup DOMAIN exec_transactions
    BY DEF LifeVerdict
  <2>2. /\ DOMAIN LifeVerdict' = DOMAIN LifeVerdict \cup {id}
        /\ LifeVerdict' = [i \in DOMAIN LifeVerdict' |-> LifeVerdict'[i]]
    BY DEF LifeVerdict, With
  <2>3. LifeVerdict'[id] = "open"
    BY DEF LifeVerdict, With, Verdict
  <2>4. \A i \in DOMAIN LifeVerdict : LifeVerdict'[i] = LifeVerdict[i]
    BY DEF LifeVerdict, With
  <2> QED
    BY <2>2, <2>3, <2>4 DEF Life!Put
<1>2. UNCHANGED <<LifeTable, exited, LifeLog>>
  BY TableKept, LogKept DEF ExitsSame
<1>3. id \notin DOMAIN LifeVerdict
  BY DEF LifeVerdict
<1>4. Life!Open(id)
  BY <1>1, <1>2, <1>3 DEF Life!Open
<1> QED
  BY <1>4 DEF Life!LifeNext, LifeStep

\* The children that wait for one of these forks.
LEMMA WaitingChildren ==
  ASSUME LifeBase, NEW forks, NEW execs, execs \subseteq DOMAIN exec_transactions,
         forks \subseteq {id \in DOMAIN transactions : ~Terminal(transactions[id])},
         NEW pid \in DOMAIN processes
  PROVE  pid \in ChildrenOf(forks) <=> processes[pid].transaction \in forks \cup execs
<1>1. ASSUME pid \in ChildrenOf(forks) PROVE processes[pid].transaction \in forks
  <2>1. PICK id \in forks : pid = transactions[id].child
    BY <1>1 DEF ChildrenOf
  <2>2. processes[pid].transaction = id
    BY <2>1, UndecidedFork DEF LifeBase
  <2> QED
    BY <2>1, <2>2
<1>2. ASSUME processes[pid].transaction \in forks \cup execs PROVE pid \in ChildrenOf(forks)
  <2> DEFINE id == processes[pid].transaction
  <2>1. id # 0
    BY <1>2 DEF LifeBase, IInv, Shape
  <2>2. processes[pid].state = "Pending"
    BY <2>1 DEF LifeBase, LifeInv, Settled, NoId
  <2>3. id \in DOMAIN transactions /\ transactions[id].child = pid
    BY <2>2 DEF LifeBase, Agreed, ForkAgreement
  <2>4. id \in forks
    BY <1>2, <2>3 DEF LifeBase, KeysResolve
  <2> QED
    BY <2>3, <2>4 DEF ChildrenOf
<1> QED
  BY <1>1, <1>2

\* Verdicts after some transactions were aborted.
LEMMA AbortedVerdicts ==
  ASSUME LifeBase, NEW forks, NEW execs
  PROVE  /\ \A id \in DOMAIN transactions :
               Verdict(AbortedForks(forks)[id]) =
                  IF id \in forks THEN "Aborted" ELSE Verdict(transactions[id])
         /\ \A id \in DOMAIN exec_transactions :
               Verdict(AbortedExecs(execs)[id]) =
                  IF id \in execs THEN "Aborted" ELSE Verdict(exec_transactions[id])
<1>1. ASSUME NEW id \in DOMAIN transactions
      PROVE  Verdict(AbortedForks(forks)[id]) =
                  IF id \in forks THEN "Aborted" ELSE Verdict(transactions[id])
  <2>1. DOMAIN transactions[id] = ForkFields
    BY DEF LifeBase, IInv, Shape
  <2>2. AbortedForks(forks)[id] =
           IF id \in forks THEN [transactions[id] EXCEPT !.state = "Aborted", !.snapshot = {}]
           ELSE transactions[id]
    BY DEF AbortedForks
  <2>3. [transactions[id] EXCEPT !.state = "Aborted", !.snapshot = {}].state = "Aborted"
    BY <2>1 DEF ForkFields
  <2> QED
    BY <2>2, <2>3 DEF Verdict, Terminal
<1>2. ASSUME NEW id \in DOMAIN exec_transactions
      PROVE  Verdict(AbortedExecs(execs)[id]) =
                  IF id \in execs THEN "Aborted" ELSE Verdict(exec_transactions[id])
  <2>1. DOMAIN exec_transactions[id] = ExecFields
    BY DEF LifeBase, IInv, Shape
  <2>2. AbortedExecs(execs)[id] =
           IF id \in execs THEN [exec_transactions[id] EXCEPT !.state = "Aborted"]
           ELSE exec_transactions[id]
    BY DEF AbortedExecs
  <2>3. [exec_transactions[id] EXCEPT !.state = "Aborted"].state = "Aborted"
    BY <2>1 DEF ExecFields
  <2> QED
    BY <2>2, <2>3 DEF Verdict, Terminal
<1> QED
  BY <1>1, <1>2

\* Transactions that are not decided yet are aborted.
LEMMA Aborts ==
  ASSUME LifeBase, ExitsSame, UNCHANGED next_pid,
         NEW forks, forks \subseteq {id \in DOMAIN transactions : ~Terminal(transactions[id])},
         NEW execs, execs \subseteq PendingExecs,
         DOMAIN transactions' = DOMAIN transactions,
         \A id \in DOMAIN transactions : transactions'[id] = AbortedForks(forks)[id],
         DOMAIN exec_transactions' = DOMAIN exec_transactions,
         \A id \in DOMAIN exec_transactions : exec_transactions'[id] = AbortedExecs(execs)[id],
         DOMAIN processes' = DOMAIN processes,
         \A pid \in DOMAIN processes :
            LET p == processes[pid]
                q == processes'[pid]
            IN  /\ q.peer = p.peer /\ q.parent_pid = p.parent_pid
                /\ q.prewarm.at \in {"PoolReady", "PoolReserved"} => p.parent_pid = NoId
                /\ q.state = IF pid \in ChildrenOf(forks) THEN "Aborted" ELSE p.state
                /\ q.transaction = IF pid \in ChildrenOf(forks) THEN NoId ELSE p.transaction
  PROVE  LifeInv' /\ LifeStep
<1>1. /\ \A id \in DOMAIN transactions : DOMAIN transactions[id] = ForkFields
      /\ \A id \in DOMAIN exec_transactions : DOMAIN exec_transactions[id] = ExecFields
  BY DEF LifeBase, IInv, Shape
<1>2. /\ DOMAIN exec_transactions' = DOMAIN exec_transactions
      /\ \A id \in DOMAIN exec_transactions :
            /\ exec_transactions'[id].retiring = exec_transactions[id].retiring
            /\ exec_transactions'[id].process = exec_transactions[id].process
            /\ exec_transactions'[id].target = exec_transactions[id].target
            /\ exec_transactions'[id].candidate_exit = exec_transactions[id].candidate_exit
  BY <1>1 DEF AbortedExecs, ExecFields
<1>3. /\ DOMAIN transactions' = DOMAIN transactions
      /\ \A id \in Prepared' : id \in Prepared /\ transactions'[id] = transactions[id]
  <2>1. ASSUME NEW id \in DOMAIN transactions, transactions'[id].state = "Prepared"
        PROVE  id \notin forks
    <3>1. id \in forks => transactions'[id] =
             [transactions[id] EXCEPT !.state = "Aborted", !.snapshot = {}]
      BY Zenon DEF AbortedForks
    <3> QED
      BY <1>1, <2>1, <3>1 DEF ForkFields
  <2>2. \A id \in DOMAIN transactions : id \notin forks => transactions'[id] = transactions[id]
    BY Zenon DEF AbortedForks
  <2> QED
    BY <2>1, <2>2 DEF Prepared
<1>4. LifeInv'
  <2>1. \A pid \in DOMAIN processes :
            LET q == processes'[pid]
            IN  /\ q.peer = processes[pid].peer
                /\ q.parent_pid \in DOMAIN processes \cup {NoId}
                /\ q.prewarm.at \in {"PoolReady", "PoolReserved"} => q.parent_pid = NoId
                /\ q.state # "Pending" => q.transaction = NoId
    BY DEF LifeBase, LifeInv, Family, Settled
  <2> QED
    BY <1>2, <1>3, <2>1, LifeKept DEF LifeBase
<1>5. HeirsSame
  BY <1>2 DEF HeirsSame
<1>6. PICK ids : ids = forks \cup execs
  OBVIOUS
<1>7. UNCHANGED <<exited, LifeLog>>
  BY LogKept DEF ExitsSame
<1>8. execs \subseteq DOMAIN exec_transactions
  BY DEF PendingExecs
<1>9. LifeTable' = Life!Revoke(LifeTable, ids)
  <2>1. /\ \A p : Heir(p)' = Heir(p)
        /\ DOMAIN LifeTable = DOMAIN processes
    BY <1>5, HeirsKept DEF LifeTable
  <2>2. ASSUME NEW pid \in DOMAIN processes
        PROVE  LifeTable'[pid] =
                  IF LifeTable[pid].fork \in ids
                  THEN [LifeTable[pid] EXCEPT !.phase = "Aborted", !.fork = NoId]
                  ELSE LifeTable[pid]
    <3>1. pid \in ChildrenOf(forks) <=> processes[pid].transaction \in ids
      BY <1>6, <1>8, WaitingChildren
    <3> QED
      BY <2>1, <3>1 DEF LifeTable
  <2>3. LifeTable' = [pid \in DOMAIN processes |-> LifeTable'[pid]]
    BY DEF LifeTable
  <2> QED
    BY <2>1, <2>2, <2>3, Zenon DEF Life!Revoke, Life!None, NoId
<1>10. /\ DOMAIN LifeVerdict = DOMAIN transactions \cup DOMAIN exec_transactions
       /\ ids \subseteq Life!OpenIds
       /\ LifeVerdict' = [id \in DOMAIN LifeVerdict |->
              IF id \in ids THEN "Aborted" ELSE LifeVerdict[id]]
  <2>1. /\ DOMAIN LifeVerdict = DOMAIN transactions \cup DOMAIN exec_transactions
        /\ \A id \in DOMAIN transactions : LifeVerdict[id] = Verdict(transactions[id])
        /\ \A id \in DOMAIN exec_transactions : LifeVerdict[id] = Verdict(exec_transactions[id])
    BY VerdictOf DEF LifeBase
  <2>2. DOMAIN transactions \cap DOMAIN exec_transactions = {}
    BY DEF LifeBase, KeysResolve
  <2>3. \A id \in ids : id \in DOMAIN LifeVerdict /\ LifeVerdict[id] = "open"
    BY <1>6, <2>1 DEF Verdict, PendingExecs
  <2>4. /\ LifeVerdict' = [id \in DOMAIN LifeVerdict |-> LifeVerdict'[id]]
        /\ \A id \in DOMAIN transactions : LifeVerdict'[id] = Verdict(transactions'[id])
        /\ \A id \in DOMAIN exec_transactions : LifeVerdict'[id] = Verdict(exec_transactions'[id])
    BY <1>2, <1>3, <2>1, <2>2 DEF LifeVerdict
  <2>5. ASSUME NEW id \in DOMAIN LifeVerdict
        PROVE  LifeVerdict'[id] = IF id \in ids THEN "Aborted" ELSE LifeVerdict[id]
    <3>1. id \in DOMAIN transactions => (id \in ids <=> id \in forks)
      BY <1>6, <1>8, <2>2
    <3>2. id \in DOMAIN exec_transactions => (id \in ids <=> id \in execs)
      BY <1>6, <2>2
    <3> QED
      BY <2>1, <2>4, <3>1, <3>2, AbortedVerdicts
  <2> QED
    BY <2>1, <2>3, <2>4, <2>5 DEF Life!OpenIds
<1>11. CASE ids = {}
  <2>1. UNCHANGED <<LifeTable, LifeVerdict>>
    <3>1. LifeTable = [pid \in DOMAIN LifeTable |-> LifeTable[pid]]
      BY DEF LifeTable
    <3>2. LifeVerdict = [id \in DOMAIN LifeVerdict |-> LifeVerdict[id]]
      BY DEF LifeVerdict
    <3> QED
      BY <1>9, <1>10, <1>11, <3>1, <3>2 DEF Life!Revoke
  <2> QED
    BY <1>4, <1>7, <2>1 DEF LifeStep
<1>12. CASE ids # {}
  <2>1. LifeVerdict' = Life!Closed(ids, {})
    BY <1>10 DEF Life!Closed
  <2>2. Life!Abort(ids)
    BY <1>7, <1>9, <1>10, <1>12, <2>1 DEF Life!Abort
  <2>3. Life!LifeNext
    BY <1>10, <2>2 DEF Life!LifeNext
  <2> QED
    BY <1>4, <2>3 DEF LifeStep
<1> QED
  BY <1>11, <1>12

\* A decided transaction is forgotten.
LEMMA Forgets ==
  ASSUME LifeBase, TableSame, HeirsSame, ExitsSame, NEW id,
         \/ /\ id \in DOMAIN transactions /\ Terminal(transactions[id])
            /\ transactions' = Without(transactions, id) /\ UNCHANGED exec_transactions
         \/ /\ id \in DOMAIN exec_transactions /\ Terminal(exec_transactions[id])
            /\ exec_transactions' = Without(exec_transactions, id) /\ UNCHANGED transactions
  PROVE  LifeStep
<1>1. /\ DOMAIN LifeVerdict = DOMAIN transactions \cup DOMAIN exec_transactions
      /\ \A i \in DOMAIN transactions : LifeVerdict[i] = Verdict(transactions[i])
      /\ \A i \in DOMAIN exec_transactions : LifeVerdict[i] = Verdict(exec_transactions[i])
      /\ DOMAIN transactions \cap DOMAIN exec_transactions = {}
  BY VerdictOf DEF LifeBase, KeysResolve
<1>2. id \in DOMAIN LifeVerdict \ Life!OpenIds
  BY <1>1 DEF Life!OpenIds, Verdict, Terminal
<1>3. LifeVerdict' = [i \in DOMAIN LifeVerdict \ {id} |-> LifeVerdict[i]]
  <2>1. \/ /\ id \in DOMAIN transactions /\ UNCHANGED exec_transactions
           /\ DOMAIN transactions' = DOMAIN transactions \ {id}
           /\ \A i \in DOMAIN transactions \ {id} : transactions'[i] = transactions[i]
        \/ /\ id \in DOMAIN exec_transactions /\ UNCHANGED transactions
           /\ DOMAIN exec_transactions' = DOMAIN exec_transactions \ {id}
           /\ \A i \in DOMAIN exec_transactions \ {id} :
                 exec_transactions'[i] = exec_transactions[i]
    BY DEF Without, Restrict
  <2>2. DOMAIN transactions' \cup DOMAIN exec_transactions' = DOMAIN LifeVerdict \ {id}
    BY <1>1, <2>1
  <2> QED
    BY <1>1, <2>1, <2>2 DEF LifeVerdict
<1>4. UNCHANGED <<LifeTable, exited, LifeLog>>
  BY TableKept, LogKept DEF ExitsSame
<1>5. Life!Forget(id)
  BY <1>2, <1>3, <1>4 DEF Life!Forget, Life!Closed
<1> QED
  BY <1>2, <1>5 DEF Life!LifeNext, LifeStep

\* A fork is prepared.
LEMMA ReserveLife ==
  ASSUME LifeBase, NEW pid \in DOMAIN processes, NEW key,
         NEW parent \in DOMAIN processes \cup {NoId}, Reserve(pid, key, parent)
  PROVE  LifeInv' /\ LifeStep
<1>1. /\ ExitsSame /\ UNCHANGED exec_transactions
      /\ next_pid <= LAST_PID /\ next_pid' = next_pid + 1
      /\ next_transaction < LAST_TRANSACTION
      /\ processes' = [processes EXCEPT ![pid].request_keys = With(@, key, next_transaction)]
  BY DEF Reserve, TransactionCapacity, ExitsSame, exitVars, execVars
<1>2. PICK t : /\ transactions' = With(transactions, next_transaction, t)
               /\ t.state = "Prepared" /\ t.child = next_pid /\ t.child_parent = parent
  <2>1. PICK snapshots : transactions' = With(transactions, next_transaction,
             [parent |-> pid, requested_parent |-> parent, child |-> next_pid,
              child_parent |-> parent, snapshot |-> snapshots, state |-> "Prepared"])
    BY DEF Reserve
  <2> QED
    BY <2>1
<1>3. /\ \A p \in DOMAIN processes : DOMAIN processes[p] = ProcessFields
      /\ next_pid \in Nat /\ LAST_PID \in Nat
      /\ next_transaction \in Nat \ {0} /\ LAST_TRANSACTION \in Nat
      /\ next_transaction \notin DOMAIN transactions \cup DOMAIN exec_transactions
  BY ManagerAssumption DEF LifeBase, IInv, Shape, Limit
<1>4. /\ DOMAIN processes' = DOMAIN processes
      /\ \A p \in DOMAIN processes :
            /\ processes'[p].peer = processes[p].peer
            /\ processes'[p].parent_pid = processes[p].parent_pid
            /\ processes'[p].state = processes[p].state
            /\ processes'[p].transaction = processes[p].transaction
            /\ processes'[p].prewarm = processes[p].prewarm
  BY <1>1, <1>3 DEF ProcessFields
<1>5. LifeInv'
  <2>1. \A id \in Prepared' :
           \/ id \in Prepared /\ transactions'[id] = transactions[id]
           \/ transactions'[id] = t
    BY <1>2 DEF Prepared, With
  <2>2. Family'
    BY <1>2, <1>4, <2>1 DEF LifeBase, LifeInv, Family
  <2>3. Unattached' /\ Settled' /\ Alive'
    BY <1>1, <1>4 DEF LifeBase, LifeInv, Unattached, Settled, Alive, ExitsSame
  <2>4. Reported'
    BY <1>1 DEF LifeBase, LifeInv, Reported, ExitsSame
  <2>5. \A i \in DOMAIN exit_order : exit_order[i] # next_pid
    BY <1>3 DEF LifeBase, TypeInv, ExitTypes
  <2>6. Logged'
    BY <1>1, <1>2, <1>4, <2>1, <2>5 DEF LifeBase, LifeInv, Logged, ExitsSame
  <2>7. next_pid' <= LAST_PID + 1
    BY <1>1, <1>3
  <2> QED
    BY <2>2, <2>3, <2>4, <2>6, <2>7 DEF LifeInv
<1>6. TableSame /\ HeirsSame
  BY <1>1, <1>4 DEF TableSame, HeirsSame
<1>7. next_transaction \in 1..LAST_TRANSACTION
  BY <1>1, <1>3
<1>8. ~Terminal(t)
  BY <1>2 DEF Terminal
<1> QED
  BY <1>1, <1>2, <1>3, <1>5, <1>6, <1>7, <1>8, Opens

\* A fork is committed: its child runs.
LEMMA CommitForkLife ==
  ASSUME LifeBase, NEW c \in DOMAIN clients, NEW id \in DOMAIN transactions, CommitFork(c, id)
  PROVE  LifeInv' /\ LifeStep
<1> DEFINE child == transactions[id].child
<1>1. /\ ExitsSame /\ UNCHANGED <<next_pid, exec_transactions>>
      /\ transactions[id].state = "Ready"
      /\ transactions' = [transactions EXCEPT ![id].state = "Committed"]
      /\ processes' = [processes EXCEPT ![child].state = "Active",
                                        ![child].transaction = NoId]
  BY DEF CommitFork, ExitsSame, exitVars, execVars
<1>2. /\ child \in DOMAIN processes
      /\ processes[child].state = "Pending" /\ processes[child].transaction = id
  BY <1>1, UndecidedFork DEF LifeBase, Terminal
<1>3. /\ \A p \in DOMAIN processes : DOMAIN processes[p] = ProcessFields
      /\ \A i \in DOMAIN transactions : DOMAIN transactions[i] = ForkFields
  BY DEF LifeBase, IInv, Shape
<1>4. /\ DOMAIN processes' = DOMAIN processes
      /\ \A p \in DOMAIN processes :
            /\ processes'[p].peer = processes[p].peer
            /\ processes'[p].parent_pid = processes[p].parent_pid
            /\ processes'[p].state = IF p = child THEN "Active" ELSE processes[p].state
            /\ processes'[p].transaction = IF p = child THEN NoId ELSE processes[p].transaction
            /\ processes'[p].prewarm = processes[p].prewarm
  <2>1. DOMAIN processes' = DOMAIN processes
    BY <1>1
  <2>2. \A p \in DOMAIN processes : processes'[p] =
           IF p = child THEN [processes[p] EXCEPT !.state = "Active", !.transaction = NoId]
           ELSE processes[p]
    BY <1>1
  <2> QED
    BY <1>3, <2>1, <2>2, Zenon DEF ProcessFields
<1>5. /\ DOMAIN transactions' = DOMAIN transactions
      /\ transactions'[id].state = "Committed"
      /\ \A i \in DOMAIN transactions : i # id => transactions'[i] = transactions[i]
  BY <1>1, <1>3 DEF ForkFields
<1>6. \A i \in Prepared' : i \in Prepared /\ transactions'[i] = transactions[i]
  BY <1>5 DEF Prepared
<1> HIDE DEF child
<1>7. LifeInv'
  <2>1. \A pid \in DOMAIN processes :
            LET q == processes'[pid]
            IN  /\ q.peer = processes[pid].peer
                /\ q.parent_pid \in DOMAIN processes \cup {NoId}
                /\ q.prewarm.at \in {"PoolReady", "PoolReserved"} => q.parent_pid = NoId
                /\ q.state # "Pending" => q.transaction = NoId
    BY <1>4 DEF LifeBase, LifeInv, Family, Unattached, Settled
  <2> QED
    BY <1>1, <1>4, <1>6, <2>1, LifeKept DEF LifeBase
<1>8. /\ DOMAIN LifeTable = DOMAIN processes
      /\ LifeTable[child].phase = "Pending" /\ LifeTable[child].fork = id
  BY <1>2 DEF LifeTable
<1>9. LifeTable' = [LifeTable EXCEPT ![child].phase = "Active", ![child].fork = NoId]
  <2>1. HeirsSame
    BY <1>1 DEF HeirsSame
  <2>2. \A p : Heir(p)' = Heir(p)
    BY <2>1, HeirsKept
  <2> QED
    BY <1>2, <1>4, <2>2, ZenonT(40) DEF LifeTable
<1>10. /\ id \in DOMAIN LifeVerdict /\ LifeVerdict[id] = "open"
       /\ LifeVerdict' = [LifeVerdict EXCEPT ![id] = "Committed"]
  <2>1. /\ DOMAIN LifeVerdict = DOMAIN transactions \cup DOMAIN exec_transactions
        /\ LifeVerdict[id] = Verdict(transactions[id])
    BY VerdictOf DEF LifeBase
  <2> QED
    BY <1>1, <1>5, <2>1 DEF LifeVerdict, Verdict, Terminal
<1>11. UNCHANGED <<exited, LifeLog>>
  BY <1>1, LogKept DEF ExitsSame
<1>12. Life!Start(child)
  BY <1>2, <1>8, <1>9, <1>10, <1>11 DEF Life!Start, Life!None, NoId
<1> QED
  BY <1>2, <1>7, <1>8, <1>12 DEF Life!LifeNext, LifeStep

\* The requests of a fork.
LEMMA ForkRequestLife ==
  ASSUME LifeBase, NEW c \in DOMAIN clients, ForkRequest(c)
  PROVE  LifeInv' /\ LifeStep
<1>0. /\ \A p \in DOMAIN processes : DOMAIN processes[p] = ProcessFields
      /\ \A i \in DOMAIN transactions : DOMAIN transactions[i] = ForkFields
  BY DEF LifeBase, IInv, Shape
<1>1. ASSUME NEW key \in RequestKey, PrepareFork(c, key) \/ PrepareForkWithParent(c, key)
      PROVE  LifeInv' /\ LifeStep
  <2>1. clients[c].pid \in DOMAIN processes
    BY <1>1 DEF PrepareFork, PrepareForkWithParent, ActiveWorker, OwnsProcess
  <2>2. PICK parent \in DOMAIN processes \cup {NoId} : Reserve(clients[c].pid, key, parent)
    BY <1>1, <2>1 DEF PrepareFork, PrepareForkWithParent, LifeBase, LifeInv, Family
  <2> QED
    BY <2>1, <2>2, ReserveLife
<1>2. CASE MarkReady(c)
  <2> DEFINE id == processes[clients[c].pid].transaction
  <2>1. /\ ExitsSame /\ UNCHANGED <<processes, next_pid, exec_transactions>>
        /\ transactions' = [transactions EXCEPT ![id].state = "Ready"]
        /\ clients[c].pid \in DOMAIN processes
        /\ processes[clients[c].pid].state = "Pending"
    BY <1>2 DEF MarkReady, OwnsProcess, ExitsSame, exitVars, execVars, processVars
  <2>2. id \in DOMAIN transactions /\ transactions[id].state \in {"Adopted", "Ready"}
    BY <2>1 DEF LifeBase, Agreed, ForkAgreement
  <2>3. /\ DOMAIN transactions' = DOMAIN transactions
        /\ transactions'[id].state = "Ready"
        /\ \A i \in DOMAIN transactions : i # id => transactions'[i] = transactions[i]
    BY <1>0, <2>1, <2>2 DEF ForkFields
  <2>4. \A i \in Prepared' : i \in Prepared /\ transactions'[i] = transactions[i]
    BY <2>3 DEF Prepared
  <2>5. TableSame /\ HeirsSame /\ VerdictsSame
    BY <2>1, <2>2, <2>3 DEF TableSame, HeirsSame, VerdictsSame, Verdict, Terminal
  <2>6. LifeInv'
    BY <2>1, <2>4, LifeKept DEF LifeBase, LifeInv, Family, Unattached, Settled
  <2> QED
    BY <2>1, <2>5, <2>6, Stutter
<1>3. ASSUME NEW id \in DOMAIN transactions, AbortFork(c, id)
      PROVE  LifeInv' /\ LifeStep
  <2>1. /\ ExitsSame /\ UNCHANGED <<next_pid, exec_transactions>>
        /\ ~Terminal(transactions[id])
        /\ transactions' = AbortedForks({id})
        /\ processes' = [p \in DOMAIN processes |->
               IF p \in ChildrenOf({id}) THEN Revoked(processes[p]) ELSE processes[p]]
    BY <1>3 DEF AbortFork, ExitsSame, exitVars, execVars
  <2>2. /\ DOMAIN transactions' = DOMAIN transactions
        /\ \A i \in DOMAIN exec_transactions : exec_transactions'[i] = AbortedExecs({})[i]
    BY <2>1, Zenon DEF AbortedForks, AbortedExecs
  <2>3. /\ DOMAIN processes' = DOMAIN processes
        /\ \A pid \in DOMAIN processes :
              LET p == processes[pid]
                  q == processes'[pid]
              IN  /\ q.peer = p.peer /\ q.parent_pid = p.parent_pid
                  /\ q.prewarm = p.prewarm
                  /\ q.state = IF pid \in ChildrenOf({id}) THEN "Aborted" ELSE p.state
                  /\ q.transaction = IF pid \in ChildrenOf({id}) THEN NoId ELSE p.transaction
    BY <1>0, <2>1, Zenon DEF Revoked, ProcessFields
  <2>4. Unattached
    BY DEF LifeBase, LifeInv
  <2> QED
    <3>1. PICK forks, execs : forks = {id} /\ execs = {}
      OBVIOUS
    <3>2. /\ forks \subseteq {i \in DOMAIN transactions : ~Terminal(transactions[i])}
          /\ execs \subseteq PendingExecs
      BY <2>1, <3>1
    <3>3. /\ \A i \in DOMAIN transactions : transactions'[i] = AbortedForks(forks)[i]
          /\ \A i \in DOMAIN exec_transactions : exec_transactions'[i] = AbortedExecs(execs)[i]
          /\ DOMAIN exec_transactions' = DOMAIN exec_transactions
      BY <2>1, <2>2, <3>1
    <3>4. \A pid \in DOMAIN processes :
            LET p == processes[pid]
                q == processes'[pid]
            IN  /\ q.peer = p.peer /\ q.parent_pid = p.parent_pid
                /\ q.prewarm.at \in {"PoolReady", "PoolReserved"} => p.parent_pid = NoId
                /\ q.state = IF pid \in ChildrenOf(forks) THEN "Aborted" ELSE p.state
                /\ q.transaction = IF pid \in ChildrenOf(forks) THEN NoId ELSE p.transaction
      BY <2>3, <2>4, <3>1 DEF Unattached
    <3>5. ExitsSame /\ UNCHANGED next_pid
      BY <2>1
    <3> QED
      BY <2>2, <2>3, <3>2, <3>3, <3>4, <3>5, Aborts
<1>4. ASSUME NEW id \in DOMAIN transactions, AcknowledgeFork(c, id)
      PROVE  LifeInv' /\ LifeStep
  <2>1. /\ ExitsSame /\ UNCHANGED <<next_pid, exec_transactions>>
        /\ Terminal(transactions[id])
        /\ transactions' = Without(transactions, id)
        /\ processes' = [processes EXCEPT ![clients[c].pid].request_keys = DropRecord(@, id)]
    BY <1>4 DEF AcknowledgeFork, ExitsSame, exitVars, execVars
  <2>2. /\ TableSame
        /\ \A p \in DOMAIN processes : processes'[p].prewarm = processes[p].prewarm
    BY <1>0, <2>1 DEF TableSame, ProcessFields
  <2>3. \A i \in Prepared' : i \in Prepared /\ transactions'[i] = transactions[i]
    BY <2>1 DEF Prepared, Without, Restrict
  <2>4. HeirsSame
    BY <2>1 DEF HeirsSame
  <2>5. LifeInv'
    BY <2>1, <2>2, <2>3, LifeKept DEF TableSame, LifeBase, LifeInv, Family, Unattached, Settled
  <2> QED
    BY <2>1, <2>2, <2>4, <2>5, Forgets
<1> QED
  BY <1>1, <1>2, <1>3, <1>4, CommitForkLife DEF ForkRequest

\* An exec is committed: its replacement is elected.
LEMMA CommitExecLife ==
  ASSUME LifeBase, NEW c \in DOMAIN clients, NEW id \in DOMAIN exec_transactions,
         CommitExec(c, id)
  PROVE  LifeInv' /\ LifeStep
<1>0. PICK pid, target : pid = clients[c].pid /\ target = exec_transactions[id].target
  OBVIOUS
<1>1. /\ ExitsSame /\ UNCHANGED <<next_pid, processes, transactions>>
      /\ exec_transactions[id].state = "Ready" /\ exec_transactions[id].process = pid
      /\ exec_transactions' = [exec_transactions EXCEPT ![id].state = "Committed",
                                                        ![id].retiring = TRUE]
      /\ pid \in DOMAIN processes /\ processes[pid].state = "Active"
      /\ clients[c].kind = "Worker"
  BY <1>0 DEF CommitExec, OwnedExec, ActiveWorker, OwnsProcess, ExitsSame, exitVars,
              forkVars, processVars
<1>2. \A i \in DOMAIN exec_transactions : DOMAIN exec_transactions[i] = ExecFields
  BY DEF LifeBase, IInv, Shape
<1>3. /\ DOMAIN exec_transactions' = DOMAIN exec_transactions
      /\ \A i \in DOMAIN exec_transactions :
            /\ i # id => exec_transactions'[i] = exec_transactions[i]
            /\ exec_transactions'[i].process = exec_transactions[i].process
            /\ exec_transactions'[i].target = exec_transactions[i].target
            /\ exec_transactions'[i].candidate_exit = exec_transactions[i].candidate_exit
      /\ exec_transactions'[id].retiring /\ exec_transactions'[id].state = "Committed"
  <2>1. \A i \in DOMAIN exec_transactions : exec_transactions'[i] =
           IF i = id THEN [exec_transactions[i] EXCEPT !.state = "Committed", !.retiring = TRUE]
           ELSE exec_transactions[i]
    BY <1>1
  <2>2. DOMAIN exec_transactions' = DOMAIN exec_transactions
    BY <1>1
  <2> QED
    BY <1>2, <2>1, <2>2, Zenon DEF ExecFields
<1>4. \A i \in DOMAIN exec_transactions :
         exec_transactions[i].process = pid => ~exec_transactions[i].retiring
  BY <1>0, <1>1 DEF LifeBase, IInv, Retiring
<1>5. target \notin DOMAIN exited
  <2>1. id \in PendingExecs
    BY <1>1 DEF PendingExecs, Terminal
  <2>2. /\ exec_transactions[id].candidate \in DOMAIN clients
        /\ clients[exec_transactions[id].candidate] =
              [peer |-> target, kind |-> "ExecCandidate",
               pid |-> exec_transactions[id].process, transaction |-> id]
    BY <1>0, <1>1, <2>1 DEF LifeBase, ExecInv, Backed
  <2> QED
    BY <2>2 DEF LifeBase, ExecInv, Gone, LaunchKinds
<1>6. LifeInv'
  <2>1. Family' /\ Unattached' /\ Settled' /\ Alive' /\ Logged'
    BY <1>1 DEF LifeBase, LifeInv, Family, Unattached, Settled, Alive, Logged, ExitsSame, Prepared
  <2>2. exec_transactions[id].candidate_exit = {}
    BY <1>1, <1>4 DEF LifeBase, LifeInv, Reported
  <2>3. Reported'
    BY <1>0, <1>1, <1>3, <1>5, <2>2 DEF LifeBase, LifeInv, Reported, ExitsSame
  <2> QED
    BY <1>1, <2>1, <2>3 DEF LifeBase, LifeInv
<1>7. Heir(pid) = {} /\ Heir(pid)' = {target}
  <2>1. Heir(pid) = {}
    BY <1>4 DEF Heir
  <2>2. {i \in DOMAIN exec_transactions' :
            exec_transactions'[i].process = pid /\ exec_transactions'[i].retiring} = {id}
    BY <1>1, <1>3, <1>4
  <2>3. Heir(pid)' = {target}
    BY <1>0, <1>3, <2>2 DEF Heir
  <2> QED
    BY <2>1, <2>3
<1>8. \A p : p # pid => Heir(p)' = Heir(p)
  BY <1>1, <1>3 DEF Heir
<1>9. /\ DOMAIN LifeTable = DOMAIN processes
      /\ LifeTable[pid].phase = "Active" /\ LifeTable[pid].heir = {}
  BY <1>1, <1>7 DEF LifeTable
<1>10. LifeTable' = [LifeTable EXCEPT ![pid].heir = {target}]
  BY <1>1, <1>7, <1>8 DEF LifeTable
<1>11. /\ id \in DOMAIN LifeVerdict /\ LifeVerdict[id] = "open"
       /\ LifeVerdict' = [LifeVerdict EXCEPT ![id] = "Committed"]
  <2>1. /\ DOMAIN LifeVerdict = DOMAIN transactions \cup DOMAIN exec_transactions
        /\ LifeVerdict[id] = Verdict(exec_transactions[id])
        /\ id \notin DOMAIN transactions
    BY VerdictOf DEF LifeBase, KeysResolve
  <2>2. /\ UNCHANGED transactions
        /\ Verdict(exec_transactions[id]) = "open"
        /\ Verdict(exec_transactions'[id]) = "Committed"
        /\ \A i \in DOMAIN exec_transactions : i # id =>
              exec_transactions'[i] = exec_transactions[i]
    BY <1>1, <1>3 DEF Verdict, Terminal
  <2>3. DOMAIN exec_transactions' = DOMAIN exec_transactions
    BY <1>3
  <2> QED
    BY <2>1, <2>2, <2>3 DEF LifeVerdict
<1>12. UNCHANGED <<exited, LifeLog>>
  BY <1>1, LogKept DEF ExitsSame
<1>13. target \notin Life!Employed \cup DOMAIN exited
  <2>1. \A p \in DOMAIN processes : processes[p].peer # target
    BY <1>0, <1>1 DEF LifeBase, IInv, Candidates
  <2>2. \A i \in DOMAIN exec_transactions :
           exec_transactions[i].target = target => ~exec_transactions[i].retiring
    BY <1>0, <1>1, <1>4 DEF LifeBase, IInv, Targets
  <2> QED
    BY <1>5, <2>1, <2>2, EmployedImages
<1>14. target \in Peer
  BY <1>0 DEF LifeBase, TypeInv, ExecTypes, ExecTyped
<1>15. Life!Elect(id, pid, target)
  BY <1>1, <1>9, <1>10, <1>11, <1>12, <1>13 DEF Life!Elect
<1>16. id \in Life!OpenIds
  BY <1>11 DEF Life!OpenIds
<1> QED
  BY <1>1, <1>6, <1>9, <1>13, <1>14, <1>15, <1>16 DEF Life!LifeNext, LifeStep

\* The requests of an exec.
LEMMA ExecRequestLife ==
  ASSUME LifeBase, NEW c \in DOMAIN clients, ExecRequest(c)
  PROVE  LifeInv' /\ LifeStep
<1>0. /\ \A p \in DOMAIN processes : DOMAIN processes[p] = ProcessFields
      /\ \A i \in DOMAIN exec_transactions : DOMAIN exec_transactions[i] = ExecFields
  BY DEF LifeBase, IInv, Shape
<1>1. ASSUME NEW key \in RequestKey, NEW target \in Peer, PrepareExec(c, key, target)
      PROVE  LifeInv' /\ LifeStep
  <2>1. /\ ExitsSame /\ UNCHANGED <<next_pid, transactions>>
        /\ next_transaction < LAST_TRANSACTION
        /\ processes' = [processes EXCEPT ![clients[c].pid].exec_request_keys =
                             With(@, key, next_transaction)]
    BY <1>1 DEF PrepareExec, TransactionCapacity, ExitsSame, exitVars
  <2>2. PICK t : /\ exec_transactions' = With(exec_transactions, next_transaction, t)
                 /\ t.state = "Prepared" /\ t.retiring = FALSE /\ t.candidate_exit = {}
    <3>1. PICK pid, peer : exec_transactions' = With(exec_transactions, next_transaction,
               [process |-> pid, owner |-> c, owner_peer |-> peer, target |-> target,
                candidate |-> NoId, state |-> "Prepared", retiring |-> FALSE,
                candidate_exit |-> {}])
      BY <1>1 DEF PrepareExec
    <3> QED
      BY <3>1
  <2>3. /\ next_transaction \in Nat \ {0} /\ LAST_TRANSACTION \in Nat
        /\ next_transaction \notin DOMAIN transactions \cup DOMAIN exec_transactions
    BY ManagerAssumption DEF LifeBase, IInv, Shape, Limit
  <2>4. /\ TableSame
        /\ \A p \in DOMAIN processes : processes'[p].prewarm = processes[p].prewarm
    BY <1>0, <2>1 DEF TableSame, ProcessFields
  <2>5. HeirsSame
    BY <2>2, <2>3 DEF HeirsSame, With
  <2>6. LifeInv'
    <3>1. Family' /\ Unattached' /\ Settled' /\ Alive' /\ Logged'
      BY <2>1, <2>4 DEF TableSame, LifeBase, LifeInv, Family, Unattached, Settled, Alive, Logged,
                        ExitsSame, Prepared
    <3>2. Reported'
      BY <2>1, <2>2, <2>3 DEF LifeBase, LifeInv, Reported, ExitsSame, With
    <3> QED
      BY <2>1, <3>1, <3>2 DEF LifeBase, LifeInv
  <2>7. next_transaction \in 1..LAST_TRANSACTION
    BY <2>1, <2>3
  <2>8. ~Terminal(t)
    BY <2>2 DEF Terminal
  <2> QED
    BY <2>1, <2>2, <2>3, <2>4, <2>5, <2>6, <2>7, <2>8, Opens
<1>2. CASE MarkExecReady(c)
  <2> DEFINE id == clients[c].transaction
  <2>1. /\ ExitsSame /\ UNCHANGED <<processes, next_pid, transactions>>
        /\ exec_transactions' = [exec_transactions EXCEPT ![id].state = "Ready"]
        /\ id \in DOMAIN exec_transactions /\ ~Terminal(exec_transactions[id])
    BY <1>2 DEF MarkExecReady, ExitsSame, exitVars, forkVars, processVars
  <2>2. /\ DOMAIN exec_transactions' = DOMAIN exec_transactions
        /\ exec_transactions'[id].state = "Ready"
        /\ \A i \in DOMAIN exec_transactions :
              /\ i # id => exec_transactions'[i] = exec_transactions[i]
              /\ exec_transactions'[i].retiring = exec_transactions[i].retiring
              /\ exec_transactions'[i].process = exec_transactions[i].process
              /\ exec_transactions'[i].target = exec_transactions[i].target
              /\ exec_transactions'[i].candidate_exit = exec_transactions[i].candidate_exit
    BY <1>0, <2>1 DEF ExecFields
  <2>3. TableSame /\ HeirsSame /\ VerdictsSame
    BY <2>1, <2>2 DEF TableSame, HeirsSame, VerdictsSame, Verdict, Terminal
  <2>4. Prepared' = Prepared
    BY <2>1 DEF Prepared
  <2>5. LifeInv'
    BY <2>1, <2>2, <2>4, LifeKept DEF LifeBase, LifeInv, Family, Unattached, Settled
  <2> QED
    BY <2>1, <2>3, <2>5, Stutter
<1>3. ASSUME NEW id \in DOMAIN exec_transactions, AbortExec(c, id)
      PROVE  LifeInv' /\ LifeStep
  <2>1. /\ ExitsSame /\ UNCHANGED <<processes, next_pid, transactions>>
        /\ id \in PendingExecs
        /\ exec_transactions' = AbortedExecs({id})
    BY <1>3 DEF AbortExec, ExitsSame, exitVars, forkVars, processVars
  <2>2. PICK forks, execs : forks = {} /\ execs = {id}
    OBVIOUS
  <2>3. /\ forks \subseteq {i \in DOMAIN transactions : ~Terminal(transactions[i])}
        /\ execs \subseteq PendingExecs
    BY <2>1, <2>2
  <2>4. /\ \A i \in DOMAIN transactions : transactions'[i] = AbortedForks(forks)[i]
        /\ \A i \in DOMAIN exec_transactions : exec_transactions'[i] = AbortedExecs(execs)[i]
        /\ DOMAIN exec_transactions' = DOMAIN exec_transactions
    BY <2>1, <2>2 DEF AbortedForks, AbortedExecs
  <2>5. \A pid \in DOMAIN processes :
            LET p == processes[pid]
                q == processes'[pid]
            IN  /\ q.peer = p.peer /\ q.parent_pid = p.parent_pid
                /\ q.prewarm.at \in {"PoolReady", "PoolReserved"} => p.parent_pid = NoId
                /\ q.state = IF pid \in ChildrenOf(forks) THEN "Aborted" ELSE p.state
                /\ q.transaction = IF pid \in ChildrenOf(forks) THEN NoId ELSE p.transaction
    BY <2>1, <2>2 DEF ChildrenOf, LifeBase, LifeInv, Unattached
  <2>6. ExitsSame /\ UNCHANGED <<next_pid, transactions, processes>>
    BY <2>1
  <2> QED
    BY <2>3, <2>4, <2>5, <2>6, Aborts
<1>4. ASSUME NEW id \in DOMAIN exec_transactions, AcknowledgeExec(c, id)
      PROVE  LifeInv' /\ LifeStep
  <2>1. /\ ExitsSame /\ UNCHANGED <<next_pid, transactions>>
        /\ exec_transactions[id].state = "Aborted"
        /\ exec_transactions' = Without(exec_transactions, id)
        /\ processes' = [processes EXCEPT ![clients[c].pid].exec_request_keys = DropRecord(@, id)]
    BY <1>4 DEF AcknowledgeExec, ExitsSame, exitVars, forkVars
  <2>2. /\ TableSame
        /\ \A p \in DOMAIN processes : processes'[p].prewarm = processes[p].prewarm
    BY <1>0, <2>1 DEF TableSame, ProcessFields
  <2>3. /\ DOMAIN exec_transactions' = DOMAIN exec_transactions \ {id}
        /\ \A i \in DOMAIN exec_transactions' : exec_transactions'[i] = exec_transactions[i]
    BY <2>1 DEF Without, Restrict
  <2>4. ~exec_transactions[id].retiring
    BY <2>1 DEF LifeBase, IInv, Retiring
  <2>5. HeirsSame
    BY <2>3, <2>4 DEF HeirsSame
  <2>6. Prepared' = Prepared
    BY <2>1 DEF Prepared
  <2>7. LifeInv'
    BY <2>1, <2>2, <2>3, <2>6, LifeKept
       DEF TableSame, LifeBase, LifeInv, Family, Unattached, Settled
  <2>8. Terminal(exec_transactions[id])
    BY <2>1 DEF Terminal
  <2> QED
    BY <2>1, <2>2, <2>5, <2>7, <2>8, Forgets
<1> QED
  BY <1>1, <1>2, <1>3, <1>4, CommitExecLife DEF ExecRequest

\* The end of a connection.
LEMMA DisconnectLife ==
  ASSUME LifeBase, NEW c \in DOMAIN clients, Disconnect(c)
  PROVE  LifeInv' /\ LifeStep
<1>1. PICK forks, execs :
        /\ forks \subseteq {id \in DOMAIN transactions : ~Terminal(transactions[id])}
        /\ execs \subseteq PendingExecs
        /\ transactions' = AbortedForks(forks)
        /\ exec_transactions' = AbortedExecs(execs)
        /\ processes' = [pid \in DOMAIN processes |->
               LET p == [processes[pid] EXCEPT !.prewarm = Released(@, {c})]
               IN  IF pid \in ChildrenOf(forks) THEN Revoked(p) ELSE p]
  BY DEF Disconnect, PendingForksOf, PendingExecsOf
<1>2. ExitsSame /\ UNCHANGED next_pid
  BY DEF Disconnect, ExitsSame, exitVars
<1>3. /\ DOMAIN transactions' = DOMAIN transactions
      /\ DOMAIN exec_transactions' = DOMAIN exec_transactions
      /\ DOMAIN processes' = DOMAIN processes
  BY <1>1, Zenon DEF AbortedForks, AbortedExecs
<1>4. ASSUME NEW pid \in DOMAIN processes
      PROVE  LET p == processes[pid]
                 q == processes'[pid]
             IN  /\ q.peer = p.peer /\ q.parent_pid = p.parent_pid
                 /\ q.prewarm.at \in {"PoolReady", "PoolReserved"} => p.parent_pid = NoId
                 /\ q.state = IF pid \in ChildrenOf(forks) THEN "Aborted" ELSE p.state
                 /\ q.transaction = IF pid \in ChildrenOf(forks) THEN NoId ELSE p.transaction
  <2>1. PICK p : p = [processes[pid] EXCEPT !.prewarm = Released(@, {c})]
    OBVIOUS
  <2>2. processes'[pid] = IF pid \in ChildrenOf(forks) THEN Revoked(p) ELSE p
    BY <1>1, <2>1
  <2>3. /\ DOMAIN p = ProcessFields /\ p.peer = processes[pid].peer
        /\ p.parent_pid = processes[pid].parent_pid /\ p.state = processes[pid].state
        /\ p.transaction = processes[pid].transaction
        /\ p.prewarm = Released(processes[pid].prewarm, {c})
    BY <2>1 DEF LifeBase, IInv, Shape, ProcessFields
  <2>4. p.prewarm.at \in {"PoolReady", "PoolReserved"} => processes[pid].parent_pid = NoId
    BY <2>3 DEF Released, Prewarm, LifeBase, LifeInv, Unattached
  <2> QED
    BY <2>2, <2>3, <2>4 DEF Revoked, ProcessFields
<1>5. /\ \A id \in DOMAIN transactions : transactions'[id] = AbortedForks(forks)[id]
      /\ \A id \in DOMAIN exec_transactions : exec_transactions'[id] = AbortedExecs(execs)[id]
  BY <1>1
<1>6. /\ forks \subseteq {id \in DOMAIN transactions : ~Terminal(transactions[id])}
      /\ execs \subseteq PendingExecs
  BY <1>1
<1> QED
  BY <1>2, <1>3, <1>4, <1>5, <1>6, Aborts

\* More of what a death does to the tables.
LEMMA ExitDetails ==
  ASSUME IInv, NEW peer, NEW status, ProcessExited(peer, status)
  PROVE  /\ \A pid \in DOMAIN processes' :
               processes'[pid].parent_pid = Reparented(processes[pid].parent_pid, Ending(peer))
         /\ \A id \in DOMAIN transactions' :
               transactions'[id].child_parent =
                  Reparented(transactions[id].child_parent, Ending(peer))
         /\ \A id \in DOMAIN exec_transactions' :
               LET t == exec_transactions[id]
               IN  exec_transactions'[id].candidate_exit =
                      IF t.retiring /\ t.target = peer /\ t.candidate_exit = {}
                      THEN {status} ELSE t.candidate_exit
<1>1. ASSUME NEW pid \in DOMAIN processes'
      PROVE  processes'[pid].parent_pid = Reparented(processes[pid].parent_pid, Ending(peer))
  <2> DEFINE moved(i) ==
               [processes[i] EXCEPT
                   !.peer = Successor(i, peer),
                   !.prewarm = Released(@, Cut(peer)),
                   !.parent_pid = Reparented(@, Ending(peer)),
                   !.request_keys =
                       IF i \notin Replaced(peer) THEN @
                       ELSE Restrict(@, {k \in DOMAIN @ : @[k] \notin Spent(peer)}),
                   !.exec_request_keys = IF i \in Replaced(peer) THEN EmptyMap ELSE @]
  <2>1. processes' = [i \in DOMAIN processes \ Ending(peer) |->
              IF i \in ChildrenOf(ForksLost(peer)) THEN Revoked(moved(i)) ELSE moved(i)]
    BY Zenon DEF ProcessExited, Dying, Ending, Replaced, Cut, ForksLost, Spent
  <2>2. pid \in DOMAIN processes \ Ending(peer)
    BY <2>1, Zenon
  <2>3. DOMAIN processes[pid] = ProcessFields
    BY <2>2 DEF IInv, Shape
  <2>4. /\ DOMAIN moved(pid) = ProcessFields
        /\ moved(pid).parent_pid = Reparented(processes[pid].parent_pid, Ending(peer))
    BY <2>2, <2>3 DEF ProcessFields
  <2>5. processes'[pid] = IF pid \in ChildrenOf(ForksLost(peer))
                          THEN Revoked(moved(pid)) ELSE moved(pid)
    BY <2>1, <2>2, Zenon
  <2> HIDE DEF moved
  <2> QED
    BY <2>4, <2>5 DEF Revoked, ProcessFields
<1>2. ASSUME NEW id \in DOMAIN transactions'
      PROVE  transactions'[id].child_parent =
                Reparented(transactions[id].child_parent, Ending(peer))
  <2>1. transactions' = [i \in DOMAIN transactions \ Spent(peer) |->
             [AbortedForks(ForksLost(peer))[i] EXCEPT !.child_parent =
                  Reparented(@, Ending(peer))]]
    BY Zenon DEF ProcessExited, Dying, Ending, Replaced, ForksLost, Spent
  <2>2. \A i \in DOMAIN transactions : DOMAIN transactions[i] = ForkFields
    BY DEF IInv, Shape
  <2> QED
    BY <2>1, <2>2, Zenon DEF AbortedForks, ForkFields
<1>3. ASSUME NEW id \in DOMAIN exec_transactions'
      PROVE  LET t == exec_transactions[id]
             IN  exec_transactions'[id].candidate_exit =
                    IF t.retiring /\ t.target = peer /\ t.candidate_exit = {}
                    THEN {status} ELSE t.candidate_exit
  <2>1. exec_transactions' =
             [i \in {j \in DOMAIN exec_transactions :
                        exec_transactions[j].process
                            \notin Ending(peer) \cup Replaced(peer)} |->
                [AbortedExecs(ExecsLost(peer))[i] EXCEPT !.candidate_exit =
                     IF exec_transactions[i].retiring
                          /\ exec_transactions[i].target = peer /\ @ = {}
                     THEN {status} ELSE @]]
    BY Zenon DEF ProcessExited, Dying, Ending, Replaced, ExecsLost
  <2>2. \A i \in DOMAIN exec_transactions : DOMAIN exec_transactions[i] = ExecFields
    BY DEF IInv, Shape
  <2> QED
    BY <2>1, <2>2, SMTT(60) DEF AbortedExecs, ExecFields
<1> QED
  BY <1>1, <1>2, <1>3

\* The heirs of the processes that `peer` runs.
LEMMA HeirFacts ==
  ASSUME IInv, NEW peer
  PROVE  /\ \A id \in TakenOver(peer) :
               Heir(exec_transactions[id].process) = {exec_transactions[id].target}
         /\ \A pid \in DOMAIN processes :
               (processes[pid].peer = peer /\ pid \notin Replaced(peer)) => Heir(pid) = {}
         /\ \A pid \in DOMAIN processes : pid \in Replaced(peer) => processes[pid].peer = peer
<1>1. \A id \in DOMAIN exec_transactions : exec_transactions[id].retiring =>
         id \in TakenOver(processes[exec_transactions[id].process].peer)
  BY DEF IInv, Retiring, TakenOver
<1>2. ASSUME NEW id \in TakenOver(peer)
      PROVE  Heir(exec_transactions[id].process) = {exec_transactions[id].target}
  <2>1. id \in DOMAIN exec_transactions /\ exec_transactions[id].retiring
    BY DEF TakenOver
  <2>2. {i \in DOMAIN exec_transactions :
            /\ exec_transactions[i].process = exec_transactions[id].process
            /\ exec_transactions[i].retiring} = {id}
    BY <2>1 DEF IInv, OneRetiring
  <2> QED
    BY <2>2 DEF Heir
<1>3. ASSUME NEW pid \in DOMAIN processes, processes[pid].peer = peer, pid \notin Replaced(peer)
      PROVE  Heir(pid) = {}
  BY <1>1, <1>3 DEF Heir, Replaced
<1>4. ASSUME NEW pid \in DOMAIN processes, pid \in Replaced(peer)
      PROVE  processes[pid].peer = peer
  BY <1>4, SuccessorFacts DEF Replaced
<1> QED
  BY <1>2, <1>3, <1>4

\* The processes that end with the death of `peer`.
LEMMA EndingByHeir ==
  ASSUME LifeBase, NEW peer, NEW pid \in DOMAIN processes
  PROVE  /\ pid \in Ending(peer) <=>
               processes[pid].peer = peer /\ Heir(pid) \subseteq DOMAIN exited
         /\ pid \notin Ending(peer) =>
               /\ processes[pid].peer = peer =>
                     pid \in Replaced(peer) /\ Heir(pid) = {Successor(pid, peer)}
               /\ processes[pid].peer # peer =>
                     pid \notin Replaced(peer) /\ Successor(pid, peer) = processes[pid].peer
               /\ Successor(pid, peer) \notin DOMAIN exited \cup {peer}
<1>0. IInv /\ Reported /\ Alive
  BY DEF LifeBase, LifeInv
<1>1. CASE pid \in Replaced(peer)
  <2>1. PICK id \in TakenOver(peer) : exec_transactions[id].process = pid
    BY <1>1 DEF Replaced
  <2>2. /\ id \in DOMAIN exec_transactions /\ exec_transactions[id].retiring
        /\ exec_transactions[id].state = "Committed"
        /\ processes[pid].peer = peer
        /\ Successor(pid, peer) = exec_transactions[id].target
        /\ Heir(pid) = {exec_transactions[id].target}
    BY <1>0, <2>1, SuccessorFacts, HeirFacts, ZenonT(40)
  <2>3. exec_transactions[id].target # peer
    BY <1>0, <2>2 DEF IInv, Candidates
  <2>4. exec_transactions[id].target \in DOMAIN exited <=>
           exec_transactions[id].candidate_exit # {}
    BY <1>0, <2>2 DEF Reported
  <2>5. exec_transactions[id].target \in Dying(peer) <=> id \in Deferred(peer)
    <3>1. ASSUME exec_transactions[id].target \in Dying(peer) PROVE id \in Deferred(peer)
      <4>1. PICK j \in Deferred(peer) :
               exec_transactions[j].target = exec_transactions[id].target
        BY <2>3, <3>1 DEF Dying
      <4>2. j = id
        BY <1>0, <2>2, <4>1 DEF IInv, Targets, Deferred, TakenOver
      <4> QED
        BY <4>1, <4>2
    <3> QED
      BY <3>1 DEF Dying
  <2>6. id \in Deferred(peer) <=> exec_transactions[id].candidate_exit # {}
    BY <2>1 DEF Deferred
  <2>7. pid \in Ending(peer) <=> exec_transactions[id].target \in DOMAIN exited
    BY <2>2, <2>4, <2>5, <2>6 DEF Ending
  <2> QED
    BY <1>1, <2>2, <2>3, <2>7
<1>2. CASE pid \notin Replaced(peer)
  <2>1. Successor(pid, peer) = processes[pid].peer
    BY <1>0, <1>2, SuccessorFacts DEF Replaced
  <2>2. processes[pid].peer \notin DOMAIN exited
    BY <1>0 DEF Alive
  <2>3. processes[pid].peer \in Dying(peer) <=> processes[pid].peer = peer
    <3>1. \A id \in Deferred(peer) : exec_transactions[id].target # processes[pid].peer
      BY <1>0, SuccessorFacts DEF IInv, Candidates, Deferred
    <3> QED
      BY <3>1 DEF Dying
  <2>4. processes[pid].peer = peer => Heir(pid) = {}
    BY <1>0, <1>2, HeirFacts
  <2> QED
    BY <1>2, <2>1, <2>2, <2>3, <2>4 DEF Ending
<1> QED
  BY <1>1, <1>2

\* At most one process ends.
LEMMA OneEnds ==
  ASSUME LifeBase, NEW peer, NEW p \in Ending(peer), NEW q \in Ending(peer)
  PROVE  p = q
<1>1. p \in DOMAIN processes /\ q \in DOMAIN processes
  BY DEF Ending
<1>2. processes[p].peer = peer /\ processes[q].peer = peer
  BY <1>1, EndingByHeir
<1> QED
  BY <1>1, <1>2 DEF LifeBase, IInv, Owners

\* A field that keeps its value.
LEMMA SameField ==
  ASSUME NEW F, NEW t, IsRecord(t, F), NEW f \in F
  PROVE  [t EXCEPT ![f] = t[f]] = t
  BY DEF IsRecord

\* A death that was reported before only revokes the execs that name the dead.
LEMMA DiesAgain ==
  ASSUME LifeBase, NEW peer \in DOMAIN exited, NEW status, ProcessExited(peer, status)
  PROVE  LifeInv' /\ LifeStep
<1>0. IInv /\ Alive /\ Reported
  BY DEF LifeBase, LifeInv
<1>1. Ending(peer) = {}
  <2>1. \A pid \in DOMAIN processes : pid \notin Ending(peer)
    BY <1>0, EndingByHeir DEF Alive
  <2> QED
    BY <2>1 DEF Ending
<1>2. TakenOver(peer) = {}
  BY <1>0, SuccessorFacts DEF Alive
<1>3. Replaced(peer) = {} /\ ForksLost(peer) = {} /\ Spent(peer) = {}
  <2>1. Replaced(peer) = {}
    BY <1>2 DEF Replaced
  <2>2. ForksLost(peer) = {}
    BY <1>1 DEF ForksLost, PendingForksOf
  <2> QED
    BY <1>1, <2>1, <2>2 DEF Spent
<1>4. ExitsSame /\ UNCHANGED next_pid
  <2>1. UNCHANGED exited /\ UNCHANGED next_pid
    BY Zenon DEF ProcessExited
  <2>2. UNCHANGED <<exit_records, exit_order>>
    BY <1>1, Zenon DEF ProcessExited, Ending, Dying
  <2> QED
    BY <2>1, <2>2 DEF ExitsSame
<1>5. PICK forks, execs : forks = {} /\ execs = ExecsLost(peer)
  OBVIOUS
<1>6. /\ forks \subseteq {id \in DOMAIN transactions : ~Terminal(transactions[id])}
      /\ execs \subseteq PendingExecs
  BY <1>0, <1>5, ExitExecs
<1>7. /\ DOMAIN transactions' = DOMAIN transactions
      /\ \A id \in DOMAIN transactions : transactions'[id] = AbortedForks(forks)[id]
  <2>1. transactions' = [id \in DOMAIN transactions \ Spent(peer) |->
             [AbortedForks(ForksLost(peer))[id] EXCEPT !.child_parent =
                  Reparented(@, Ending(peer))]]
    BY Zenon DEF ProcessExited, Dying, Ending, Replaced, ForksLost, Spent
  <2>2. ASSUME NEW id \in DOMAIN transactions
        PROVE  transactions'[id] = AbortedForks(forks)[id]
    <3>1. PICK t : t = transactions[id]
      OBVIOUS
    <3>2. AbortedForks({})[id] = t
      BY <3>1 DEF AbortedForks
    <3>3. transactions'[id] = [t EXCEPT !.child_parent = Reparented(@, {})]
      BY <1>1, <1>3, <2>1, <3>2
    <3>4. IsRecord(t, ForkFields)
      BY <3>1 DEF LifeBase, TypeInv, ForkTypes, TransactionTyped
    <3>5. transactions'[id] = t
      BY <3>3, <3>4, SameField DEF Reparented, ForkFields
    <3> QED
      BY <1>5, <3>2, <3>5
  <2> QED
    BY <1>3, <2>1, <2>2
<1>8. /\ DOMAIN exec_transactions' = DOMAIN exec_transactions
      /\ \A id \in DOMAIN exec_transactions : exec_transactions'[id] = AbortedExecs(execs)[id]
  <2>1. exec_transactions' =
             [i \in {j \in DOMAIN exec_transactions :
                        exec_transactions[j].process
                            \notin Ending(peer) \cup Replaced(peer)} |->
                [AbortedExecs(ExecsLost(peer))[i] EXCEPT !.candidate_exit =
                     IF exec_transactions[i].retiring
                          /\ exec_transactions[i].target = peer /\ @ = {}
                     THEN {status} ELSE @]]
    BY Zenon DEF ProcessExited, Dying, Ending, Replaced, ExecsLost
  <2>2. ASSUME NEW id \in DOMAIN exec_transactions
        PROVE  exec_transactions'[id] = AbortedExecs(execs)[id]
    <3>1. PICK t : t = AbortedExecs(execs)[id]
      OBVIOUS
    <3>2. exec_transactions'[id] = [t EXCEPT !.candidate_exit =
             IF exec_transactions[id].retiring /\ exec_transactions[id].target = peer /\ @ = {}
             THEN {status} ELSE @]
      BY <1>1, <1>3, <1>5, <2>1, <3>1
    <3>3. IsRecord(exec_transactions[id], ExecFields)
      BY DEF LifeBase, TypeInv, ExecTypes, ExecTyped
    <3>4. IsRecord(t, ExecFields) /\ t.candidate_exit = exec_transactions[id].candidate_exit
      BY <3>1, <3>3 DEF AbortedExecs, IsRecord, ExecFields
    <3>5. (exec_transactions[id].retiring /\ exec_transactions[id].target = peer)
             => exec_transactions[id].candidate_exit = {exited[peer]}
      BY <1>0 DEF Reported
    <3>6. (exec_transactions[id].retiring /\ exec_transactions[id].target = peer)
             => t.candidate_exit # {}
      BY <3>4, <3>5
    <3>7. exec_transactions'[id] = [t EXCEPT !.candidate_exit = t.candidate_exit]
      BY <3>2, <3>6
    <3> QED
      BY <3>1, <3>4, <3>7, SameField DEF ExecFields
  <2> QED
    BY <1>1, <1>3, <2>1, <2>2, Zenon
<1>9. DOMAIN processes' = DOMAIN processes
  BY <1>0, <1>1, ExitProcesses
<1>10. ASSUME NEW pid \in DOMAIN processes
       PROVE  LET p == processes[pid]
                  q == processes'[pid]
              IN  /\ q.peer = p.peer /\ q.parent_pid = p.parent_pid
                  /\ q.prewarm.at \in {"PoolReady", "PoolReserved"} => p.parent_pid = NoId
                  /\ q.state = IF pid \in ChildrenOf(forks) THEN "Aborted" ELSE p.state
                  /\ q.transaction = IF pid \in ChildrenOf(forks) THEN NoId ELSE p.transaction
  <2>1. processes'[pid].peer = processes[pid].peer
    <3>1. Successor(pid, peer) = processes[pid].peer
      BY <1>0, <1>2, SuccessorFacts
    <3>2. processes'[pid].peer = Successor(pid, peer)
      BY <1>0, <1>9, ExitProcesses
    <3> QED
      BY <3>1, <3>2
  <2>2. processes'[pid].parent_pid = processes[pid].parent_pid
    BY <1>0, <1>1, <1>9, ExitDetails DEF Reparented
  <2>3. processes'[pid].prewarm = Released(processes[pid].prewarm, Cut(peer))
    BY <1>0, <1>9, ExitProcesses
  <2>4. processes'[pid].prewarm.at \in {"PoolReady", "PoolReserved"} =>
           processes[pid].parent_pid = NoId
    BY <2>3 DEF Released, Prewarm, LifeBase, LifeInv, Unattached
  <2>5. /\ processes'[pid].state = IF pid \in ChildrenOf(forks) THEN "Aborted"
                                   ELSE processes[pid].state
        /\ processes'[pid].transaction = IF pid \in ChildrenOf(forks) THEN NoId
                                         ELSE processes[pid].transaction
    BY <1>0, <1>3, <1>5, <1>9, ExitProcesses
  <2> QED
    BY <2>1, <2>2, <2>4, <2>5
<1> QED
  BY <1>4, <1>6, <1>7, <1>8, <1>9, <1>10, Aborts

\* A sequence without its first `a` elements.
LEMMA Dropped ==
  ASSUME NEW T, NEW s \in Seq(T), NEW a \in Nat, NEW k \in Nat, Len(s) = a + k,
         NEW c, c = SubSeq(s, a + 1, Len(s))
  PROVE  /\ c \in Seq(T) /\ Len(c) = k /\ DOMAIN c = 1..k
         /\ \A i \in 1..k : c[i] = s[i + a]
<1>1. c = SubSeq(s, a + 1, a + k) /\ DOMAIN s = 1..(a + k)
  OBVIOUS
<1>2. \A i \in (a + 1)..(a + k) : s[i] \in T
  BY <1>1
<1>3. c \in Seq(T) /\ Len(c) = k
  BY <1>1, <1>2
<1>4. \A i \in 1..k : c[i] = s[i + a]
  BY <1>1, <1>2
<1> QED
  BY <1>3, <1>4

\* The completions that stay when one more is recorded, the log that the
\* completions make, and what ProcessLife does to a log.
KeptOf(order, max) ==
    IF Len(order) < max THEN order ELSE SubSeq(order, Len(order) - max + 2, Len(order))

OrderWith(order, max, pid) == Append(KeptOf(order, max), pid)

RecordsWith(records, order, max, pid, status) ==
    With(Keep(records, Range(KeptOf(order, max))), pid, status)

Entry(pid, status) == <<pid, status>>

Entries(pids, statuses) == pids \X statuses

LogOf(order, records) == [i \in DOMAIN order |-> <<order[i], records[order[i]]>>]

Grown(log, n, e) == log \o [i \in 1..n |-> e]

StartOf(len, max) == IF len > max THEN len - max + 1 ELSE 1

\* A log of at most `max` completions, `pid` not among them.
CanExtend(order, records, max, pid) ==
    /\ \A i \in DOMAIN order : order[i] \in DOMAIN records /\ order[i] # pid
    /\ Len(order) <= max

Trimmed(log, max) == SubSeq(log, StartOf(Len(log), max), Len(log))

\* The log with one more completion.
Extended(order, records, max, pid, status, order2, records2) ==
    /\ Len(order2) <= max
    /\ \A i \in DOMAIN order2 :
          /\ order2[i] \in DOMAIN records2
          /\ order2[i] = pid \/ \E j \in DOMAIN order : order2[i] = order[j]
    /\ LogOf(order2, records2) = Trimmed(Append(LogOf(order, records), Entry(pid, status)), max)

\* Entries added to a log.
LEMMA LogGrown ==
  ASSUME NEW T, NEW log \in Seq(T), NEW e \in T
  PROVE  Grown(log, 1, e) = Append(log, e)
<1>1. PICK n \in Nat : n = Len(log) /\ DOMAIN log = 1..n
  OBVIOUS
<1>2. PICK one : one = [i \in 1..1 |-> e]
  OBVIOUS
<1>3. one \in Seq(T) /\ Len(one) = 1 /\ one[1] = e
  <2>1. PICK k \in Nat : k = 1
    OBVIOUS
  <2>2. one \in [1..k -> T] /\ one[1] = e
    BY <1>2, <2>1
  <2>3. one \in Seq(T) /\ Len(one) = k
    BY <2>2
  <2> QED
    BY <2>1, <2>2, <2>3
<1>4. PICK a, b : a = log \o one /\ b = Append(log, e)
  OBVIOUS
<1>5. /\ a \in Seq(T) /\ Len(a) = Len(log) + Len(one)
      /\ \A i \in 1..(Len(log) + Len(one)) :
            a[i] = IF i <= Len(log) THEN log[i] ELSE one[i - Len(log)]
  <2>1. ASSUME NEW x \in Seq(T), NEW y \in Seq(T)
        PROVE  /\ x \o y \in Seq(T) /\ Len(x \o y) = Len(x) + Len(y)
               /\ \A i \in 1..(Len(x) + Len(y)) :
                     (x \o y)[i] = IF i <= Len(x) THEN x[i] ELSE y[i - Len(x)]
    OBVIOUS
  <2> QED
    BY <1>3, <1>4, <2>1
<1>6. b \in Seq(T) /\ Len(b) = n + 1 /\ b[n + 1] = e /\ \A i \in 1..n : b[i] = log[i]
  BY <1>1, <1>4
<1>7. Len(a) = n + 1 /\ a[n + 1] = e /\ \A i \in 1..n : a[i] = log[i]
  BY <1>1, <1>3, <1>5
<1>8. \A i \in 1..(n + 1) : i \in 1..n \/ i = n + 1
  OBVIOUS
<1>9. \A i \in 1..(n + 1) : a[i] = b[i]
  BY <1>6, <1>7, <1>8
<1>10. a = b
  BY <1>5, <1>6, <1>7, <1>9
<1> QED
  BY <1>2, <1>4, <1>10 DEF Grown

\* No entries added to a log.
LEMMA LogNotGrown ==
  ASSUME NEW T, NEW log \in Seq(T), NEW e
  PROVE  Grown(log, 0, e) = log
<1>1. [i \in 1..0 |-> e] = <<>>
  OBVIOUS
<1> QED
  BY <1>1 DEF Grown

\* A log that is not too long is kept, and one of no length has no entry.
LEMMA LogTrimmed ==
  ASSUME NEW T, NEW log \in Seq(T), NEW max \in Nat, Len(log) <= max
  PROVE  /\ Trimmed(log, max) = log
         /\ \A full \in Seq(T) : (max = 0 /\ Len(full) = 1) => Trimmed(full, max) = log
<1>1. PICK n \in Nat : n = Len(log) /\ DOMAIN log = 1..n
  OBVIOUS
<1>2. Trimmed(log, max) = log
  <2>1. PICK a : a = SubSeq(log, 1, n)
    OBVIOUS
  <2>2. a \in Seq(T) /\ Len(a) = n /\ \A i \in 1..n : a[i] = log[i]
    BY <1>1, <2>1
  <2>3. StartOf(n, max) = 1
    BY <1>1 DEF StartOf
  <2>4. a = log
    BY <1>1, <2>2
  <2> QED
    BY <1>1, <2>1, <2>3, <2>4 DEF Trimmed
<1>3. ASSUME NEW full \in Seq(T), max = 0, Len(full) = 1 PROVE Trimmed(full, max) = log
  <2>1. n = 0
    BY <1>1, <1>3
  <2>2. StartOf(1, max) = 2
    BY <1>3 DEF StartOf
  <2>3. PICK a : a = SubSeq(full, 2, 1)
    OBVIOUS
  <2>4. a \in Seq(T) /\ Len(a) = 0
    BY <1>3, <2>3
  <2>5. a = log
    BY <1>1, <2>1, <2>4
  <2> QED
    BY <1>3, <2>2, <2>3, <2>5 DEF Trimmed
<1> QED
  BY <1>2, <1>3

\* The completions make a log.
LEMMA LogIsSequence ==
  ASSUME NEW P, NEW Q, NEW order \in Seq(P), NEW records, IsMap(records, P, Q),
         \A i \in DOMAIN order : order[i] \in DOMAIN records
  PROVE  /\ LogOf(order, records) \in Seq(Entries(P, Q))
         /\ Len(LogOf(order, records)) = Len(order)
<1>1. PICK n \in Nat : n = Len(order) /\ DOMAIN order = 1..n
  OBVIOUS
<1>2. \A i \in 1..n : order[i] \in P /\ records[order[i]] \in Q
  BY <1>1 DEF IsMap
<1>3. \A x \in P : \A y \in Q : <<x, y>> \in Entries(P, Q)
  BY DEF Entries
<1>4. LogOf(order, records) \in [1..n -> Entries(P, Q)]
  BY <1>1, <1>2, <1>3 DEF LogOf
<1> QED
  BY <1>1, <1>4

\* One more entry in a log that keeps the latest `max`.
LEMMA LogExtended ==
  ASSUME NEW P, NEW Q, NEW order \in Seq(P), NEW records, IsMap(records, P, Q),
         NEW pid \in P, NEW e \in Q, NEW max \in Nat, max # 0, CanExtend(order, records, max, pid)
  PROVE  Extended(order, records, max, pid, e,
                  OrderWith(order, max, pid), RecordsWith(records, order, max, pid, e))
<1>0. PICK order2, records2 : /\ order2 = OrderWith(order, max, pid)
                              /\ records2 = RecordsWith(records, order, max, pid, e)
  OBVIOUS
<1>fits. /\ \A i \in DOMAIN order : order[i] \in DOMAIN records /\ order[i] # pid
      /\ Len(order) <= max
  BY DEF CanExtend
<1>1. PICK n \in Nat : n = Len(order) /\ DOMAIN order = 1..n
  OBVIOUS
<1>2. PICK T, log, entry : T = Entries(P, Q) /\ log = LogOf(order, records) /\ entry = Entry(pid, e)
  OBVIOUS
<1>3. log \in Seq(T) /\ Len(log) = n /\ entry \in T
  <2>1. entry \in T
    BY <1>2 DEF Entry, Entries
  <2>2. \A i \in DOMAIN order : order[i] \in DOMAIN records
    BY <1>fits
  <2>3. log \in Seq(T) /\ Len(log) = Len(order)
    BY <1>2, <2>2, LogIsSequence
  <2> QED
    BY <1>1, <2>1, <2>3
<1>4. \A i \in 1..n : log[i] = <<order[i], records[order[i]]>>
  BY <1>1, <1>2 DEF LogOf
<1>5. PICK d : d = IF n < max THEN 0 ELSE 1
  OBVIOUS
<1>6. PICK k \in Nat : k = n - d
  <2>1. n - d \in Nat
    BY <1>1, <1>5, <1>fits
  <2> QED
    BY <2>1
<1>7. d \in Nat /\ n = d + k /\ k + 1 <= max
  BY <1>1, <1>5, <1>fits, <1>6
<1>8. PICK kept : kept = KeptOf(order, max)
  OBVIOUS
<1>9. /\ kept \in Seq(P) /\ Len(kept) = k /\ DOMAIN kept = 1..k
      /\ \A i \in 1..k : kept[i] = order[i + d]
  <2>1. CASE n < max
    <3>1. kept = order /\ d = 0 /\ k = n
      BY <1>1, <1>5, <1>fits, <1>6, <1>8, <2>1 DEF KeptOf
    <3> QED
      BY <1>1, <3>1
  <2>2. CASE ~(n < max)
    <3>1. n - max + 2 = d + 1 /\ d = 1
      BY <1>1, <1>5, <1>fits, <2>2
    <3>2. kept = SubSeq(order, d + 1, Len(order))
      BY <1>1, <1>8, <2>2, <3>1, Zenon DEF KeptOf
    <3> QED
      BY <1>1, <1>7, <3>2, Dropped
  <2> QED
    BY <2>1, <2>2
<1>10. /\ order2 \in Seq(P) /\ Len(order2) = k + 1 /\ DOMAIN order2 = 1..(k + 1)
       /\ order2[k + 1] = pid
       /\ \A i \in 1..k : order2[i] = order[i + d]
  BY <1>0, <1>8, <1>9 DEF OrderWith
<1>11. \A i \in 1..k : i + d \in 1..n /\ i \in 1..(k + 1)
  BY <1>7
<1>12. \A i \in 1..(k + 1) : i \in 1..k \/ i = k + 1
  OBVIOUS
<1>13. /\ pid \in DOMAIN records2 /\ records2[pid] = e
       /\ \A i \in 1..k :
             /\ order[i + d] \in DOMAIN records2
             /\ records2[order[i + d]] = records[order[i + d]]
  <2>1. \A i \in 1..k : order[i + d] \in Range(kept)
    BY <1>9 DEF Range
  <2>2. \A i \in 1..k : order[i + d] \in DOMAIN records /\ order[i + d] # pid
    BY <1>1, <1>11, <1>fits
  <2> QED
    BY <1>0, <1>8, <2>1, <2>2 DEF RecordsWith, With, Keep, Restrict
<1>14. \A i \in DOMAIN order2 :
          /\ order2[i] \in DOMAIN records2
          /\ order2[i] = pid \/ \E j \in DOMAIN order : order2[i] = order[j]
  <2>1. ASSUME NEW i \in 1..k
        PROVE  /\ order2[i] \in DOMAIN records2
               /\ \E j \in DOMAIN order : order2[i] = order[j]
    <3>1. i + d \in DOMAIN order
      BY <1>1, <1>11
    <3> QED
      BY <1>10, <1>13, <3>1
  <2> QED
    BY <1>10, <1>12, <1>13, <2>1
<1>15. PICK full : full = Append(log, entry)
  OBVIOUS
<1>16. /\ full \in Seq(T) /\ Len(full) = n + 1 /\ full[n + 1] = entry
       /\ \A i \in 1..n : full[i] = log[i]
  BY <1>3, <1>15
<1>17. StartOf(n + 1, max) = d + 1
  BY <1>1, <1>5, <1>fits DEF StartOf
<1>18. PICK cut : cut = SubSeq(full, d + 1, Len(full))
  OBVIOUS
<1>19. /\ cut \in Seq(T) /\ DOMAIN cut = 1..(k + 1)
       /\ \A i \in 1..(k + 1) : cut[i] = full[i + d]
  <2>1. k + 1 \in Nat /\ Len(full) = d + (k + 1)
    BY <1>7, <1>16
  <2> QED
    BY <1>7, <1>16, <1>18, <2>1, Dropped
<1>20. \A i \in 1..(k + 1) : cut[i] = <<order2[i], records2[order2[i]]>>
  <2>1. ASSUME NEW i \in 1..k
        PROVE  cut[i] = <<order2[i], records2[order2[i]]>>
    <3>1. cut[i] = log[i + d]
      BY <1>11, <1>16, <1>19
    <3>2. log[i + d] = <<order[i + d], records[order[i + d]]>>
      BY <1>4, <1>11
    <3> QED
      BY <1>10, <1>13, <3>1, <3>2
  <2>2. cut[k + 1] = <<pid, e>>
    <3>1. k + 1 \in 1..(k + 1) /\ k + 1 + d = n + 1
      BY <1>7
    <3> QED
      BY <1>2, <1>16, <1>19, <3>1 DEF Entry
  <2> QED
    BY <1>10, <1>12, <1>13, <2>1, <2>2
<1>21. LogOf(order2, records2) = cut
  <2>1. cut = [i \in 1..(k + 1) |-> cut[i]]
    BY <1>19
  <2> QED
    BY <1>10, <1>20, <2>1 DEF LogOf
<1>22. Trimmed(full, max) = cut
  BY <1>16, <1>17, <1>18 DEF Trimmed
<1> QED
  BY <1>0, <1>2, <1>7, <1>10, <1>14, <1>15, <1>21, <1>22 DEF Extended

\* The status of a process that ends: that of the image that runs it, or that
\* of the heir who died before.
LEMMA LastStatus ==
  ASSUME LifeBase, NEW peer, NEW status \in Status, NEW pid \in Ending(peer)
  PROVE  (IF pid \in Replaced(peer)
          THEN CHOOSE e \in Status : \E id \in Succession(pid, peer) :
                   e \in exec_transactions[id].candidate_exit
          ELSE status)
            = IF Heir(pid) = {} THEN status ELSE exited[CHOOSE heir \in Heir(pid) : TRUE]
<1>0. IInv /\ Reported /\ pid \in DOMAIN processes
  BY DEF LifeBase, LifeInv, Ending
<1>1. processes[pid].peer = peer /\ Heir(pid) \subseteq DOMAIN exited
  BY <1>0, EndingByHeir
<1>2. CASE pid \notin Replaced(peer)
  BY <1>0, <1>1, <1>2, HeirFacts
<1>3. CASE pid \in Replaced(peer)
  <2>1. PICK id \in TakenOver(peer) : exec_transactions[id].process = pid
    BY <1>3 DEF Replaced
  <2>2. PICK image : image = exec_transactions[id].target
    OBVIOUS
  <2>3. Heir(pid) = {image} /\ image \in DOMAIN exited
    BY <1>0, <1>1, <2>1, <2>2, HeirFacts
  <2>4. (CHOOSE heir \in Heir(pid) : TRUE) = image
    BY <2>3
  <2>5. \A i \in Succession(pid, peer) : i = id
    BY <1>0, <2>1 DEF Succession, TakenOver, IInv, OneRetiring
  <2>6. exec_transactions[id].candidate_exit = {exited[image]}
    BY <1>0, <2>1, <2>2, <2>3 DEF Reported, TakenOver
  <2>7. exited[image] \in Status
    BY <2>3 DEF LifeBase, TypeInv, SessionTypes, IsMap
  <2>8. id \in Succession(pid, peer)
    BY <2>1 DEF Succession
  <2>9. \A e \in Status : (\E i \in Succession(pid, peer) :
            e \in exec_transactions[i].candidate_exit) <=> e = exited[image]
    BY <2>5, <2>6, <2>8
  <2>10. (CHOOSE e \in Status : \E i \in Succession(pid, peer) :
            e \in exec_transactions[i].candidate_exit) = exited[image]
    BY <2>7, <2>9
  <2> QED
    BY <1>3, <2>3, <2>4, <2>10
<1> QED
  BY <1>2, <1>3

\* What a death adds to the log.
LEMMA ExitLogged ==
  ASSUME LifeBase, NEW peer, NEW status \in Status, ProcessExited(peer, status)
  PROVE  /\ Ending(peer) = {} => UNCHANGED <<exit_records, exit_order>>
         /\ \A pid \in Ending(peer) : \E e \in Status :
               /\ e = IF Heir(pid) = {} THEN status
                      ELSE exited[CHOOSE heir \in Heir(pid) : TRUE]
               /\ RecordExit(pid, e)
<1>1. ASSUME Ending(peer) = {} PROVE UNCHANGED <<exit_records, exit_order>>
  BY <1>1, Zenon DEF ProcessExited, Ending, Dying
<1>2. ASSUME NEW pid \in Ending(peer)
      PROVE  \E e \in Status :
               /\ e = IF Heir(pid) = {} THEN status
                      ELSE exited[CHOOSE heir \in Heir(pid) : TRUE]
               /\ RecordExit(pid, e)
  <2>1. pid = CHOOSE p \in Ending(peer) : TRUE
    BY OneEnds
  <2>2. PICK e : e = IF pid \in Replaced(peer)
                     THEN CHOOSE s \in Status : \E id \in Succession(pid, peer) :
                              s \in exec_transactions[id].candidate_exit
                     ELSE status
    OBVIOUS
  <2>3. e \in Status
    BY <2>2, FinalStatus DEF LifeBase
  <2>4. RecordExit(pid, e)
    <3>1. LET p == CHOOSE p \in Ending(peer) : TRUE
          IN  RecordExit(p, IF p \in Replaced(peer)
                            THEN CHOOSE s \in Status : \E id \in Succession(p, peer) :
                                     s \in exec_transactions[id].candidate_exit
                            ELSE status)
      BY Zenon DEF ProcessExited, Ending, Dying, Replaced
    <3> QED
      BY <2>1, <2>2, <3>1
  <2> QED
    BY <2>2, <2>3, <2>4, LastStatus
<1> QED
  BY <1>1, <1>2

\* The status with which a process ends, by its heirs, ...
StatusFrom(heirs, status) ==
    IF heirs = {} THEN status ELSE exited[CHOOSE heir \in heirs : TRUE]

\* ... and what ProcessLife logs for it.
EntryOf(pid, status) ==
    <<pid, IF Heir(pid) = {} THEN status ELSE exited[CHOOSE heir \in Heir(pid) : TRUE]>>

\* The log after a death is what ProcessLife says.
LEMMA DeathLog ==
  ASSUME LifeBase, NEW peer, NEW status \in Status, ProcessExited(peer, status),
         NEW e, \A pid \in Ending(peer) : e = EntryOf(pid, status)
  PROVE  /\ Logged'
         /\ LifeLog' = Trimmed(Grown(LifeLog, Cardinality(Ending(peer)), e), MAX_EXIT_RECORDS)
<1>0. MAX_EXIT_RECORDS \in Nat
  BY ManagerAssumption DEF Limit
<1>1. IInv /\ Logged
  BY DEF LifeBase, LifeInv
<1>2. PICK pids, T : pids = 1..(next_pid - 1) /\ T = Entries(pids, Status)
  OBVIOUS
<1>3. IsMap(exit_records, pids, Status) /\ exit_order \in Seq(pids)
  BY <1>2 DEF LifeBase, TypeInv, ExitTypes
<1>4. /\ DOMAIN processes' = DOMAIN processes \ Ending(peer)
      /\ \A id \in Prepared' : id \in Prepared /\ transactions'[id].child = transactions[id].child
  <2>1. \A id \in Prepared' : id \in Prepared /\ transactions'[id].child = transactions[id].child
    BY <1>1, ExitForks DEF Prepared
  <2> QED
    BY <1>1, <2>1, ExitProcesses
<1>5. /\ LifeLog = LogOf(exit_order, exit_records)
      /\ LifeLog' = LogOf(exit_order', exit_records')
  BY DEF LifeLog, LogOf
<1>6. LifeLog \in Seq(T) /\ Len(LifeLog) <= MAX_EXIT_RECORDS
  <2>1. \A i \in DOMAIN exit_order : exit_order[i] \in DOMAIN exit_records
    BY <1>1 DEF Logged
  <2>2. LifeLog \in Seq(T) /\ Len(LifeLog) = Len(exit_order)
    <3>1. PICK order, records : order = exit_order /\ records = exit_records
      OBVIOUS
    <3>2. /\ order \in Seq(pids) /\ IsMap(records, pids, Status)
          /\ \A i \in DOMAIN order : order[i] \in DOMAIN records
      BY <1>3, <2>1, <3>1
    <3>3. /\ LogOf(order, records) \in Seq(Entries(pids, Status))
          /\ Len(LogOf(order, records)) = Len(order)
      BY <3>2, LogIsSequence
    <3> QED
      BY <1>2, <1>5, <3>1, <3>3, Zenon
  <2> QED
    BY <1>1, <2>2 DEF Logged
<1>7. CASE Ending(peer) = {}
  <2>1. UNCHANGED <<exit_records, exit_order>>
    BY <1>7, ExitLogged
  <2>2. Logged'
    BY <1>1, <1>4, <2>1 DEF Logged
  <2>3. Cardinality(Ending(peer)) = 0
    BY <1>7, FS_EmptySet
  <2>4. Grown(LifeLog, 0, e) = LifeLog /\ Trimmed(LifeLog, MAX_EXIT_RECORDS) = LifeLog
    BY <1>0, <1>6, LogNotGrown, LogTrimmed
  <2>5. LifeLog' = LifeLog
    BY <1>5, <2>1
  <2> QED
    BY <2>2, <2>3, <2>4, <2>5
<1>8. CASE Ending(peer) # {}
  <2>1. PICK pid : pid \in Ending(peer)
    BY <1>8
  <2>2. Cardinality(Ending(peer)) = 1
    <3>1. Ending(peer) = {pid}
      BY <2>1, OneEnds
    <3> QED
      BY <3>1, FS_Singleton
  <2>3. PICK s \in Status : e = <<pid, s>> /\ RecordExit(pid, s)
    BY <2>1, ExitLogged DEF EntryOf
  <2>4. pid \in pids /\ pid \in DOMAIN processes
    BY <1>1, <1>2, <2>1 DEF Ending, IInv, Shape
  <2>5. e \in T
    BY <1>2, <2>3, <2>4 DEF Entries
  <2>6. Grown(LifeLog, 1, e) = Append(LifeLog, e)
    BY <1>6, <2>5, LogGrown
  <2>7. CASE MAX_EXIT_RECORDS = 0
    <3>1. UNCHANGED <<exit_records, exit_order>>
      BY <2>3, <2>7 DEF RecordExit
    <3>2. Logged'
      BY <1>1, <1>4, <3>1 DEF Logged
    <3>3. PICK full : full = Append(LifeLog, e)
      OBVIOUS
    <3>4. full \in Seq(T) /\ Len(full) = 1
      BY <1>6, <2>5, <2>7, <3>3
    <3>5. Trimmed(full, MAX_EXIT_RECORDS) = LifeLog
      BY <1>0, <1>6, <2>7, <3>4, LogTrimmed
    <3>6. LifeLog' = LifeLog
      BY <1>5, <3>1
    <3> QED
      BY <2>2, <2>6, <3>2, <3>3, <3>5, <3>6
  <2>8. CASE MAX_EXIT_RECORDS # 0
    <3>1. /\ exit_order' = OrderWith(exit_order, MAX_EXIT_RECORDS, pid)
          /\ exit_records' = RecordsWith(exit_records, exit_order, MAX_EXIT_RECORDS, pid, s)
      BY <2>3, <2>8 DEF RecordExit, KeptOf, OrderWith, RecordsWith
    <3>2. /\ Len(exit_order) <= MAX_EXIT_RECORDS
          /\ \A i \in DOMAIN exit_order :
                exit_order[i] \in DOMAIN exit_records /\ exit_order[i] # pid
      BY <1>1, <2>4 DEF Logged
    <3>3. /\ Len(exit_order') <= MAX_EXIT_RECORDS
          /\ \A i \in DOMAIN exit_order' :
                /\ exit_order'[i] \in DOMAIN exit_records'
                /\ \/ exit_order'[i] = pid
                   \/ \E j \in DOMAIN exit_order : exit_order'[i] = exit_order[j]
          /\ LogOf(exit_order', exit_records') =
                Trimmed(Append(LogOf(exit_order, exit_records), e), MAX_EXIT_RECORDS)
      <4>1. CanExtend(exit_order, exit_records, MAX_EXIT_RECORDS, pid)
        BY <3>2 DEF CanExtend
      <4>2. Extended(exit_order, exit_records, MAX_EXIT_RECORDS, pid, s, exit_order', exit_records')
        BY <1>0, <1>3, <2>4, <2>8, <3>1, <4>1, LogExtended
      <4>5. e = Entry(pid, s)
        BY <2>3 DEF Entry
      <4> QED
        BY <4>2, <4>5 DEF Extended
    <3>4. Logged'
      <4>1. \A id \in Prepared : transactions[id].child # pid
        BY <1>1, <2>4 DEF IInv, ForkSlots
      <4>2. pid \notin DOMAIN processes'
        BY <1>4, <2>1
      <4> QED
        BY <1>1, <1>4, <3>3, <4>1, <4>2 DEF Logged
    <3> QED
      BY <1>5, <2>2, <2>3, <2>6, <3>3, <3>4
  <2> QED
    BY <2>7, <2>8
<1> QED
  BY <1>7, <1>8

\* The first report of a death keeps the invariant.
LEMMA DeathInv ==
  ASSUME LifeBase, NEW peer, NEW status \in Status, peer \notin DOMAIN exited,
         ProcessExited(peer, status)
  PROVE  LifeInv'
<1>0. IInv /\ LifeInv
  BY DEF LifeBase
<1>1. UNCHANGED next_pid /\ exited' = With(exited, peer, status)
  BY Zenon DEF ProcessExited
<1>2. /\ DOMAIN processes' = DOMAIN processes \ Ending(peer)
      /\ \A pid \in DOMAIN processes' :
            /\ processes'[pid].peer = Successor(pid, peer)
            /\ processes'[pid].prewarm = Released(processes[pid].prewarm, Cut(peer))
            /\ processes'[pid].state = IF pid \in ChildrenOf(ForksLost(peer))
                                       THEN "Aborted" ELSE processes[pid].state
            /\ processes'[pid].transaction = IF pid \in ChildrenOf(ForksLost(peer))
                                             THEN NoId ELSE processes[pid].transaction
            /\ processes'[pid].parent_pid = Reparented(processes[pid].parent_pid, Ending(peer))
  BY <1>0, ExitProcesses, ExitDetails
<1>3. Family'
  <2>1. \A pid \in DOMAIN processes' : processes'[pid].parent_pid \in DOMAIN processes' \cup {NoId}
    BY <1>0, <1>2 DEF LifeInv, Family, Reparented
  <2>2. \A id \in Prepared' :
           /\ id \in Prepared
           /\ transactions'[id].child_parent =
                 Reparented(transactions[id].child_parent, Ending(peer))
    BY <1>0, ExitForks, ExitDetails DEF Prepared
  <2>3. \A id \in Prepared' : transactions'[id].child_parent \in DOMAIN processes' \cup {NoId}
    BY <1>0, <1>2, <2>2 DEF LifeInv, Family, Reparented
  <2> QED
    BY <2>1, <2>3 DEF Family
<1>4. Unattached'
  <2>1. ASSUME NEW pid \in DOMAIN processes',
               processes'[pid].prewarm.at \in {"PoolReady", "PoolReserved"}
        PROVE  processes'[pid].parent_pid = NoId
    <3>1. pid \in DOMAIN processes
      BY <1>2
    <3>2. processes[pid].prewarm.at \in {"PoolReady", "PoolReserved"}
      BY <1>2, <2>1 DEF Released, Prewarm
    <3>3. processes[pid].parent_pid = NoId
      BY <1>0, <3>1, <3>2 DEF LifeInv, Unattached
    <3> QED
      BY <1>2, <3>3 DEF Reparented
  <2> QED
    BY <2>1 DEF Unattached
<1>5. Settled'
  BY <1>0, <1>2 DEF LifeInv, Settled
<1>6. Alive'
  <2>1. DOMAIN exited' = DOMAIN exited \cup {peer}
    BY <1>1 DEF With
  <2>2. \A pid \in DOMAIN processes' : Successor(pid, peer) \notin DOMAIN exited \cup {peer}
    BY <1>2, EndingByHeir
  <2> QED
    BY <1>2, <2>1, <2>2 DEF Alive
<1>7. Reported'
  <2>1. ASSUME NEW id \in DOMAIN exec_transactions'
        PROVE  exec_transactions'[id].candidate_exit =
                  IF exec_transactions'[id].retiring
                       /\ exec_transactions'[id].target \in DOMAIN exited'
                  THEN {exited'[exec_transactions'[id].target]} ELSE {}
    <3>1. PICK t, u : t = exec_transactions[id] /\ u = exec_transactions'[id]
      OBVIOUS
    <3>2. id \in DOMAIN exec_transactions /\ u.retiring = t.retiring /\ u.target = t.target
      <4>1. id \in DOMAIN exec_transactions
        BY <1>0, ExitExecs, ZenonT(40)
      <4>2. /\ exec_transactions'[id].retiring = exec_transactions[id].retiring
            /\ exec_transactions'[id].target = exec_transactions[id].target
        BY <1>0, ExitExecs
      <4> QED
        BY <3>1, <4>1, <4>2, Zenon
    <3>3. u.candidate_exit = IF t.retiring /\ t.target = peer /\ t.candidate_exit = {}
                             THEN {status} ELSE t.candidate_exit
      <4>1. \A i \in DOMAIN exec_transactions' :
               LET old == exec_transactions[i]
               IN  exec_transactions'[i].candidate_exit =
                      IF old.retiring /\ old.target = peer /\ old.candidate_exit = {}
                      THEN {status} ELSE old.candidate_exit
        BY <1>0, ExitDetails, Zenon
      <4>2. exec_transactions'[id].candidate_exit =
               IF /\ exec_transactions[id].retiring /\ exec_transactions[id].target = peer
                  /\ exec_transactions[id].candidate_exit = {}
               THEN {status} ELSE exec_transactions[id].candidate_exit
        BY <2>1, <4>1, Zenon
      <4> QED
        BY <3>1, <4>2, Zenon
    <3>4. t.candidate_exit = IF t.retiring /\ t.target \in DOMAIN exited
                             THEN {exited[t.target]} ELSE {}
      BY <1>0, <3>1, <3>2 DEF LifeInv, Reported
    <3>5. /\ DOMAIN exited' = DOMAIN exited \cup {peer}
          /\ exited'[peer] = status
          /\ \A x \in DOMAIN exited : exited'[x] = exited[x]
      BY <1>1 DEF With
    <3>6. CASE t.target = peer
      BY <3>1, <3>2, <3>3, <3>4, <3>5, <3>6
    <3>7. CASE t.target # peer
      BY <3>1, <3>2, <3>3, <3>4, <3>5, <3>7
    <3> QED
      BY <3>6, <3>7
  <2> QED
    BY <2>1 DEF Reported
<1>8. Logged'
  <2>1. PICK e : \A pid \in Ending(peer) : e = EntryOf(pid, status)
    BY OneEnds
  <2> QED
    BY <2>1, DeathLog
<1> QED
  BY <1>0, <1>1, <1>3, <1>4, <1>5, <1>6, <1>7, <1>8 DEF LifeInv

\* The heirs after a death: who has taken over is heir no more.
LEMMA DeathHeirs ==
  ASSUME LifeBase, NEW peer, NEW status, ProcessExited(peer, status),
         NEW pid \in DOMAIN processes \ Ending(peer)
  PROVE  Heir(pid)' = IF processes[pid].peer = peer THEN {} ELSE Heir(pid)
<1>0. IInv
  BY DEF LifeBase
<1>1. /\ DOMAIN exec_transactions' =
            {i \in DOMAIN exec_transactions :
                 exec_transactions[i].process \notin Ending(peer) \cup Replaced(peer)}
      /\ \A id \in DOMAIN exec_transactions' :
            /\ exec_transactions'[id].process = exec_transactions[id].process
            /\ exec_transactions'[id].target = exec_transactions[id].target
            /\ exec_transactions'[id].retiring = exec_transactions[id].retiring
  BY <1>0, ExitExecs
<1>2. Heir(pid)' = {exec_transactions'[id].target : id \in
          {i \in DOMAIN exec_transactions' :
              exec_transactions'[i].process = pid /\ exec_transactions'[i].retiring}}
  BY DEF Heir
<1>3. CASE processes[pid].peer = peer
  <2>1. pid \in Replaced(peer)
    BY <1>3, EndingByHeir
  <2> QED
    BY <1>1, <1>2, <1>3, <2>1
<1>4. CASE processes[pid].peer # peer
  <2>1. pid \notin Replaced(peer)
    BY <1>4, EndingByHeir
  <2>2. {i \in DOMAIN exec_transactions' :
              exec_transactions'[i].process = pid /\ exec_transactions'[i].retiring}
          = {i \in DOMAIN exec_transactions :
              exec_transactions[i].process = pid /\ exec_transactions[i].retiring}
    BY <1>1, <2>1
  <2> QED
    BY <1>1, <1>2, <1>4, <2>2 DEF Heir
<1> QED
  BY <1>3, <1>4

\* A row of ProcessLife's table, and such a row with another owner, heir and
\* parent, or with its fork revoked.
RowOf(owner, heir, parent, fork, phase) ==
    [owner |-> owner, heir |-> heir, parent |-> parent, fork |-> fork, phase |-> phase]

Handed(row, owner, heir, parent) ==
    [row EXCEPT !.owner = owner, !.heir = heir, !.parent = parent]

Barred(row) == [row EXCEPT !.phase = "Aborted", !.fork = NoId]

\* ProcessLife's row of a process that outlives the death of `image`, before
\* and after the forks `ids` are revoked.
Inherited(row, image, ends) ==
    [row EXCEPT
        !.owner = IF row.owner = image THEN CHOOSE heir \in row.heir : TRUE ELSE @,
        !.heir = IF row.owner = image THEN {} ELSE @,
        !.parent = IF @ \in ends THEN NoId ELSE @]

Passed(row, ids) ==
    IF row.fork \in ids THEN [row EXCEPT !.phase = "Aborted", !.fork = NoId] ELSE row

\* The fields of a row handed on, ...
LEMMA HandedRow ==
  ASSUME NEW a, NEW b, NEW c, NEW d, NEW e, NEW o, NEW h, NEW p
  PROVE  Handed(RowOf(a, b, c, d, e), o, h, p) = RowOf(o, h, p, d, e)
<1>1. PICK r : r = RowOf(a, b, c, d, e)
  OBVIOUS
<1>2. Handed(r, o, h, p) = [[[r EXCEPT !.owner = o] EXCEPT !.heir = h] EXCEPT !.parent = p]
  BY Zenon DEF Handed
<1>3. [r EXCEPT !.owner = o] = RowOf(o, b, c, d, e)
  BY <1>1 DEF RowOf
<1>4. [RowOf(o, b, c, d, e) EXCEPT !.heir = h] = RowOf(o, h, c, d, e)
  BY DEF RowOf
<1>5. [RowOf(o, h, c, d, e) EXCEPT !.parent = p] = RowOf(o, h, p, d, e)
  BY DEF RowOf
<1> QED
  BY <1>1, <1>2, <1>3, <1>4, <1>5, Zenon

\* ... and of one whose fork is revoked.
LEMMA BarredRow ==
  ASSUME NEW a, NEW b, NEW c, NEW d, NEW e
  PROVE  Barred(RowOf(a, b, c, d, e)) = RowOf(a, b, c, NoId, "Aborted")
<1>1. PICK r : r = RowOf(a, b, c, d, e)
  OBVIOUS
<1>2. Barred(r) = [[r EXCEPT !.phase = "Aborted"] EXCEPT !.fork = NoId]
  BY Zenon DEF Barred
<1>3. [r EXCEPT !.phase = "Aborted"] = RowOf(a, b, c, d, "Aborted")
  BY <1>1 DEF RowOf
<1>4. [RowOf(a, b, c, d, "Aborted") EXCEPT !.fork = NoId] = RowOf(a, b, c, NoId, "Aborted")
  BY DEF RowOf
<1> QED
  BY <1>1, <1>2, <1>3, <1>4, Zenon

\* A row of ProcessLife's table after a death.
LEMMA DeathRow ==
  ASSUME LifeBase, NEW peer, NEW status, ProcessExited(peer, status),
         NEW pid \in DOMAIN processes \ Ending(peer), NEW row, row = LifeTable[pid],
         NEW ids, ids = ForksLost(peer) \cup ExecsLost(peer)
  PROVE  LifeTable'[pid] = Passed(Inherited(row, peer, Ending(peer)), ids)
<1> DEFINE q == Inherited(row, peer, Ending(peer))
<1>0. IInv /\ pid \in DOMAIN processes'
  BY ExitProcesses DEF LifeBase
<1>1. row = [owner |-> processes[pid].peer, heir |-> Heir(pid),
             parent |-> processes[pid].parent_pid, fork |-> processes[pid].transaction,
             phase |-> processes[pid].state]
  BY DEF LifeTable
<1>2. LifeTable'[pid] =
          [owner |-> processes'[pid].peer, heir |-> Heir(pid)',
           parent |-> processes'[pid].parent_pid, fork |-> processes'[pid].transaction,
           phase |-> processes'[pid].state]
  BY <1>0 DEF LifeTable
<1>3. processes'[pid].peer = IF row.owner = peer THEN CHOOSE heir \in row.heir : TRUE ELSE row.owner
  <2>1. processes'[pid].peer = Successor(pid, peer)
    BY <1>0, ExitProcesses
  <2>2. processes[pid].peer = peer => Heir(pid) = {Successor(pid, peer)}
    BY EndingByHeir
  <2>3. processes[pid].peer # peer => Successor(pid, peer) = processes[pid].peer
    BY EndingByHeir
  <2>4. (CHOOSE heir \in {Successor(pid, peer)} : TRUE) = Successor(pid, peer)
    OBVIOUS
  <2>5. row.owner = processes[pid].peer /\ row.heir = Heir(pid)
    BY <1>1
  <2> QED
    BY <2>1, <2>2, <2>3, <2>4, <2>5
<1>4. Heir(pid)' = IF row.owner = peer THEN {} ELSE row.heir
  BY <1>1, DeathHeirs
<1>5. processes'[pid].parent_pid = IF row.parent \in Ending(peer) THEN NoId ELSE row.parent
  <2>1. processes'[pid].parent_pid = Reparented(processes[pid].parent_pid, Ending(peer))
    BY <1>0, ExitDetails
  <2>2. row.parent = processes[pid].parent_pid
    BY <1>1
  <2> QED
    BY <2>1, <2>2 DEF Reparented
<1>6. pid \in ChildrenOf(ForksLost(peer)) <=> row.fork \in ids
  <2>1. ForksLost(peer) \subseteq {id \in DOMAIN transactions : ~Terminal(transactions[id])}
    BY DEF ForksLost, PendingForksOf
  <2>2. ExecsLost(peer) \subseteq DOMAIN exec_transactions
    BY <1>0, ExitExecs DEF PendingExecs
  <2>3. row.fork = processes[pid].transaction
    BY <1>1
  <2> QED
    BY <2>1, <2>2, <2>3, WaitingChildren
<1>7. /\ processes'[pid].state = IF row.fork \in ids THEN "Aborted" ELSE row.phase
      /\ processes'[pid].transaction = IF row.fork \in ids THEN NoId ELSE row.fork
  <2>1. /\ processes'[pid].state = IF pid \in ChildrenOf(ForksLost(peer))
                                   THEN "Aborted" ELSE processes[pid].state
        /\ processes'[pid].transaction = IF pid \in ChildrenOf(ForksLost(peer))
                                         THEN NoId ELSE processes[pid].transaction
    BY <1>0, ExitProcesses
  <2>2. row.phase = processes[pid].state /\ row.fork = processes[pid].transaction
    BY <1>1
  <2> QED
    BY <1>6, <2>1, <2>2
<1>8. q = Handed(row, IF row.owner = peer THEN CHOOSE heir \in row.heir : TRUE ELSE row.owner,
                 IF row.owner = peer THEN {} ELSE row.heir,
                 IF row.parent \in Ending(peer) THEN NoId ELSE row.parent)
  BY Zenon DEF Handed, Inherited
<1> HIDE DEF q
<1>9. q = Handed(row, processes'[pid].peer, Heir(pid)', processes'[pid].parent_pid)
  BY <1>3, <1>4, <1>5, <1>8, Zenon
<1>10. PICK o, h, p : /\ o = processes'[pid].peer /\ h = Heir(pid)'
                      /\ p = processes'[pid].parent_pid
  OBVIOUS
<1>11. PICK a, b, c, fork, phase : row = RowOf(a, b, c, fork, phase)
  BY <1>1, Zenon DEF RowOf
<1>12. q = RowOf(o, h, p, row.fork, row.phase)
  <2>1. q = Handed(row, o, h, p)
    BY <1>9, <1>10, Zenon
  <2>2. q = RowOf(o, h, p, fork, phase)
    BY <1>11, <2>1, HandedRow
  <2>3. row.fork = fork /\ row.phase = phase
    BY <1>11 DEF RowOf
  <2> QED
    BY <2>2, <2>3, Zenon
<1>13. LifeTable'[pid] = RowOf(o, h, p, processes'[pid].transaction, processes'[pid].state)
  BY <1>2, <1>10, Zenon DEF RowOf
<1>14. q.fork = row.fork
  BY <1>12 DEF RowOf
<1>15. LifeTable'[pid] = IF q.fork \in ids THEN Barred(q) ELSE q
  <2>1. CASE row.fork \in ids
    <3>1. processes'[pid].transaction = NoId /\ processes'[pid].state = "Aborted"
      BY <1>7, <2>1
    <3>2. PICK fork1, phase1 : q = RowOf(o, h, p, fork1, phase1)
      BY <1>12, Zenon
    <3>3. Barred(q) = RowOf(o, h, p, NoId, "Aborted")
      BY <3>2, BarredRow
    <3> QED
      BY <1>13, <1>14, <2>1, <3>1, <3>3
  <2>2. CASE row.fork \notin ids
    <3>1. processes'[pid].transaction = row.fork /\ processes'[pid].state = row.phase
      BY <1>7, <2>2
    <3> QED
      BY <1>12, <1>13, <1>14, <2>2, <3>1
  <2> QED
    BY <2>1, <2>2
<1> QED
  BY <1>15, Zenon DEF q, Barred, Passed

\* A death aborts `ids` and forgets `gone`, as ProcessLife allows.
DeathDecides(peer, ids, gone) ==
    /\ ids \in SUBSET Life!OpenIds
    /\ gone \in SUBSET DOMAIN LifeVerdict
    /\ gone \cap Life!OpenIds \subseteq ids
    /\ \A pid \in Ending(peer) : processes[pid].transaction \in ids \cup {NoId}
    /\ LifeVerdict' = Life!Closed(ids, gone)

\* The transactions that a death aborts and forgets.
LEMMA DeathVerdicts ==
  ASSUME LifeBase, NEW peer, NEW status, ProcessExited(peer, status),
         NEW ids, ids = ForksLost(peer) \cup ExecsLost(peer),
         NEW gone, gone = DOMAIN LifeVerdict \ DOMAIN LifeVerdict'
  PROVE  DeathDecides(peer, ids, gone)
<1>0. IInv /\ KeysResolve
  BY DEF LifeBase
<1>1. \A t : Verdict(t) = "open" <=> ~Terminal(t)
  BY DEF Verdict, Terminal
<1>2. /\ ForksLost(peer) \subseteq {id \in DOMAIN transactions : ~Terminal(transactions[id])}
      /\ ExecsLost(peer) \subseteq PendingExecs
  BY <1>0, ExitExecs DEF ForksLost, PendingForksOf
<1>3. Life!OpenIds = {id \in DOMAIN transactions : ~Terminal(transactions[id])} \cup PendingExecs
  BY <1>0, <1>1, VerdictOf DEF Life!OpenIds, PendingExecs
<1>4. /\ DOMAIN transactions' = DOMAIN transactions \ Spent(peer)
      /\ \A id \in DOMAIN transactions' :
            transactions'[id].state = IF id \in ForksLost(peer) THEN "Aborted"
                                      ELSE transactions[id].state
  BY <1>0, ExitForks
<1>5. /\ DOMAIN exec_transactions' =
            {i \in DOMAIN exec_transactions :
                 exec_transactions[i].process \notin Ending(peer) \cup Replaced(peer)}
      /\ \A id \in DOMAIN exec_transactions' :
            exec_transactions'[id].state = IF id \in ExecsLost(peer) THEN "Aborted"
                                           ELSE exec_transactions[id].state
  BY <1>0, ExitExecs
<1>6. DOMAIN LifeVerdict' = DOMAIN transactions' \cup DOMAIN exec_transactions'
  BY DEF LifeVerdict
<1>7. DOMAIN LifeVerdict = DOMAIN transactions \cup DOMAIN exec_transactions
  BY DEF LifeVerdict
<1>8. gone \cap Life!OpenIds \subseteq ids
  <2> SUFFICES ASSUME NEW id \in gone \cap Life!OpenIds
               PROVE  id \in ids
    OBVIOUS
  <2>1. CASE id \in DOMAIN transactions
    <3>1. id \in Spent(peer) /\ ~Terminal(transactions[id])
      <4>1. id \notin PendingExecs
        BY <1>0, <2>1 DEF KeysResolve, PendingExecs
      <4> QED
        BY <1>3, <1>4, <1>6, <2>1, <4>1
    <3> QED
      BY <3>1 DEF Spent, ForksLost, PendingForksOf
  <2>2. CASE id \notin DOMAIN transactions
    <3>1. /\ id \in PendingExecs
          /\ exec_transactions[id].process \in Ending(peer) \cup Replaced(peer)
      BY <1>3, <1>5, <1>6, <2>2 DEF PendingExecs
    <3>2. exec_transactions[id].process \notin Replaced(peer)
      <4> SUFFICES ASSUME NEW i \in TakenOver(peer),
                          exec_transactions[i].process = exec_transactions[id].process
                   PROVE  FALSE
        BY DEF Replaced
      <4>1. i \in DOMAIN exec_transactions /\ exec_transactions[i].retiring
        BY DEF TakenOver
      <4>2. \A c \in DOMAIN clients :
               clients[c].kind = "Worker" => clients[c].pid # exec_transactions[i].process
        BY <1>0, <4>1 DEF IInv, Retiring
      <4>3. \E c \in DOMAIN clients : /\ clients[c].kind = "Worker"
                                      /\ clients[c].pid = exec_transactions[id].process
        BY <3>1 DEF LifeBase, ExecInv, Backed
      <4> QED
        BY <4>2, <4>3
    <3> QED
      BY <3>1, <3>2 DEF ExecsLost, PendingExecsOf
  <2> QED
    BY <2>1, <2>2
<1>9. ASSUME NEW pid \in Ending(peer), processes[pid].transaction # NoId
      PROVE  processes[pid].transaction \in ids
  <2>1. pid \in DOMAIN processes /\ processes[pid].state = "Pending"
    BY <1>9 DEF LifeBase, LifeInv, Settled, Ending
  <2>2. ForkAgreement
    BY DEF LifeBase, Agreed
  <2>3. LET id == processes[pid].transaction
        IN  /\ id \in DOMAIN transactions
            /\ transactions[id].state \in {"Adopted", "Ready"}
            /\ transactions[id].child = pid
    BY <2>1, <2>2 DEF ForkAgreement
  <2> QED
    BY <2>3 DEF ForksLost, PendingForksOf, Terminal
<1>10. LifeVerdict' = Life!Closed(ids, gone)
  <2>1. Life!Closed(ids, gone) = [id \in DOMAIN LifeVerdict \ gone |->
                                     IF id \in ids THEN "Aborted" ELSE LifeVerdict[id]]
    BY DEF Life!Closed
  <2>2. DOMAIN LifeVerdict \ gone = DOMAIN LifeVerdict'
    BY <1>4, <1>5, <1>6, <1>7
  <2>3. ASSUME NEW id \in DOMAIN LifeVerdict'
        PROVE  LifeVerdict'[id] = IF id \in ids THEN "Aborted" ELSE LifeVerdict[id]
    <3>1. CASE id \in DOMAIN transactions'
      <4>1. id \in DOMAIN transactions /\ id \notin DOMAIN exec_transactions
        BY <1>0, <1>4, <3>1 DEF KeysResolve
      <4>2. id \in ids <=> id \in ForksLost(peer)
        BY <1>2, <4>1 DEF PendingExecs
      <4>3. /\ LifeVerdict[id] = Verdict(transactions[id])
            /\ LifeVerdict'[id] = Verdict(transactions'[id])
        BY <2>3, <3>1, <4>1 DEF LifeVerdict
      <4>4. transactions'[id].state = IF id \in ids THEN "Aborted" ELSE transactions[id].state
        BY <1>4, <3>1, <4>2
      <4> QED
        BY <4>3, <4>4 DEF Verdict, Terminal
    <3>2. CASE id \notin DOMAIN transactions'
      <4>1. id \in DOMAIN exec_transactions' /\ id \in DOMAIN exec_transactions
        BY <1>5, <1>6, <2>3, <3>2
      <4>2. id \notin DOMAIN transactions
        BY <1>0, <4>1 DEF KeysResolve
      <4>3. id \in ids <=> id \in ExecsLost(peer)
        BY <1>2, <4>2
      <4>4. /\ LifeVerdict[id] = Verdict(exec_transactions[id])
            /\ LifeVerdict'[id] = Verdict(exec_transactions'[id])
        BY <2>3, <3>2, <4>1, <4>2 DEF LifeVerdict
      <4>5. exec_transactions'[id].state = IF id \in ids THEN "Aborted"
                                           ELSE exec_transactions[id].state
        BY <1>5, <4>1, <4>3
      <4> QED
        BY <4>4, <4>5 DEF Verdict, Terminal
    <3> QED
      BY <3>1, <3>2
  <2>4. LifeVerdict' = [id \in DOMAIN LifeVerdict' |-> LifeVerdict'[id]]
    BY DEF LifeVerdict
  <2> QED
    BY <2>1, <2>2, <2>3, <2>4
<1> QED
  BY <1>2, <1>3, <1>8, <1>9, <1>10 DEF DeathDecides

\* ProcessLife counts as the manager does.
LEMMA LifeCardinality == \A S : Life!Cardinality(S) = Cardinality(S)
  BY Zenon DEF Life!Cardinality, Cardinality

\* The first death of an image is a death in ProcessLife.
LEMMA DeathStep ==
  ASSUME LifeBase, NEW peer \in Peer, NEW status \in Status, peer \notin DOMAIN exited,
         ProcessExited(peer, status)
  PROVE  LifeStep
<1> DEFINE ends == {pid \in DOMAIN LifeTable :
                       /\ LifeTable[pid].owner = peer
                       /\ LifeTable[pid].heir \subseteq DOMAIN exited}
           last(pid) == IF LifeTable[pid].heir = {} THEN status
                        ELSE exited[CHOOSE heir \in LifeTable[pid].heir : TRUE]
           inherit(p) == [p EXCEPT
               !.owner = IF p.owner = peer THEN CHOOSE heir \in p.heir : TRUE ELSE @,
               !.heir = IF p.owner = peer THEN {} ELSE @,
               !.parent = IF @ \in ends THEN Life!None ELSE @]
           entries == LifeLog \o [i \in 1..Life!Cardinality(ends) |->
               LET pid == CHOOSE pid \in ends : TRUE IN <<pid, last(pid)>>]
           start == IF Len(entries) > MAX_EXIT_RECORDS
                    THEN Len(entries) - MAX_EXIT_RECORDS + 1 ELSE 1
<1>0. Life!None = NoId
  BY DEF Life!None, NoId
<1>1. DOMAIN LifeTable = DOMAIN processes
  BY DEF LifeTable
<1>2. \A pid \in DOMAIN processes :
         /\ LifeTable[pid].owner = processes[pid].peer
         /\ LifeTable[pid].heir = Heir(pid)
         /\ LifeTable[pid].fork = processes[pid].transaction
  BY DEF LifeTable
<1>3. ends = Ending(peer)
  <2>1. Ending(peer) \subseteq DOMAIN processes
    BY DEF Ending
  <2> QED
    BY <1>1, <1>2, <2>1, EndingByHeir
<1> HIDE DEF ends
<1>4. exited' = Life!Put(exited, peer, status)
  <2>1. exited' = With(exited, peer, status)
    BY Zenon DEF ProcessExited
  <2> QED
    BY <2>1, Zenon DEF With, Life!Put
<1>5. LifeLog' = SubSeq(entries, start, Len(entries))
  <2>1. PICK last_pid : last_pid = CHOOSE pid \in ends : TRUE
    OBVIOUS
  <2>2. PICK e : e = <<CHOOSE pid \in ends : TRUE, last(CHOOSE pid \in ends : TRUE)>>
    OBVIOUS
  <2>3. \A pid \in Ending(peer) : e = EntryOf(pid, status)
    <3> SUFFICES ASSUME NEW pid \in Ending(peer)
                 PROVE  e = EntryOf(pid, status)
      OBVIOUS
    <3>1. last_pid \in Ending(peer)
      BY <1>3, <2>1
    <3>2. last_pid = pid
      BY <3>1, OneEnds
    <3>3. pid \in DOMAIN processes
      BY DEF Ending
    <3>4. last(pid) = StatusFrom(LifeTable[pid].heir, status)
      BY Zenon DEF StatusFrom
    <3>5. EntryOf(pid, status) = <<pid, StatusFrom(Heir(pid), status)>>
      BY Zenon DEF StatusFrom, EntryOf
    <3>6. LifeTable[pid].heir = Heir(pid)
      BY <1>2, <3>3
    <3> HIDE DEF last
    <3> QED
      BY <2>1, <2>2, <3>2, <3>4, <3>5, <3>6, Zenon
  <2>4. LifeLog' = Trimmed(Grown(LifeLog, Cardinality(ends), e), MAX_EXIT_RECORDS)
    BY <1>3, <2>3, DeathLog
  <2> HIDE DEF last
  <2>5. entries = Grown(LifeLog, Life!Cardinality(ends),
                        <<CHOOSE pid \in ends : TRUE, last(CHOOSE pid \in ends : TRUE)>>)
    BY Zenon DEF Grown
  <2>6. start = StartOf(Len(entries), MAX_EXIT_RECORDS)
    BY Zenon DEF StartOf
  <2> HIDE DEF entries, start
  <2> QED
    BY <2>2, <2>4, <2>5, <2>6, LifeCardinality, Zenon DEF Trimmed
<1>6. PICK ids : ids = ForksLost(peer) \cup ExecsLost(peer)
  OBVIOUS
<1>7. PICK gone : gone = DOMAIN LifeVerdict \ DOMAIN LifeVerdict'
  OBVIOUS
<1>8. /\ ids \in SUBSET Life!OpenIds
      /\ gone \in SUBSET DOMAIN LifeVerdict
      /\ gone \cap Life!OpenIds \subseteq ids
      /\ \A pid \in Ending(peer) : processes[pid].transaction \in ids \cup {NoId}
      /\ LifeVerdict' = Life!Closed(ids, gone)
  <2>1. DeathDecides(peer, ids, gone)
    BY <1>6, <1>7, DeathVerdicts
  <2> QED
    BY <2>1, Zenon DEF DeathDecides
<1>9. {LifeTable[pid].fork : pid \in ends} \subseteq ids \cup {Life!None}
  <2>1. Ending(peer) \subseteq DOMAIN processes
    BY DEF Ending
  <2> QED
    BY <1>0, <1>2, <1>3, <1>8, <2>1
<1>10. LifeTable' = Life!Revoke([pid \in DOMAIN LifeTable \ ends |-> inherit(LifeTable[pid])], ids)
  <2>1. LifeTable' = [pid \in DOMAIN processes' |-> LifeTable'[pid]]
    BY DEF LifeTable
  <2>2. DOMAIN processes' = DOMAIN LifeTable \ ends
    BY <1>1, <1>3, ExitProcesses DEF LifeBase
  <2>3. ASSUME NEW pid \in DOMAIN LifeTable \ ends
        PROVE  LifeTable'[pid] = Passed(inherit(LifeTable[pid]), ids)
    <3>1. pid \in DOMAIN processes \ Ending(peer)
      BY <1>1, <1>3
    <3>2. PICK row : row = LifeTable[pid]
      OBVIOUS
    <3>3. LifeTable'[pid] = Passed(Inherited(row, peer, Ending(peer)), ids)
      BY <1>6, <3>1, <3>2, DeathRow, Zenon
    <3>4. inherit(row) = Inherited(row, peer, ends)
      BY Zenon DEF Inherited, NoId, Life!None
    <3> HIDE DEF inherit
    <3> QED
      BY <1>3, <3>2, <3>3, <3>4, Zenon
  <2> HIDE DEF inherit
  <2>4. PICK t : t = [pid \in DOMAIN LifeTable \ ends |-> inherit(LifeTable[pid])]
    OBVIOUS
  <2>5. /\ DOMAIN t = DOMAIN LifeTable \ ends
        /\ \A pid \in DOMAIN LifeTable \ ends : t[pid] = inherit(LifeTable[pid])
    BY <2>4
  <2>6. Life!Revoke(t, ids) = [pid \in DOMAIN t |-> Passed(t[pid], ids)]
    BY Zenon DEF Life!Revoke, Passed, NoId, Life!None
  <2>7. \A pid \in DOMAIN t : LifeTable'[pid] = Passed(t[pid], ids)
    BY <2>3, <2>5
  <2>8. LifeTable' = Life!Revoke(t, ids)
    BY <2>1, <2>2, <2>5, <2>6, <2>7
  <2> QED
    BY <2>4, <2>8
<1>11. \E i \in SUBSET Life!OpenIds, g \in SUBSET DOMAIN LifeVerdict :
          /\ g \cap Life!OpenIds \subseteq i
          /\ {LifeTable[pid].fork : pid \in ends} \subseteq i \cup {Life!None}
          /\ LifeVerdict' = Life!Closed(i, g)
          /\ LifeTable' = Life!Revoke([pid \in DOMAIN LifeTable \ ends |->
                                          inherit(LifeTable[pid])], i)
  <2> HIDE DEF inherit
  <2> QED
    BY <1>8, <1>9, <1>10, Zenon
<1>12. Life!Death(peer, status)
  <2> USE DEF ends
  <2>1. peer \notin DOMAIN exited
    OBVIOUS
  <2> SUFFICES
         /\ peer \notin DOMAIN exited
         /\ exited' = Life!Put(exited, peer, status)
         /\ LifeLog' = SubSeq(entries, start, Len(entries))
         /\ \E i \in SUBSET Life!OpenIds, g \in SUBSET DOMAIN LifeVerdict :
               /\ g \cap Life!OpenIds \subseteq i
               /\ {LifeTable[pid].fork : pid \in ends} \subseteq i \cup {Life!None}
               /\ LifeVerdict' = Life!Closed(i, g)
               /\ LifeTable' = Life!Revoke([pid \in DOMAIN LifeTable \ ends |->
                                               inherit(LifeTable[pid])], i)
    BY Zenon DEF Life!Death
  <2> HIDE DEF ends, last, inherit, entries, start
  <2> QED
    BY <1>4, <1>5, <1>11, <2>1, Zenon
<1> QED
  BY <1>12, Zenon DEF LifeStep, Life!LifeNext

\* Every step of the manager is a step of ProcessLife or changes nothing there.
LEMMA LifeNextStep ==
  ASSUME LifeBase, [Next]_vars
  PROVE  LifeInv' /\ LifeStep
<1>1. ASSUME NEW peer \in Peer, Connect(peer)
      PROVE  LifeInv' /\ LifeStep
  BY <1>1, ConnectLife
<1>2. ASSUME NEW c \in DOMAIN clients,
             ForkRequest(c) \/ ExecRequest(c) \/ StateRequest(c) \/ PoolRequest(c) \/ Shutdown(c)
      PROVE  LifeInv' /\ LifeStep
  BY <1>2, ForkRequestLife, ExecRequestLife, StateLife, PoolLife
<1>3. ASSUME NEW c \in DOMAIN clients, Disconnect(c)
      PROVE  LifeInv' /\ LifeStep
  BY <1>3, DisconnectLife
<1>4. ASSUME NEW peer \in Peer, NEW status \in Status, ProcessExited(peer, status)
      PROVE  LifeInv' /\ LifeStep
  BY <1>4, DiesAgain, DeathInv, DeathStep
<1>5. CASE UNCHANGED vars
  <2>1. UNCHANGED <<processes, transactions, exec_transactions, exited, exit_records, exit_order,
                    next_pid>>
    BY <1>5 DEF vars, forkVars, execVars, exitVars, processVars
  <2>2. ExitsSame /\ TableSame
    BY <2>1 DEF ExitsSame, TableSame
  <2>3. \A pid \in DOMAIN processes :
            processes'[pid].prewarm.at \in {"PoolReady", "PoolReserved"} =>
               processes[pid].parent_pid = NoId
    BY <2>1 DEF LifeBase, LifeInv, Unattached
  <2> QED
    BY <2>1, <2>2, <2>3, LifeSame DEF LifeBase
<1> QED
  BY <1>1, <1>2, <1>3, <1>4, <1>5 DEF Next, Transport

\* The refinement: the life of processes is the one ProcessLife describes.
THEOREM LifeCorrect == Spec => ImplementsLife
<1>1. Init => LifeBase /\ ObjectInv
  <2> SUFFICES ASSUME Init PROVE LifeBase /\ ObjectInv
    OBVIOUS
  <2>1. IInv /\ ObjectInv /\ TypeInv
    BY InitIInv, InitObjectInv, InitTypes
  <2>2. /\ DOMAIN processes = {} /\ DOMAIN transactions = {} /\ DOMAIN exec_transactions = {}
        /\ DOMAIN clients = {} /\ DOMAIN exited = {} /\ exit_order = <<>> /\ next_pid = 1
    BY DEF Init, EmptyMap
  <2>3. Agreed /\ KeysResolve
    BY <2>2 DEF Agreed, ForkAgreement, KeysResolve
  <2>4. ExecInv
    BY InitExecInv
  <2>5. 1 <= LAST_PID + 1 /\ 0 <= MAX_EXIT_RECORDS
    BY ManagerAssumption DEF Limit
  <2>6. LifeInv
    BY <2>2, <2>5 DEF LifeInv, Family, Unattached, Settled, Alive, Reported, Logged, Prepared
  <2> QED
    BY <2>1, <2>3, <2>4, <2>6 DEF LifeBase
<1>2. Init => Life!LifeInit
  BY DEF Init, EmptyMap, Life!LifeInit, Life!None, LifeTable, LifeVerdict, LifeLog
<1>3. LifeBase /\ ObjectInv /\ [Next]_vars => (LifeBase /\ ObjectInv)'
  <2> SUFFICES ASSUME LifeBase, ObjectInv, [Next]_vars
               PROVE  (LifeBase /\ ObjectInv)'
    OBVIOUS
  <2>1. IInv /\ ExecInv /\ Agreed /\ KeysResolve /\ TypeInv
    BY DEF LifeBase
  <2>2. IInv' /\ ExecInv' /\ Agreed' /\ KeysResolve' /\ ObjectInv' /\ TypeInv'
    BY <2>1, NextStep, ExecInvStep, AgreedStep, KeysStep, ObjectStep, TypesStep
  <2>3. LifeInv'
    BY LifeNextStep
  <2> QED
    BY <2>2, <2>3 DEF LifeBase
<1>4. LifeBase /\ [Next]_vars => [Life!LifeNext]_(Life!lifeVars)
  BY LifeNextStep DEF LifeStep, Life!lifeVars
<1> QED
  BY <1>1, <1>2, <1>3, <1>4, PTL DEF Spec, ImplementsLife, Life!LifeSpec
-----------------------------------------------------------------------------
(* The life of a prewarmed worker *)

\* A worker that the pool looks after was created, one it blamed is dead, and
\* a launched one leaves the slots in the next pass: until then it is among
\* the consumed.
PoolInv ==
    /\ native \in [Peer -> {"unborn", "live", "dead"}]
    /\ slots \subseteq Peer
    /\ blamed \subseteq Peer
    /\ \A p \in slots : native[p] # "unborn"
    /\ \A p \in blamed : native[p] = "dead"
    /\ \A p \in launched :
          /\ p \in slots => p \in consumed
          /\ p \in Peer => native[p] # "unborn"
    /\ LaunchedLeftAlone

\* A request that the pool takes no part in.
LEMMA QuietPool ==
  ASSUME PoolInv, UNCHANGED <<native, slots, consumed, launched, blamed>>
  PROVE  PoolInv'
  BY DEF PoolInv, LaunchedLeftAlone

\* A worker dies by itself.
LEMMA DieInv ==
  ASSUME PoolInv, NEW peer \in Pooled, Die(peer)
  PROVE  PoolInv'
  BY WorkerPoolAssumption DEF PoolInv, Die, Live, LaunchedLeftAlone

\* A launch: the worker is alive, so no pass has blamed it.
LEMMA ActivateInv ==
  ASSUME PoolInv, NEW c, NEW pid, Activate(c, pid)
  PROVE  PoolInv'
  BY DEF PoolInv, Activate, Consumed, Live, LaunchedLeftAlone

\* What a pass blames was in the slots and not consumed: it was not launched.
LEMMA PassInv ==
  ASSUME PoolInv, Inspect, slots' \subseteq Remaining, native' = Killed
  PROVE  PoolInv'
<1>1. /\ Exited \cup Overdue \subseteq slots \ consumed
      /\ \A p \in Exited : native[p] = "dead"
  BY DEF PoolInv, Exited, Overdue, Live
<1>2. /\ \A p \in slots' : p \in slots /\ p \notin consumed /\ p \notin Overdue
      /\ blamed' = blamed \cup Exited \cup Overdue
      /\ UNCHANGED launched
  BY DEF Remaining, Launched, Inspect
<1>3. /\ native' \in [Peer -> {"unborn", "live", "dead"}]
      /\ \A p \in Peer : native'[p] = IF p \in Overdue THEN "dead" ELSE native[p]
  BY DEF PoolInv, Killed
<1> QED
  BY <1>1, <1>2, <1>3 DEF PoolInv, LaunchedLeftAlone

\* A new worker has not been launched.
LEMMA SpawnInv ==
  ASSUME PoolInv, Spawn
  PROVE  PoolInv'
<1>1. CASE slots' = Remaining /\ native' = Killed
  BY <1>1, PassInv DEF Spawn
<1>2. CASE /\ Unborn # {}
           /\ native' = [Killed EXCEPT ![NextWorker] = "live"]
           /\ slots' = Remaining \cup {NextWorker}
  <2>1. NextWorker \in Peer /\ native[NextWorker] = "unborn"
    BY <1>2, WorkerPoolAssumption DEF NextWorker, Unborn
  <2> HIDE DEF NextWorker
  <2>2. /\ Exited \cup Overdue \subseteq slots \ consumed
        /\ \A p \in Exited : native[p] = "dead"
    BY DEF PoolInv, Exited, Overdue, Live
  <2>3. /\ \A p \in slots' \ {NextWorker} : p \in slots /\ p \notin consumed
        /\ NextWorker \in slots'
        /\ blamed' = blamed \cup Exited \cup Overdue
        /\ UNCHANGED launched
    BY <1>2 DEF Remaining, Launched, Inspect, Spawn
  <2>4. NextWorker \notin slots \cup blamed \cup launched
    BY <2>1 DEF PoolInv
  <2>5. /\ native' \in [Peer -> {"unborn", "live", "dead"}]
        /\ \A p \in Peer : native'[p] = IF p = NextWorker THEN "live"
                                        ELSE IF p \in Overdue THEN "dead" ELSE native[p]
    BY <1>2, <2>1 DEF PoolInv, Killed
  <2> QED
    BY <2>1, <2>2, <2>3, <2>4, <2>5 DEF PoolInv, LaunchedLeftAlone
<1> QED
  BY <1>1, <1>2 DEF Spawn

\* Every step of the thread, of the workers and of the launchers.
LEMMA WorkerPoolStep ==
  ASSUME PoolInv, [PoolNext]_allVars
  PROVE  PoolInv'
<1>1. ASSUME NEW p \in Pooled,
             Die(p) \/ Expire(p) \/ WorkerConnects(p) \/ ReportExit(p)
      PROVE  PoolInv'
  BY <1>1, DieInv, QuietPool DEF Expire, WorkerConnects, ReportExit, Notified
<1>2. ASSUME NEW p \in Peer, LauncherConnects(p)
      PROVE  PoolInv'
  BY <1>2, QuietPool DEF LauncherConnects, Notified
<1>3. ASSUME NEW c \in DOMAIN clients,
             WorkerReady(c) \/ Obtain(c) \/ WaitForWorker(c) \/ Hangup(c)
      PROVE  PoolInv'
  BY <1>3, QuietPool DEF WorkerReady, Obtain, WaitForWorker, Hangup, Notified
<1>4. ASSUME NEW c \in DOMAIN clients, NEW pid \in DOMAIN processes,
             Activate(c, pid) \/ GiveBack(c, pid)
      PROVE  PoolInv'
  BY <1>4, ActivateInv, QuietPool DEF GiveBack, Notified
<1>5. CASE Elapse
  BY <1>5, QuietPool DEF Elapse
<1>6. CASE Maintain
  <2>1. CASE GiveUp
    BY <2>1, PassInv DEF GiveUp
  <2>2. CASE Rest \/ Doze
    BY <2>2, PassInv DEF Rest, Doze
  <2> QED
    BY <1>6, <2>1, <2>2, SpawnInv DEF Maintain
<1>7. CASE UNCHANGED allVars
  BY <1>7, QuietPool DEF allVars, poolVars
<1> QED
  BY <1>1, <1>2, <1>3, <1>4, <1>5, <1>6, <1>7 DEF PoolNext

\* For any pool: the thread (maintain) never kills a worker that a launcher
\* activated and never counts its exit as a failed preparation, although a
\* launch can fall between two passes and the worker can be dead before the
\* next one.
THEOREM LaunchesRespected == PoolSpec => []LaunchedLeftAlone
<1>1. PoolInit => PoolInv
  BY DEF PoolInit, PoolInv, LaunchedLeftAlone
<1>2. PoolInv /\ [PoolNext]_allVars => PoolInv'
  BY WorkerPoolStep
<1>3. PoolInv => LaunchedLeftAlone
  BY DEF PoolInv
<1> QED
  BY <1>1, <1>2, <1>3, PTL DEF PoolSpec

\* The thread, the workers and the launchers change the manager only by its own
\* requests, connections, lost connections and deaths.
LEMMA ManagerSteps ==
  ASSUME [PoolNext]_allVars
  PROVE  [Next]_vars
<1>1. ASSUME NEW p \in Pooled,
             Die(p) \/ Expire(p) \/ WorkerConnects(p) \/ ReportExit(p)
      PROVE  [Next]_vars
  <2>1. p \in Peer
    BY WorkerPoolAssumption
  <2>2. CASE Die(p) \/ Expire(p)
    BY <2>2 DEF Die, Expire
  <2>3. CASE WorkerConnects(p)
    BY <2>1, <2>3 DEF WorkerConnects, Next, Connect
  <2>4. CASE ReportExit(p)
    BY <2>1, <2>4 DEF ReportExit, Next, Transport
  <2> QED
    BY <1>1, <2>2, <2>3, <2>4
<1>2. ASSUME NEW p \in Peer, LauncherConnects(p)
      PROVE  [Next]_vars
  BY <1>2 DEF LauncherConnects, Next, Connect
<1>3. ASSUME NEW c \in DOMAIN clients,
             WorkerReady(c) \/ Obtain(c) \/ WaitForWorker(c) \/ Hangup(c)
      PROVE  [Next]_vars
  <2>1. CASE WorkerReady(c)
    BY <2>1 DEF WorkerReady, Next, PoolRequest
  <2>2. CASE Obtain(c)
    BY <2>2 DEF Obtain, Next, PoolRequest
  <2>3. CASE WaitForWorker(c)
    BY <2>3 DEF WaitForWorker
  <2>4. CASE Hangup(c)
    BY <2>4 DEF Hangup, Next, Transport
  <2> QED
    BY <1>3, <2>1, <2>2, <2>3, <2>4
<1>4. ASSUME NEW c \in DOMAIN clients, NEW pid \in DOMAIN processes,
             Activate(c, pid) \/ GiveBack(c, pid)
      PROVE  [Next]_vars
  <2>1. CASE Activate(c, pid)
    BY <2>1 DEF Activate, Next, PoolRequest
  <2>2. CASE GiveBack(c, pid)
    BY <2>2 DEF GiveBack, Next, PoolRequest
  <2> QED
    BY <1>4, <2>1, <2>2
<1>5. CASE Elapse \/ Maintain
  BY <1>5 DEF Elapse, Maintain, GiveUp, Rest, Spawn, Doze, Inspect
<1>6. CASE UNCHANGED allVars
  BY <1>6 DEF allVars
<1> QED
  BY <1>1, <1>2, <1>3, <1>4, <1>5, <1>6 DEF PoolNext

\* Beside the pool the manager behaves as it does by itself, and processes live
\* as ProcessLife says: preparing, launching, killing and replacing workers
\* (maintain and the pool requests) adds no way to end or to inherit a process.
THEOREM PooledLivesCorrect == PoolSpec => Spec /\ ImplementsLife
<1>1. PoolInit => Init
  BY DEF PoolInit
<1>2. [PoolNext]_allVars => [Next]_vars
  BY ManagerSteps
<1>3. PoolSpec => Spec
  BY <1>1, <1>2, PTL DEF PoolSpec, Spec
<1> QED
  BY <1>3, LifeCorrect, PTL
=============================================================================
