------------------------- MODULE StateManagerProofs -------------------------
(***************************************************************************)
(* Proofs about StateManager, for any quotas and any number of native      *)
(* processes, connections and transactions.                                *)
(*                                                                         *)
(*   IInv     a logical process has one native owner and changes it only   *)
(*            by a committed exec                                          *)
(*   ExecInv  an undecided exec is backed by both of its connections,      *)
(*            launching and running stay separate, and a native process    *)
(*            registers once                                               *)
(*   Agreed   a fork and its child agree on the stage of the fork          *)
(*   KeysResolve  replay records and transactions correspond               *)
(*   ObjectInv    the object table is what processes and reservations      *)
(*                refer to, and what two of them have in common is shared  *)
(*   QuotaInv     what is counted stays within its limit                   *)
(*   TypeInv      every table holds well-formed records                    *)
(*                                                                         *)
(* ExecInv, Agreed and KeysResolve are inductive relative to IInv,         *)
(* ObjectInv relative to IInv and Agreed, QuotaInv and TypeInv relative to *)
(* all three.                                                              *)
(***************************************************************************)
EXTENDS StateManager, FiniteSetTheorems, TLAPS
-----------------------------------------------------------------------------
(* Native ownership *)

ProcessFields == {"parent_pid", "peer", "snapshot", "state", "transaction",
                  "request_keys", "exec_request_keys", "prewarm"}

ForkFields == {"parent", "requested_parent", "child", "child_parent",
               "snapshot", "state"}

ExecFields == {"process", "owner", "owner_peer", "target", "candidate",
               "state", "retiring", "candidate_exit"}

Control == {"Controller", "Launcher"}

\* Identifiers in use have been issued and records have their fields.
Shape ==
    /\ next_client \in Nat \ {0}
    /\ next_pid \in Nat \ {0}
    /\ next_transaction \in Nat \ {0}
    /\ \A c \in DOMAIN clients :
          /\ c \in 1..(next_client - 1)
          /\ DOMAIN clients[c] = {"peer", "kind", "pid", "transaction"}
    /\ \A pid \in DOMAIN processes :
          /\ pid \in 1..(next_pid - 1)
          /\ DOMAIN processes[pid] = ProcessFields
    /\ \A id \in DOMAIN transactions :
          /\ id \in 1..(next_transaction - 1)
          /\ DOMAIN transactions[id] = ForkFields
          /\ transactions[id].child \in 1..(next_pid - 1)
    /\ \A id \in DOMAIN exec_transactions :
          /\ id \in 1..(next_transaction - 1)
          /\ DOMAIN exec_transactions[id] = ExecFields
          /\ exec_transactions[id].candidate \in 0..(next_client - 1)
          /\ exec_transactions[id].owner \in 1..(next_client - 1)

\* The pid of a reserved child is free and reserved once.
ForkSlots ==
    /\ \A id \in Prepared : transactions[id].child \notin DOMAIN processes
    /\ \A i, j \in Prepared : transactions[i].child = transactions[j].child => i = j

\* No native process owns two logical processes.
Owners ==
    \A p, q \in DOMAIN processes : processes[p].peer = processes[q].peer => p = q

\* A worker connection belongs to the owner of its process.
Workers ==
    \A c \in DOMAIN clients : clients[c].kind = "Worker" =>
        /\ clients[c].pid \in DOMAIN processes
        /\ processes[clients[c].pid].peer = clients[c].peer

\* Only controllers and launchers have several connections.
Seats ==
    \A c, d \in DOMAIN clients :
        (clients[c].kind \notin Control /\ clients[c].peer = clients[d].peer) => c = d

\* A native process is the replacement of one exec.
Targets ==
    \A i, j \in DOMAIN exec_transactions :
        exec_transactions[i].target = exec_transactions[j].target => i = j

\* The connection that prepared an exec is one of the image it named as owner.
Signers ==
    \A id \in DOMAIN exec_transactions :
        LET t == exec_transactions[id]
        IN  t.owner \in DOMAIN clients => clients[t.owner].peer = t.owner_peer

\* The replacement of an exec that was not revoked owns nothing yet, and its
\* connection, if it has one, is that of a candidate for the same pid.
Candidates ==
    \A id \in DOMAIN exec_transactions :
        LET t == exec_transactions[id]
        IN  t.state # "Aborted" =>
              /\ t.process \in DOMAIN processes
              /\ \A pid \in DOMAIN processes : processes[pid].peer # t.target
              /\ t.candidate \in DOMAIN clients =>
                    /\ clients[t.candidate].kind = "ExecCandidate"
                    /\ clients[t.candidate].peer = t.target
                    /\ clients[t.candidate].pid = t.process

\* Between the commit and the death of the old image the process still
\* belongs to that image, but no connection may act for it.
Retiring ==
    \A id \in DOMAIN exec_transactions :
        LET t == exec_transactions[id]
        IN  t.retiring =>
              /\ t.state = "Committed"
              /\ t.process \in DOMAIN processes
              /\ processes[t.process].peer = t.owner_peer
              /\ \A c \in DOMAIN clients :
                    clients[c].kind = "Worker" => clients[c].pid # t.process

\* One exec at a time retires an image.
OneRetiring ==
    \A i, j \in DOMAIN exec_transactions :
        (/\ exec_transactions[i].retiring /\ exec_transactions[j].retiring
         /\ exec_transactions[i].process = exec_transactions[j].process) => i = j

IInv == /\ Shape
        /\ ForkSlots
        /\ Owners
        /\ Workers
        /\ Seats
        /\ Targets
        /\ Signers
        /\ Candidates
        /\ Retiring
        /\ OneRetiring

\* The steps that leave every surviving process with its owner.
OwnersStay ==
    \A pid \in DOMAIN processes \cap DOMAIN processes' :
        processes'[pid].peer = processes[pid].peer
-----------------------------------------------------------------------------
\* A new manager satisfies the invariant.
LEMMA InitIInv == Init => IInv
  BY DEF Init, IInv, Shape, ForkSlots, Owners, Workers, Seats, Targets,
         Signers, Candidates, Retiring, OneRetiring, EmptyMap, Prepared

\* A step that leaves connections, execs and owners alone and reserves no pid.
LEMMA QuietStep ==
  ASSUME IInv,
         UNCHANGED <<clients, exec_transactions, next_client, next_pid,
                     next_transaction>>,
         DOMAIN processes' = DOMAIN processes,
         \A pid \in DOMAIN processes :
            /\ DOMAIN processes'[pid] = ProcessFields
            /\ processes'[pid].peer = processes[pid].peer,
         DOMAIN transactions' \subseteq DOMAIN transactions,
         \A id \in DOMAIN transactions' :
            /\ DOMAIN transactions'[id] = ForkFields
            /\ transactions'[id].child = transactions[id].child
            /\ transactions'[id].state = "Prepared" =>
                  transactions[id].state = "Prepared"
  PROVE  IInv' /\ OwnersStay
<1> USE DEF IInv
<1>1. Shape'
  BY DEF Shape
<1>2. ForkSlots'
  BY DEF ForkSlots, Prepared
<1>3. Owners' /\ Workers' /\ Seats' /\ Targets' /\ Signers'
  BY DEF Owners, Workers, Seats, Targets, Signers
<1>4. Candidates'
  BY DEF Candidates
<1>5. Retiring' /\ OneRetiring'
  BY DEF Retiring, OneRetiring
<1> QED
  BY <1>1, <1>2, <1>3, <1>4, <1>5 DEF OwnersStay

\* Requests that touch a process without changing its owner, and nothing else
\* that matters here.
LEMMA QuietProcess ==
  ASSUME IInv,
         UNCHANGED <<clients, exec_transactions, next_client, next_pid, forkVars>>,
         DOMAIN processes' = DOMAIN processes,
         \A pid \in DOMAIN processes :
            /\ DOMAIN processes'[pid] = ProcessFields
            /\ processes'[pid].peer = processes[pid].peer
  PROVE  IInv' /\ OwnersStay
  BY QuietStep DEF forkVars, IInv, Shape

\* The requests of the prewarm and pool protocols.
LEMMA PoolStep ==
  ASSUME IInv, NEW c \in DOMAIN clients, PoolRequest(c)
  PROVE  IInv' /\ OwnersStay
<1>1. \A pid \in DOMAIN processes : DOMAIN processes[pid] = ProcessFields
  BY DEF IInv, Shape
<1>2. UNCHANGED <<clients, exec_transactions, next_client, next_pid, forkVars>>
  BY Zenon DEF PoolRequest, MarkPrewarmReady, MarkPoolReady, ReservePoolWorker,
         ActivatePrewarm, ReleasePoolWorker, ActivatePoolWorker, execVars,
         connectVars
<1>3. ASSUME NEW pid, NEW stage, processes' = [processes EXCEPT ![pid].prewarm = stage]
      PROVE  IInv' /\ OwnersStay
  BY <1>1, <1>2, <1>3, QuietProcess DEF ProcessFields
<1>4. ASSUME NEW pid, NEW parent, NEW stage,
             processes' = [processes EXCEPT ![pid].parent_pid = parent,
                                            ![pid].prewarm = stage]
      PROVE  IInv' /\ OwnersStay
  BY <1>1, <1>2, <1>4, QuietProcess DEF ProcessFields
<1>5. CASE MarkPrewarmReady(c)
  BY <1>3, <1>5 DEF MarkPrewarmReady
<1>6. CASE MarkPoolReady(c)
  BY <1>3, <1>6 DEF MarkPoolReady
<1>7. CASE ReservePoolWorker(c)
  BY <1>3, <1>7 DEF ReservePoolWorker
<1>8. ASSUME NEW pid \in DOMAIN processes,
             ActivatePrewarm(c, pid) \/ ReleasePoolWorker(c, pid)
      PROVE  IInv' /\ OwnersStay
  BY <1>3, <1>8 DEF ActivatePrewarm, ReleasePoolWorker
<1>9. ASSUME NEW pid \in DOMAIN processes,
             NEW parent \in DOMAIN processes \cup {NoId}, NEW launch \in Launch,
             ActivatePoolWorker(c, pid, parent, launch)
      PROVE  IInv' /\ OwnersStay
  BY <1>4, <1>9, Zenon DEF ActivatePoolWorker
<1> QED
  BY <1>5, <1>6, <1>7, <1>8, <1>9 DEF PoolRequest

\* The requests on module state.
LEMMA StateStep ==
  ASSUME IInv, NEW c \in DOMAIN clients, StateRequest(c)
  PROVE  IInv' /\ OwnersStay
<1>1. \A pid \in DOMAIN processes : DOMAIN processes[pid] = ProcessFields
  BY DEF IInv, Shape
<1>2. UNCHANGED <<clients, exec_transactions, next_client, next_pid, forkVars>>
  BY Zenon DEF StateRequest, RegisterModule, DefineState, WriteState, execVars,
         connectVars, processVars
<1>3. ASSUME NEW pid, NEW field, NEW new,
             processes' = [processes EXCEPT ![pid].snapshot[field] = new]
      PROVE  IInv' /\ OwnersStay
  BY <1>1, <1>2, <1>3, QuietProcess DEF ProcessFields
<1>4. ASSUME NEW module \in Module, NEW schema \in Schema,
             RegisterModule(c, module, schema)
      PROVE  IInv' /\ OwnersStay
  BY <1>3, <1>4 DEF RegisterModule
<1>5. ASSUME NEW key \in StateKey, NEW value \in Value, WriteState(c, key, value)
      PROVE  IInv' /\ OwnersStay
  BY <1>1, <1>2, <1>5, QuietProcess DEF WriteState, processVars
<1>6. ASSUME NEW key \in StateKey, NEW value \in Value, NEW fork \in ForkPolicy,
             DefineState(c, key, value, fork)
      PROVE  IInv' /\ OwnersStay
  BY <1>3, <1>6 DEF DefineState
<1> QED
  BY <1>4, <1>5, <1>6 DEF StateRequest

\* A controller asks for the end of the session.
LEMMA ShutdownStep ==
  ASSUME IInv, NEW c \in DOMAIN clients, Shutdown(c)
  PROVE  IInv' /\ OwnersStay
<1>1. \A pid \in DOMAIN processes : DOMAIN processes[pid] = ProcessFields
  BY DEF IInv, Shape
<1> QED
  BY <1>1, QuietProcess DEF Shutdown, execVars, connectVars, processVars
-----------------------------------------------------------------------------
\* Aborting forks keeps the records and their reserved pids, and prepares none.
LEMMA AbortedForksFacts ==
  ASSUME IInv, NEW ids
  PROVE  /\ DOMAIN AbortedForks(ids) = DOMAIN transactions
         /\ \A id \in DOMAIN transactions :
               /\ DOMAIN AbortedForks(ids)[id] = ForkFields
               /\ AbortedForks(ids)[id].child = transactions[id].child
               /\ AbortedForks(ids)[id].state = "Prepared" =>
                     transactions[id].state = "Prepared"
<1>1. \A id \in DOMAIN transactions : DOMAIN transactions[id] = ForkFields
  BY DEF IInv, Shape
<1> QED
  BY <1>1 DEF AbortedForks, ForkFields

\* A fork reserves the next pid and the next transaction.
LEMMA ReserveStep ==
  ASSUME IInv, NEW pid, NEW key, NEW parent, Reserve(pid, key, parent)
  PROVE  IInv' /\ OwnersStay
<1> DEFINE tx == transactions'[next_transaction]
<1>1. /\ DOMAIN transactions' = DOMAIN transactions \cup {next_transaction}
      /\ DOMAIN tx = ForkFields /\ tx.child = next_pid /\ tx.state = "Prepared"
      /\ \A id \in DOMAIN transactions : id # next_transaction =>
            transactions'[id] = transactions[id]
  BY DEF Reserve, With, ForkFields
<1>2. /\ next_pid' = next_pid + 1 /\ next_transaction' = next_transaction + 1
      /\ UNCHANGED <<clients, next_client, exec_transactions>>
  BY DEF Reserve, execVars, connectVars
<1>3. /\ DOMAIN processes' = DOMAIN processes
      /\ \A p \in DOMAIN processes : /\ DOMAIN processes'[p] = ProcessFields
                                     /\ processes'[p].peer = processes[p].peer
  <2>1. \A p \in DOMAIN processes : DOMAIN processes[p] = ProcessFields
    BY DEF IInv, Shape
  <2>2. PICK new : processes' = [processes EXCEPT ![pid].request_keys = new]
    BY DEF Reserve
  <2> QED
    BY <2>1, <2>2 DEF ProcessFields
<1> HIDE DEF tx
<1>4. /\ next_transaction \notin DOMAIN transactions
      /\ \A id \in DOMAIN transactions : transactions[id].child # next_pid
      /\ next_pid \notin DOMAIN processes
  BY DEF IInv, Shape
<1>5. Shape'
  BY <1>1, <1>2, <1>3, <1>4 DEF IInv, Shape, tx
<1>6. ForkSlots'
  BY <1>1, <1>3, <1>4 DEF IInv, ForkSlots, Prepared, tx
<1>7. Owners' /\ Workers' /\ Seats' /\ Targets' /\ Signers'
  BY <1>2, <1>3 DEF IInv, Owners, Workers, Seats, Targets, Signers
<1>8. Candidates'
  BY <1>2, <1>3 DEF IInv, Candidates
<1>9. Retiring' /\ OneRetiring'
  BY <1>2, <1>3 DEF IInv, Retiring, OneRetiring
<1> QED
  BY <1>3, <1>5, <1>6, <1>7, <1>8, <1>9 DEF IInv, OwnersStay

\* The requests of the fork protocol.
LEMMA ForkStep ==
  ASSUME IInv, NEW c \in DOMAIN clients, ForkRequest(c)
  PROVE  IInv' /\ OwnersStay
<1>1. /\ \A pid \in DOMAIN processes : DOMAIN processes[pid] = ProcessFields
      /\ \A id \in DOMAIN transactions : DOMAIN transactions[id] = ForkFields
  BY DEF IInv, Shape
<1>2. ASSUME NEW key \in RequestKey, PrepareFork(c, key) \/ PrepareForkWithParent(c, key)
      PROVE  IInv' /\ OwnersStay
  BY <1>2, ReserveStep DEF PrepareFork, PrepareForkWithParent
<1>3. CASE MarkReady(c)
  <2>1. PICK id : transactions' = [transactions EXCEPT ![id].state = "Ready"]
    BY <1>3 DEF MarkReady
  <2>2. UNCHANGED <<clients, exec_transactions, next_client, next_pid,
                    next_transaction, processes>>
    BY <1>3 DEF MarkReady, execVars, connectVars, processVars
  <2> QED
    BY <1>1, <2>1, <2>2, QuietStep DEF ForkFields
<1>4. ASSUME NEW id \in DOMAIN transactions, CommitFork(c, id)
      PROVE  IInv' /\ OwnersStay
  <2>1. /\ UNCHANGED <<clients, exec_transactions, next_client, next_pid,
                       next_transaction>>
        /\ transactions' = [transactions EXCEPT ![id].state = "Committed"]
    BY <1>4 DEF CommitFork, execVars, connectVars
  <2>2. PICK child : processes' = [processes EXCEPT ![child].state = "Active",
                                                    ![child].transaction = NoId]
    BY <1>4 DEF CommitFork
  <2>3. /\ DOMAIN processes' = DOMAIN processes
        /\ \A p \in DOMAIN processes : /\ DOMAIN processes'[p] = ProcessFields
                                       /\ processes'[p].peer = processes[p].peer
    BY <1>1, <2>2 DEF ProcessFields
  <2> QED
    BY <1>1, <2>1, <2>3, QuietStep DEF ForkFields
<1>5. ASSUME NEW id \in DOMAIN transactions, AbortFork(c, id)
      PROVE  IInv' /\ OwnersStay
  <2>1. /\ UNCHANGED <<clients, exec_transactions, next_client, next_pid,
                       next_transaction>>
        /\ transactions' = AbortedForks({id})
    BY <1>5 DEF AbortFork, execVars, connectVars
  <2>2. /\ DOMAIN processes' = DOMAIN processes
        /\ \A p \in DOMAIN processes : /\ DOMAIN processes'[p] = ProcessFields
                                       /\ processes'[p].peer = processes[p].peer
    BY <1>1, <1>5, Zenon DEF AbortFork, Revoked, ProcessFields
  <2> QED
    BY <2>1, <2>2, QuietStep, AbortedForksFacts
<1>6. ASSUME NEW id \in DOMAIN transactions, AcknowledgeFork(c, id)
      PROVE  IInv' /\ OwnersStay
  <2>1. /\ UNCHANGED <<clients, exec_transactions, next_client, next_pid,
                       next_transaction>>
        /\ DOMAIN transactions' \subseteq DOMAIN transactions
        /\ \A i \in DOMAIN transactions' : transactions'[i] = transactions[i]
    BY <1>6 DEF AcknowledgeFork, execVars, connectVars, Without, Restrict
  <2>2. PICK pid, new : processes' = [processes EXCEPT ![pid].request_keys = new]
    BY <1>6 DEF AcknowledgeFork
  <2>3. /\ DOMAIN processes' = DOMAIN processes
        /\ \A p \in DOMAIN processes : /\ DOMAIN processes'[p] = ProcessFields
                                       /\ processes'[p].peer = processes[p].peer
    BY <1>1, <2>2 DEF ProcessFields
  <2> QED
    BY <1>1, <2>1, <2>3, QuietStep
<1> QED
  BY <1>2, <1>3, <1>4, <1>5, <1>6 DEF ForkRequest
-----------------------------------------------------------------------------
\* A registration adds one connection with an identifier no record names.
LEMMA AddClientFacts ==
  ASSUME IInv, NEW peer, NEW kind, NEW pid, NEW id, AddClient(peer, kind, pid, id)
  PROVE  /\ next_client' = next_client + 1
         /\ next_client \notin DOMAIN clients
         /\ DOMAIN clients' = DOMAIN clients \cup {next_client}
         /\ DOMAIN clients'[next_client] = {"peer", "kind", "pid", "transaction"}
         /\ clients'[next_client].peer = peer
         /\ clients'[next_client].kind = kind
         /\ clients'[next_client].pid = pid
         /\ \A c \in DOMAIN clients : clients'[c] = clients[c]
         /\ \A i \in DOMAIN exec_transactions :
               /\ exec_transactions[i].candidate # next_client
               /\ exec_transactions[i].owner # next_client
<1>1. /\ next_client \notin DOMAIN clients
      /\ \A i \in DOMAIN exec_transactions :
            /\ exec_transactions[i].candidate # next_client
            /\ exec_transactions[i].owner # next_client
  BY DEF IInv, Shape
<1> QED
  BY <1>1 DEF AddClient, With

\* A controller, launcher or helper registers.
LEMMA ConnectOtherStep ==
  ASSUME IInv, NEW peer, NEW kind,
         kind \notin {"Worker", "ExecCandidate"},
         ~KnownWorker(peer),
         kind \notin Control => ClientsOf(peer) = {},
         AddClient(peer, kind, NoId, NoId),
         UNCHANGED <<processes, transactions, exec_transactions, next_pid,
                     next_transaction>>
  PROVE  IInv' /\ OwnersStay
<1>0. /\ next_client' = next_client + 1
      /\ next_client \notin DOMAIN clients
      /\ DOMAIN clients' = DOMAIN clients \cup {next_client}
      /\ DOMAIN clients'[next_client] = {"peer", "kind", "pid", "transaction"}
      /\ clients'[next_client].peer = peer
      /\ clients'[next_client].kind = kind
      /\ clients'[next_client].pid = NoId
      /\ \A c \in DOMAIN clients : clients'[c] = clients[c]
      /\ \A i \in DOMAIN exec_transactions :
            /\ exec_transactions[i].candidate # next_client
            /\ exec_transactions[i].owner # next_client
  BY AddClientFacts
<1>1. Shape'
  BY <1>0 DEF IInv, Shape
<1>2. ForkSlots' /\ Owners' /\ Targets' /\ OneRetiring'
  BY DEF IInv, ForkSlots, Prepared, Owners, Targets, OneRetiring
<1>3. Workers' /\ Signers'
  BY <1>0 DEF IInv, Workers, Signers
<1>4. Seats'
  BY <1>0 DEF IInv, Seats, KnownWorker, ClientsOf, Control
<1>5. Candidates'
  BY <1>0 DEF IInv, Candidates
<1>6. Retiring'
  BY <1>0 DEF IInv, Retiring
<1> QED
  BY <1>1, <1>2, <1>3, <1>4, <1>5, <1>6 DEF IInv, OwnersStay

\* Issued identifiers stay issued when a counter advances.
LEMMA IssuedStays ==
  ASSUME NEW m \in Nat, NEW n \in Nat, m <= n
  PROVE  \A i \in 1..(m - 1) : i \in 1..(n - 1)
  OBVIOUS

\* A fresh worker becomes the owner of a new process: a root or a fork's child.
LEMMA ConnectOwnerStep ==
  ASSUME IInv, NEW peer, NEW pid, NEW process,
         FreshWorker(peer), ReservedFor(peer) = {},
         pid \notin DOMAIN processes,
         pid \in 1..(next_pid' - 1),
         next_pid' \in Nat \ {0}, next_pid' >= next_pid,
         DOMAIN process = ProcessFields, process.peer = peer,
         processes' = With(processes, pid, process),
         AddClient(peer, "Worker", pid, NoId),
         UNCHANGED <<exec_transactions, next_transaction>>,
         DOMAIN transactions' = DOMAIN transactions,
         \A id \in DOMAIN transactions :
            /\ DOMAIN transactions'[id] = ForkFields
            /\ transactions'[id].child = transactions[id].child
            /\ transactions'[id].state = "Prepared" =>
                  /\ transactions[id].state = "Prepared"
                  /\ transactions[id].child # pid
  PROVE  IInv' /\ OwnersStay
<1>0. /\ next_client' = next_client + 1
      /\ next_client \notin DOMAIN clients
      /\ DOMAIN clients' = DOMAIN clients \cup {next_client}
      /\ DOMAIN clients'[next_client] = {"peer", "kind", "pid", "transaction"}
      /\ clients'[next_client].peer = peer
      /\ clients'[next_client].kind = "Worker"
      /\ clients'[next_client].pid = pid
      /\ \A c \in DOMAIN clients : clients'[c] = clients[c]
      /\ \A i \in DOMAIN exec_transactions :
            /\ exec_transactions[i].candidate # next_client
            /\ exec_transactions[i].owner # next_client
  BY AddClientFacts
<1>1. /\ DOMAIN processes' = DOMAIN processes \cup {pid}
      /\ processes'[pid] = process
      /\ \A p \in DOMAIN processes : processes'[p] = processes[p]
  BY DEF With
<1>2. /\ \A p \in DOMAIN processes : processes[p].peer # peer
      /\ \A c \in DOMAIN clients : clients[c].peer # peer
      /\ \A id \in DOMAIN exec_transactions : exec_transactions[id].target # peer
  BY DEF FreshWorker, KnownWorker, ProcessesOf, ClientsOf, ReservedFor
<1>3. Shape'
  <2>0. next_pid \in Nat /\ next_pid' \in Nat /\ next_pid <= next_pid'
    BY DEF IInv, Shape
  <2>1. \A i \in 1..(next_pid - 1) : i \in 1..(next_pid' - 1)
    BY <2>0, IssuedStays
  <2>2. /\ next_client' \in Nat \ {0}
        /\ \A i \in 0..(next_client - 1) : i \in 0..(next_client' - 1)
        /\ \A c \in DOMAIN clients' :
              /\ c \in 1..(next_client' - 1)
              /\ DOMAIN clients'[c] = {"peer", "kind", "pid", "transaction"}
    BY <1>0 DEF IInv, Shape
  <2>3. \A p \in DOMAIN processes' : /\ p \in 1..(next_pid' - 1)
                                     /\ DOMAIN processes'[p] = ProcessFields
    BY <1>1, <2>1 DEF IInv, Shape
  <2>4. \A id \in DOMAIN transactions' :
            /\ id \in 1..(next_transaction' - 1)
            /\ DOMAIN transactions'[id] = ForkFields
            /\ transactions'[id].child \in 1..(next_pid' - 1)
    BY <2>1 DEF IInv, Shape
  <2>5. \A id \in DOMAIN exec_transactions :
            exec_transactions[id].owner \in 1..(next_client' - 1)
    BY <1>0 DEF IInv, Shape
  <2> QED
    BY <2>2, <2>3, <2>4, <2>5 DEF IInv, Shape
<1>4. ForkSlots'
  BY <1>1 DEF IInv, ForkSlots, Prepared
<1>5. Owners' /\ Targets' /\ OneRetiring'
  BY <1>1, <1>2 DEF IInv, Owners, Targets, OneRetiring
<1>6. Workers' /\ Seats' /\ Signers'
  BY <1>1, <1>2, <1>0 DEF IInv, Workers, Seats, Signers
<1>7. Candidates'
  BY <1>1, <1>2, <1>0 DEF IInv, Candidates
<1>8. Retiring'
  BY <1>1, <1>0 DEF IInv, Retiring
<1> QED
  BY <1>1, <1>3, <1>4, <1>5, <1>6, <1>7, <1>8 DEF IInv, OwnersStay

\* The replacement an exec waits for registers as its candidate.
LEMMA ConnectExecStep ==
  ASSUME IInv, NEW peer, NEW id \in DOMAIN exec_transactions, ConnectExec(peer, id)
  PROVE  IInv' /\ OwnersStay
<1> DEFINE t == exec_transactions[id]
<1>1. /\ FreshWorker(peer) /\ t.target = peer /\ t.state = "Prepared"
      /\ t.process \in DOMAIN processes
      /\ AddClient(peer, "ExecCandidate", t.process, id)
      /\ UNCHANGED <<processes, transactions, next_pid, next_transaction>>
  BY DEF ConnectExec, ReservedFor, forkVars, processVars
<1>9. /\ next_client' = next_client + 1
      /\ next_client \notin DOMAIN clients
      /\ DOMAIN clients' = DOMAIN clients \cup {next_client}
      /\ DOMAIN clients'[next_client] = {"peer", "kind", "pid", "transaction"}
      /\ clients'[next_client].peer = peer
      /\ clients'[next_client].kind = "ExecCandidate"
      /\ clients'[next_client].pid = t.process
      /\ \A c \in DOMAIN clients : clients'[c] = clients[c]
      /\ \A i \in DOMAIN exec_transactions :
            /\ exec_transactions[i].candidate # next_client
            /\ exec_transactions[i].owner # next_client
  <2> HIDE DEF t
  <2> QED
    BY <1>1, AddClientFacts
<1>2. /\ \A p \in DOMAIN processes : processes[p].peer # peer
      /\ \A c \in DOMAIN clients : clients[c].peer # peer
  BY <1>1 DEF FreshWorker, KnownWorker, ProcessesOf, ClientsOf
<1>3. /\ DOMAIN exec_transactions' = DOMAIN exec_transactions
      /\ \A i \in DOMAIN exec_transactions :
            /\ DOMAIN exec_transactions'[i] = ExecFields
            /\ exec_transactions'[i].process = exec_transactions[i].process
            /\ exec_transactions'[i].owner = exec_transactions[i].owner
            /\ exec_transactions'[i].target = exec_transactions[i].target
            /\ exec_transactions'[i].owner_peer = exec_transactions[i].owner_peer
            /\ exec_transactions'[i].retiring = exec_transactions[i].retiring
            /\ exec_transactions'[i].candidate =
                  IF i = id THEN next_client ELSE exec_transactions[i].candidate
            /\ exec_transactions'[i].state =
                  IF i = id THEN "Adopted" ELSE exec_transactions[i].state
  BY DEF ConnectExec, IInv, Shape, ExecFields
<1>4. Shape'
  BY <1>1, <1>3, <1>9 DEF IInv, Shape
<1>5. ForkSlots' /\ Owners' /\ Targets' /\ OneRetiring'
  BY <1>1, <1>3 DEF IInv, ForkSlots, Prepared, Owners, Targets, OneRetiring
<1>6. Workers' /\ Seats' /\ Signers'
  BY <1>1, <1>2, <1>3, <1>9 DEF IInv, Workers, Seats, Signers
<1>7. Candidates'
  BY <1>1, <1>2, <1>3, <1>9 DEF IInv, Candidates
<1>8. Retiring'
  BY <1>1, <1>3, <1>9 DEF IInv, Retiring
<1> QED
  BY <1>1, <1>4, <1>5, <1>6, <1>7, <1>8 DEF IInv, OwnersStay

\* Every registration.
LEMMA ConnectStep ==
  ASSUME IInv, NEW peer \in Peer, Connect(peer)
  PROVE  IInv' /\ OwnersStay
<1>1. CASE ConnectHelper(peer)
  BY <1>1, ConnectOtherStep DEF ConnectHelper, forkVars, execVars, processVars
<1>2. ASSUME NEW kind \in {"Controller", "Launcher"}, ConnectControl(peer, kind)
      PROVE  IInv' /\ OwnersStay
  BY <1>2, ConnectOtherStep DEF ConnectControl, Control, forkVars, execVars, processVars
<1>3. CASE ConnectRoot(peer)
  <2> DEFINE new == NewProcess(NoId, peer, EmptySnapshot, "Active", NoId)
  <2>1. /\ FreshWorker(peer) /\ ReservedFor(peer) = {}
        /\ processes' = With(processes, next_pid, new)
        /\ next_pid' = next_pid + 1
        /\ AddClient(peer, "Worker", next_pid, NoId)
        /\ UNCHANGED <<exec_transactions, next_transaction, transactions>>
    BY <1>3 DEF ConnectRoot, forkVars, execVars
  <2>2. DOMAIN new = ProcessFields /\ new.peer = peer
    BY DEF NewProcess, ProcessFields
  <2> HIDE DEF new
  <2>3. /\ next_pid \notin DOMAIN processes
        /\ next_pid \in 1..(next_pid' - 1)
        /\ next_pid' \in Nat \ {0} /\ next_pid' >= next_pid
        /\ \A id \in DOMAIN transactions :
              DOMAIN transactions[id] = ForkFields /\ transactions[id].child # next_pid
    BY <2>1 DEF IInv, Shape
  <2> QED
    BY <2>1, <2>2, <2>3, ConnectOwnerStep
<1>4. ASSUME NEW id \in DOMAIN transactions, ConnectFork(peer, id)
      PROVE  IInv' /\ OwnersStay
  <2> DEFINE t == transactions[id]
             new == NewProcess(t.child_parent, peer, CHOOSE s \in t.snapshot : TRUE,
                               "Pending", id)
  <2>1. /\ FreshWorker(peer) /\ ReservedFor(peer) = {}
        /\ t.state = "Prepared"
        /\ processes' = With(processes, t.child, new)
        /\ AddClient(peer, "Worker", t.child, NoId)
        /\ UNCHANGED <<exec_transactions, next_transaction, next_pid>>
        /\ transactions' = [transactions EXCEPT ![id].snapshot = {},
                                                ![id].state = "Adopted"]
    BY <1>4 DEF ConnectFork, execVars
  <2>2. DOMAIN new = ProcessFields /\ new.peer = peer
    BY DEF NewProcess, ProcessFields
  <2> HIDE DEF new
  <2>3. /\ t.child \notin DOMAIN processes
        /\ \A i \in Prepared : i # id => transactions[i].child # t.child
    BY <2>1 DEF IInv, ForkSlots, Prepared
  <2>4. /\ DOMAIN transactions' = DOMAIN transactions
        /\ \A i \in DOMAIN transactions :
              /\ DOMAIN transactions'[i] = ForkFields
              /\ transactions'[i].child = transactions[i].child
              /\ transactions'[i].state =
                    IF i = id THEN "Adopted" ELSE transactions[i].state
    BY <2>1 DEF IInv, Shape, ForkFields
  <2>5. /\ t.child \in 1..(next_pid' - 1)
        /\ next_pid' \in Nat \ {0} /\ next_pid' >= next_pid
    BY <2>1 DEF IInv, Shape
  <2>6. \A i \in DOMAIN transactions :
            transactions'[i].state = "Prepared" =>
               transactions[i].state = "Prepared" /\ transactions[i].child # t.child
    BY <2>3, <2>4 DEF Prepared
  <2> HIDE DEF t
  <2> QED
    BY <2>1, <2>2, <2>3, <2>4, <2>5, <2>6, ConnectOwnerStep
<1>5. ASSUME NEW id \in DOMAIN exec_transactions, ConnectExec(peer, id)
      PROVE  IInv' /\ OwnersStay
  BY <1>5, ConnectExecStep
<1> QED
  BY <1>1, <1>2, <1>3, <1>4, <1>5 DEF Connect
-----------------------------------------------------------------------------
\* A step in which connections may end and execs may be revoked or forgotten,
\* but no process changes hands and no exec is committed.
LEMMA RevokingStep ==
  ASSUME IInv,
         UNCHANGED <<next_client, next_pid, next_transaction>>,
         DOMAIN clients' \subseteq DOMAIN clients,
         \A c \in DOMAIN clients' : clients'[c] = clients[c],
         DOMAIN processes' = DOMAIN processes,
         \A pid \in DOMAIN processes :
            /\ DOMAIN processes'[pid] = ProcessFields
            /\ processes'[pid].peer = processes[pid].peer,
         DOMAIN transactions' \subseteq DOMAIN transactions,
         \A id \in DOMAIN transactions' :
            /\ DOMAIN transactions'[id] = ForkFields
            /\ transactions'[id].child = transactions[id].child
            /\ transactions'[id].state = "Prepared" =>
                  transactions[id].state = "Prepared",
         DOMAIN exec_transactions' \subseteq DOMAIN exec_transactions,
         \A id \in DOMAIN exec_transactions' :
            /\ DOMAIN exec_transactions'[id] = ExecFields
            /\ exec_transactions'[id].process = exec_transactions[id].process
            /\ exec_transactions'[id].owner = exec_transactions[id].owner
            /\ exec_transactions'[id].owner_peer = exec_transactions[id].owner_peer
            /\ exec_transactions'[id].target = exec_transactions[id].target
            /\ exec_transactions'[id].candidate = exec_transactions[id].candidate
            /\ exec_transactions'[id].retiring = exec_transactions[id].retiring
            /\ exec_transactions[id].state = "Aborted" =>
                  exec_transactions'[id].state = "Aborted"
            /\ exec_transactions[id].state = "Committed" =>
                  exec_transactions'[id].state = "Committed"
  PROVE  IInv' /\ OwnersStay
<1>1. Shape'
  BY DEF IInv, Shape
<1>2. ForkSlots'
  BY DEF IInv, ForkSlots, Prepared
<1>3. Owners' /\ Workers' /\ Seats'
  BY DEF IInv, Owners, Workers, Seats
<1>4. Targets' /\ Signers'
  BY DEF IInv, Targets, Signers
<1>5. Candidates'
  BY DEF IInv, Candidates
<1>6. Retiring' /\ OneRetiring'
  BY DEF IInv, Retiring, OneRetiring
<1> QED
  BY <1>1, <1>2, <1>3, <1>4, <1>5, <1>6 DEF IInv, OwnersStay

\* Revoking execs that are not decided changes their state and nothing else.
LEMMA AbortedExecsFacts ==
  ASSUME IInv, NEW ids, ids \subseteq PendingExecs
  PROVE  /\ DOMAIN AbortedExecs(ids) = DOMAIN exec_transactions
         /\ \A id \in DOMAIN exec_transactions :
               LET new == AbortedExecs(ids)[id]
                   old == exec_transactions[id]
               IN  /\ DOMAIN new = ExecFields
                   /\ new.process = old.process
                   /\ new.owner = old.owner
                   /\ new.owner_peer = old.owner_peer
                   /\ new.target = old.target
                   /\ new.candidate = old.candidate
                   /\ new.retiring = old.retiring
                   /\ old.state = "Aborted" => new.state = "Aborted"
                   /\ old.state = "Committed" => new.state = "Committed"
<1>1. \A id \in DOMAIN exec_transactions : DOMAIN exec_transactions[id] = ExecFields
  BY DEF IInv, Shape
<1>2. \A id \in ids : exec_transactions[id].state # "Committed"
  BY DEF PendingExecs, Terminal
<1> QED
  BY <1>1, <1>2 DEF AbortedExecs, ExecFields

\* The caller reserves a replacement nobody knows yet.
LEMMA PrepareExecStep ==
  ASSUME IInv, NEW c \in DOMAIN clients, NEW key, NEW target,
         PrepareExec(c, key, target)
  PROVE  IInv' /\ OwnersStay
<1> DEFINE pid == clients[c].pid
           tx == exec_transactions'[next_transaction]
<1>1. /\ pid \in DOMAIN processes
      /\ processes[pid].peer = clients[c].peer
      /\ \A p \in DOMAIN processes : processes[p].peer # target
      /\ \A id \in DOMAIN exec_transactions : exec_transactions[id].target # target
  BY DEF PrepareExec, ActiveWorker, OwnsProcess, ProcessesOf, ReservedFor
<1>2. /\ DOMAIN exec_transactions' = DOMAIN exec_transactions \cup {next_transaction}
      /\ DOMAIN tx = ExecFields
      /\ tx.process = pid /\ tx.owner = c /\ tx.owner_peer = processes[pid].peer
      /\ tx.target = target /\ tx.candidate = NoId /\ tx.state = "Prepared"
      /\ tx.retiring = FALSE
      /\ \A id \in DOMAIN exec_transactions : id # next_transaction =>
            exec_transactions'[id] = exec_transactions[id]
  BY DEF PrepareExec, With, ExecFields
<1>3. /\ next_transaction' = next_transaction + 1
      /\ UNCHANGED <<clients, next_client, transactions, next_pid>>
  BY DEF PrepareExec, connectVars
<1>4. /\ DOMAIN processes' = DOMAIN processes
      /\ \A p \in DOMAIN processes : /\ DOMAIN processes'[p] = ProcessFields
                                     /\ processes'[p].peer = processes[p].peer
  <2>1. \A p \in DOMAIN processes : DOMAIN processes[p] = ProcessFields
    BY DEF IInv, Shape
  <2>2. PICK new : processes' = [processes EXCEPT ![pid].exec_request_keys = new]
    BY DEF PrepareExec
  <2> QED
    BY <2>1, <2>2 DEF ProcessFields
<1>5. /\ next_transaction \notin DOMAIN exec_transactions
      /\ NoId \notin DOMAIN clients
  BY DEF IInv, Shape, NoId
<1> HIDE DEF pid, tx
<1>6. Shape'
  <2>1. NoId \in 0..(next_client - 1) /\ c \in 1..(next_client - 1)
    BY DEF IInv, Shape, NoId
  <2>2. /\ next_transaction' \in Nat \ {0}
        /\ \A i \in 1..(next_transaction - 1) : i \in 1..(next_transaction' - 1)
        /\ next_transaction \in 1..(next_transaction' - 1)
    BY <1>3 DEF IInv, Shape
  <2>3. \A id \in DOMAIN exec_transactions' :
          /\ id \in 1..(next_transaction' - 1)
          /\ DOMAIN exec_transactions'[id] = ExecFields
          /\ exec_transactions'[id].candidate \in 0..(next_client - 1)
          /\ exec_transactions'[id].owner \in 1..(next_client - 1)
    BY <1>2, <1>5, <2>1, <2>2 DEF IInv, Shape, tx
  <2> QED
    BY <1>3, <1>4, <2>2, <2>3 DEF IInv, Shape
<1>7. ForkSlots' /\ Owners' /\ Workers' /\ Seats'
  BY <1>3, <1>4 DEF IInv, ForkSlots, Prepared, Owners, Workers, Seats
<1>8. Targets' /\ Signers'
  BY <1>1, <1>2, <1>3, <1>5 DEF IInv, Targets, Signers, tx
<1>9. Candidates'
  BY <1>1, <1>2, <1>3, <1>4, <1>5 DEF IInv, Candidates, tx
<1>10. Retiring' /\ OneRetiring'
  BY <1>2, <1>3, <1>4, <1>5 DEF IInv, Retiring, OneRetiring, tx
<1> QED
  BY <1>4, <1>6, <1>7, <1>8, <1>9, <1>10 DEF IInv, OwnersStay

\* The commit silences the old image's connection, the only one of its
\* process, and starts its retirement.
LEMMA CommitExecStep ==
  ASSUME IInv, NEW c \in DOMAIN clients, NEW id \in DOMAIN exec_transactions,
         CommitExec(c, id)
  PROVE  IInv' /\ OwnersStay
<1> DEFINE pid == clients[c].pid
<1>1. /\ clients[c].kind = "Worker"
      /\ pid \in DOMAIN processes
      /\ processes[pid].peer = clients[c].peer
      /\ exec_transactions[id].process = pid
      /\ exec_transactions[id].owner = c
      /\ exec_transactions[id].state = "Ready"
  BY DEF CommitExec, OwnedExec, ActiveWorker, OwnsProcess
<1>2. UNCHANGED <<processes, transactions, next_client, next_pid, next_transaction>>
  BY DEF CommitExec, forkVars, processVars
<1>3. /\ DOMAIN clients' = DOMAIN clients
      /\ \A d \in DOMAIN clients :
            /\ DOMAIN clients'[d] = {"peer", "kind", "pid", "transaction"}
            /\ clients'[d].peer = clients[d].peer
            /\ clients'[d].pid = clients[d].pid
      /\ \A d \in DOMAIN clients : d # c => clients'[d].kind = clients[d].kind
      /\ clients'[c].kind = "Retired"
  BY DEF CommitExec, IInv, Shape
<1>4. /\ DOMAIN exec_transactions' = DOMAIN exec_transactions
      /\ \A i \in DOMAIN exec_transactions :
            /\ DOMAIN exec_transactions'[i] = ExecFields
            /\ exec_transactions'[i].process = exec_transactions[i].process
            /\ exec_transactions'[i].owner = exec_transactions[i].owner
            /\ exec_transactions'[i].owner_peer = exec_transactions[i].owner_peer
            /\ exec_transactions'[i].target = exec_transactions[i].target
            /\ exec_transactions'[i].candidate = exec_transactions[i].candidate
      /\ \A i \in DOMAIN exec_transactions : i # id =>
            exec_transactions'[i] = exec_transactions[i]
      /\ exec_transactions'[id].state = "Committed"
  BY DEF CommitExec, IInv, Shape, ExecFields
<1>5. \A d \in DOMAIN clients :
          (clients[d].kind = "Worker" /\ clients[d].pid = pid) => d = c
  BY <1>1 DEF IInv, Workers, Seats, Control
<1>6. \A i \in DOMAIN exec_transactions :
          exec_transactions[i].retiring => exec_transactions[i].process # pid
  BY <1>1 DEF IInv, Retiring
<1>7. exec_transactions[id].owner_peer = processes[pid].peer
  BY <1>1 DEF IInv, Signers
<1> HIDE DEF pid
<1>8. Shape'
  BY <1>2, <1>3, <1>4 DEF IInv, Shape
<1>9. ForkSlots' /\ Owners'
  BY <1>2 DEF IInv, ForkSlots, Prepared, Owners
<1>15. Targets' /\ Signers'
  BY <1>3, <1>4 DEF IInv, Targets, Signers
<1>10. Workers'
  BY <1>2, <1>3 DEF IInv, Workers
<1>11. Seats'
  BY <1>1, <1>3 DEF IInv, Seats, Control
<1>12. Candidates'
  BY <1>1, <1>2, <1>3, <1>4 DEF IInv, Candidates
<1>13. Retiring'
  <2> SUFFICES ASSUME NEW i \in DOMAIN exec_transactions,
                      exec_transactions'[i].retiring
               PROVE  /\ exec_transactions'[i].state = "Committed"
                      /\ exec_transactions[i].process \in DOMAIN processes
                      /\ processes[exec_transactions[i].process].peer =
                            exec_transactions[i].owner_peer
                      /\ \A d \in DOMAIN clients : clients'[d].kind = "Worker" =>
                            clients[d].pid # exec_transactions[i].process
    BY <1>2, <1>3, <1>4 DEF Retiring
  <2>1. CASE i = id
    BY <1>1, <1>3, <1>4, <1>5, <1>7, <2>1
  <2>2. CASE i # id
    BY <1>3, <1>4, <2>2 DEF IInv, Retiring
  <2> QED
    BY <2>1, <2>2
<1>14. OneRetiring'
  BY <1>1, <1>4, <1>6 DEF IInv, OneRetiring
<1> QED
  BY <1>2, <1>8, <1>9, <1>10, <1>11, <1>12, <1>13, <1>14, <1>15 DEF IInv, OwnersStay

\* The requests of the exec protocol.
LEMMA ExecRequestStep ==
  ASSUME IInv, NEW c \in DOMAIN clients, ExecRequest(c)
  PROVE  IInv' /\ OwnersStay
<1>1. /\ \A pid \in DOMAIN processes : DOMAIN processes[pid] = ProcessFields
      /\ \A id \in DOMAIN transactions : DOMAIN transactions[id] = ForkFields
      /\ \A id \in DOMAIN exec_transactions : DOMAIN exec_transactions[id] = ExecFields
  BY DEF IInv, Shape
<1>2. ASSUME NEW key \in RequestKey, NEW target \in Peer, PrepareExec(c, key, target)
      PROVE  IInv' /\ OwnersStay
  BY <1>2, PrepareExecStep
<1>3. CASE MarkExecReady(c)
  <2>1. UNCHANGED <<clients, processes, transactions, next_client, next_pid,
                    next_transaction>>
    BY <1>3 DEF MarkExecReady, forkVars, connectVars, processVars
  <2>2. PICK id \in DOMAIN exec_transactions :
            /\ exec_transactions[id].state \notin {"Committed", "Aborted"}
            /\ exec_transactions' = [exec_transactions EXCEPT ![id].state = "Ready"]
    BY <1>3 DEF MarkExecReady, Terminal
  <2> QED
    BY <1>1, <2>1, <2>2, RevokingStep DEF ExecFields
<1>4. ASSUME NEW id \in DOMAIN exec_transactions, CommitExec(c, id)
      PROVE  IInv' /\ OwnersStay
  BY <1>4, CommitExecStep
<1>5. ASSUME NEW id \in DOMAIN exec_transactions, AbortExec(c, id)
      PROVE  IInv' /\ OwnersStay
  <2>1. /\ UNCHANGED <<clients, processes, transactions, next_client, next_pid,
                       next_transaction>>
        /\ exec_transactions' = AbortedExecs({id})
        /\ {id} \subseteq PendingExecs
    BY <1>5 DEF AbortExec, forkVars, connectVars, processVars
  <2> QED
    BY <1>1, <2>1, AbortedExecsFacts, RevokingStep
<1>6. ASSUME NEW id \in DOMAIN exec_transactions, AcknowledgeExec(c, id)
      PROVE  IInv' /\ OwnersStay
  <2>1. /\ UNCHANGED <<clients, transactions, next_client, next_pid,
                       next_transaction>>
        /\ DOMAIN exec_transactions' \subseteq DOMAIN exec_transactions
        /\ \A i \in DOMAIN exec_transactions' :
              exec_transactions'[i] = exec_transactions[i]
    BY <1>6 DEF AcknowledgeExec, forkVars, connectVars, Without, Restrict
  <2>2. PICK pid, new : processes' = [processes EXCEPT ![pid].exec_request_keys = new]
    BY <1>6 DEF AcknowledgeExec
  <2>3. /\ DOMAIN processes' = DOMAIN processes
        /\ \A p \in DOMAIN processes : /\ DOMAIN processes'[p] = ProcessFields
                                       /\ processes'[p].peer = processes[p].peer
    BY <1>1, <2>2 DEF ProcessFields
  <2> QED
    BY <1>1, <2>1, <2>3, RevokingStep
<1> QED
  BY <1>2, <1>3, <1>4, <1>5, <1>6 DEF ExecRequest

\* The end of a connection.
LEMMA DisconnectStep ==
  ASSUME IInv, NEW c \in DOMAIN clients, Disconnect(c)
  PROVE  IInv' /\ OwnersStay
<1>1. \A pid \in DOMAIN processes : DOMAIN processes[pid] = ProcessFields
  BY DEF IInv, Shape
<1>2. /\ UNCHANGED <<next_client, next_pid, next_transaction>>
      /\ DOMAIN clients' \subseteq DOMAIN clients
      /\ \A d \in DOMAIN clients' : clients'[d] = clients[d]
  BY DEF Disconnect, Without, Restrict
<1>3. PICK forks, execs :
         /\ execs \subseteq PendingExecs
         /\ transactions' = AbortedForks(forks)
         /\ exec_transactions' = AbortedExecs(execs)
         /\ processes' = [pid \in DOMAIN processes |->
               LET p == [processes[pid] EXCEPT !.prewarm = Released(@, {c})]
               IN  IF pid \in ChildrenOf(forks) THEN Revoked(p) ELSE p]
  BY DEF Disconnect, PendingExecsOf
<1>4. /\ DOMAIN processes' = DOMAIN processes
      /\ \A p \in DOMAIN processes : /\ DOMAIN processes'[p] = ProcessFields
                                     /\ processes'[p].peer = processes[p].peer
  BY <1>1, <1>3, Zenon DEF Revoked, ProcessFields
<1>5. /\ DOMAIN transactions' = DOMAIN transactions
      /\ \A id \in DOMAIN transactions :
            /\ DOMAIN transactions'[id] = ForkFields
            /\ transactions'[id].child = transactions[id].child
            /\ transactions'[id].state = "Prepared" =>
                  transactions[id].state = "Prepared"
  BY <1>3, AbortedForksFacts
<1>6. /\ DOMAIN exec_transactions' = DOMAIN exec_transactions
      /\ \A id \in DOMAIN exec_transactions :
            /\ DOMAIN exec_transactions'[id] = ExecFields
            /\ exec_transactions'[id].process = exec_transactions[id].process
            /\ exec_transactions'[id].owner = exec_transactions[id].owner
            /\ exec_transactions'[id].owner_peer = exec_transactions[id].owner_peer
            /\ exec_transactions'[id].target = exec_transactions[id].target
            /\ exec_transactions'[id].candidate = exec_transactions[id].candidate
            /\ exec_transactions'[id].retiring = exec_transactions[id].retiring
            /\ exec_transactions[id].state = "Aborted" =>
                  exec_transactions'[id].state = "Aborted"
            /\ exec_transactions[id].state = "Committed" =>
                  exec_transactions'[id].state = "Committed"
  BY <1>3, AbortedExecsFacts
<1> QED
  BY <1>2, <1>4, <1>5, <1>6, RevokingStep
-----------------------------------------------------------------------------
\* Who owns a process after the death of `peer`: the replacement if an exec of
\* it is being retired, otherwise the present owner.
LEMMA SuccessorFacts ==
  ASSUME IInv, NEW peer
  PROVE  /\ \A id \in TakenOver(peer) :
               /\ id \in DOMAIN exec_transactions
               /\ exec_transactions[id].retiring
               /\ exec_transactions[id].state = "Committed"
               /\ exec_transactions[id].process \in DOMAIN processes
               /\ processes[exec_transactions[id].process].peer = peer
               /\ exec_transactions[id].owner_peer = peer
               /\ Successor(exec_transactions[id].process, peer) =
                     exec_transactions[id].target
         /\ \A pid : (\A id \in TakenOver(peer) : exec_transactions[id].process # pid)
               => Successor(pid, peer) = processes[pid].peer
<1>1. \A id \in TakenOver(peer) :
         /\ id \in DOMAIN exec_transactions
         /\ exec_transactions[id].retiring
         /\ exec_transactions[id].state = "Committed"
         /\ exec_transactions[id].process \in DOMAIN processes
         /\ processes[exec_transactions[id].process].peer = peer
         /\ exec_transactions[id].owner_peer = peer
  BY DEF IInv, Retiring, TakenOver
<1>2. \A i, j \in TakenOver(peer) : i = j
  BY <1>1 DEF IInv, Owners, OneRetiring
<1>3. ASSUME NEW id \in TakenOver(peer)
      PROVE  Successor(exec_transactions[id].process, peer) = exec_transactions[id].target
  <2>1. Succession(exec_transactions[id].process, peer) = {id}
    BY <1>2 DEF Succession
  <2>2. (CHOOSE i \in {id} : TRUE) = id
    OBVIOUS
  <2> QED
    BY <2>1, <2>2 DEF Successor
<1>4. ASSUME NEW pid, \A id \in TakenOver(peer) : exec_transactions[id].process # pid
      PROVE  Successor(pid, peer) = processes[pid].peer
  BY <1>4 DEF Successor, Succession
<1> QED
  BY <1>1, <1>3, <1>4

\* What the death of `peer` settles: the native processes that are known to be
\* dead after it, the logical processes that end, those whose replacement
\* takes over, and the connections, forks and execs that end with them.
Dying(peer) == {peer} \cup {exec_transactions[id].target : id \in Deferred(peer)}

Ending(peer) == {pid \in DOMAIN processes : Successor(pid, peer) \in Dying(peer)}

Replaced(peer) == {exec_transactions[id].process : id \in TakenOver(peer)}

Promoted(peer) == {exec_transactions[id].candidate : id \in TakenOver(peer)}

Cut(peer) == {c \in DOMAIN clients : clients[c].peer \in Dying(peer)}

ExecsLost(peer) ==
    PendingExecsOf(Ending(peer))
      \cup {id \in PendingExecs : exec_transactions[id].target = peer}

ForksLost(peer) == PendingForksOf(Ending(peer))

Spent(peer) ==
    {id \in DOMAIN transactions :
        \/ transactions[id].parent \in Ending(peer)
        \/ /\ transactions[id].parent \in Replaced(peer)
           /\ Terminal(transactions[id])}

\* The death of a native process settles no counter and no registration.
LEMMA ExitCounters ==
  ASSUME IInv, NEW peer, NEW status, ProcessExited(peer, status)
  PROVE  /\ UNCHANGED <<next_client, next_pid, next_transaction, registered>>
         /\ DOMAIN exited' = DOMAIN exited \cup {peer}
  BY Zenon DEF ProcessExited, With

\* The processes after the death of a native process, field by field.
LEMMA ExitProcesses ==
  ASSUME IInv, NEW peer, NEW status, ProcessExited(peer, status)
  PROVE  /\ DOMAIN processes' = DOMAIN processes \ Ending(peer)
         /\ \A pid \in DOMAIN processes' :
               LET p == processes[pid]
                   q == processes'[pid]
               IN  /\ DOMAIN q = ProcessFields
                   /\ q.peer = Successor(pid, peer)
                   /\ q.prewarm = Released(p.prewarm, Cut(peer))
                   /\ q.state = IF pid \in ChildrenOf(ForksLost(peer))
                                THEN "Aborted" ELSE p.state
                   /\ q.transaction = IF pid \in ChildrenOf(ForksLost(peer))
                                      THEN NoId ELSE p.transaction
                   /\ q.snapshot = p.snapshot
<1>1. DOMAIN processes' = DOMAIN processes \ Ending(peer)
  BY Zenon DEF ProcessExited, Ending, Dying
<1>2. ASSUME NEW pid \in DOMAIN processes'
      PROVE  LET p == processes[pid]
                 q == processes'[pid]
             IN  /\ DOMAIN q = ProcessFields
                 /\ q.peer = Successor(pid, peer)
                 /\ q.prewarm = Released(p.prewarm, Cut(peer))
                 /\ q.state = IF pid \in ChildrenOf(ForksLost(peer))
                              THEN "Aborted" ELSE p.state
                 /\ q.transaction = IF pid \in ChildrenOf(ForksLost(peer))
                                    THEN NoId ELSE p.transaction
                 /\ q.snapshot = p.snapshot
  <2> DEFINE moved(i) ==
               [processes[i] EXCEPT
                   !.peer = Successor(i, peer),
                   !.prewarm = Released(@, Cut(peer)),
                   !.parent_pid = Reparented(@, Ending(peer)),
                   !.request_keys =
                       IF i \notin Replaced(peer) THEN @
                       ELSE Restrict(@, {k \in DOMAIN @ : @[k] \notin Spent(peer)}),
                   !.exec_request_keys = IF i \in Replaced(peer) THEN EmptyMap ELSE @]
  <2>1. processes' = [i \in DOMAIN processes \ Ending(peer) |->
              IF i \in ChildrenOf(ForksLost(peer)) THEN Revoked(moved(i)) ELSE moved(i)]
    BY Zenon DEF ProcessExited, Dying, Ending, Replaced, Cut, ForksLost, Spent
  <2>2. pid \in DOMAIN processes \ Ending(peer)
    BY <2>1, Zenon
  <2>3. DOMAIN processes[pid] = ProcessFields
    BY <2>2 DEF IInv, Shape
  <2>4. /\ DOMAIN moved(pid) = ProcessFields
        /\ moved(pid).peer = Successor(pid, peer)
        /\ moved(pid).prewarm = Released(processes[pid].prewarm, Cut(peer))
        /\ moved(pid).state = processes[pid].state
        /\ moved(pid).transaction = processes[pid].transaction
        /\ moved(pid).snapshot = processes[pid].snapshot
    BY <2>2, <2>3 DEF ProcessFields
  <2>5. processes'[pid] = IF pid \in ChildrenOf(ForksLost(peer))
                          THEN Revoked(moved(pid)) ELSE moved(pid)
    BY <2>1, <2>2, Zenon
  <2> HIDE DEF moved
  <2> QED
    BY <2>2, <2>4, <2>5 DEF Revoked, ProcessFields
<1> QED
  BY <1>1, <1>2

\* The connections that are left, one of them promoted.
LEMMA ExitClients ==
  ASSUME IInv, NEW peer, NEW status, ProcessExited(peer, status)
  PROVE  /\ DOMAIN clients' = DOMAIN clients \ Cut(peer)
         /\ \A c \in DOMAIN clients' :
               /\ DOMAIN clients'[c] = {"peer", "kind", "pid", "transaction"}
               /\ clients'[c].peer = clients[c].peer
               /\ clients'[c].pid = clients[c].pid
               /\ c \in Promoted(peer) => clients'[c].kind = "Worker"
               /\ c \notin Promoted(peer) => clients'[c] = clients[c]
<1>1. clients' = [c \in DOMAIN clients \ Cut(peer) |->
             IF c \in Promoted(peer)
             THEN [clients[c] EXCEPT !.kind = "Worker", !.transaction = NoId]
             ELSE clients[c]]
  BY Zenon DEF ProcessExited, Cut, Promoted, Dying
<1> QED
  BY <1>1, Zenon DEF IInv, Shape

\* The execs that are left; the undecided ones of the dead are revoked.
LEMMA ExitExecs ==
  ASSUME IInv, NEW peer, NEW status, ProcessExited(peer, status)
  PROVE  /\ ExecsLost(peer) \subseteq PendingExecs
         /\ DOMAIN exec_transactions' =
               {i \in DOMAIN exec_transactions :
                    exec_transactions[i].process \notin Ending(peer) \cup Replaced(peer)}
         /\ \A id \in DOMAIN exec_transactions' :
               LET old == exec_transactions[id]
                   new == exec_transactions'[id]
               IN  /\ DOMAIN new = ExecFields
                   /\ new.process = old.process
                   /\ new.owner = old.owner
                   /\ new.owner_peer = old.owner_peer
                   /\ new.target = old.target
                   /\ new.candidate = old.candidate
                   /\ new.retiring = old.retiring
                   /\ new.state = IF id \in ExecsLost(peer) THEN "Aborted" ELSE old.state
                   /\ new.candidate_exit # {} =>
                         \/ old.candidate_exit # {}
                         \/ old.retiring /\ old.target = peer
<1>0. ExecsLost(peer) \subseteq PendingExecs
  BY DEF ExecsLost, PendingExecsOf
<1>1. exec_transactions' =
             [id \in {i \in DOMAIN exec_transactions :
                        exec_transactions[i].process
                            \notin Ending(peer) \cup Replaced(peer)} |->
                [AbortedExecs(ExecsLost(peer))[id] EXCEPT !.candidate_exit =
                     IF exec_transactions[id].retiring
                          /\ exec_transactions[id].target = peer /\ @ = {}
                     THEN {status} ELSE @]]
  BY Zenon DEF ProcessExited, Dying, Ending, Replaced, ExecsLost
<1>2. \A id \in DOMAIN exec_transactions : DOMAIN exec_transactions[id] = ExecFields
  BY DEF IInv, Shape
<1> QED
  BY <1>0, <1>1, <1>2, ZenonT(40) DEF AbortedExecs, ExecFields

\* The forks that are left; the undecided ones of the dead are aborted.
LEMMA ExitForks ==
  ASSUME IInv, NEW peer, NEW status, ProcessExited(peer, status)
  PROVE  /\ DOMAIN transactions' = DOMAIN transactions \ Spent(peer)
         /\ \A id \in DOMAIN transactions' :
               LET old == transactions[id]
                   new == transactions'[id]
               IN  /\ DOMAIN new = ForkFields
                   /\ new.parent = old.parent
                   /\ new.child = old.child
                   /\ new.state = IF id \in ForksLost(peer) THEN "Aborted" ELSE old.state
                   /\ new.snapshot = IF id \in ForksLost(peer) THEN {} ELSE old.snapshot
<1>1. transactions' = [id \in DOMAIN transactions \ Spent(peer) |->
             [AbortedForks(ForksLost(peer))[id] EXCEPT !.child_parent =
                  Reparented(@, Ending(peer))]]
  BY Zenon DEF ProcessExited, Dying, Ending, Replaced, ForksLost, Spent
<1>2. \A id \in DOMAIN transactions : DOMAIN transactions[id] = ForkFields
  BY DEF IInv, Shape
<1> QED
  BY <1>1, <1>2, Zenon DEF AbortedForks, ForkFields

\* The death of a native process.
LEMMA ExitStep ==
  ASSUME IInv, NEW peer, NEW status, ProcessExited(peer, status)
  PROVE  /\ IInv'
         /\ peer \in DOMAIN exited'
         /\ \A pid \in DOMAIN processes \cap DOMAIN processes' :
               processes'[pid].peer # processes[pid].peer =>
                  \E id \in TakenOver(peer) :
                     /\ exec_transactions[id].process = pid
                     /\ exec_transactions[id].target = processes'[pid].peer
<1> DEFINE dying == Dying(peer)
           dead == Ending(peer)
           replaced == Replaced(peer)
           candidates == Promoted(peer)
<1>1. /\ UNCHANGED <<next_client, next_pid, next_transaction>>
      /\ peer \in DOMAIN exited'
  BY ExitCounters
<1>2. /\ DOMAIN processes' = DOMAIN processes \ dead
      /\ \A pid \in DOMAIN processes' :
            /\ DOMAIN processes'[pid] = ProcessFields
            /\ processes'[pid].peer = Successor(pid, peer)
  BY ExitProcesses
<1>3. /\ DOMAIN clients' = {c \in DOMAIN clients : clients[c].peer \notin dying}
      /\ \A c \in DOMAIN clients' :
            /\ DOMAIN clients'[c] = {"peer", "kind", "pid", "transaction"}
            /\ clients'[c].peer = clients[c].peer
            /\ clients'[c].pid = clients[c].pid
            /\ c \in candidates => clients'[c].kind = "Worker"
            /\ c \notin candidates => clients'[c].kind = clients[c].kind
  BY ExitClients DEF Cut
<1>5. /\ DOMAIN exec_transactions' =
            {i \in DOMAIN exec_transactions :
                 exec_transactions[i].process \notin dead \cup replaced}
      /\ \A id \in DOMAIN exec_transactions' :
            /\ DOMAIN exec_transactions'[id] = ExecFields
            /\ exec_transactions'[id].process = exec_transactions[id].process
            /\ exec_transactions'[id].owner = exec_transactions[id].owner
            /\ exec_transactions'[id].owner_peer = exec_transactions[id].owner_peer
            /\ exec_transactions'[id].target = exec_transactions[id].target
            /\ exec_transactions'[id].candidate = exec_transactions[id].candidate
            /\ exec_transactions'[id].retiring = exec_transactions[id].retiring
            /\ exec_transactions[id].state = "Aborted" =>
                  exec_transactions'[id].state = "Aborted"
            /\ exec_transactions[id].state = "Committed" =>
                  exec_transactions'[id].state = "Committed"
  BY ExitExecs DEF PendingExecs, Terminal
<1>6. /\ DOMAIN transactions' \subseteq DOMAIN transactions
      /\ \A id \in DOMAIN transactions' :
            /\ DOMAIN transactions'[id] = ForkFields
            /\ transactions'[id].child = transactions[id].child
            /\ transactions'[id].state = "Prepared" =>
                  transactions[id].state = "Prepared"
  BY ExitForks
<1>7. \A id \in TakenOver(peer) :
         /\ id \in DOMAIN exec_transactions
         /\ exec_transactions[id].retiring
         /\ exec_transactions[id].state = "Committed"
         /\ exec_transactions[id].process \in DOMAIN processes
         /\ processes[exec_transactions[id].process].peer = peer
         /\ exec_transactions[id].process \in replaced
         /\ Successor(exec_transactions[id].process, peer) = exec_transactions[id].target
         /\ \A p \in DOMAIN processes :
               processes[p].peer # exec_transactions[id].target
  BY SuccessorFacts DEF IInv, Candidates, Replaced
<1>8. \A pid : pid \notin replaced => Successor(pid, peer) = processes[pid].peer
  BY SuccessorFacts DEF Replaced
<1>9. \A pid \in replaced : \E id \in TakenOver(peer) : exec_transactions[id].process = pid
  BY DEF Replaced
<1>10. \A pid \in DOMAIN processes : pid \in dead <=> Successor(pid, peer) \in dying
  BY DEF Ending
<1>11. \A c \in candidates : c \in DOMAIN clients =>
          \E id \in TakenOver(peer) :
             /\ exec_transactions[id].candidate = c
             /\ clients[c].kind = "ExecCandidate"
             /\ clients[c].peer = exec_transactions[id].target
             /\ clients[c].pid = exec_transactions[id].process
  BY <1>7 DEF IInv, Candidates, Promoted
<1> HIDE DEF dying, dead, replaced, candidates
<1>12. Shape'
  BY <1>1, <1>2, <1>3, <1>5, <1>6 DEF IInv, Shape
<1>13. ForkSlots'
  BY <1>2, <1>6 DEF IInv, ForkSlots, Prepared
<1>14. Owners'
  <2> SUFFICES ASSUME NEW p \in DOMAIN processes', NEW q \in DOMAIN processes',
                      Successor(p, peer) = Successor(q, peer)
               PROVE  p = q
    BY <1>2 DEF Owners
  <2>1. CASE p \notin replaced /\ q \notin replaced
    BY <1>2, <1>8, <2>1 DEF IInv, Owners
  <2>2. CASE p \in replaced /\ q \notin replaced
    BY <1>2, <1>7, <1>8, <1>9, <2>2
  <2>3. CASE p \notin replaced /\ q \in replaced
    BY <1>2, <1>7, <1>8, <1>9, <2>3
  <2>4. CASE p \in replaced /\ q \in replaced
    <3>1. processes[p].peer = peer /\ processes[q].peer = peer
      BY <1>7, <1>9, <2>4
    <3> QED
      BY <1>2, <3>1 DEF IInv, Owners
  <2> QED
    BY <2>1, <2>2, <2>3, <2>4
<1>15. Workers'
  <2> SUFFICES ASSUME NEW c \in DOMAIN clients', clients'[c].kind = "Worker"
               PROVE  /\ clients[c].pid \in DOMAIN processes'
                      /\ Successor(clients[c].pid, peer) = clients[c].peer
    BY <1>2, <1>3 DEF Workers
  <2>1. c \in DOMAIN clients /\ clients[c].peer \notin dying
    BY <1>3
  <2>2. CASE c \in candidates
    BY <1>2, <1>7, <1>10, <1>11, <2>1, <2>2
  <2>3. CASE c \notin candidates
    <3>1. /\ clients[c].pid \in DOMAIN processes
          /\ processes[clients[c].pid].peer = clients[c].peer
          /\ clients[c].kind = "Worker"
      BY <1>3, <2>1, <2>3 DEF IInv, Workers
    <3>2. clients[c].pid \notin replaced
      BY <1>7, <1>9, <2>1, <3>1 DEF IInv, Retiring
    <3> QED
      BY <1>2, <1>8, <1>10, <2>1, <3>1, <3>2
  <2> QED
    BY <2>2, <2>3
<1>16. Seats'
  <2> SUFFICES ASSUME NEW c \in DOMAIN clients', NEW d \in DOMAIN clients',
                      clients'[c].kind \notin Control, clients[c].peer = clients[d].peer
               PROVE  c = d
    BY <1>3 DEF Seats
  <2>1. clients[c].kind \notin Control
    BY <1>3, <1>11 DEF Control
  <2> QED
    BY <1>3, <2>1 DEF IInv, Seats
<1>17. Targets' /\ Signers'
  BY <1>3, <1>5 DEF IInv, Targets, Signers
<1>18. \A id \in DOMAIN exec_transactions' :
          /\ id \in DOMAIN exec_transactions
          /\ exec_transactions[id].process \notin dead
          /\ exec_transactions[id].process \notin replaced
          /\ \A j \in TakenOver(peer) :
                exec_transactions[j].target # exec_transactions[id].target
  BY <1>5, <1>7 DEF IInv, Targets
<1>19. Candidates'
  <2> SUFFICES ASSUME NEW id \in DOMAIN exec_transactions',
                      exec_transactions'[id].state # "Aborted"
               PROVE  LET t == exec_transactions[id]
                      IN  /\ t.process \in DOMAIN processes'
                          /\ \A pid \in DOMAIN processes' :
                                Successor(pid, peer) # t.target
                          /\ t.candidate \in DOMAIN clients' =>
                                /\ clients'[t.candidate].kind = "ExecCandidate"
                                /\ clients[t.candidate].peer = t.target
                                /\ clients[t.candidate].pid = t.process
    BY <1>2, <1>3, <1>5 DEF Candidates
  <2> DEFINE t == exec_transactions[id]
  <2>1. /\ t.process \in DOMAIN processes
        /\ \A pid \in DOMAIN processes : processes[pid].peer # t.target
        /\ t.candidate \in DOMAIN clients =>
              /\ clients[t.candidate].kind = "ExecCandidate"
              /\ clients[t.candidate].peer = t.target
              /\ clients[t.candidate].pid = t.process
    BY <1>5, <1>18 DEF IInv, Candidates
  <2>2. t.process \in DOMAIN processes'
    BY <1>2, <1>18, <2>1
  <2>3. ASSUME NEW pid \in DOMAIN processes'
        PROVE  Successor(pid, peer) # t.target
    BY <1>2, <1>7, <1>8, <1>9, <1>18, <2>1
  <2>4. t.candidate \in DOMAIN clients' => t.candidate \notin candidates
    BY <1>3, <1>11, <1>18, <2>1
  <2> QED
    BY <1>3, <2>1, <2>2, <2>3, <2>4
<1>20. Retiring'
  <2> SUFFICES ASSUME NEW id \in DOMAIN exec_transactions', exec_transactions[id].retiring
               PROVE  LET t == exec_transactions[id]
                      IN  /\ exec_transactions'[id].state = "Committed"
                          /\ t.process \in DOMAIN processes'
                          /\ Successor(t.process, peer) = t.owner_peer
                          /\ \A c \in DOMAIN clients' :
                                clients'[c].kind = "Worker" => clients[c].pid # t.process
    BY <1>2, <1>3, <1>5 DEF Retiring
  <2> DEFINE t == exec_transactions[id]
  <2>1. /\ t.state = "Committed"
        /\ t.process \in DOMAIN processes
        /\ processes[t.process].peer = t.owner_peer
        /\ \A c \in DOMAIN clients : clients[c].kind = "Worker" => clients[c].pid # t.process
    BY <1>18 DEF IInv, Retiring
  <2>2. /\ exec_transactions'[id].state = "Committed"
        /\ t.process \in DOMAIN processes'
        /\ Successor(t.process, peer) = t.owner_peer
    BY <1>2, <1>5, <1>8, <1>18, <2>1
  <2>3. ASSUME NEW c \in DOMAIN clients', clients'[c].kind = "Worker"
        PROVE  clients[c].pid # t.process
    BY <1>3, <1>7, <1>11, <1>18, <2>1, <2>3
  <2> QED
    BY <2>2, <2>3
<1>21. OneRetiring'
  BY <1>5 DEF IInv, OneRetiring
<1>22. \A pid \in DOMAIN processes \cap DOMAIN processes' :
               processes'[pid].peer # processes[pid].peer =>
                  \E id \in TakenOver(peer) :
                     /\ exec_transactions[id].process = pid
                     /\ exec_transactions[id].target = processes'[pid].peer
  BY <1>2, <1>7, <1>8, <1>9
<1> QED
  BY <1>1, <1>12, <1>13, <1>14, <1>15, <1>16, <1>17, <1>19, <1>20, <1>21, <1>22 DEF IInv
-----------------------------------------------------------------------------
\* Any step: the invariant is kept, and a process that changes hands does so
\* by the death of the image that committed an exec.
LEMMA NextStep ==
  ASSUME IInv, [Next]_vars
  PROVE  /\ IInv'
         /\ OwnersStay \/ \E peer, status : ProcessExited(peer, status)
<1>1. ASSUME NEW peer \in Peer, Connect(peer)
      PROVE  IInv' /\ OwnersStay
  BY <1>1, ConnectStep
<1>2. ASSUME NEW c \in DOMAIN clients,
             \/ ForkRequest(c) \/ ExecRequest(c) \/ StateRequest(c)
             \/ PoolRequest(c) \/ Shutdown(c)
      PROVE  IInv' /\ OwnersStay
  BY <1>2, ForkStep, ExecRequestStep, StateStep, PoolStep, ShutdownStep
<1>3. ASSUME NEW c \in DOMAIN clients, Disconnect(c)
      PROVE  IInv' /\ OwnersStay
  BY <1>3, DisconnectStep
<1>4. ASSUME NEW peer \in Peer, NEW status \in Status, ProcessExited(peer, status)
      PROVE  IInv'
  BY <1>4, ExitStep
<1>5. CASE UNCHANGED vars
  <2>1. UNCHANGED <<clients, exec_transactions, next_client, next_pid, forkVars,
                    processes>>
    BY <1>5 DEF vars, connectVars, execVars, processVars
  <2>2. \A pid \in DOMAIN processes : DOMAIN processes[pid] = ProcessFields
    BY DEF IInv, Shape
  <2> QED
    BY <2>1, <2>2, QuietProcess
<1> QED
  BY <1>1, <1>2, <1>3, <1>4, <1>5 DEF Next, Transport

\* The invariant implies OneOwner.
LEMMA IInvOneOwner == IInv => OneOwner
<1> SUFFICES ASSUME IInv PROVE OneOwner
  OBVIOUS
<1>1. \A c \in DOMAIN clients : clients[c].kind = "Worker" => OwnsProcess(c)
  BY DEF IInv, Workers, OwnsProcess
<1>2. ASSUME NEW c \in DOMAIN clients, NEW d \in DOMAIN clients,
             clients[c].kind = "Worker", clients[d].kind = "Worker",
             clients[c].pid = clients[d].pid
      PROVE  c = d
  BY <1>2 DEF IInv, Workers, Seats, Control
<1>3. ASSUME NEW id \in DOMAIN exec_transactions
      PROVE  LET t == exec_transactions[id]
             IN  /\ t.state # "Aborted" => ProcessesOf(t.target) = {}
                 /\ t.retiring => processes[t.process].peer = t.owner_peer
  BY DEF IInv, Candidates, Retiring, ProcessesOf
<1> QED
  BY <1>1, <1>2, <1>3 DEF OneOwner, IInv, Owners

\* For any number of native processes, connections and transactions and any
\* quotas: a logical process has one native owner, a native process owns one
\* logical process and has one worker connection, and a replacement owns
\* nothing before the image it replaces is dead.
THEOREM OneOwnerCorrect == Spec => []OneOwner
<1>1. Init => IInv
  BY InitIInv
<1>2. IInv /\ [Next]_vars => IInv'
  BY NextStep
<1>3. IInv => OneOwner
  BY IInvOneOwner
<1> QED
  BY <1>1, <1>2, <1>3, PTL DEF Spec

\* A process changes its native owner only by a committed exec, from the image
\* that committed it to the replacement it named, at the death of the former
\* (the retirement loop of process_exited_with_status).
THEOREM OwnershipChangesByExec == Spec => OwnerChangesByExec
<1> DEFINE Handover ==
      \A pid \in DOMAIN processes \cap DOMAIN processes' :
          processes'[pid].peer # processes[pid].peer =>
              /\ processes[pid].peer \in DOMAIN exited'
              /\ \E id \in DOMAIN exec_transactions :
                    LET t == exec_transactions[id]
                    IN  /\ t.process = pid /\ t.state = "Committed"
                        /\ t.owner_peer = processes[pid].peer
                        /\ t.target = processes'[pid].peer
<1>1. Init => IInv
  BY InitIInv
<1>2. IInv /\ [Next]_vars => IInv'
  BY NextStep
<1>3. ASSUME IInv, [Next]_vars
      PROVE  Handover
  <2>1. CASE OwnersStay
    BY <2>1 DEF OwnersStay
  <2>2. ASSUME NEW peer, NEW status, ProcessExited(peer, status)
        PROVE  Handover
    BY <1>3, <2>2, ExitStep, SuccessorFacts
  <2> QED
    BY <1>3, <2>1, <2>2, NextStep
<1>4. IInv /\ [Next]_vars => [Handover]_vars
  BY <1>3
<1> QED
  BY <1>1, <1>2, <1>4, PTL DEF Spec, OwnerChangesByExec
-----------------------------------------------------------------------------
(* Execs and registrations *)

\* Connections that may launch or inspect but own no process.
LaunchKinds == {"Helper", "Controller", "Launcher"}

\* The native process of such a connection never becomes a worker: it is not
\* the replacement of any exec, decided or not.
Roles ==
    \A c \in DOMAIN clients : clients[c].kind \in LaunchKinds =>
        /\ \A pid \in DOMAIN processes : processes[pid].peer # clients[c].peer
        /\ \A d \in DOMAIN clients :
              clients[d].peer = clients[c].peer => clients[d].kind \in LaunchKinds
        /\ \A id \in DOMAIN exec_transactions :
              exec_transactions[id].target # clients[c].peer

\* A worker or a candidate whose death was reported has no connection, until a
\* late Hello opens one.
Gone ==
    \A c \in DOMAIN clients :
        clients[c].kind \notin LaunchKinds => clients[c].peer \notin DOMAIN exited

\* A committed exec waits for the death of the old image, and a recorded early
\* death of a replacement is one that was reported.
Decided ==
    \A id \in DOMAIN exec_transactions :
        LET t == exec_transactions[id]
        IN  /\ t.state = "Committed" => t.retiring
            /\ t.candidate_exit # {} => t.retiring /\ t.target \in DOMAIN exited

\* A process has one live exec.
OneExec ==
    \A i, j \in DOMAIN exec_transactions :
        (/\ exec_transactions[i].process = exec_transactions[j].process
         /\ exec_transactions[i].state # "Aborted"
         /\ exec_transactions[j].state # "Aborted") => i = j

\* The connections that back an undecided exec.
Backed ==
    \A id \in PendingExecs :
        LET t == exec_transactions[id]
        IN  /\ t.owner \in DOMAIN clients
            /\ clients[t.owner].kind = "Worker"
            /\ clients[t.owner].pid = t.process
            /\ t.state = "Prepared" => t.candidate = NoId
            /\ t.state # "Prepared" =>
                  /\ t.candidate \in DOMAIN clients
                  /\ clients[t.candidate] =
                        [peer |-> t.target, kind |-> "ExecCandidate",
                         pid |-> t.process, transaction |-> id]

\* The image a committed exec retires, and a candidate whose exec was revoked,
\* are remembered.
Attached ==
    /\ \A c \in DOMAIN clients : clients[c].kind \in ClientKind
    /\ \A c \in DOMAIN clients :
          clients[c].kind = "Retired" => clients[c].peer \in retired_peers
    /\ \A c \in DOMAIN clients : clients[c].kind = "ExecCandidate" =>
           \/ clients[c].peer \in retired_peers
           \/ LET id == clients[c].transaction
              IN  /\ id \in DOMAIN exec_transactions
                  /\ exec_transactions[id].state # "Aborted"
                  /\ exec_transactions[id].candidate = c
                  /\ exec_transactions[id].target = clients[c].peer

\* What keeps a registered native process, whose death was not reported, from
\* registering again: its retirement, its process, its connection, or the exec
\* that chose it.
Known(peer) ==
    \/ peer \in DOMAIN exited
    \/ peer \in retired_peers
    \/ \E pid \in DOMAIN processes : processes[pid].peer = peer
    \/ \E c \in DOMAIN clients :
          clients[c].peer = peer /\ clients[c].kind \notin LaunchKinds
    \/ \E id \in DOMAIN exec_transactions :
          /\ exec_transactions[id].target = peer
          /\ exec_transactions[id].state = "Committed"

Remembered == \A peer \in DOMAIN registered : Known(peer)

ExecInv == /\ Roles
           /\ Gone
           /\ Decided
           /\ OneExec
           /\ Backed
           /\ Attached
           /\ Remembered
-----------------------------------------------------------------------------
(* Frames *)

\* No process begins, ends or changes hands.
OwnersSame ==
    /\ DOMAIN processes' = DOMAIN processes
    /\ \A pid \in DOMAIN processes : processes'[pid].peer = processes[pid].peer

\* No process changes its part in a fork.
StagesSame ==
    \A pid \in DOMAIN processes :
        /\ processes'[pid].state = processes[pid].state
        /\ processes'[pid].transaction = processes[pid].transaction

\* Nothing the exec protocol depends on changes.
ExecFrame ==
    /\ UNCHANGED <<clients, exec_transactions, retired_peers, exited, registered>>
    /\ OwnersSame

\* The requests of the pool protocol touch the prewarm stage of a process, and
\* activation its parent.
LEMMA PoolFrame ==
  ASSUME IInv, NEW c \in DOMAIN clients, PoolRequest(c)
  PROVE  ExecFrame /\ StagesSame /\ UNCHANGED transactions
<1>1. \A pid \in DOMAIN processes : DOMAIN processes[pid] = ProcessFields
  BY DEF IInv, Shape
<1>2. UNCHANGED <<clients, exec_transactions, retired_peers, exited, registered,
                  transactions>>
  BY Zenon DEF PoolRequest, MarkPrewarmReady, MarkPoolReady, ReservePoolWorker,
         ActivatePrewarm, ReleasePoolWorker, ActivatePoolWorker, execVars,
         connectVars, forkVars, exitVars
<1>3. ASSUME NEW pid, NEW stage, processes' = [processes EXCEPT ![pid].prewarm = stage]
      PROVE  OwnersSame /\ StagesSame
  BY <1>1, <1>3 DEF ProcessFields, OwnersSame, StagesSame
<1>4. ASSUME NEW pid, NEW parent, NEW stage,
             processes' = [processes EXCEPT ![pid].parent_pid = parent,
                                            ![pid].prewarm = stage]
      PROVE  OwnersSame /\ StagesSame
  BY <1>1, <1>4 DEF ProcessFields, OwnersSame, StagesSame
<1>5. OwnersSame /\ StagesSame
  <2>1. CASE MarkPrewarmReady(c)
    BY <1>3, <2>1 DEF MarkPrewarmReady
  <2>2. CASE MarkPoolReady(c)
    BY <1>3, <2>2 DEF MarkPoolReady
  <2>3. CASE ReservePoolWorker(c)
    BY <1>3, <2>3 DEF ReservePoolWorker
  <2>4. ASSUME NEW pid \in DOMAIN processes,
               ActivatePrewarm(c, pid) \/ ReleasePoolWorker(c, pid)
        PROVE  OwnersSame /\ StagesSame
    BY <1>3, <2>4 DEF ActivatePrewarm, ReleasePoolWorker
  <2>5. ASSUME NEW pid \in DOMAIN processes,
               NEW parent \in DOMAIN processes \cup {NoId}, NEW launch \in Launch,
               ActivatePoolWorker(c, pid, parent, launch)
        PROVE  OwnersSame /\ StagesSame
    BY <1>4, <2>5 DEF ActivatePoolWorker
  <2> QED
    BY <2>1, <2>2, <2>3, <2>4, <2>5 DEF PoolRequest
<1> QED
  BY <1>2, <1>5 DEF ExecFrame

\* The requests on module state touch snapshots, shutdown only its flag.
LEMMA StateFrame ==
  ASSUME IInv, NEW c \in DOMAIN clients, StateRequest(c) \/ Shutdown(c)
  PROVE  /\ ExecFrame /\ StagesSame /\ UNCHANGED transactions
         /\ \A pid \in DOMAIN processes :
               processes'[pid].prewarm = processes[pid].prewarm
<1>1. \A pid \in DOMAIN processes : DOMAIN processes[pid] = ProcessFields
  BY DEF IInv, Shape
<1>2. UNCHANGED <<clients, exec_transactions, retired_peers, exited, registered,
                  transactions>>
  BY Zenon DEF StateRequest, RegisterModule, DefineState, WriteState, Shutdown,
         execVars, connectVars, forkVars, exitVars
<1>3. \/ UNCHANGED processes
      \/ \E pid, field, new : processes' = [processes EXCEPT ![pid].snapshot[field] = new]
  <2>1. ASSUME NEW module \in Module, NEW schema \in Schema,
               RegisterModule(c, module, schema)
        PROVE  \E pid, field, new :
                  processes' = [processes EXCEPT ![pid].snapshot[field] = new]
    BY <2>1 DEF RegisterModule
  <2>2. ASSUME NEW key \in StateKey, NEW value \in Value, NEW fork \in ForkPolicy,
               DefineState(c, key, value, fork)
        PROVE  \E pid, field, new :
                  processes' = [processes EXCEPT ![pid].snapshot[field] = new]
    BY <2>2 DEF DefineState
  <2>3. ASSUME NEW key \in StateKey, NEW value \in Value, WriteState(c, key, value)
        PROVE  UNCHANGED processes
    BY <2>3 DEF WriteState, processVars
  <2>4. CASE Shutdown(c)
    BY <2>4 DEF Shutdown, processVars
  <2> QED
    BY <2>1, <2>2, <2>3, <2>4 DEF StateRequest
<1> QED
  BY <1>1, <1>2, <1>3 DEF ExecFrame, OwnersSame, StagesSame, ProcessFields

\* The fork protocol leaves connections, execs and owners alone.
LEMMA ForkFrame ==
  ASSUME IInv, NEW c \in DOMAIN clients, ForkRequest(c)
  PROVE  /\ ExecFrame
         /\ \A pid \in DOMAIN processes :
               processes'[pid].prewarm = processes[pid].prewarm
<1>1. \A pid \in DOMAIN processes : DOMAIN processes[pid] = ProcessFields
  BY DEF IInv, Shape
<1>2. UNCHANGED <<clients, exec_transactions, retired_peers, exited, registered>>
  BY Zenon DEF ForkRequest, PrepareFork, PrepareForkWithParent, Reserve, MarkReady,
         CommitFork, AbortFork, AcknowledgeFork, execVars, connectVars, exitVars
<1> DEFINE Kept == \A pid \in DOMAIN processes :
                      processes'[pid].prewarm = processes[pid].prewarm
<1>3. OwnersSame /\ Kept
  <2>1. ASSUME NEW key \in RequestKey, PrepareFork(c, key) \/ PrepareForkWithParent(c, key)
        PROVE  OwnersSame /\ Kept
    <3>1. PICK pid, new : processes' = [processes EXCEPT ![pid].request_keys = new]
      BY <2>1, Zenon DEF PrepareFork, PrepareForkWithParent, Reserve
    <3> QED
      BY <1>1, <3>1 DEF OwnersSame, ProcessFields
  <2>2. CASE MarkReady(c)
    BY <2>2 DEF MarkReady, processVars, OwnersSame
  <2>3. ASSUME NEW id \in DOMAIN transactions, CommitFork(c, id)
        PROVE  OwnersSame /\ Kept
    <3>1. PICK child : processes' = [processes EXCEPT ![child].state = "Active",
                                                      ![child].transaction = NoId]
      BY <2>3 DEF CommitFork
    <3> QED
      BY <1>1, <3>1 DEF OwnersSame, ProcessFields
  <2>4. ASSUME NEW id \in DOMAIN transactions, AbortFork(c, id)
        PROVE  OwnersSame /\ Kept
    BY <1>1, <2>4, Zenon DEF AbortFork, Revoked, OwnersSame, ProcessFields
  <2>5. ASSUME NEW id \in DOMAIN transactions, AcknowledgeFork(c, id)
        PROVE  OwnersSame /\ Kept
    <3>1. PICK pid, new : processes' = [processes EXCEPT ![pid].request_keys = new]
      BY <2>5 DEF AcknowledgeFork
    <3> QED
      BY <1>1, <3>1 DEF OwnersSame, ProcessFields
  <2> QED
    BY <2>1, <2>2, <2>3, <2>4, <2>5 DEF ForkRequest
<1> QED
  BY <1>2, <1>3 DEF ExecFrame

\* A step inside the frame keeps the invariant of the exec protocol.
LEMMA ExecQuiet ==
  ASSUME ExecInv, ExecFrame
  PROVE  ExecInv'
<1>1. Roles' /\ Gone'
  BY DEF ExecInv, ExecFrame, OwnersSame, Roles, Gone
<1>2. Decided' /\ OneExec'
  BY DEF ExecInv, ExecFrame, Decided, OneExec
<1>3. Backed' /\ Attached'
  BY DEF ExecInv, ExecFrame, OwnersSame, Backed, PendingExecs, Terminal,
         OwnsProcess, Attached
<1>4. Remembered'
  BY DEF ExecInv, ExecFrame, OwnersSame, Remembered, Known
<1> QED
  BY <1>1, <1>2, <1>3, <1>4 DEF ExecInv
-----------------------------------------------------------------------------
(* Registrations and the exec protocol *)

\* A registration leaves every connection there is and adds the next one.
LEMMA AddClientRecord ==
  ASSUME IInv, NEW peer, NEW kind, NEW pid, NEW id, AddClient(peer, kind, pid, id)
  PROVE  /\ next_client \notin DOMAIN clients
         /\ DOMAIN clients' = DOMAIN clients \cup {next_client}
         /\ clients'[next_client].peer = peer
         /\ clients'[next_client].kind = kind
         /\ clients'[next_client].pid = pid
         /\ clients'[next_client].transaction = id
         /\ \A c \in DOMAIN clients : clients'[c] = clients[c]
         /\ \A i \in DOMAIN exec_transactions :
               /\ exec_transactions[i].candidate # next_client
               /\ exec_transactions[i].owner # next_client
         /\ pid = NoId => registered' = registered
         /\ pid # NoId => registered' = With(registered, peer, pid)
<1>1. /\ next_client \notin DOMAIN clients
      /\ \A i \in DOMAIN exec_transactions :
            /\ exec_transactions[i].candidate # next_client
            /\ exec_transactions[i].owner # next_client
  BY DEF IInv, Shape
<1> QED
  BY <1>1 DEF AddClient, With

\* The report of an earlier death counts no more for who registers again.
LEMMA AddClientExits ==
  ASSUME NEW peer, NEW kind, NEW pid, NEW id, AddClient(peer, kind, pid, id)
  PROVE  /\ pid = NoId => exited' = exited
         /\ pid # NoId => exited' = Without(exited, peer)
         /\ pid # NoId => DOMAIN exited' = DOMAIN exited \ {peer}
<1>1. DOMAIN Without(exited, peer) = DOMAIN exited \ {peer}
  BY DEF Without, Restrict
<1> QED
  BY <1>1 DEF AddClient

\* What the guards of a registration exclude.
LEMMA Unknown ==
  ASSUME NEW peer, ~KnownWorker(peer)
  PROVE  /\ peer \notin retired_peers
         /\ \A pid \in DOMAIN processes : processes[pid].peer # peer
         /\ \A c \in DOMAIN clients :
               clients[c].peer = peer => clients[c].kind \in Control
  BY DEF KnownWorker, ProcessesOf, ClientsOf, Control

\* A controller, launcher or helper registers.
LEMMA ConnectOtherExec ==
  ASSUME IInv, ExecInv, NEW peer, NEW kind \in LaunchKinds,
         ~KnownWorker(peer), ReservedFor(peer) = {},
         AddClient(peer, kind, NoId, NoId),
         UNCHANGED <<processes, exec_transactions, retired_peers>>
  PROVE  ExecInv' /\ UNCHANGED registered
<1>1. /\ next_client \notin DOMAIN clients
      /\ DOMAIN clients' = DOMAIN clients \cup {next_client}
      /\ clients'[next_client].peer = peer
      /\ clients'[next_client].kind = kind
      /\ \A c \in DOMAIN clients : clients'[c] = clients[c]
      /\ \A i \in DOMAIN exec_transactions :
            /\ exec_transactions[i].candidate # next_client
            /\ exec_transactions[i].owner # next_client
      /\ registered' = registered
  BY AddClientRecord
<1>8. exited' = exited
  BY AddClientExits
<1>2. /\ \A pid \in DOMAIN processes : processes[pid].peer # peer
      /\ \A c \in DOMAIN clients : clients[c].peer = peer => clients[c].kind \in Control
      /\ \A id \in DOMAIN exec_transactions : exec_transactions[id].target # peer
  BY Unknown DEF ReservedFor
<1>3. Roles' /\ Gone'
  BY <1>1, <1>2, <1>8 DEF ExecInv, Roles, Gone, Control, LaunchKinds
<1>4. Decided' /\ OneExec'
  BY <1>8 DEF ExecInv, Decided, OneExec
<1>5. Backed'
  BY <1>1 DEF ExecInv, Backed, PendingExecs, Terminal, OwnsProcess
<1>6. Attached'
  BY <1>1 DEF ExecInv, Attached, LaunchKinds, ClientKind
<1>7. Remembered'
  BY <1>1, <1>8 DEF ExecInv, Remembered, Known
<1> QED
  BY <1>1, <1>3, <1>4, <1>5, <1>6, <1>7 DEF ExecInv

\* A fresh worker becomes the owner of a new process.
LEMMA ConnectOwnerExec ==
  ASSUME IInv, ExecInv, NEW peer, NEW pid, NEW process,
         FreshWorker(peer), ReservedFor(peer) = {},
         pid \notin DOMAIN processes, pid # NoId, process.peer = peer,
         processes' = With(processes, pid, process),
         AddClient(peer, "Worker", pid, NoId),
         UNCHANGED <<exec_transactions, retired_peers>>
  PROVE  ExecInv' /\ peer \notin DOMAIN registered \ DOMAIN exited
                  /\ registered' = With(registered, peer, pid)
<1>1. /\ next_client \notin DOMAIN clients
      /\ DOMAIN clients' = DOMAIN clients \cup {next_client}
      /\ clients'[next_client].peer = peer
      /\ clients'[next_client].kind = "Worker"
      /\ \A c \in DOMAIN clients : clients'[c] = clients[c]
      /\ \A i \in DOMAIN exec_transactions :
            /\ exec_transactions[i].candidate # next_client
            /\ exec_transactions[i].owner # next_client
      /\ registered' = With(registered, peer, pid)
  BY AddClientRecord
<1>10. DOMAIN exited' = DOMAIN exited \ {peer}
  BY AddClientExits
<1>2. /\ DOMAIN processes' = DOMAIN processes \cup {pid}
      /\ processes'[pid].peer = peer
      /\ \A p \in DOMAIN processes : processes'[p] = processes[p]
  BY DEF With
<1>3. /\ peer \notin retired_peers
      /\ \A p \in DOMAIN processes : processes[p].peer # peer
      /\ \A c \in DOMAIN clients : clients[c].peer # peer
      /\ \A id \in DOMAIN exec_transactions : exec_transactions[id].target # peer
  BY Unknown DEF FreshWorker, ReservedFor, ClientsOf
<1>4. Roles' /\ Gone'
  BY <1>1, <1>2, <1>3, <1>10 DEF ExecInv, Roles, Gone, LaunchKinds
<1>5. Decided' /\ OneExec'
  BY <1>3, <1>10 DEF ExecInv, Decided, OneExec
<1>6. Backed'
  BY <1>1, <1>2 DEF ExecInv, Backed, PendingExecs, Terminal, OwnsProcess
<1>7. Attached'
  BY <1>1 DEF ExecInv, Attached, ClientKind
<1>8. Remembered'
  BY <1>1, <1>2, <1>10 DEF ExecInv, Remembered, Known, With
<1>9. peer \notin DOMAIN registered \ DOMAIN exited
  BY <1>3 DEF ExecInv, Remembered, Known
<1> QED
  BY <1>1, <1>4, <1>5, <1>6, <1>7, <1>8, <1>9 DEF ExecInv

\* The replacement an exec waits for registers as its candidate.
LEMMA ConnectExecExec ==
  ASSUME IInv, ExecInv, NEW peer, NEW id \in DOMAIN exec_transactions,
         ConnectExec(peer, id)
  PROVE  ExecInv' /\ peer \notin DOMAIN registered \ DOMAIN exited
                  /\ registered' = With(registered, peer, exec_transactions[id].process)
<1> DEFINE t == exec_transactions[id]
<1>1. /\ FreshWorker(peer) /\ t.target = peer /\ t.state = "Prepared"
      /\ t.process \in DOMAIN processes
      /\ AddClient(peer, "ExecCandidate", t.process, id)
      /\ UNCHANGED <<processes, retired_peers>>
  BY DEF ConnectExec, ReservedFor, processVars
<1>2. t.process # NoId
  BY <1>1 DEF IInv, Shape, NoId
<1>3. /\ DOMAIN exec_transactions' = DOMAIN exec_transactions
      /\ \A i \in DOMAIN exec_transactions : i # id =>
            exec_transactions'[i] = exec_transactions[i]
      /\ exec_transactions'[id].process = t.process
      /\ exec_transactions'[id].owner = t.owner
      /\ exec_transactions'[id].target = t.target
      /\ exec_transactions'[id].retiring = t.retiring
      /\ exec_transactions'[id].candidate_exit = t.candidate_exit
      /\ exec_transactions'[id].candidate = next_client
      /\ exec_transactions'[id].state = "Adopted"
  BY DEF ConnectExec, IInv, Shape, ExecFields
<1> HIDE DEF t
<1>4. /\ next_client \notin DOMAIN clients
      /\ DOMAIN clients' = DOMAIN clients \cup {next_client}
      /\ clients'[next_client].peer = peer
      /\ clients'[next_client].kind = "ExecCandidate"
      /\ clients'[next_client].pid = t.process
      /\ clients'[next_client].transaction = id
      /\ \A c \in DOMAIN clients : clients'[c] = clients[c]
      /\ \A i \in DOMAIN exec_transactions :
            /\ exec_transactions[i].candidate # next_client
            /\ exec_transactions[i].owner # next_client
  <2>1. AddClient(peer, "ExecCandidate", t.process, id)
    BY <1>1
  <2> QED
    BY <2>1, AddClientRecord
<1>17. registered' = With(registered, peer, t.process)
  BY <1>1, <1>2 DEF AddClient
<1>15. exited' = Without(exited, peer)
  BY <1>1, <1>2 DEF AddClient
<1>16. DOMAIN Without(exited, peer) = DOMAIN exited \ {peer}
  BY DEF Without, Restrict
<1>14. DOMAIN exited' = DOMAIN exited \ {peer}
  BY <1>15, <1>16, Zenon
<1>12. clients'[next_client] = [peer |-> t.target, kind |-> "ExecCandidate",
                                pid |-> t.process, transaction |-> id]
  BY <1>1 DEF AddClient, With
<1>5. /\ peer \notin retired_peers
      /\ \A p \in DOMAIN processes : processes[p].peer # peer
      /\ \A c \in DOMAIN clients : clients[c].peer # peer
  BY <1>1, Unknown DEF FreshWorker, ClientsOf
<1>6. Roles' /\ Gone'
  BY <1>1, <1>3, <1>4, <1>5, <1>14 DEF ExecInv, Roles, Gone, LaunchKinds, t
<1>13. \A i \in DOMAIN exec_transactions :
          exec_transactions[i].candidate_exit # {} => exec_transactions[i].target # peer
  BY <1>1 DEF IInv, Targets, Retiring, ExecInv, Decided, t
<1>7. Decided' /\ OneExec'
  BY <1>1, <1>3, <1>13, <1>14 DEF ExecInv, Decided, OneExec, t
<1>8. Backed'
  <2> SUFFICES ASSUME NEW i \in PendingExecs'
               PROVE  LET u == exec_transactions'[i]
                      IN  /\ u.owner \in DOMAIN clients'
                          /\ clients'[u.owner].kind = "Worker"
                          /\ clients'[u.owner].pid = u.process
                          /\ u.state = "Prepared" => u.candidate = NoId
                          /\ u.state # "Prepared" =>
                               /\ u.candidate \in DOMAIN clients'
                               /\ clients'[u.candidate] =
                                     [peer |-> u.target, kind |-> "ExecCandidate",
                                      pid |-> u.process, transaction |-> i]
    BY Zenon DEF Backed
  <2>1. i \in PendingExecs
    BY <1>1, <1>3 DEF PendingExecs, Terminal, t
  <2>2. CASE i = id
    BY <1>3, <1>4, <1>12, <2>1, <2>2 DEF ExecInv, Backed, t
  <2>3. CASE i # id
    BY <1>3, <1>4, <2>1, <2>3 DEF ExecInv, Backed, PendingExecs
  <2> QED
    BY <2>2, <2>3
<1>9. Attached'
  <2>0. \A c \in DOMAIN clients' :
           /\ clients'[c].kind \in ClientKind
           /\ clients'[c].kind = "Retired" => clients'[c].peer \in retired_peers
    BY <1>4 DEF ExecInv, Attached, ClientKind
  <2> SUFFICES ASSUME NEW c \in DOMAIN clients', clients'[c].kind = "ExecCandidate"
               PROVE  \/ clients'[c].peer \in retired_peers
                      \/ LET i == clients'[c].transaction
                         IN  /\ i \in DOMAIN exec_transactions'
                             /\ exec_transactions'[i].state # "Aborted"
                             /\ exec_transactions'[i].candidate = c
                             /\ exec_transactions'[i].target = clients'[c].peer
    BY <1>1, <2>0 DEF Attached
  <2>1. CASE c = next_client
    BY <1>1, <1>3, <1>4, <2>1
  <2>2. CASE c # next_client
    BY <1>1, <1>3, <1>4, <1>5, <2>2 DEF ExecInv, Attached, t
  <2> QED
    BY <2>1, <2>2
<1>10. Remembered'
  <2> SUFFICES ASSUME NEW q \in DOMAIN registered' PROVE Known(q)'
    BY DEF Remembered
  <2>1. CASE q = peer
    BY <1>4, <2>1 DEF Known, LaunchKinds
  <2>2. CASE q # peer
    <3>1. Known(q)
      BY <1>17, <2>2 DEF ExecInv, Remembered, With
    <3> QED
      BY <1>1, <1>3, <1>4, <1>14, <2>2, <3>1 DEF Known, t
  <2> QED
    BY <2>1, <2>2
<1>11. peer \notin DOMAIN registered \ DOMAIN exited
  BY <1>1, <1>5 DEF ExecInv, Remembered, Known, IInv, Targets, t
<1> QED
  BY <1>17, <1>6, <1>7, <1>8, <1>9, <1>10, <1>11 DEF ExecInv, t

\* The caller reserves a replacement nobody knows yet.
LEMMA PrepareExecExec ==
  ASSUME IInv, ExecInv, NEW c \in DOMAIN clients, NEW key, NEW target,
         PrepareExec(c, key, target)
  PROVE  ExecInv' /\ UNCHANGED registered
<1> DEFINE pid == clients[c].pid
           tx == exec_transactions'[next_transaction]
<1>1. /\ clients[c].kind = "Worker"
      /\ \A id \in PendingExecs : exec_transactions[id].process # pid
      /\ \A d \in DOMAIN clients : clients[d].peer # target
      /\ UNCHANGED <<clients, retired_peers, exited, registered>>
  BY DEF PrepareExec, ActiveWorker, OwnsProcess, ClientsOf, connectVars, exitVars
<1>2. /\ DOMAIN exec_transactions' = DOMAIN exec_transactions \cup {next_transaction}
      /\ tx.process = pid /\ tx.owner = c /\ tx.target = target
      /\ tx.state = "Prepared" /\ tx.candidate_exit = {} /\ tx.candidate = NoId
      /\ \A id \in DOMAIN exec_transactions : id # next_transaction =>
            exec_transactions'[id] = exec_transactions[id]
  BY DEF PrepareExec, With
<1>3. OwnersSame
  <2>1. \A p \in DOMAIN processes : DOMAIN processes[p] = ProcessFields
    BY DEF IInv, Shape
  <2>2. PICK new : processes' = [processes EXCEPT ![pid].exec_request_keys = new]
    BY DEF PrepareExec
  <2> QED
    BY <2>1, <2>2 DEF ProcessFields, OwnersSame
<1>4. next_transaction \notin DOMAIN exec_transactions
  BY DEF IInv, Shape
<1>5. \A id \in DOMAIN exec_transactions :
         exec_transactions[id].state # "Aborted" => exec_transactions[id].process # pid
  BY <1>1 DEF ExecInv, Decided, IInv, Retiring, PendingExecs, Terminal
<1> HIDE DEF pid, tx
<1>6. Roles' /\ Gone'
  BY <1>1, <1>2, <1>3 DEF ExecInv, Roles, Gone, OwnersSame, tx
<1>7. Decided' /\ OneExec'
  BY <1>1, <1>2, <1>4, <1>5 DEF ExecInv, Decided, OneExec, tx
<1>8. Backed'
  BY <1>1, <1>2, <1>4 DEF ExecInv, Backed, PendingExecs, Terminal, tx, pid
<1>9. Attached'
  BY <1>1, <1>2, <1>4 DEF ExecInv, Attached
<1>10. Remembered'
  BY <1>1, <1>2, <1>3, <1>4 DEF ExecInv, Remembered, Known, OwnersSame
<1> QED
  BY <1>1, <1>6, <1>7, <1>8, <1>9, <1>10 DEF ExecInv

\* The candidate reports ready.
LEMMA MarkExecReadyExec ==
  ASSUME IInv, ExecInv, NEW c \in DOMAIN clients, MarkExecReady(c)
  PROVE  ExecInv' /\ UNCHANGED registered
<1> DEFINE id == clients[c].transaction
<1>1. /\ id \in DOMAIN exec_transactions
      /\ id \in PendingExecs
      /\ clients[c].kind = "ExecCandidate"
      /\ exec_transactions[id].candidate = c
      /\ exec_transactions[id].process = clients[c].pid
      /\ exec_transactions' = [exec_transactions EXCEPT ![id].state = "Ready"]
      /\ UNCHANGED <<clients, processes, retired_peers, exited, registered>>
  BY DEF MarkExecReady, PendingExecs, connectVars, processVars, exitVars
<1>2. /\ DOMAIN exec_transactions' = DOMAIN exec_transactions
      /\ \A i \in DOMAIN exec_transactions : i # id =>
            exec_transactions'[i] = exec_transactions[i]
      /\ exec_transactions'[id].process = exec_transactions[id].process
      /\ exec_transactions'[id].owner = exec_transactions[id].owner
      /\ exec_transactions'[id].target = exec_transactions[id].target
      /\ exec_transactions'[id].retiring = exec_transactions[id].retiring
      /\ exec_transactions'[id].candidate_exit = exec_transactions[id].candidate_exit
      /\ exec_transactions'[id].candidate = c
      /\ exec_transactions'[id].state = "Ready"
  BY <1>1 DEF IInv, Shape, ExecFields
<1>3. exec_transactions[id].state \notin {"Committed", "Aborted"}
  BY <1>1 DEF PendingExecs, Terminal
<1>4. exec_transactions[id].state # "Prepared"
  <2>1. c # NoId
    BY DEF IInv, Shape, NoId
  <2> QED
    BY <1>1, <2>1 DEF ExecInv, Backed
<1> HIDE DEF id
<1>6. Roles' /\ Gone'
  BY <1>1, <1>2 DEF ExecInv, Roles, Gone
<1>7. Decided' /\ OneExec'
  BY <1>1, <1>2, <1>3 DEF ExecInv, Decided, OneExec
<1>8. Backed'
  BY <1>1, <1>2, <1>4 DEF ExecInv, Backed, PendingExecs, Terminal
<1>9. Attached'
  BY <1>1, <1>2 DEF ExecInv, Attached
<1>10. Remembered'
  BY <1>1, <1>2, <1>3 DEF ExecInv, Remembered, Known
<1> QED
  BY <1>1, <1>6, <1>7, <1>8, <1>9, <1>10 DEF ExecInv

\* The connections of an undecided exec, field by field.
LEMMA BackedFields ==
  ASSUME ExecInv, NEW id \in PendingExecs
  PROVE  LET t == exec_transactions[id]
         IN  /\ id \in DOMAIN exec_transactions
             /\ t.state \notin {"Committed", "Aborted"}
             /\ t.owner \in DOMAIN clients
             /\ clients[t.owner].kind = "Worker"
             /\ clients[t.owner].pid = t.process
             /\ t.state # "Prepared" =>
                   /\ t.candidate \in DOMAIN clients
                   /\ clients[t.candidate].peer = t.target
                   /\ clients[t.candidate].kind = "ExecCandidate"
                   /\ clients[t.candidate].transaction = id
<1> DEFINE t == exec_transactions[id]
<1>1. /\ id \in DOMAIN exec_transactions
      /\ t.state \notin {"Committed", "Aborted"}
  BY DEF PendingExecs, Terminal
<1>2. /\ t.owner \in DOMAIN clients
      /\ clients[t.owner].kind = "Worker"
      /\ clients[t.owner].pid = t.process
      /\ t.state # "Prepared" =>
            /\ t.candidate \in DOMAIN clients
            /\ clients[t.candidate] = [peer |-> t.target, kind |-> "ExecCandidate",
                                       pid |-> t.process, transaction |-> id]
  BY DEF ExecInv, Backed
<1> HIDE DEF t
<1>3. t.state # "Prepared" =>
         /\ clients[t.candidate].peer = t.target
         /\ clients[t.candidate].kind = "ExecCandidate"
         /\ clients[t.candidate].transaction = id
  BY <1>2
<1> QED
  BY <1>1, <1>2, <1>3 DEF t

\* The commit silences the old image's connection and keeps the candidate's.
LEMMA CommitExecExec ==
  ASSUME IInv, ExecInv, NEW c \in DOMAIN clients, NEW id \in DOMAIN exec_transactions,
         CommitExec(c, id)
  PROVE  ExecInv' /\ UNCHANGED registered
<1> DEFINE t == exec_transactions[id]
<1>1. /\ clients[c].kind = "Worker"
      /\ processes[clients[c].pid].peer = clients[c].peer
      /\ t.process = clients[c].pid
      /\ t.state = "Ready"
      /\ retired_peers' = retired_peers \cup {clients[c].peer}
      /\ UNCHANGED <<processes, exited, registered>>
  BY DEF CommitExec, OwnedExec, ActiveWorker, OwnsProcess, processVars, exitVars
<1>2. /\ DOMAIN clients' = DOMAIN clients
      /\ \A d \in DOMAIN clients : d # c => clients'[d] = clients[d]
      /\ clients'[c].peer = clients[c].peer
      /\ clients'[c].kind = "Retired"
  BY DEF CommitExec, IInv, Shape
<1>3. /\ DOMAIN exec_transactions' = DOMAIN exec_transactions
      /\ \A i \in DOMAIN exec_transactions : i # id =>
            exec_transactions'[i] = exec_transactions[i]
      /\ exec_transactions'[id].process = t.process
      /\ exec_transactions'[id].target = t.target
      /\ exec_transactions'[id].candidate_exit = t.candidate_exit
      /\ exec_transactions'[id].candidate = t.candidate
      /\ exec_transactions'[id].state = "Committed"
      /\ exec_transactions'[id].retiring
  BY DEF CommitExec, IInv, Shape, ExecFields
<1> HIDE DEF t
<1>4. Roles' /\ Gone'
  BY <1>1, <1>2, <1>3 DEF ExecInv, Roles, Gone, LaunchKinds, t
<1>5. Decided' /\ OneExec'
  BY <1>1, <1>3 DEF ExecInv, Decided, OneExec, t
<1>6. Backed'
  <2> SUFFICES ASSUME NEW i \in PendingExecs'
               PROVE  LET u == exec_transactions'[i]
                      IN  /\ u.owner \in DOMAIN clients'
                          /\ clients'[u.owner].kind = "Worker"
                          /\ clients'[u.owner].pid = u.process
                          /\ u.state = "Prepared" => u.candidate = NoId
                          /\ u.state # "Prepared" =>
                               /\ u.candidate \in DOMAIN clients'
                               /\ clients'[u.candidate] =
                                     [peer |-> u.target, kind |-> "ExecCandidate",
                                      pid |-> u.process, transaction |-> i]
    BY Zenon DEF Backed
  <2>1. i # id /\ i \in PendingExecs
    BY <1>3 DEF PendingExecs, Terminal
  <2>2. exec_transactions[i].owner # c
    BY <1>1, <2>1, BackedFields DEF ExecInv, OneExec, t
  <2>3. exec_transactions[i].state # "Prepared" => exec_transactions[i].candidate # c
    BY <1>1, <2>1, BackedFields
  <2> QED
    BY <1>2, <1>3, <2>1, <2>2, <2>3 DEF ExecInv, Backed, PendingExecs
<1>7. Attached'
  BY <1>1, <1>2, <1>3 DEF ExecInv, Attached, ClientKind, t
<1>8. Remembered'
  BY <1>1, <1>2, <1>3 DEF ExecInv, Remembered, Known, LaunchKinds, t
<1> QED
  BY <1>1, <1>4, <1>5, <1>6, <1>7, <1>8 DEF ExecInv

\* Connections end; the undecided execs they back, and perhaps others, are
\* revoked and their candidates remembered.
LEMMA RevokeExec ==
  ASSUME IInv, ExecInv, NEW gone, NEW execs, execs \subseteq PendingExecs,
         DOMAIN clients' = DOMAIN clients \ gone,
         \A c \in DOMAIN clients' : clients'[c] = clients[c],
         OwnersSame,
         exec_transactions' = AbortedExecs(execs),
         retired_peers' = retired_peers \cup RevokedCandidates(execs),
         UNCHANGED <<exited, registered>>,
         \A id \in PendingExecs :
            LET t == exec_transactions[id]
            IN  (t.owner \in gone \/ (t.state # "Prepared" /\ t.candidate \in gone))
                    => id \in execs
  PROVE  ExecInv'
<1>1. /\ DOMAIN exec_transactions' = DOMAIN exec_transactions
      /\ \A id \in DOMAIN exec_transactions : id \notin execs =>
            exec_transactions'[id] = exec_transactions[id]
      /\ \A id \in execs :
            LET new == exec_transactions'[id]
                old == exec_transactions[id]
            IN  /\ new.state = "Aborted"
                /\ new.process = old.process
                /\ new.target = old.target
                /\ new.candidate_exit = old.candidate_exit
                /\ new.candidate = old.candidate
                /\ old.state \notin {"Aborted", "Committed"}
  BY DEF AbortedExecs, IInv, Shape, ExecFields, PendingExecs, Terminal
<1>2. \A id \in execs : exec_transactions[id].candidate # NoId =>
          exec_transactions[id].target \in retired_peers'
  BY DEF RevokedCandidates
<1>3. \A id \in execs : id \in DOMAIN exec_transactions
  BY DEF PendingExecs
<1>4. Roles' /\ Gone'
  <2>1. \A id \in DOMAIN exec_transactions :
           exec_transactions'[id].target = exec_transactions[id].target
    BY <1>1
  <2> QED
    BY <1>1, <2>1 DEF ExecInv, Roles, Gone, OwnersSame
<1>9. \A id \in execs : exec_transactions[id].candidate_exit = {}
  BY DEF PendingExecs, Terminal, IInv, Retiring, ExecInv, Decided
<1>5. Decided' /\ OneExec'
  BY <1>1, <1>3, <1>9 DEF ExecInv, Decided, OneExec
<1>6. Backed'
  <2> SUFFICES ASSUME NEW i \in PendingExecs'
               PROVE  LET u == exec_transactions'[i]
                      IN  /\ u.owner \in DOMAIN clients'
                          /\ clients'[u.owner].kind = "Worker"
                          /\ clients'[u.owner].pid = u.process
                          /\ u.state = "Prepared" => u.candidate = NoId
                          /\ u.state # "Prepared" =>
                               /\ u.candidate \in DOMAIN clients'
                               /\ clients'[u.candidate] =
                                     [peer |-> u.target, kind |-> "ExecCandidate",
                                      pid |-> u.process, transaction |-> i]
    BY DEF Backed
  <2>1. i \notin execs /\ i \in PendingExecs
    BY <1>1, <1>3 DEF PendingExecs, Terminal
  <2> QED
    BY <1>1, <2>1 DEF ExecInv, Backed, PendingExecs
<1>7. Attached'
  <2> SUFFICES ASSUME NEW c \in DOMAIN clients', clients[c].kind = "ExecCandidate",
                      clients[c].peer \notin retired_peers'
               PROVE  LET id == clients[c].transaction
                      IN  /\ id \in DOMAIN exec_transactions'
                          /\ exec_transactions'[id].state # "Aborted"
                          /\ exec_transactions'[id].candidate = c
                          /\ exec_transactions'[id].target = clients[c].peer
    BY DEF ExecInv, Attached
  <2>1. LET id == clients[c].transaction
        IN  /\ id \in DOMAIN exec_transactions
            /\ exec_transactions[id].state # "Aborted"
            /\ exec_transactions[id].candidate = c
            /\ exec_transactions[id].target = clients[c].peer
    BY DEF ExecInv, Attached
  <2>2. c # NoId
    BY DEF IInv, Shape, NoId
  <2> QED
    BY <1>1, <1>2, <2>1, <2>2
<1>8. Remembered'
  <2> SUFFICES ASSUME NEW peer \in DOMAIN registered,
                      peer \notin DOMAIN exited, peer \notin retired_peers',
                      \A pid \in DOMAIN processes : processes[pid].peer # peer,
                      \A c \in DOMAIN clients' :
                         clients[c].peer = peer => clients[c].kind \in LaunchKinds
               PROVE  \E id \in DOMAIN exec_transactions' :
                         /\ exec_transactions'[id].target = peer
                         /\ exec_transactions'[id].state = "Committed"
    BY DEF Remembered, Known, OwnersSame
  <2>1. CASE \E c \in DOMAIN clients :
                clients[c].peer = peer /\ clients[c].kind \notin LaunchKinds
    <3>1. PICK c \in DOMAIN clients :
             clients[c].peer = peer /\ clients[c].kind \notin LaunchKinds
      BY <2>1
    <3>2. c \in gone /\ clients[c].kind = "ExecCandidate" /\ c # NoId
      BY <3>1 DEF IInv, Workers, Shape, ExecInv, Attached, ClientKind, LaunchKinds, NoId
    <3>3. LET id == clients[c].transaction
          IN  /\ id \in DOMAIN exec_transactions
              /\ exec_transactions[id].state # "Aborted"
              /\ exec_transactions[id].candidate = c
              /\ exec_transactions[id].target = clients[c].peer
      BY <3>1, <3>2 DEF ExecInv, Attached
    <3>4. clients[c].transaction \notin PendingExecs
      BY <1>2, <3>1, <3>2, <3>3 DEF ExecInv, Backed
    <3> QED
      BY <1>1, <3>1, <3>3, <3>4 DEF PendingExecs, Terminal
  <2>2. CASE ~\E c \in DOMAIN clients :
                clients[c].peer = peer /\ clients[c].kind \notin LaunchKinds
    <3>1. PICK id \in DOMAIN exec_transactions :
             /\ exec_transactions[id].target = peer
             /\ exec_transactions[id].state = "Committed"
      BY <2>2 DEF ExecInv, Remembered, Known
    <3> QED
      BY <1>1, <3>1
  <2> QED
    BY <2>1, <2>2
<1> QED
  BY <1>4, <1>5, <1>6, <1>7, <1>8 DEF ExecInv

\* The owner gives up its exec.
LEMMA AbortExecExec ==
  ASSUME IInv, ExecInv, NEW c \in DOMAIN clients, NEW id \in DOMAIN exec_transactions,
         AbortExec(c, id)
  PROVE  ExecInv' /\ UNCHANGED registered
<1>1. /\ id \in PendingExecs
      /\ exec_transactions' = AbortedExecs({id})
      /\ retired_peers' = retired_peers \cup RevokedCandidates({id})
      /\ UNCHANGED <<clients, processes, exited, registered>>
  BY DEF AbortExec, connectVars, processVars, exitVars
<1>2. OwnersSame
  BY <1>1 DEF OwnersSame
<1>3. /\ {id} \subseteq PendingExecs
      /\ DOMAIN clients' = DOMAIN clients \ {}
      /\ \A d \in DOMAIN clients' : clients'[d] = clients[d]
      /\ \A i \in PendingExecs :
            LET t == exec_transactions[i]
            IN  (t.owner \in {} \/ (t.state # "Prepared" /\ t.candidate \in {}))
                    => i \in {id}
  BY <1>1
<1> QED
  BY <1>1, <1>2, <1>3, RevokeExec, ZenonT(40)

\* The record of a revoked exec is dropped.
LEMMA AcknowledgeExecExec ==
  ASSUME IInv, ExecInv, NEW c \in DOMAIN clients, NEW id \in DOMAIN exec_transactions,
         AcknowledgeExec(c, id)
  PROVE  ExecInv' /\ UNCHANGED registered
<1>1. /\ exec_transactions[id].state = "Aborted"
      /\ DOMAIN exec_transactions' = DOMAIN exec_transactions \ {id}
      /\ \A i \in DOMAIN exec_transactions' : exec_transactions'[i] = exec_transactions[i]
      /\ UNCHANGED <<clients, retired_peers, exited, registered>>
  BY DEF AcknowledgeExec, Without, Restrict, connectVars, exitVars
<1>2. OwnersSame
  <2>1. \A p \in DOMAIN processes : DOMAIN processes[p] = ProcessFields
    BY DEF IInv, Shape
  <2>2. PICK pid, new : processes' = [processes EXCEPT ![pid].exec_request_keys = new]
    BY DEF AcknowledgeExec
  <2> QED
    BY <2>1, <2>2 DEF ProcessFields, OwnersSame
<1>3. Roles' /\ Gone'
  BY <1>1, <1>2 DEF ExecInv, Roles, Gone, OwnersSame
<1>4. Decided' /\ OneExec'
  BY <1>1 DEF ExecInv, Decided, OneExec
<1>5. Backed'
  BY <1>1 DEF ExecInv, Backed, PendingExecs, Terminal
<1>6. Attached'
  BY <1>1 DEF ExecInv, Attached
<1>7. Remembered'
  BY <1>1, <1>2 DEF ExecInv, Remembered, Known, OwnersSame
<1> QED
  BY <1>1, <1>3, <1>4, <1>5, <1>6, <1>7 DEF ExecInv

\* The end of a connection revokes what it backs.
LEMMA DisconnectExec ==
  ASSUME IInv, ExecInv, NEW c \in DOMAIN clients, Disconnect(c)
  PROVE  ExecInv' /\ UNCHANGED registered
<1> DEFINE owned == IF OwnsProcess(c) THEN {clients[c].pid} ELSE {}
           forks == PendingForksOf(owned)
           execs == PendingExecsOf(owned)
                      \cup {id \in PendingExecs : /\ clients[c].kind = "ExecCandidate"
                                                  /\ clients[c].transaction = id}
<1>1. /\ DOMAIN clients' = DOMAIN clients \ {c}
      /\ \A d \in DOMAIN clients' : clients'[d] = clients[d]
      /\ exec_transactions' = AbortedExecs(execs)
      /\ retired_peers' = retired_peers \cup RevokedCandidates(execs)
      /\ UNCHANGED <<exited, registered>>
  BY DEF Disconnect, Without, Restrict, exitVars
<1>2. OwnersSame
  <2>1. \A p \in DOMAIN processes : DOMAIN processes[p] = ProcessFields
    BY DEF IInv, Shape
  <2>2. processes' = [pid \in DOMAIN processes |->
               LET p == [processes[pid] EXCEPT !.prewarm = Released(@, {c})]
               IN  IF pid \in ChildrenOf(forks) THEN Revoked(p) ELSE p]
    BY DEF Disconnect
  <2> HIDE DEF forks
  <2> QED
    BY <2>1, <2>2, Zenon DEF Revoked, ProcessFields, OwnersSame
<1>3. execs \subseteq PendingExecs
  BY DEF PendingExecsOf
<1>4. ASSUME NEW id \in PendingExecs,
             \/ exec_transactions[id].owner = c
             \/ /\ exec_transactions[id].state # "Prepared"
                /\ exec_transactions[id].candidate = c
      PROVE  id \in execs
  <2>1. CASE exec_transactions[id].owner = c
    BY <2>1, BackedFields DEF IInv, Workers, OwnsProcess, PendingExecsOf
  <2>2. CASE exec_transactions[id].state # "Prepared" /\ exec_transactions[id].candidate = c
    BY <2>2, BackedFields
  <2> QED
    BY <1>4, <2>1, <2>2
<1> HIDE DEF execs
<1>5. \A id \in PendingExecs :
         LET t == exec_transactions[id]
         IN  (t.owner \in {c} \/ (t.state # "Prepared" /\ t.candidate \in {c}))
                 => id \in execs
  BY <1>4
<1> QED
  BY <1>1, <1>2, <1>3, <1>5, RevokeExec

\* The deaths that a report settles have all been reported.
LEMMA DyingReported ==
  ASSUME IInv, ExecInv, NEW peer, NEW status, ProcessExited(peer, status)
  PROVE  \A q \in Dying(peer) : q \in DOMAIN exited'
<1>1. DOMAIN exited' = DOMAIN exited \cup {peer}
  BY ExitCounters
<1> QED
  BY <1>1 DEF Dying, Deferred, TakenOver, ExecInv, Decided

\* A committed exec is forgotten only when its replacement takes over.
LEMMA CommittedKept ==
  ASSUME IInv, ExecInv, NEW peer, NEW id \in DOMAIN exec_transactions,
         exec_transactions[id].state = "Committed",
         exec_transactions[id].process \in Ending(peer) \cup Replaced(peer)
  PROVE  id \in TakenOver(peer)
<1> DEFINE t == exec_transactions[id]
<1>1. /\ t.retiring
      /\ t.process \in DOMAIN processes
      /\ processes[t.process].peer = t.owner_peer
  BY DEF IInv, Retiring, ExecInv, Decided
<1>2. ASSUME t.process \in Replaced(peer)
      PROVE  id \in TakenOver(peer)
  BY <1>2, SuccessorFacts DEF Replaced, ExecInv, OneExec
<1>3. ASSUME t.process \notin Replaced(peer)
      PROVE  id \in TakenOver(peer)
  <2>1. Successor(t.process, peer) = t.owner_peer
    BY <1>1, <1>3, SuccessorFacts DEF Replaced
  <2>2. t.owner_peer \in Dying(peer)
    BY <1>3, <2>1 DEF Ending
  <2>3. \A j \in Deferred(peer) : exec_transactions[j].target # t.owner_peer
    BY <1>1, SuccessorFacts DEF Deferred, IInv, Candidates
  <2> QED
    BY <1>1, <2>2, <2>3 DEF Dying, TakenOver
<1> QED
  BY <1>2, <1>3

\* The candidate that is promoted was attached to the exec that completes.
LEMMA PromotedFacts ==
  ASSUME IInv, NEW peer, NEW c \in DOMAIN clients, c \in Promoted(peer)
  PROVE  \E id \in TakenOver(peer) :
            /\ id \in DOMAIN exec_transactions
            /\ exec_transactions[id].state = "Committed"
            /\ exec_transactions[id].candidate = c
            /\ clients[c].kind = "ExecCandidate"
            /\ clients[c].peer = exec_transactions[id].target
  BY SuccessorFacts DEF Promoted, IInv, Candidates

\* The death of a native process.
LEMMA ExitExec ==
  ASSUME IInv, ExecInv, NEW peer, NEW status, ProcessExited(peer, status)
  PROVE  ExecInv' /\ UNCHANGED registered
<1>1. /\ registered' = registered
      /\ DOMAIN exited' = DOMAIN exited \cup {peer}
      /\ \A q \in Dying(peer) : q \in DOMAIN exited'
      /\ retired_peers' = (retired_peers \cup RevokedCandidates(ExecsLost(peer)))
                             \ Dying(peer)
  <2>1. retired_peers' = (retired_peers \cup RevokedCandidates(ExecsLost(peer)))
                             \ Dying(peer)
    BY Zenon DEF ProcessExited, ExecsLost, Ending, Dying
  <2> QED
    BY <2>1, ExitCounters, DyingReported, Zenon
<1>2. /\ DOMAIN processes' = DOMAIN processes \ Ending(peer)
      /\ \A pid \in DOMAIN processes' : processes'[pid].peer = Successor(pid, peer)
  BY ExitProcesses
<1>3. /\ DOMAIN clients' = {c \in DOMAIN clients : clients[c].peer \notin Dying(peer)}
      /\ \A c \in DOMAIN clients' :
            /\ clients'[c].peer = clients[c].peer
            /\ c \in Promoted(peer) => clients'[c].kind = "Worker"
            /\ c \notin Promoted(peer) => clients'[c] = clients[c]
  BY ExitClients DEF Cut
<1>4. /\ DOMAIN exec_transactions' =
            {i \in DOMAIN exec_transactions :
                 exec_transactions[i].process \notin Ending(peer) \cup Replaced(peer)}
      /\ \A id \in DOMAIN exec_transactions' :
            LET old == exec_transactions[id]
                new == exec_transactions'[id]
            IN  /\ new.process = old.process
                /\ new.owner = old.owner
                /\ new.target = old.target
                /\ new.candidate = old.candidate
                /\ new.retiring = old.retiring
                /\ new.state = IF id \in ExecsLost(peer) THEN "Aborted" ELSE old.state
                /\ new.candidate_exit # {} =>
                      \/ old.candidate_exit # {}
                      \/ old.retiring /\ old.target = peer
  BY ExitExecs
<1>5. \A id \in TakenOver(peer) :
         /\ id \in DOMAIN exec_transactions
         /\ exec_transactions[id].state = "Committed"
         /\ exec_transactions[id].process \in DOMAIN processes
         /\ processes[exec_transactions[id].process].peer = peer
         /\ Successor(exec_transactions[id].process, peer) = exec_transactions[id].target
  BY SuccessorFacts
<1>6. /\ \A pid : pid \notin Replaced(peer) => Successor(pid, peer) = processes[pid].peer
      /\ \A pid \in Replaced(peer) :
            \E id \in TakenOver(peer) : exec_transactions[id].process = pid
  BY SuccessorFacts DEF Replaced
<1>7. \A pid \in DOMAIN processes : pid \in Ending(peer) <=> Successor(pid, peer) \in Dying(peer)
  BY DEF Ending
<1>8. \A c \in DOMAIN clients : c \in Promoted(peer) =>
         \E id \in TakenOver(peer) :
            /\ exec_transactions[id].candidate = c
            /\ clients[c].kind = "ExecCandidate"
            /\ clients[c].peer = exec_transactions[id].target
  BY PromotedFacts
<1>9. \A id \in PendingExecs :
         /\ id \in DOMAIN exec_transactions
         /\ exec_transactions[id].state \notin {"Committed", "Aborted"}
  BY DEF PendingExecs, Terminal
<1>10. /\ ExecsLost(peer) \subseteq PendingExecs
       /\ \A id \in PendingExecs :
             (\/ exec_transactions[id].process \in Ending(peer)
              \/ exec_transactions[id].target = peer) => id \in ExecsLost(peer)
  BY DEF ExecsLost, PendingExecsOf
<1>11. \A q \in Dying(peer) : q = peer \/ \E j \in TakenOver(peer) : exec_transactions[j].target = q
  BY DEF Dying, Deferred
<1>12. Roles'
  <2> SUFFICES ASSUME NEW c \in DOMAIN clients', clients'[c].kind \in LaunchKinds
               PROVE  /\ \A pid \in DOMAIN processes' :
                            processes'[pid].peer # clients[c].peer
                      /\ \A d \in DOMAIN clients' :
                            clients'[d].peer = clients[c].peer =>
                               clients'[d].kind \in LaunchKinds
                      /\ \A id \in DOMAIN exec_transactions' :
                            exec_transactions'[id].target # clients[c].peer
    BY <1>3 DEF Roles
  <2>1. clients[c].kind \in LaunchKinds
    BY <1>3 DEF LaunchKinds
  <2>2. /\ \A pid \in DOMAIN processes : processes[pid].peer # clients[c].peer
        /\ \A d \in DOMAIN clients :
              clients[d].peer = clients[c].peer => clients[d].kind \in LaunchKinds
        /\ \A id \in DOMAIN exec_transactions :
              exec_transactions[id].target # clients[c].peer
    BY <1>3, <2>1 DEF ExecInv, Roles
  <2>3. \A pid \in DOMAIN processes' : processes'[pid].peer # clients[c].peer
    BY <1>2, <1>5, <1>6, <2>2
  <2>4. \A d \in DOMAIN clients' :
           clients'[d].peer = clients[c].peer => clients'[d].kind \in LaunchKinds
    BY <1>3, <1>8, <2>2 DEF LaunchKinds
  <2> QED
    BY <1>4, <2>2, <2>3, <2>4
<1>13. Gone'
  BY <1>1, <1>3, <1>8 DEF ExecInv, Gone, Dying, LaunchKinds
<1>14. Decided'
  BY <1>1, <1>4 DEF ExecInv, Decided
<1>15. OneExec'
  BY <1>4, <1>9, <1>10 DEF ExecInv, OneExec
<1>16. Backed'
  <2> SUFFICES ASSUME NEW i \in PendingExecs'
               PROVE  LET u == exec_transactions'[i]
                      IN  /\ u.owner \in DOMAIN clients'
                          /\ clients'[u.owner].kind = "Worker"
                          /\ clients'[u.owner].pid = u.process
                          /\ u.state = "Prepared" => u.candidate = NoId
                          /\ u.state # "Prepared" =>
                               /\ u.candidate \in DOMAIN clients'
                               /\ clients'[u.candidate] =
                                     [peer |-> u.target, kind |-> "ExecCandidate",
                                      pid |-> u.process, transaction |-> i]
    BY Zenon DEF Backed
  <2> DEFINE t == exec_transactions[i]
  <2>1. /\ i \in DOMAIN exec_transactions'
        /\ i \notin ExecsLost(peer)
        /\ i \in PendingExecs
        /\ t.process \notin Ending(peer) /\ t.process \notin Replaced(peer)
    BY <1>4 DEF PendingExecs, Terminal
  <2>2. /\ t.owner \in DOMAIN clients
        /\ clients[t.owner].kind = "Worker"
        /\ clients[t.owner].pid = t.process
        /\ t.state # "Prepared" =>
              /\ t.candidate \in DOMAIN clients
              /\ clients[t.candidate].peer = t.target
    BY <2>1, BackedFields
  <2>3. t.owner \in DOMAIN clients' /\ clients'[t.owner] = clients[t.owner]
    <3>1. t.process \in DOMAIN processes /\ processes[t.process].peer = clients[t.owner].peer
      BY <2>2 DEF IInv, Workers
    <3> QED
      BY <1>3, <1>6, <1>7, <1>8, <2>1, <2>2, <3>1
  <2>4. \A j \in TakenOver(peer) : exec_transactions[j].target # t.target
    BY <1>5, <1>9, <2>1 DEF IInv, Targets
  <2>5. t.state # "Prepared" =>
           /\ t.candidate \in DOMAIN clients'
           /\ clients'[t.candidate] = clients[t.candidate]
    <3>1. t.target # peer
      BY <1>10, <2>1
    <3>2. t.target \notin Dying(peer)
      BY <1>11, <2>4, <3>1
    <3>3. t.state # "Prepared" => t.candidate \notin Promoted(peer)
      BY <1>8, <2>2, <2>4
    <3> QED
      BY <1>3, <2>2, <3>2, <3>3
  <2>6. /\ t.state = "Prepared" => t.candidate = NoId
        /\ t.state # "Prepared" =>
              clients[t.candidate] = [peer |-> t.target, kind |-> "ExecCandidate",
                                      pid |-> t.process, transaction |-> i]
    BY <2>1 DEF ExecInv, Backed
  <2> QED
    BY <1>4, <2>1, <2>2, <2>3, <2>5, <2>6
<1>17. Attached'
  <2>1. ASSUME NEW c \in DOMAIN clients'
        PROVE  /\ clients'[c].kind \in ClientKind
               /\ clients'[c].kind = "Retired" => clients'[c].peer \in retired_peers'
    BY <1>1, <1>3 DEF ExecInv, Attached, ClientKind
  <2> SUFFICES ASSUME NEW c \in DOMAIN clients', clients'[c].kind = "ExecCandidate",
                      clients'[c].peer \notin retired_peers'
               PROVE  LET id == clients'[c].transaction
                      IN  /\ id \in DOMAIN exec_transactions'
                          /\ exec_transactions'[id].state # "Aborted"
                          /\ exec_transactions'[id].candidate = c
                          /\ exec_transactions'[id].target = clients'[c].peer
    BY <2>1 DEF Attached
  <2> DEFINE id == clients[c].transaction
  <2>2. /\ c \in DOMAIN clients /\ clients[c].peer \notin Dying(peer)
        /\ c \notin Promoted(peer)
        /\ clients'[c] = clients[c]
        /\ c # NoId
    BY <1>3 DEF IInv, Shape, NoId
  <2>3. /\ id \in DOMAIN exec_transactions
        /\ exec_transactions[id].state # "Aborted"
        /\ exec_transactions[id].candidate = c
        /\ exec_transactions[id].target = clients[c].peer
    BY <1>1, <2>2 DEF ExecInv, Attached
  <2>4. id \notin ExecsLost(peer)
    BY <1>1, <2>2, <2>3 DEF RevokedCandidates
  <2>5. id \notin TakenOver(peer)
    BY <2>2, <2>3 DEF Promoted
  <2>6. exec_transactions[id].process \notin Ending(peer) \cup Replaced(peer)
    <3>1. CASE id \in PendingExecs
      <4>1. exec_transactions[id].process \notin Ending(peer)
        BY <1>10, <2>4, <3>1
      <4>2. exec_transactions[id].process \notin Replaced(peer)
        BY <1>5, <1>6, <2>3, <2>5 DEF ExecInv, OneExec
      <4> QED
        BY <4>1, <4>2
    <3>2. CASE id \notin PendingExecs
      <4>1. exec_transactions[id].state = "Committed"
        BY <2>3, <3>2 DEF PendingExecs, Terminal
      <4> QED
        BY <2>3, <2>5, <4>1, CommittedKept
    <3> QED
      BY <3>1, <3>2
  <2> QED
    BY <1>4, <2>2, <2>3, <2>4, <2>6
<1>18. Remembered'
  <2> SUFFICES ASSUME NEW q \in DOMAIN registered, q \notin DOMAIN exited'
               PROVE  Known(q)'
    BY <1>1 DEF Remembered, Known
  <2>1. q \notin Dying(peer) /\ q # peer /\ Known(q)
    BY <1>1 DEF ExecInv, Remembered
  <2>2. CASE q \in retired_peers
    BY <1>1, <2>1, <2>2 DEF Known
  <2>3. ASSUME NEW pid \in DOMAIN processes, processes[pid].peer = q
        PROVE  Known(q)'
    <3>1. pid \notin Replaced(peer)
      BY <1>5, <1>6, <2>1, <2>3
    <3>2. pid \in DOMAIN processes' /\ processes'[pid].peer = q
      BY <1>2, <1>6, <1>7, <2>1, <2>3, <3>1
    <3> QED
      BY <3>2 DEF Known
  <2>4. ASSUME NEW c \in DOMAIN clients, clients[c].peer = q,
               clients[c].kind \notin LaunchKinds
        PROVE  Known(q)'
    <3>1. /\ c \in DOMAIN clients' /\ clients'[c].peer = q
          /\ clients'[c].kind \notin LaunchKinds
      BY <1>3, <2>1, <2>4 DEF LaunchKinds
    <3> QED
      BY <3>1 DEF Known
  <2>5. ASSUME NEW id \in DOMAIN exec_transactions,
               exec_transactions[id].target = q,
               exec_transactions[id].state = "Committed"
        PROVE  Known(q)'
    <3>1. CASE id \in DOMAIN exec_transactions'
      BY <1>4, <1>9, <1>10, <2>5, <3>1 DEF Known
    <3>2. CASE id \notin DOMAIN exec_transactions'
      <4>1. id \in TakenOver(peer)
        BY <1>4, <2>5, <3>2, CommittedKept
      <4>2. /\ exec_transactions[id].process \in DOMAIN processes'
            /\ processes'[exec_transactions[id].process].peer = q
        BY <1>2, <1>5, <1>7, <2>1, <2>5, <4>1
      <4> QED
        BY <4>2 DEF Known
    <3> QED
      BY <3>1, <3>2
  <2> QED
    BY <1>1, <2>1, <2>2, <2>3, <2>4, <2>5 DEF Known
<1> QED
  BY <1>1, <1>12, <1>13, <1>14, <1>15, <1>16, <1>17, <1>18 DEF ExecInv

\* No registration is changed before the death of its native process is
\* reported.
RegistrationsStay ==
    \A peer \in DOMAIN registered \ DOMAIN exited :
        registered'[peer] = registered[peer]

\* Every registration.
LEMMA ConnectInv ==
  ASSUME IInv, ExecInv, NEW peer \in Peer, Connect(peer)
  PROVE  ExecInv' /\ RegistrationsStay
<1>1. CASE ConnectHelper(peer)
  BY <1>1, ConnectOtherExec DEF ConnectHelper, LaunchKinds, RegistrationsStay,
     execVars, exitVars, processVars
<1>2. ASSUME NEW kind \in {"Controller", "Launcher"}, ConnectControl(peer, kind)
      PROVE  ExecInv' /\ RegistrationsStay
  BY <1>2, ConnectOtherExec DEF ConnectControl, LaunchKinds, RegistrationsStay,
     execVars, exitVars, processVars
<1>3. ASSUME NEW pid, peer \notin DOMAIN registered \ DOMAIN exited,
             registered' = With(registered, peer, pid)
      PROVE  RegistrationsStay
  BY <1>3 DEF RegistrationsStay, With
<1>4. CASE ConnectRoot(peer)
  <2> DEFINE new == NewProcess(NoId, peer, EmptySnapshot, "Active", NoId)
  <2>1. /\ FreshWorker(peer) /\ ReservedFor(peer) = {}
        /\ processes' = With(processes, next_pid, new)
        /\ AddClient(peer, "Worker", next_pid, NoId)
        /\ UNCHANGED <<exec_transactions, retired_peers>>
    BY <1>4 DEF ConnectRoot, execVars
  <2>2. new.peer = peer
    BY DEF NewProcess
  <2> HIDE DEF new
  <2>3. next_pid \notin DOMAIN processes /\ next_pid # NoId
    BY DEF IInv, Shape, NoId
  <2> QED
    BY <1>3, <2>1, <2>2, <2>3, ConnectOwnerExec
<1>5. ASSUME NEW id \in DOMAIN transactions, ConnectFork(peer, id)
      PROVE  ExecInv' /\ RegistrationsStay
  <2> DEFINE child == transactions[id].child
             new == NewProcess(transactions[id].child_parent, peer,
                               CHOOSE s \in transactions[id].snapshot : TRUE,
                               "Pending", id)
  <2>1. /\ FreshWorker(peer) /\ ReservedFor(peer) = {}
        /\ transactions[id].state = "Prepared"
        /\ processes' = With(processes, child, new)
        /\ AddClient(peer, "Worker", child, NoId)
        /\ UNCHANGED <<exec_transactions, retired_peers>>
    BY <1>5 DEF ConnectFork, execVars
  <2>2. new.peer = peer
    BY DEF NewProcess
  <2>3. child \notin DOMAIN processes /\ child # NoId
    BY <2>1 DEF IInv, Shape, ForkSlots, Prepared, NoId
  <2> HIDE DEF new, child
  <2> QED
    BY <1>3, <2>1, <2>2, <2>3, ConnectOwnerExec
<1>6. ASSUME NEW id \in DOMAIN exec_transactions, ConnectExec(peer, id)
      PROVE  ExecInv' /\ RegistrationsStay
  BY <1>3, <1>6, ConnectExecExec
<1> QED
  BY <1>1, <1>2, <1>4, <1>5, <1>6 DEF Connect

\* Any step.
LEMMA ExecInvStep ==
  ASSUME IInv, ExecInv, [Next]_vars
  PROVE  ExecInv' /\ RegistrationsStay
<1>1. ASSUME ExecFrame PROVE ExecInv' /\ RegistrationsStay
  BY <1>1, ExecQuiet DEF ExecFrame, RegistrationsStay
<1>2. ASSUME NEW peer \in Peer, Connect(peer)
      PROVE  ExecInv' /\ RegistrationsStay
  BY <1>2, ConnectInv
<1>3. ASSUME NEW c \in DOMAIN clients,
             \/ ForkRequest(c) \/ StateRequest(c) \/ PoolRequest(c) \/ Shutdown(c)
      PROVE  ExecInv' /\ RegistrationsStay
  BY <1>1, <1>3, ForkFrame, StateFrame, PoolFrame
<1>4. ASSUME NEW c \in DOMAIN clients, ExecRequest(c)
      PROVE  ExecInv' /\ RegistrationsStay
  BY <1>4, PrepareExecExec, MarkExecReadyExec, CommitExecExec, AbortExecExec,
     AcknowledgeExecExec DEF ExecRequest, RegistrationsStay
<1>5. ASSUME NEW c \in DOMAIN clients, Disconnect(c)
      PROVE  ExecInv' /\ RegistrationsStay
  BY <1>5, DisconnectExec DEF RegistrationsStay
<1>6. ASSUME NEW peer \in Peer, NEW status \in Status, ProcessExited(peer, status)
      PROVE  ExecInv' /\ RegistrationsStay
  BY <1>6, ExitExec DEF RegistrationsStay
<1>7. CASE UNCHANGED vars
  BY <1>1, <1>7 DEF ExecFrame, OwnersSame, vars, connectVars, execVars, exitVars,
     processVars
<1> QED
  BY <1>2, <1>3, <1>4, <1>5, <1>6, <1>7 DEF Next, Transport

\* A new manager has no connection, no exec and no registration.
LEMMA InitExecInv == Init => ExecInv
  BY DEF Init, EmptyMap, ExecInv, Roles, Gone, Decided, OneExec, Backed,
     PendingExecs, Attached, Remembered

\* For any quotas and any number of native processes: an undecided exec is
\* backed by the open connection of its owner and, once attached, by that of
\* the replacement, and a process has one live exec (connect, prepare_exec,
\* commit_exec, disconnect and process_exited_with_status together).
THEOREM ExecBackedCorrect == Spec => []ExecBacked
<1>1. Init => IInv /\ ExecInv
  BY InitIInv, InitExecInv
<1>2. IInv /\ ExecInv /\ [Next]_vars => (IInv /\ ExecInv)'
  BY NextStep, ExecInvStep
<1>3. ASSUME IInv, ExecInv PROVE ExecBacked
  <2>1. \A id \in PendingExecs : OwnsProcess(exec_transactions[id].owner)
    BY <1>3, BackedFields DEF IInv, Workers, OwnsProcess
  <2> QED
    BY <1>3, <2>1 DEF ExecInv, OneExec, Backed, ExecBacked
<1> QED
  BY <1>1, <1>2, <1>3, PTL DEF Spec

\* Launching and running stay separate privileges, whatever connects, execs or
\* dies: the native process behind a helper, controller or launcher connection
\* owns no process and is never the replacement of an exec.
THEOREM RolesCorrect == Spec => []RolesSeparate
<1>1. Init => IInv /\ ExecInv
  BY InitIInv, InitExecInv
<1>2. IInv /\ ExecInv /\ [Next]_vars => (IInv /\ ExecInv)'
  BY NextStep, ExecInvStep
<1>3. ExecInv => RolesSeparate
  BY DEF ExecInv, Roles, RolesSeparate, LaunchKinds, ProcessesOf, ClientsOf, ReservedFor
<1> QED
  BY <1>1, <1>2, <1>3, PTL DEF Spec

\* A native process registers for one logical process as long as its death is
\* not reported: neither a revoked candidate, nor a replaced image, nor a
\* replacement that lost its connection before it took over comes back as
\* another worker.  After the report a late Hello may register it again.
THEOREM RegistrationCorrect == Spec => RegistersOnce
<1>1. Init => IInv /\ ExecInv
  BY InitIInv, InitExecInv
<1>2. IInv /\ ExecInv /\ [Next]_vars => (IInv /\ ExecInv)'
  BY NextStep, ExecInvStep
<1>3. IInv /\ ExecInv /\ [Next]_vars =>
         [\A peer \in DOMAIN registered \ DOMAIN exited :
             registered'[peer] = registered[peer]]_vars
  BY ExecInvStep DEF RegistrationsStay
<1> QED
  BY <1>1, <1>2, <1>3, PTL DEF Spec, RegistersOnce
-----------------------------------------------------------------------------
(* The fork protocol *)

\* ForkAgreement, with the states a fork can be in.
Agreed ==
    /\ ForkAgreement
    /\ \A id \in DOMAIN transactions : transactions[id].state \in TransactionState

\* A fork that is not decided is prepared or has its child attached.
LEMMA UndecidedFork ==
  ASSUME Agreed, NEW id \in DOMAIN transactions, ~Terminal(transactions[id])
  PROVE  \/ /\ transactions[id].state = "Prepared"
            /\ transactions[id].child \notin DOMAIN processes
         \/ /\ transactions[id].state \in {"Adopted", "Ready"}
            /\ transactions[id].child \in DOMAIN processes
            /\ processes[transactions[id].child].state = "Pending"
            /\ processes[transactions[id].child].transaction = id
  BY DEF Agreed, ForkAgreement, TransactionState, Terminal

\* A step that touches no fork and no child of one.
LEMMA AgreedQuiet ==
  ASSUME Agreed, UNCHANGED transactions, DOMAIN processes' = DOMAIN processes, StagesSame
  PROVE  Agreed'
  BY DEF Agreed, ForkAgreement, StagesSame

\* The exec protocol is such a step.
LEMMA ExecRequestFrame ==
  ASSUME IInv, NEW c \in DOMAIN clients, ExecRequest(c)
  PROVE  /\ UNCHANGED transactions /\ OwnersSame /\ StagesSame
         /\ \A pid \in DOMAIN processes :
               processes'[pid].prewarm = processes[pid].prewarm
<1>1. \A p \in DOMAIN processes : DOMAIN processes[p] = ProcessFields
  BY DEF IInv, Shape
<1>2. UNCHANGED transactions
  BY Zenon DEF ExecRequest, PrepareExec, MarkExecReady, CommitExec, AbortExec,
         AcknowledgeExec, forkVars
<1>3. \/ UNCHANGED processes
      \/ \E pid, new : processes' = [processes EXCEPT ![pid].exec_request_keys = new]
  BY Zenon DEF ExecRequest, PrepareExec, MarkExecReady, CommitExec, AbortExec,
         AcknowledgeExec, processVars
<1> QED
  BY <1>1, <1>2, <1>3 DEF OwnersSame, StagesSame, ProcessFields

\* Forks are aborted, processes end and records are dropped: the children of
\* aborted forks are revoked, a process that ends leaves no undecided fork, and
\* no undecided record is dropped without being aborted.
LEMMA AbortingAgreed ==
  ASSUME Agreed, NEW forks, NEW ended, NEW spent,
         \A id \in forks : id \in DOMAIN transactions /\ ~Terminal(transactions[id]),
         \A id \in DOMAIN transactions :
            (~Terminal(transactions[id]) /\ transactions[id].child \in ended)
               => id \in forks,
         \A id \in spent : Terminal(transactions[id]) \/ id \in forks,
         DOMAIN processes' = DOMAIN processes \ ended,
         \A pid \in DOMAIN processes' :
            /\ processes'[pid].state = IF pid \in ChildrenOf(forks)
                                       THEN "Aborted" ELSE processes[pid].state
            /\ processes'[pid].transaction = IF pid \in ChildrenOf(forks)
                                             THEN NoId ELSE processes[pid].transaction,
         DOMAIN transactions' = DOMAIN transactions \ spent,
         \A id \in DOMAIN transactions' :
            /\ transactions'[id].child = transactions[id].child
            /\ transactions'[id].state = IF id \in forks THEN "Aborted"
                                         ELSE transactions[id].state
            /\ transactions'[id].snapshot = IF id \in forks THEN {}
                                            ELSE transactions[id].snapshot
  PROVE  Agreed'
<1>1. \A pid : pid \in ChildrenOf(forks) <=>
                  \E id \in forks : transactions[id].child = pid
  BY DEF ChildrenOf
<1>2. ASSUME NEW id \in DOMAIN transactions, id \notin forks,
             transactions[id].state \in {"Adopted", "Ready"}
      PROVE  transactions[id].child \notin ChildrenOf(forks)
  <2> SUFFICES ASSUME NEW j \in forks, transactions[j].child = transactions[id].child
               PROVE  FALSE
    BY <1>1
  <2> QED
    BY <1>2, UndecidedFork DEF Terminal
<1>3. ASSUME NEW id \in DOMAIN transactions'
      PROVE  LET t == transactions'[id]
             IN  /\ t.state = "Prepared" => /\ t.child \notin DOMAIN processes'
                                            /\ Cardinality(t.snapshot) = 1
                 /\ t.state # "Prepared" => t.snapshot = {}
                 /\ t.state \in TransactionState
  BY DEF Agreed, ForkAgreement, TransactionState
<1>4. ASSUME NEW id \in DOMAIN transactions',
             transactions'[id].state \in {"Adopted", "Ready"}
      PROVE  LET t == transactions'[id]
             IN  /\ t.child \in DOMAIN processes'
                 /\ processes'[t.child].state = "Pending"
                 /\ processes'[t.child].transaction = id
  <2>1. id \notin forks /\ ~Terminal(transactions[id])
    BY <1>4 DEF Terminal
  <2> QED
    BY <1>2, <1>4, <2>1, UndecidedFork
<1>5. ASSUME NEW pid \in DOMAIN processes', processes'[pid].state = "Pending"
      PROVE  LET id == processes'[pid].transaction
             IN  /\ id \in DOMAIN transactions'
                 /\ transactions'[id].state \in {"Adopted", "Ready"}
                 /\ transactions'[id].child = pid
  <2> DEFINE id == processes[pid].transaction
  <2>1. /\ pid \notin ChildrenOf(forks)
        /\ processes'[pid].transaction = id
        /\ id \in DOMAIN transactions
        /\ transactions[id].state \in {"Adopted", "Ready"}
        /\ transactions[id].child = pid
    BY <1>5 DEF Agreed, ForkAgreement
  <2>2. id \notin forks
    BY <1>1, <2>1
  <2>3. id \notin spent
    BY <2>1, <2>2 DEF Terminal
  <2> QED
    BY <2>1, <2>2, <2>3
<1> QED
  BY <1>3, <1>4, <1>5 DEF Agreed, ForkAgreement

\* A reservation holds the one snapshot of the child.
LEMMA ReserveAgreed ==
  ASSUME IInv, Agreed, NEW pid, NEW key, NEW parent, Reserve(pid, key, parent)
  PROVE  Agreed'
<1> DEFINE tx == transactions'[next_transaction]
<1>1. /\ DOMAIN transactions' = DOMAIN transactions \cup {next_transaction}
      /\ \A id \in DOMAIN transactions : id # next_transaction =>
            transactions'[id] = transactions[id]
      /\ tx.child = next_pid /\ tx.state = "Prepared"
  BY DEF Reserve, With
<1>2. Cardinality(tx.snapshot) = 1
  <2>1. PICK s : tx.snapshot = {s}
    BY DEF Reserve, With
  <2> QED
    BY <2>1, FS_Singleton
<1>3. /\ DOMAIN processes' = DOMAIN processes
      /\ StagesSame
  <2>1. \A p \in DOMAIN processes : DOMAIN processes[p] = ProcessFields
    BY DEF IInv, Shape
  <2>2. PICK new : processes' = [processes EXCEPT ![pid].request_keys = new]
    BY DEF Reserve
  <2> QED
    BY <2>1, <2>2 DEF ProcessFields, StagesSame
<1>4. next_transaction \notin DOMAIN transactions /\ next_pid \notin DOMAIN processes
  BY DEF IInv, Shape
<1> HIDE DEF tx
<1> QED
  BY <1>1, <1>2, <1>3, <1>4 DEF Agreed, ForkAgreement, TransactionState, StagesSame, tx

\* The child redeems its ticket.
LEMMA ConnectForkAgreed ==
  ASSUME IInv, Agreed, NEW peer, NEW id \in DOMAIN transactions, ConnectFork(peer, id)
  PROVE  Agreed'
<1> DEFINE t == transactions[id]
           new == NewProcess(t.child_parent, peer, CHOOSE s \in t.snapshot : TRUE,
                             "Pending", id)
<1>1. /\ t.state = "Prepared"
      /\ processes' = With(processes, t.child, new)
      /\ transactions' = [transactions EXCEPT ![id].snapshot = {},
                                              ![id].state = "Adopted"]
  BY DEF ConnectFork
<1>2. new.state = "Pending" /\ new.transaction = id
  BY DEF NewProcess
<1> HIDE DEF new
<1>3. /\ DOMAIN processes' = DOMAIN processes \cup {t.child}
      /\ processes'[t.child].state = "Pending"
      /\ processes'[t.child].transaction = id
      /\ \A p \in DOMAIN processes : p # t.child => processes'[p] = processes[p]
  BY <1>1, <1>2 DEF With
<1>4. /\ DOMAIN transactions' = DOMAIN transactions
      /\ \A i \in DOMAIN transactions : i # id => transactions'[i] = transactions[i]
      /\ transactions'[id].child = t.child
      /\ transactions'[id].state = "Adopted"
      /\ transactions'[id].snapshot = {}
  BY <1>1 DEF IInv, Shape, ForkFields
<1>5. /\ t.child \notin DOMAIN processes
      /\ \A i \in DOMAIN transactions : (i # id /\ transactions[i].state = "Prepared") =>
            transactions[i].child # t.child
  BY <1>1 DEF IInv, ForkSlots, Prepared
<1> HIDE DEF t
<1>6. ASSUME NEW i \in DOMAIN transactions'
      PROVE  LET u == transactions'[i]
             IN  /\ u.state = "Prepared" => /\ u.child \notin DOMAIN processes'
                                            /\ Cardinality(u.snapshot) = 1
                 /\ u.state # "Prepared" => u.snapshot = {}
                 /\ u.state \in TransactionState
                 /\ u.state \in {"Adopted", "Ready"} =>
                       /\ u.child \in DOMAIN processes'
                       /\ processes'[u.child].state = "Pending"
                       /\ processes'[u.child].transaction = i
  <2>1. CASE i = id
    BY <1>3, <1>4, <2>1 DEF TransactionState
  <2>2. CASE i # id
    BY <1>3, <1>4, <1>5, <2>2 DEF Agreed, ForkAgreement
  <2> QED
    BY <2>1, <2>2
<1>7. ASSUME NEW p \in DOMAIN processes', processes'[p].state = "Pending"
      PROVE  LET i == processes'[p].transaction
             IN  /\ i \in DOMAIN transactions'
                 /\ transactions'[i].state \in {"Adopted", "Ready"}
                 /\ transactions'[i].child = p
  <2>1. CASE p = t.child
    BY <1>3, <1>4, <2>1
  <2>2. CASE p # t.child
    <3> DEFINE i == processes[p].transaction
    <3>1. p \in DOMAIN processes /\ processes'[p] = processes[p]
      BY <1>3, <2>2
    <3>2. /\ i \in DOMAIN transactions
          /\ transactions[i].state \in {"Adopted", "Ready"}
          /\ transactions[i].child = p
      BY <1>7, <3>1 DEF Agreed, ForkAgreement
    <3>3. i # id
      BY <1>1, <3>2 DEF t
    <3> QED
      BY <1>4, <3>1, <3>2, <3>3
  <2> QED
    BY <2>1, <2>2
<1> QED
  BY <1>6, <1>7 DEF Agreed, ForkAgreement

\* The child is ready, or the parent commits.
LEMMA AdvanceAgreed ==
  ASSUME IInv, Agreed, NEW c \in DOMAIN clients, NEW id \in DOMAIN transactions,
         MarkReady(c) \/ CommitFork(c, id) \/ AcknowledgeFork(c, id)
  PROVE  Agreed'
<1>1. /\ \A p \in DOMAIN processes : DOMAIN processes[p] = ProcessFields
      /\ \A i \in DOMAIN transactions : DOMAIN transactions[i] = ForkFields
  BY DEF IInv, Shape
<1>2. CASE MarkReady(c)
  <2> DEFINE pid == clients[c].pid
             tx == processes[pid].transaction
  <2>1. /\ pid \in DOMAIN processes
        /\ processes[pid].state = "Pending"
        /\ transactions' = [transactions EXCEPT ![tx].state = "Ready"]
        /\ UNCHANGED processes
    BY <1>2 DEF MarkReady, OwnsProcess, processVars
  <2>2. /\ tx \in DOMAIN transactions
        /\ transactions[tx].state \in {"Adopted", "Ready"}
    BY <2>1 DEF Agreed, ForkAgreement
  <2>3. /\ DOMAIN transactions' = DOMAIN transactions
        /\ \A i \in DOMAIN transactions : i # tx => transactions'[i] = transactions[i]
        /\ transactions'[tx].child = transactions[tx].child
        /\ transactions'[tx].snapshot = transactions[tx].snapshot
        /\ transactions'[tx].state = "Ready"
    BY <1>1, <2>1, <2>2 DEF ForkFields
  <2> HIDE DEF tx
  <2> QED
    BY <2>1, <2>2, <2>3 DEF Agreed, ForkAgreement, TransactionState
<1>3. CASE CommitFork(c, id)
  <2> DEFINE child == transactions[id].child
  <2>1. /\ transactions[id].state = "Ready"
        /\ transactions' = [transactions EXCEPT ![id].state = "Committed"]
        /\ processes' = [processes EXCEPT ![child].state = "Active",
                                          ![child].transaction = NoId]
    BY <1>3 DEF CommitFork
  <2>2. /\ child \in DOMAIN processes
        /\ processes[child].transaction = id
    BY <2>1 DEF Agreed, ForkAgreement
  <2>3. /\ DOMAIN transactions' = DOMAIN transactions
        /\ \A i \in DOMAIN transactions : i # id => transactions'[i] = transactions[i]
        /\ transactions'[id].snapshot = transactions[id].snapshot
        /\ transactions'[id].state = "Committed"
    BY <1>1, <2>1 DEF ForkFields
  <2>4. /\ DOMAIN processes' = DOMAIN processes
        /\ \A p \in DOMAIN processes : p # child => processes'[p] = processes[p]
        /\ processes'[child].state = "Active"
    BY <1>1, <2>1, <2>2 DEF ProcessFields
  <2> HIDE DEF child
  <2> QED
    BY <2>1, <2>2, <2>3, <2>4 DEF Agreed, ForkAgreement, TransactionState, child
<1>4. CASE AcknowledgeFork(c, id)
  <2>1. /\ Terminal(transactions[id])
        /\ DOMAIN transactions' = DOMAIN transactions \ {id}
        /\ \A i \in DOMAIN transactions' : transactions'[i] = transactions[i]
    BY <1>4 DEF AcknowledgeFork, Without, Restrict
  <2>2. /\ DOMAIN processes' = DOMAIN processes
        /\ StagesSame
    <3>1. PICK pid, new : processes' = [processes EXCEPT ![pid].request_keys = new]
      BY <1>4 DEF AcknowledgeFork
    <3> QED
      BY <1>1, <3>1 DEF ProcessFields, StagesSame
  <2> QED
    BY <2>1, <2>2 DEF Agreed, ForkAgreement, StagesSame, Terminal
<1> QED
  BY <1>2, <1>3, <1>4

\* The parent gives up a fork.
LEMMA AbortForkAgreed ==
  ASSUME IInv, Agreed, NEW c \in DOMAIN clients, NEW id \in DOMAIN transactions,
         AbortFork(c, id)
  PROVE  Agreed'
<1>1. /\ \A p \in DOMAIN processes : DOMAIN processes[p] = ProcessFields
      /\ \A i \in DOMAIN transactions : DOMAIN transactions[i] = ForkFields
  BY DEF IInv, Shape
<1> DEFINE none == {}
<1>2. /\ ~Terminal(transactions[id])
      /\ transactions' = AbortedForks({id})
      /\ processes' = [pid \in DOMAIN processes |->
                          IF pid \in ChildrenOf({id}) THEN Revoked(processes[pid])
                          ELSE processes[pid]]
  BY DEF AbortFork
<1>3. /\ DOMAIN processes' = DOMAIN processes \ none
      /\ \A pid \in DOMAIN processes' :
            /\ processes'[pid].state = IF pid \in ChildrenOf({id})
                                       THEN "Aborted" ELSE processes[pid].state
            /\ processes'[pid].transaction = IF pid \in ChildrenOf({id})
                                             THEN NoId ELSE processes[pid].transaction
  BY <1>1, <1>2, Zenon DEF Revoked, ProcessFields
<1>4. /\ DOMAIN transactions' = DOMAIN transactions \ none
      /\ \A i \in DOMAIN transactions' :
            /\ transactions'[i].child = transactions[i].child
            /\ transactions'[i].state = IF i \in {id} THEN "Aborted"
                                        ELSE transactions[i].state
            /\ transactions'[i].snapshot = IF i \in {id} THEN {}
                                           ELSE transactions[i].snapshot
  BY <1>1, <1>2, Zenon DEF AbortedForks, ForkFields
<1>5. /\ \A i \in {id} : i \in DOMAIN transactions /\ ~Terminal(transactions[i])
      /\ \A i \in DOMAIN transactions :
            (~Terminal(transactions[i]) /\ transactions[i].child \in none) => i \in {id}
      /\ \A i \in none : Terminal(transactions[i]) \/ i \in {id}
  BY <1>2
<1> HIDE DEF none
<1> QED
  BY <1>3, <1>4, <1>5, AbortingAgreed

\* The end of a connection aborts the forks of its process, as parent or child.
LEMMA DisconnectAgreed ==
  ASSUME IInv, Agreed, NEW c \in DOMAIN clients, Disconnect(c)
  PROVE  /\ Agreed' /\ DOMAIN processes' = DOMAIN processes
         /\ \A pid \in DOMAIN processes :
               processes'[pid].prewarm = Released(processes[pid].prewarm, {c})
<1> DEFINE owned == IF OwnsProcess(c) THEN {clients[c].pid} ELSE {}
           forks == PendingForksOf(owned)
           none == {}
<1>1. /\ \A p \in DOMAIN processes : DOMAIN processes[p] = ProcessFields
      /\ \A i \in DOMAIN transactions : DOMAIN transactions[i] = ForkFields
  BY DEF IInv, Shape
<1>2. /\ transactions' = AbortedForks(forks)
      /\ processes' = [pid \in DOMAIN processes |->
             LET p == [processes[pid] EXCEPT !.prewarm = Released(@, {c})]
             IN  IF pid \in ChildrenOf(forks) THEN Revoked(p) ELSE p]
  BY DEF Disconnect
<1>3. \A i \in forks : i \in DOMAIN transactions /\ ~Terminal(transactions[i])
  BY DEF PendingForksOf
<1> HIDE DEF forks
<1>4. /\ DOMAIN processes' = DOMAIN processes \ none
      /\ \A pid \in DOMAIN processes' :
            /\ processes'[pid].state = IF pid \in ChildrenOf(forks)
                                       THEN "Aborted" ELSE processes[pid].state
            /\ processes'[pid].transaction = IF pid \in ChildrenOf(forks)
                                             THEN NoId ELSE processes[pid].transaction
            /\ processes'[pid].prewarm = Released(processes[pid].prewarm, {c})
  BY <1>1, <1>2, Zenon DEF Revoked, ProcessFields
<1>5. /\ DOMAIN transactions' = DOMAIN transactions \ none
      /\ \A i \in DOMAIN transactions' :
            /\ transactions'[i].child = transactions[i].child
            /\ transactions'[i].state = IF i \in forks THEN "Aborted"
                                        ELSE transactions[i].state
            /\ transactions'[i].snapshot = IF i \in forks THEN {}
                                           ELSE transactions[i].snapshot
  BY <1>1, <1>2, Zenon DEF AbortedForks, ForkFields
<1>6. /\ \A i \in DOMAIN transactions :
            (~Terminal(transactions[i]) /\ transactions[i].child \in none) => i \in forks
      /\ \A i \in none : Terminal(transactions[i]) \/ i \in forks
  OBVIOUS
<1>7. DOMAIN processes' = DOMAIN processes
  BY <1>4
<1> HIDE DEF none
<1>8. Agreed'
  BY <1>3, <1>4, <1>5, <1>6, AbortingAgreed
<1> QED
  BY <1>4, <1>7, <1>8

\* The death of a native process aborts the forks of the processes that end.
LEMMA ExitAgreed ==
  ASSUME IInv, Agreed, NEW peer, NEW status, ProcessExited(peer, status)
  PROVE  Agreed'
<1>1. /\ DOMAIN processes' = DOMAIN processes \ Ending(peer)
      /\ \A pid \in DOMAIN processes' :
            /\ processes'[pid].state = IF pid \in ChildrenOf(ForksLost(peer))
                                       THEN "Aborted" ELSE processes[pid].state
            /\ processes'[pid].transaction = IF pid \in ChildrenOf(ForksLost(peer))
                                             THEN NoId ELSE processes[pid].transaction
  BY ExitProcesses
<1>2. /\ DOMAIN transactions' = DOMAIN transactions \ Spent(peer)
      /\ \A id \in DOMAIN transactions' :
            /\ transactions'[id].child = transactions[id].child
            /\ transactions'[id].state = IF id \in ForksLost(peer) THEN "Aborted"
                                         ELSE transactions[id].state
            /\ transactions'[id].snapshot = IF id \in ForksLost(peer) THEN {}
                                            ELSE transactions[id].snapshot
  BY ExitForks
<1>3. /\ \A id \in ForksLost(peer) : id \in DOMAIN transactions /\ ~Terminal(transactions[id])
      /\ \A id \in DOMAIN transactions :
            (~Terminal(transactions[id]) /\ transactions[id].child \in Ending(peer))
               => id \in ForksLost(peer)
      /\ \A id \in Spent(peer) : Terminal(transactions[id]) \/ id \in ForksLost(peer)
  BY DEF ForksLost, PendingForksOf, Spent
<1> QED
  BY <1>1, <1>2, <1>3, AbortingAgreed

\* A registration other than that of a fork's child adds no pending process.
LEMMA ConnectAgreed ==
  ASSUME IInv, Agreed, NEW peer \in Peer, Connect(peer)
  PROVE  /\ Agreed'
         /\ DOMAIN processes \subseteq DOMAIN processes'
         /\ \A pid \in DOMAIN processes : processes'[pid] = processes[pid]
<1>1. ASSUME UNCHANGED <<transactions, processes>>
      PROVE  Agreed'
  BY <1>1, AgreedQuiet DEF StagesSame
<1>2. ASSUME ConnectHelper(peer)
      PROVE  Agreed' /\ UNCHANGED processes
  BY <1>1, <1>2 DEF ConnectHelper, forkVars, processVars
<1>3. ASSUME NEW kind \in {"Controller", "Launcher"}, ConnectControl(peer, kind)
      PROVE  Agreed' /\ UNCHANGED processes
  BY <1>1, <1>3 DEF ConnectControl, forkVars, processVars
<1>4. ASSUME ConnectRoot(peer)
      PROVE  /\ Agreed'
             /\ DOMAIN processes \subseteq DOMAIN processes'
             /\ \A pid \in DOMAIN processes : processes'[pid] = processes[pid]
  <2>1. /\ UNCHANGED transactions
        /\ DOMAIN processes' = DOMAIN processes \cup {next_pid}
        /\ processes'[next_pid].state = "Active"
        /\ \A pid \in DOMAIN processes : pid # next_pid => processes'[pid] = processes[pid]
    BY <1>4 DEF ConnectRoot, With, NewProcess, forkVars
  <2>2. /\ next_pid \notin DOMAIN processes
        /\ \A id \in DOMAIN transactions : transactions[id].child # next_pid
    BY DEF IInv, Shape
  <2> QED
    BY <2>1, <2>2 DEF Agreed, ForkAgreement
<1>5. ASSUME NEW id \in DOMAIN transactions, ConnectFork(peer, id)
      PROVE  /\ Agreed'
             /\ DOMAIN processes \subseteq DOMAIN processes'
             /\ \A pid \in DOMAIN processes : processes'[pid] = processes[pid]
  <2>1. transactions[id].child \notin DOMAIN processes
    BY <1>5 DEF ConnectFork, IInv, ForkSlots, Prepared
  <2>2. Agreed'
    BY <1>5, ConnectForkAgreed
  <2> QED
    BY <1>5, <2>1, <2>2 DEF ConnectFork, With
<1>6. ASSUME NEW id \in DOMAIN exec_transactions, ConnectExec(peer, id)
      PROVE  Agreed' /\ UNCHANGED processes
  BY <1>1, <1>6 DEF ConnectExec, forkVars, processVars
<1> QED
  BY <1>2, <1>3, <1>4, <1>5, <1>6 DEF Connect

\* Every request of the fork protocol.
LEMMA ForkRequestAgreed ==
  ASSUME IInv, Agreed, NEW c \in DOMAIN clients, ForkRequest(c)
  PROVE  Agreed'
<1>1. ASSUME NEW key \in RequestKey, PrepareFork(c, key)
      PROVE  Agreed'
  BY <1>1, ReserveAgreed DEF PrepareFork
<1>2. ASSUME NEW key \in RequestKey, PrepareForkWithParent(c, key)
      PROVE  Agreed'
  BY <1>2, ReserveAgreed DEF PrepareForkWithParent
<1>3. CASE MarkReady(c)
  <2> DEFINE id == processes[clients[c].pid].transaction
  <2>1. id \in DOMAIN transactions
    BY <1>3 DEF MarkReady, OwnsProcess, Agreed, ForkAgreement
  <2> QED
    BY <1>3, <2>1, AdvanceAgreed
<1>4. ASSUME NEW id \in DOMAIN transactions, CommitFork(c, id) \/ AcknowledgeFork(c, id)
      PROVE  Agreed'
  BY <1>4, AdvanceAgreed
<1>5. ASSUME NEW id \in DOMAIN transactions, AbortFork(c, id)
      PROVE  Agreed'
  BY <1>5, AbortForkAgreed
<1> QED
  BY <1>1, <1>2, <1>3, <1>4, <1>5 DEF ForkRequest

\* Any step.
LEMMA AgreedStep ==
  ASSUME IInv, Agreed, [Next]_vars
  PROVE  Agreed'
<1>1. ASSUME NEW peer \in Peer, Connect(peer)
      PROVE  Agreed'
  BY <1>1, ConnectAgreed
<1>2. ASSUME NEW c \in DOMAIN clients, ForkRequest(c)
      PROVE  Agreed'
  BY <1>2, ForkRequestAgreed
<1>3. ASSUME NEW c \in DOMAIN clients, ExecRequest(c)
      PROVE  Agreed'
  BY <1>3, ExecRequestFrame, AgreedQuiet DEF OwnersSame
<1>4. ASSUME NEW c \in DOMAIN clients, StateRequest(c) \/ Shutdown(c)
      PROVE  Agreed'
  BY <1>4, StateFrame, AgreedQuiet DEF ExecFrame, OwnersSame
<1>5. ASSUME NEW c \in DOMAIN clients, PoolRequest(c)
      PROVE  Agreed'
  BY <1>5, PoolFrame, AgreedQuiet DEF ExecFrame, OwnersSame
<1>6. ASSUME NEW c \in DOMAIN clients, Disconnect(c)
      PROVE  Agreed'
  BY <1>6, DisconnectAgreed
<1>7. ASSUME NEW peer \in Peer, NEW status \in Status, ProcessExited(peer, status)
      PROVE  Agreed'
  BY <1>7, ExitAgreed
<1>8. CASE UNCHANGED vars
  BY <1>8, AgreedQuiet DEF vars, forkVars, processVars, StagesSame
<1> QED
  BY <1>1, <1>2, <1>3, <1>4, <1>5, <1>6, <1>7, <1>8 DEF Next, Transport

\* For any quotas and any number of native processes: a fork and its child
\* agree on its stage. The child of a prepared fork does not exist yet and its
\* snapshot is kept exactly until it attaches; the child of an adopted or ready
\* fork waits for that very fork, and no waiting process has lost its fork
\* (prepare_fork, adopt, mark_ready, commit_fork, abort_fork, disconnect and
\* process_exited_with_status together).
THEOREM ForkAgreementCorrect == Spec => []ForkAgreement
<1>1. Init => IInv /\ Agreed
  BY InitIInv DEF Init, EmptyMap, Agreed, ForkAgreement
<1>2. IInv /\ Agreed /\ [Next]_vars => (IInv /\ Agreed)'
  BY NextStep, AgreedStep
<1>3. Agreed => ForkAgreement
  BY DEF Agreed
<1> QED
  BY <1>1, <1>2, <1>3, PTL DEF Spec
-----------------------------------------------------------------------------
(* The worker pool *)

\* What PoolHandout allows one step to do to one process.
HandedOut(pid) ==
    LET old == processes[pid].prewarm
        new == processes'[pid].prewarm
    IN  /\ old.at = "PoolActivated" => new = old
        /\ (old.at = "PoolReserved" /\ new # old) =>
              new.at = "PoolReady" \/ (new.at = "PoolActivated" /\ new.client = old.client)
        /\ (new.at = "PoolReserved" /\ new # old) =>
              old.at = "PoolReady" /\ new.client \in DOMAIN clients'

\* A connection that ends gives back what it reserved and leaves what it
\* activated.
LEMMA GivenBack ==
  ASSUME NEW pid, NEW gone,
         processes'[pid].prewarm = Released(processes[pid].prewarm, gone)
  PROVE  HandedOut(pid)
  BY DEF HandedOut, Released, Prewarm

\* Every request of the pool protocol.
LEMMA PoolRequestHandsOut ==
  ASSUME IInv, NEW c \in DOMAIN clients, PoolRequest(c), NEW pid \in DOMAIN processes
  PROVE  HandedOut(pid)
<1>1. /\ DOMAIN processes[pid] = ProcessFields
      /\ DOMAIN clients' = DOMAIN clients
  BY PoolFrame DEF IInv, Shape, ExecFrame
<1>2. ASSUME NEW p, NEW stage, processes' = [processes EXCEPT ![p].prewarm = stage]
      PROVE  processes'[pid].prewarm = IF pid = p THEN stage ELSE processes[pid].prewarm
  BY <1>1, <1>2 DEF ProcessFields
<1>3. CASE MarkPrewarmReady(c)
  BY <1>1, <1>2, <1>3 DEF MarkPrewarmReady, Prewarm, HandedOut
<1>4. CASE MarkPoolReady(c)
  BY <1>1, <1>2, <1>4 DEF MarkPoolReady, Prewarm, HandedOut
<1>5. CASE ReservePoolWorker(c)
  BY <1>1, <1>2, <1>5 DEF ReservePoolWorker, PoolReady, HandedOut
<1>6. ASSUME NEW p \in DOMAIN processes, ActivatePrewarm(c, p)
      PROVE  HandedOut(pid)
  BY <1>1, <1>2, <1>6 DEF ActivatePrewarm, Prewarm, HandedOut
<1>7. ASSUME NEW p \in DOMAIN processes, ReleasePoolWorker(c, p)
      PROVE  HandedOut(pid)
  BY <1>1, <1>2, <1>7 DEF ReleasePoolWorker, HeldBy, Prewarm, HandedOut
<1>8. ASSUME NEW p \in DOMAIN processes, NEW parent \in DOMAIN processes \cup {NoId},
             NEW launch \in Launch, ActivatePoolWorker(c, p, parent, launch)
      PROVE  HandedOut(pid)
  <2> DEFINE stage == [at |-> "PoolActivated", launch |-> launch, client |-> c,
                       parent |-> parent]
  <2>1. /\ HeldBy(p, c)
        /\ processes' = [processes EXCEPT ![p].parent_pid = parent,
                                          ![p].prewarm = stage]
    BY <1>8 DEF ActivatePoolWorker
  <2>2. stage.at = "PoolActivated" /\ stage.client = c
    OBVIOUS
  <2> HIDE DEF stage
  <2>3. processes'[pid].prewarm = IF pid = p THEN stage ELSE processes[pid].prewarm
    BY <1>1, <2>1 DEF ProcessFields
  <2> QED
    BY <2>1, <2>2, <2>3 DEF HeldBy, HandedOut
<1> QED
  BY <1>3, <1>4, <1>5, <1>6, <1>7, <1>8 DEF PoolRequest

\* Any step.
LEMMA HandoutStep ==
  ASSUME IInv, Agreed, [Next]_vars, NEW pid \in DOMAIN processes \cap DOMAIN processes'
  PROVE  HandedOut(pid)
<1>1. ASSUME processes'[pid].prewarm = processes[pid].prewarm
      PROVE  HandedOut(pid)
  BY <1>1 DEF HandedOut
<1>2. ASSUME NEW peer \in Peer, Connect(peer)
      PROVE  HandedOut(pid)
  BY <1>1, <1>2, ConnectAgreed
<1>3. ASSUME NEW c \in DOMAIN clients,
             ForkRequest(c) \/ ExecRequest(c) \/ StateRequest(c) \/ Shutdown(c)
      PROVE  HandedOut(pid)
  BY <1>1, <1>3, ForkFrame, ExecRequestFrame, StateFrame
<1>4. ASSUME NEW c \in DOMAIN clients, PoolRequest(c)
      PROVE  HandedOut(pid)
  BY <1>4, PoolRequestHandsOut
<1>5. ASSUME NEW c \in DOMAIN clients, Disconnect(c)
      PROVE  HandedOut(pid)
  BY <1>5, DisconnectAgreed, GivenBack
<1>6. ASSUME NEW peer \in Peer, NEW status \in Status, ProcessExited(peer, status)
      PROVE  HandedOut(pid)
  BY <1>6, ExitProcesses, GivenBack
<1>7. CASE UNCHANGED vars
  BY <1>1, <1>7 DEF vars, processVars
<1> QED
  BY <1>2, <1>3, <1>4, <1>5, <1>6, <1>7 DEF Next, Transport

\* For any number of connections and workers: between two connections a pool
\* worker passes through the pool, only the connection that reserved it
\* activates it, and an accepted launch outlives the connection that asked for
\* it (reserve_pool_worker, release_pool_worker, activate_pool_worker and
\* release_pool_reservations).
THEOREM PoolHandoutCorrect == Spec => PoolHandout
<1>1. Init => IInv /\ Agreed
  BY InitIInv DEF Init, EmptyMap, Agreed, ForkAgreement
<1>2. IInv /\ Agreed /\ [Next]_vars => (IInv /\ Agreed)'
  BY NextStep, AgreedStep
<1>3. IInv /\ Agreed /\ [Next]_vars =>
         [\A pid \in DOMAIN processes \cap DOMAIN processes' :
             LET old == processes[pid].prewarm
                 new == processes'[pid].prewarm
             IN  /\ old.at = "PoolActivated" => new = old
                 /\ (old.at = "PoolReserved" /\ new # old) =>
                       new.at = "PoolReady" \/ (/\ new.at = "PoolActivated"
                                               /\ new.client = old.client)
                 /\ (new.at = "PoolReserved" /\ new # old) =>
                       old.at = "PoolReady" /\ new.client \in DOMAIN clients']_vars
  BY HandoutStep DEF HandedOut
<1> QED
  BY <1>1, <1>2, <1>3, PTL DEF Spec, PoolHandout
-----------------------------------------------------------------------------
(* Replay records *)

\* The replay records of a process are those of `ids`, one key for each.
Records(keys, ids) == IsInjective(keys) /\ Range(keys) = ids

ForksOf(pid) == {id \in DOMAIN transactions : transactions[id].parent = pid}

ExecsOf(pid) == {id \in DOMAIN exec_transactions : exec_transactions[id].process = pid}

\* A record is added under a new key.
LEMMA RecordAdded ==
  ASSUME NEW keys, NEW ids, NEW key, NEW id, Records(keys, ids),
         key \notin DOMAIN keys, id \notin ids
  PROVE  Records(With(keys, key, id), ids \cup {id})
<1> DEFINE new == With(keys, key, id)
<1>1. /\ DOMAIN new = DOMAIN keys \cup {key}
      /\ new[key] = id
      /\ \A k \in DOMAIN keys : new[k] = keys[k]
  BY DEF With
<1>2. \A k \in DOMAIN keys : keys[k] # id
  BY DEF Records, Range
<1> HIDE DEF new
<1>3. IsInjective(new)
  BY <1>1, <1>2 DEF Records, IsInjective
<1>4. Range(new) = ids \cup {id}
  BY <1>1 DEF Records, Range
<1> QED
  BY <1>3, <1>4 DEF Records, new

\* The records of `gone` are dropped.
LEMMA RecordsDropped ==
  ASSUME NEW keys, NEW ids, NEW gone, NEW new, Records(keys, ids),
         \A k : k \in DOMAIN new <=> k \in DOMAIN keys /\ keys[k] \notin gone,
         \A k \in DOMAIN new : new[k] = keys[k]
  PROVE  Records(new, ids \ gone)
<1>1. IsInjective(new)
  BY DEF Records, IsInjective
<1>2. Range(new) = ids \ gone
  BY DEF Records, Range
<1> QED
  BY <1>1, <1>2 DEF Records

\* A process without records.
LEMMA NoRecords == Records(EmptyMap, {})
  BY DEF Records, EmptyMap, IsInjective, Range

\* KeysResolve, process by process.
LEMMA KeysByProcess ==
  KeysResolve <=>
    /\ DOMAIN transactions \cap DOMAIN exec_transactions = {}
    /\ \A pid \in DOMAIN processes :
          /\ Records(processes[pid].request_keys, ForksOf(pid))
          /\ Records(processes[pid].exec_request_keys, ExecsOf(pid))
    /\ \A id \in DOMAIN transactions : transactions[id].parent \in DOMAIN processes
    /\ \A id \in DOMAIN exec_transactions :
          exec_transactions[id].process \in DOMAIN processes
  BY DEF KeysResolve, Records, ForksOf, ExecsOf

\* The same after a step.
LEMMA KeysByProcessAfter ==
  ASSUME DOMAIN transactions' \cap DOMAIN exec_transactions' = {},
         \A pid \in DOMAIN processes' :
            /\ Records(processes'[pid].request_keys, ForksOf(pid)')
            /\ Records(processes'[pid].exec_request_keys, ExecsOf(pid)'),
         \A id \in DOMAIN transactions' : transactions'[id].parent \in DOMAIN processes',
         \A id \in DOMAIN exec_transactions' :
            exec_transactions'[id].process \in DOMAIN processes'
  PROVE  KeysResolve'
  BY DEF KeysResolve, Records, ForksOf, ExecsOf

\* No process gets or loses a record.
KeysSame ==
    /\ DOMAIN processes' = DOMAIN processes
    /\ \A pid \in DOMAIN processes :
          /\ processes'[pid].request_keys = processes[pid].request_keys
          /\ processes'[pid].exec_request_keys = processes[pid].exec_request_keys

\* No fork begins, ends or changes its parent.
ForksSame ==
    /\ DOMAIN transactions' = DOMAIN transactions
    /\ \A id \in DOMAIN transactions : transactions'[id].parent = transactions[id].parent

\* No exec begins, ends or changes its process.
ExecsSame ==
    /\ DOMAIN exec_transactions' = DOMAIN exec_transactions
    /\ \A id \in DOMAIN exec_transactions :
          exec_transactions'[id].process = exec_transactions[id].process

\* A step with such frames.
LEMMA KeysQuiet ==
  ASSUME KeysResolve, KeysSame, ForksSame, ExecsSame
  PROVE  KeysResolve'
<1>1. \A pid : ForksOf(pid)' = ForksOf(pid) /\ ExecsOf(pid)' = ExecsOf(pid)
  BY DEF ForksSame, ExecsSame, ForksOf, ExecsOf
<1> QED
  BY <1>1, KeysByProcess, KeysByProcessAfter DEF KeysSame, ForksSame, ExecsSame

\* A new process has no record and there is none of it.
LEMMA NewcomerKeys ==
  ASSUME KeysResolve, ForksSame, ExecsSame, NEW new, new \notin DOMAIN processes,
         DOMAIN processes' = DOMAIN processes \cup {new},
         \A pid \in DOMAIN processes : processes'[pid] = processes[pid],
         processes'[new].request_keys = EmptyMap,
         processes'[new].exec_request_keys = EmptyMap
  PROVE  KeysResolve'
<1>1. \A pid : ForksOf(pid)' = ForksOf(pid) /\ ExecsOf(pid)' = ExecsOf(pid)
  BY DEF ForksSame, ExecsSame, ForksOf, ExecsOf
<1>2. ForksOf(new) = {} /\ ExecsOf(new) = {}
  BY KeysByProcess DEF ForksOf, ExecsOf
<1> QED
  BY <1>1, <1>2, NoRecords, KeysByProcess, KeysByProcessAfter DEF ForksSame, ExecsSame

\* Every registration.
LEMMA ConnectKeys ==
  ASSUME IInv, KeysResolve, NEW peer, Connect(peer)
  PROVE  KeysResolve'
<1>1. ASSUME UNCHANGED processes
      PROVE  KeysSame
  BY <1>1 DEF KeysSame
<1>2. ASSUME UNCHANGED transactions
      PROVE  ForksSame
  BY <1>2 DEF ForksSame
<1>3. ASSUME UNCHANGED exec_transactions
      PROVE  ExecsSame
  BY <1>3 DEF ExecsSame
<1>4. CASE ConnectHelper(peer)
  BY <1>1, <1>2, <1>3, <1>4, KeysQuiet DEF ConnectHelper, forkVars, execVars, processVars
<1>5. ASSUME NEW kind \in {"Controller", "Launcher"}, ConnectControl(peer, kind)
      PROVE  KeysResolve'
  BY <1>1, <1>2, <1>3, <1>5, KeysQuiet DEF ConnectControl, forkVars, execVars, processVars
<1>6. CASE ConnectRoot(peer)
  <2>1. next_pid \notin DOMAIN processes
    BY DEF IInv, Shape
  <2>2. /\ DOMAIN processes' = DOMAIN processes \cup {next_pid}
        /\ \A pid \in DOMAIN processes : processes'[pid] = processes[pid]
        /\ processes'[next_pid].request_keys = EmptyMap
        /\ processes'[next_pid].exec_request_keys = EmptyMap
    BY <1>6, <2>1 DEF ConnectRoot, With, NewProcess
  <2>3. ForksSame /\ ExecsSame
    BY <1>2, <1>3, <1>6 DEF ConnectRoot, forkVars, execVars
  <2> QED
    BY <2>1, <2>2, <2>3, NewcomerKeys
<1>7. ASSUME NEW id \in DOMAIN transactions, ConnectFork(peer, id)
      PROVE  KeysResolve'
  <2> DEFINE child == transactions[id].child
  <2>1. child \notin DOMAIN processes
    BY <1>7 DEF ConnectFork, IInv, ForkSlots, Prepared
  <2>2. /\ DOMAIN processes' = DOMAIN processes \cup {child}
        /\ \A pid \in DOMAIN processes : processes'[pid] = processes[pid]
        /\ processes'[child].request_keys = EmptyMap
        /\ processes'[child].exec_request_keys = EmptyMap
    BY <1>7, <2>1 DEF ConnectFork, With, NewProcess
  <2>3. ForksSame
    BY <1>7 DEF ConnectFork, ForksSame, IInv, Shape, ForkFields
  <2>4. ExecsSame
    BY <1>3, <1>7 DEF ConnectFork, execVars
  <2> QED
    BY <2>1, <2>2, <2>3, <2>4, NewcomerKeys
<1>8. ASSUME NEW id \in DOMAIN exec_transactions, ConnectExec(peer, id)
      PROVE  KeysResolve'
  <2>1. KeysSame /\ ForksSame
    BY <1>1, <1>2, <1>8 DEF ConnectExec, forkVars, processVars
  <2>2. ExecsSame
    BY <1>8 DEF ConnectExec, ExecsSame, IInv, Shape, ExecFields
  <2> QED
    BY <2>1, <2>2, KeysQuiet
<1> QED
  BY <1>4, <1>5, <1>6, <1>7, <1>8 DEF Connect

\* prepare_fork adds a record and its fork.
LEMMA ReserveKeys ==
  ASSUME IInv, KeysResolve, NEW pid \in DOMAIN processes, NEW key, NEW parent,
         Reserve(pid, key, parent)
  PROVE  KeysResolve'
<1> DEFINE id == next_transaction
<1>1. id \notin DOMAIN transactions /\ id \notin DOMAIN exec_transactions
  BY DEF IInv, Shape
<1>2. /\ DOMAIN transactions' = DOMAIN transactions \cup {id}
      /\ transactions'[id].parent = pid
      /\ \A i \in DOMAIN transactions : transactions'[i] = transactions[i]
      /\ ExecsSame
  BY <1>1 DEF Reserve, With, execVars, ExecsSame
<1>3. /\ DOMAIN processes' = DOMAIN processes
      /\ \A p \in DOMAIN processes :
            /\ processes'[p].exec_request_keys = processes[p].exec_request_keys
            /\ p # pid => processes'[p].request_keys = processes[p].request_keys
      /\ processes'[pid].request_keys = With(processes[pid].request_keys, key, id)
  BY DEF Reserve, IInv, Shape, ProcessFields
<1>4. key \notin DOMAIN processes[pid].request_keys
  BY DEF Reserve
<1> HIDE DEF id
<1>5. /\ \A p : ExecsOf(p)' = ExecsOf(p)
      /\ \A p : p # pid => ForksOf(p)' = ForksOf(p)
      /\ ForksOf(pid)' = ForksOf(pid) \cup {id}
      /\ id \notin ForksOf(pid)
  BY <1>1, <1>2 DEF ExecsSame, ForksOf, ExecsOf
<1>6. Records(processes'[pid].request_keys, ForksOf(pid)')
  BY <1>3, <1>4, <1>5, RecordAdded, KeysByProcess
<1>7. ASSUME NEW p \in DOMAIN processes'
      PROVE  /\ Records(processes'[p].request_keys, ForksOf(p)')
             /\ Records(processes'[p].exec_request_keys, ExecsOf(p)')
  BY <1>3, <1>5, <1>6, KeysByProcess
<1>8. /\ DOMAIN transactions' \cap DOMAIN exec_transactions' = {}
      /\ \A i \in DOMAIN transactions' : transactions'[i].parent \in DOMAIN processes'
      /\ \A i \in DOMAIN exec_transactions' :
            exec_transactions'[i].process \in DOMAIN processes'
  BY <1>1, <1>2, <1>3, KeysByProcess DEF ExecsSame
<1> QED
  BY <1>7, <1>8, KeysByProcessAfter

\* prepare_exec adds a record and its exec.
LEMMA PrepareExecKeys ==
  ASSUME IInv, KeysResolve, NEW c, NEW key, NEW target, PrepareExec(c, key, target),
         NEW pid, pid = clients[c].pid
  PROVE  KeysResolve'
<1> DEFINE id == next_transaction
<1>0. pid \in DOMAIN processes
  BY DEF PrepareExec, ActiveWorker, OwnsProcess
<1>1. id \notin DOMAIN transactions /\ id \notin DOMAIN exec_transactions
  BY DEF IInv, Shape
<1>2. /\ DOMAIN exec_transactions' = DOMAIN exec_transactions \cup {id}
      /\ exec_transactions'[id].process = pid
      /\ \A i \in DOMAIN exec_transactions : exec_transactions'[i] = exec_transactions[i]
      /\ ForksSame
  BY <1>1 DEF PrepareExec, With, ForksSame
<1>3. /\ DOMAIN processes' = DOMAIN processes
      /\ \A p \in DOMAIN processes :
            /\ processes'[p].request_keys = processes[p].request_keys
            /\ p # pid => processes'[p].exec_request_keys = processes[p].exec_request_keys
      /\ processes'[pid].exec_request_keys =
            With(processes[pid].exec_request_keys, key, id)
  BY <1>0 DEF PrepareExec, IInv, Shape, ProcessFields
<1>4. key \notin DOMAIN processes[pid].exec_request_keys
  BY DEF PrepareExec
<1> HIDE DEF id
<1>5. /\ \A p : ForksOf(p)' = ForksOf(p)
      /\ \A p : p # pid => ExecsOf(p)' = ExecsOf(p)
      /\ ExecsOf(pid)' = ExecsOf(pid) \cup {id}
      /\ id \notin ExecsOf(pid)
  BY <1>1, <1>2 DEF ForksSame, ForksOf, ExecsOf
<1>6. Records(processes'[pid].exec_request_keys, ExecsOf(pid)')
  BY <1>0, <1>3, <1>4, <1>5, RecordAdded, KeysByProcess
<1>7. ASSUME NEW p \in DOMAIN processes'
      PROVE  /\ Records(processes'[p].request_keys, ForksOf(p)')
             /\ Records(processes'[p].exec_request_keys, ExecsOf(p)')
  BY <1>3, <1>5, <1>6, KeysByProcess, ZenonT(40)
<1>8. /\ DOMAIN transactions' \cap DOMAIN exec_transactions' = {}
      /\ \A i \in DOMAIN transactions' : transactions'[i].parent \in DOMAIN processes'
      /\ \A i \in DOMAIN exec_transactions' :
            exec_transactions'[i].process \in DOMAIN processes'
  BY <1>0, <1>1, <1>2, <1>3, KeysByProcess DEF ForksSame
<1> QED
  BY <1>7, <1>8, KeysByProcessAfter

\* acknowledge drops a record together with its fork or exec.
LEMMA AcknowledgeForkKeys ==
  ASSUME IInv, KeysResolve, NEW c, NEW id, AcknowledgeFork(c, id),
         NEW pid, pid = clients[c].pid
  PROVE  KeysResolve'
<1>1. /\ pid \in DOMAIN processes
      /\ id \in DOMAIN transactions /\ transactions[id].parent = pid
  BY DEF AcknowledgeFork, OwnsProcess
<1>2. /\ DOMAIN transactions' = DOMAIN transactions \ {id}
      /\ \A i \in DOMAIN transactions' : transactions'[i] = transactions[i]
      /\ ExecsSame
  BY DEF AcknowledgeFork, Without, Restrict, execVars, ExecsSame
<1>3. /\ DOMAIN processes' = DOMAIN processes
      /\ \A p \in DOMAIN processes :
            /\ processes'[p].exec_request_keys = processes[p].exec_request_keys
            /\ p # pid => processes'[p].request_keys = processes[p].request_keys
      /\ processes'[pid].request_keys = DropRecord(processes[pid].request_keys, id)
  BY <1>1 DEF AcknowledgeFork, IInv, Shape, ProcessFields
<1>4. /\ \A p : ExecsOf(p)' = ExecsOf(p)
      /\ \A p : p # pid => ForksOf(p)' = ForksOf(p)
      /\ ForksOf(pid)' = ForksOf(pid) \ {id}
  BY <1>1, <1>2, SMTT(30) DEF ExecsSame, ForksOf, ExecsOf
<1>5. LET keys == processes[pid].request_keys
          new == processes'[pid].request_keys
      IN  /\ \A k : k \in DOMAIN new <=> k \in DOMAIN keys /\ keys[k] \notin {id}
          /\ \A k \in DOMAIN new : new[k] = keys[k]
  BY <1>3 DEF DropRecord, Restrict
<1>6. Records(processes'[pid].request_keys, ForksOf(pid)')
  <2>1. Records(processes[pid].request_keys, ForksOf(pid))
    BY <1>1, KeysByProcess
  <2>2. Records(processes'[pid].request_keys, ForksOf(pid) \ {id})
    BY <1>5, <2>1, RecordsDropped
  <2> QED
    BY <1>4, <2>2
<1>7. ASSUME NEW p \in DOMAIN processes'
      PROVE  /\ Records(processes'[p].request_keys, ForksOf(p)')
             /\ Records(processes'[p].exec_request_keys, ExecsOf(p)')
  BY <1>3, <1>4, <1>6, KeysByProcess
<1>8. /\ DOMAIN transactions' \cap DOMAIN exec_transactions' = {}
      /\ \A i \in DOMAIN transactions' : transactions'[i].parent \in DOMAIN processes'
      /\ \A i \in DOMAIN exec_transactions' :
            exec_transactions'[i].process \in DOMAIN processes'
  BY <1>2, <1>3, KeysByProcess DEF ExecsSame
<1> QED
  BY <1>7, <1>8, KeysByProcessAfter

\* The same for an exec.
LEMMA AcknowledgeExecKeys ==
  ASSUME IInv, KeysResolve, NEW c, NEW id, AcknowledgeExec(c, id),
         NEW pid, pid = clients[c].pid
  PROVE  KeysResolve'
<1>1. /\ pid \in DOMAIN processes
      /\ id \in DOMAIN exec_transactions /\ exec_transactions[id].process = pid
  BY DEF AcknowledgeExec, OwnsProcess
<1>2. /\ DOMAIN exec_transactions' = DOMAIN exec_transactions \ {id}
      /\ \A i \in DOMAIN exec_transactions' : exec_transactions'[i] = exec_transactions[i]
      /\ ForksSame
  BY DEF AcknowledgeExec, Without, Restrict, forkVars, ForksSame
<1>3. /\ DOMAIN processes' = DOMAIN processes
      /\ \A p \in DOMAIN processes :
            /\ processes'[p].request_keys = processes[p].request_keys
            /\ p # pid => processes'[p].exec_request_keys = processes[p].exec_request_keys
      /\ processes'[pid].exec_request_keys =
            DropRecord(processes[pid].exec_request_keys, id)
  BY <1>1 DEF AcknowledgeExec, IInv, Shape, ProcessFields
<1>4. /\ \A p : ForksOf(p)' = ForksOf(p)
      /\ \A p : p # pid => ExecsOf(p)' = ExecsOf(p)
      /\ ExecsOf(pid)' = ExecsOf(pid) \ {id}
  BY <1>1, <1>2, SMTT(30) DEF ForksSame, ForksOf, ExecsOf
<1>5. LET keys == processes[pid].exec_request_keys
          new == processes'[pid].exec_request_keys
      IN  /\ \A k : k \in DOMAIN new <=> k \in DOMAIN keys /\ keys[k] \notin {id}
          /\ \A k \in DOMAIN new : new[k] = keys[k]
  BY <1>3 DEF DropRecord, Restrict
<1>6. Records(processes'[pid].exec_request_keys, ExecsOf(pid)')
  <2>1. Records(processes[pid].exec_request_keys, ExecsOf(pid))
    BY <1>1, KeysByProcess
  <2>2. Records(processes'[pid].exec_request_keys, ExecsOf(pid) \ {id})
    BY <1>5, <2>1, RecordsDropped
  <2> QED
    BY <1>4, <2>2
<1>7. ASSUME NEW p \in DOMAIN processes'
      PROVE  /\ Records(processes'[p].request_keys, ForksOf(p)')
             /\ Records(processes'[p].exec_request_keys, ExecsOf(p)')
  BY <1>3, <1>4, <1>6, KeysByProcess
<1>8. /\ DOMAIN transactions' \cap DOMAIN exec_transactions' = {}
      /\ \A i \in DOMAIN transactions' : transactions'[i].parent \in DOMAIN processes'
      /\ \A i \in DOMAIN exec_transactions' :
            exec_transactions'[i].process \in DOMAIN processes'
  BY <1>2, <1>3, KeysByProcess DEF ForksSame
<1> QED
  BY <1>7, <1>8, KeysByProcessAfter

\* The fork protocol.
LEMMA ForkRequestKeys ==
  ASSUME IInv, KeysResolve, NEW c \in DOMAIN clients, ForkRequest(c)
  PROVE  KeysResolve'
<1>1. /\ \A p \in DOMAIN processes : DOMAIN processes[p] = ProcessFields
      /\ \A i \in DOMAIN transactions : DOMAIN transactions[i] = ForkFields
  BY DEF IInv, Shape
<1>2. ExecsSame
  BY ForkFrame DEF ExecFrame, ExecsSame
<1>3. ASSUME NEW key \in RequestKey, PrepareFork(c, key)
      PROVE  KeysResolve'
  BY <1>3, ReserveKeys DEF PrepareFork, ActiveWorker, OwnsProcess
<1>4. ASSUME NEW key \in RequestKey, PrepareForkWithParent(c, key)
      PROVE  KeysResolve'
  BY <1>4, ReserveKeys DEF PrepareForkWithParent, ActiveWorker, OwnsProcess
<1>5. CASE MarkReady(c)
  <2>1. KeysSame
    BY <1>5 DEF MarkReady, processVars, KeysSame
  <2>2. ForksSame
    BY <1>1, <1>5 DEF MarkReady, ForksSame, ForkFields
  <2> QED
    BY <1>2, <2>1, <2>2, KeysQuiet
<1>6. ASSUME NEW id \in DOMAIN transactions, CommitFork(c, id)
      PROVE  KeysResolve'
  <2>1. KeysSame
    BY <1>1, <1>6 DEF CommitFork, KeysSame, ProcessFields
  <2>2. ForksSame
    BY <1>1, <1>6 DEF CommitFork, ForksSame, ForkFields
  <2> QED
    BY <1>2, <2>1, <2>2, KeysQuiet
<1>7. ASSUME NEW id \in DOMAIN transactions, AbortFork(c, id)
      PROVE  KeysResolve'
  <2>1. KeysSame
    BY <1>1, <1>7, Zenon DEF AbortFork, KeysSame, Revoked, ProcessFields
  <2>2. ForksSame
    BY <1>1, <1>7, Zenon DEF AbortFork, AbortedForks, ForksSame, ForkFields
  <2> QED
    BY <1>2, <2>1, <2>2, KeysQuiet
<1>8. ASSUME NEW id \in DOMAIN transactions, AcknowledgeFork(c, id)
      PROVE  KeysResolve'
  BY <1>8, AcknowledgeForkKeys
<1> QED
  BY <1>3, <1>4, <1>5, <1>6, <1>7, <1>8 DEF ForkRequest

\* The exec protocol.
LEMMA ExecRequestKeys ==
  ASSUME IInv, KeysResolve, NEW c \in DOMAIN clients, ExecRequest(c)
  PROVE  KeysResolve'
<1>1. \A i \in DOMAIN exec_transactions : DOMAIN exec_transactions[i] = ExecFields
  BY DEF IInv, Shape
<1>2. ForksSame
  BY ExecRequestFrame DEF ForksSame
<1>3. ASSUME NEW key \in RequestKey, NEW target \in Peer, PrepareExec(c, key, target)
      PROVE  KeysResolve'
  BY <1>3, PrepareExecKeys
<1>4. ASSUME UNCHANGED processes
      PROVE  KeysSame
  BY <1>4 DEF KeysSame
<1>5. CASE MarkExecReady(c)
  <2>1. ExecsSame
    BY <1>1, <1>5 DEF MarkExecReady, ExecsSame, ExecFields
  <2> QED
    BY <1>2, <1>4, <1>5, <2>1, KeysQuiet DEF MarkExecReady, processVars
<1>6. ASSUME NEW id \in DOMAIN exec_transactions, CommitExec(c, id)
      PROVE  KeysResolve'
  <2>1. ExecsSame
    BY <1>1, <1>6 DEF CommitExec, ExecsSame, ExecFields
  <2> QED
    BY <1>2, <1>4, <1>6, <2>1, KeysQuiet DEF CommitExec, processVars
<1>7. ASSUME NEW id \in DOMAIN exec_transactions, AbortExec(c, id)
      PROVE  KeysResolve'
  <2>1. ExecsSame
    BY <1>1, <1>7 DEF AbortExec, AbortedExecs, ExecsSame, ExecFields
  <2> QED
    BY <1>2, <1>4, <1>7, <2>1, KeysQuiet DEF AbortExec, processVars
<1>8. ASSUME NEW id \in DOMAIN exec_transactions, AcknowledgeExec(c, id)
      PROVE  KeysResolve'
  BY <1>8, AcknowledgeExecKeys
<1> QED
  BY <1>3, <1>5, <1>6, <1>7, <1>8 DEF ExecRequest

\* Requests about module state and the pool have no replay record.
LEMMA OtherRequestKeys ==
  ASSUME IInv, KeysResolve, NEW c \in DOMAIN clients,
         StateRequest(c) \/ PoolRequest(c) \/ Shutdown(c)
  PROVE  KeysResolve'
<1>1. \A p \in DOMAIN processes : DOMAIN processes[p] = ProcessFields
  BY DEF IInv, Shape
<1>2. UNCHANGED <<transactions, exec_transactions>>
  BY StateFrame, PoolFrame DEF ExecFrame
<1>3. ASSUME UNCHANGED processes
      PROVE  KeysSame
  BY <1>3 DEF KeysSame
<1>4. ASSUME NEW pid, NEW field, NEW new,
             processes' = [processes EXCEPT ![pid].snapshot[field] = new]
      PROVE  KeysSame
  BY <1>1, <1>4 DEF KeysSame, ProcessFields
<1>5. ASSUME NEW pid, NEW new, processes' = [processes EXCEPT ![pid].prewarm = new]
      PROVE  KeysSame
  BY <1>1, <1>5 DEF KeysSame, ProcessFields
<1>6. ASSUME NEW pid, NEW parent, NEW new,
             processes' = [processes EXCEPT ![pid].parent_pid = parent,
                                            ![pid].prewarm = new]
      PROVE  KeysSame
  BY <1>1, <1>6 DEF KeysSame, ProcessFields
<1>7. ASSUME StateRequest(c)
      PROVE  KeysSame
  <2>1. ASSUME NEW module \in Module, NEW schema \in Schema,
               RegisterModule(c, module, schema)
        PROVE  KeysSame
    BY <1>4, <2>1 DEF RegisterModule
  <2>2. ASSUME NEW key \in StateKey, NEW value \in Value, NEW fork \in ForkPolicy,
               DefineState(c, key, value, fork)
        PROVE  KeysSame
    BY <1>4, <2>2 DEF DefineState
  <2>3. ASSUME NEW key \in StateKey, NEW value \in Value, WriteState(c, key, value)
        PROVE  KeysSame
    BY <1>3, <2>3 DEF WriteState, processVars
  <2> QED
    BY <1>7, <2>1, <2>2, <2>3 DEF StateRequest
<1>8. ASSUME PoolRequest(c)
      PROVE  KeysSame
  <2>1. CASE MarkPrewarmReady(c) \/ MarkPoolReady(c)
    BY <1>5, <2>1 DEF MarkPrewarmReady, MarkPoolReady
  <2>2. CASE ReservePoolWorker(c)
    BY <1>5, <2>2 DEF ReservePoolWorker
  <2>3. ASSUME NEW pid \in DOMAIN processes,
               ActivatePrewarm(c, pid) \/ ReleasePoolWorker(c, pid)
        PROVE  KeysSame
    BY <1>5, <2>3 DEF ActivatePrewarm, ReleasePoolWorker
  <2>4. ASSUME NEW pid \in DOMAIN processes, NEW parent \in DOMAIN processes \cup {NoId},
               NEW launch \in Launch, ActivatePoolWorker(c, pid, parent, launch)
        PROVE  KeysSame
    BY <1>6, <2>4 DEF ActivatePoolWorker
  <2> QED
    BY <1>8, <2>1, <2>2, <2>3, <2>4 DEF PoolRequest
<1>9. ASSUME Shutdown(c)
      PROVE  KeysSame
  BY <1>3, <1>9 DEF Shutdown, processVars
<1>10. KeysSame
  BY <1>7, <1>8, <1>9
<1> QED
  BY <1>2, <1>10, KeysQuiet DEF ForksSame, ExecsSame

\* The end of a connection decides transactions and keeps their records.
LEMMA DisconnectKeys ==
  ASSUME IInv, KeysResolve, NEW c \in DOMAIN clients, Disconnect(c)
  PROVE  KeysResolve'
<1>1. /\ \A p \in DOMAIN processes : DOMAIN processes[p] = ProcessFields
      /\ \A i \in DOMAIN transactions : DOMAIN transactions[i] = ForkFields
      /\ \A i \in DOMAIN exec_transactions : DOMAIN exec_transactions[i] = ExecFields
  BY DEF IInv, Shape
<1>2. PICK forks, execs :
        /\ transactions' = AbortedForks(forks)
        /\ exec_transactions' = AbortedExecs(execs)
        /\ processes' = [pid \in DOMAIN processes |->
               LET p == [processes[pid] EXCEPT !.prewarm = Released(@, {c})]
               IN  IF pid \in ChildrenOf(forks) THEN Revoked(p) ELSE p]
  BY DEF Disconnect
<1>3. KeysSame
  BY <1>1, <1>2, Zenon DEF KeysSame, Revoked, ProcessFields
<1>4. ForksSame /\ ExecsSame
  BY <1>1, <1>2, Zenon DEF ForksSame, ExecsSame, AbortedForks, AbortedExecs, ForkFields, ExecFields
<1> QED
  BY <1>3, <1>4, KeysQuiet

\* The records after the death of a native process: a process that was taken
\* over keeps those of its undecided forks.
LEMMA ExitRecords ==
  ASSUME IInv, NEW peer, NEW status, ProcessExited(peer, status),
         NEW pid \in DOMAIN processes'
  PROVE  LET p == processes[pid]
             q == processes'[pid]
         IN  /\ q.request_keys =
                   IF pid \notin Replaced(peer) THEN p.request_keys
                   ELSE Restrict(p.request_keys,
                                 {k \in DOMAIN p.request_keys :
                                     p.request_keys[k] \notin Spent(peer)})
             /\ q.exec_request_keys =
                   IF pid \in Replaced(peer) THEN EmptyMap ELSE p.exec_request_keys
<1> DEFINE moved(i) ==
             [processes[i] EXCEPT
                 !.peer = Successor(i, peer),
                 !.prewarm = Released(@, Cut(peer)),
                 !.parent_pid = Reparented(@, Ending(peer)),
                 !.request_keys =
                     IF i \notin Replaced(peer) THEN @
                     ELSE Restrict(@, {k \in DOMAIN @ : @[k] \notin Spent(peer)}),
                 !.exec_request_keys = IF i \in Replaced(peer) THEN EmptyMap ELSE @]
<1>1. processes' = [i \in DOMAIN processes \ Ending(peer) |->
            IF i \in ChildrenOf(ForksLost(peer)) THEN Revoked(moved(i)) ELSE moved(i)]
  BY DEF ProcessExited, Dying, Ending, Replaced, Cut, ForksLost, Spent
<1>2. pid \in DOMAIN processes
  BY <1>1, Zenon
<1>3. DOMAIN processes[pid] = ProcessFields
  BY <1>2 DEF IInv, Shape
<1>4. /\ DOMAIN moved(pid) = ProcessFields
      /\ moved(pid).request_keys =
            IF pid \notin Replaced(peer) THEN processes[pid].request_keys
            ELSE Restrict(processes[pid].request_keys,
                          {k \in DOMAIN processes[pid].request_keys :
                              processes[pid].request_keys[k] \notin Spent(peer)})
      /\ moved(pid).exec_request_keys =
            IF pid \in Replaced(peer) THEN EmptyMap
            ELSE processes[pid].exec_request_keys
  BY <1>2, <1>3 DEF ProcessFields
<1>5. processes'[pid] = IF pid \in ChildrenOf(ForksLost(peer))
                        THEN Revoked(moved(pid)) ELSE moved(pid)
  BY <1>1, Zenon
<1> HIDE DEF moved
<1> QED
  BY <1>4, <1>5 DEF Revoked, ProcessFields

\* The death of a native process drops records and transactions alike.
LEMMA ExitKeys ==
  ASSUME IInv, KeysResolve, NEW peer, NEW status, ProcessExited(peer, status)
  PROVE  KeysResolve'
<1>1. /\ DOMAIN processes' = DOMAIN processes \ Ending(peer)
      /\ DOMAIN transactions' = DOMAIN transactions \ Spent(peer)
      /\ \A id \in DOMAIN transactions' : transactions'[id].parent = transactions[id].parent
      /\ DOMAIN exec_transactions' =
            {i \in DOMAIN exec_transactions :
                 exec_transactions[i].process \notin Ending(peer) \cup Replaced(peer)}
      /\ \A id \in DOMAIN exec_transactions' :
            exec_transactions'[id].process = exec_transactions[id].process
  BY ExitProcesses, ExitForks, ExitExecs
<1>2. \A id \in DOMAIN transactions :
         (transactions[id].parent \in Ending(peer)) => id \in Spent(peer)
  BY DEF Spent
<1>3. \A id \in Spent(peer) : transactions[id].parent \in Ending(peer) \cup Replaced(peer)
  BY DEF Spent
<1>4. ASSUME NEW pid \in DOMAIN processes'
      PROVE  /\ Records(processes'[pid].request_keys, ForksOf(pid)')
             /\ Records(processes'[pid].exec_request_keys, ExecsOf(pid)')
  <2>1. pid \in DOMAIN processes /\ pid \notin Ending(peer)
    BY <1>1
  <2>2. /\ Records(processes[pid].request_keys, ForksOf(pid))
        /\ Records(processes[pid].exec_request_keys, ExecsOf(pid))
    BY <2>1, KeysByProcess
  <2>3. ForksOf(pid)' = ForksOf(pid) \ Spent(peer)
    BY <1>1 DEF ForksOf
  <2>4. CASE pid \in Replaced(peer)
    <3>1. ExecsOf(pid)' = {}
      BY <1>1, <2>4 DEF ExecsOf
    <3>2. processes'[pid].exec_request_keys = EmptyMap
      BY <2>4, ExitRecords
    <3>3. LET keys == processes[pid].request_keys
              new == processes'[pid].request_keys
          IN  /\ \A k : k \in DOMAIN new <=> k \in DOMAIN keys /\ keys[k] \notin Spent(peer)
              /\ \A k \in DOMAIN new : new[k] = keys[k]
      <4> DEFINE keys == processes[pid].request_keys
                 kept == {k \in DOMAIN keys : keys[k] \notin Spent(peer)}
      <4>1. processes'[pid].request_keys = Restrict(keys, kept)
        BY <2>4, ExitRecords
      <4>2. DOMAIN Restrict(keys, kept) = kept
            /\ \A k \in kept : Restrict(keys, kept)[k] = keys[k]
        BY DEF Restrict
      <4> QED
        BY <4>1, <4>2
    <3>4. Records(processes'[pid].request_keys, ForksOf(pid) \ Spent(peer))
      BY <2>2, <3>3, RecordsDropped
    <3> QED
      BY <2>3, <3>1, <3>2, <3>4, NoRecords
  <2>5. CASE pid \notin Replaced(peer)
    <3>1. ExecsOf(pid)' = ExecsOf(pid)
      BY <1>1, <2>1, <2>5 DEF ExecsOf
    <3>2. ForksOf(pid)' = ForksOf(pid)
      BY <1>3, <2>1, <2>3, <2>5 DEF ForksOf
    <3>3. /\ processes'[pid].exec_request_keys = processes[pid].exec_request_keys
          /\ processes'[pid].request_keys = processes[pid].request_keys
      BY <2>5, ExitRecords
    <3> QED
      BY <2>2, <3>1, <3>2, <3>3
  <2> QED
    BY <2>4, <2>5
<1>5. /\ DOMAIN transactions' \cap DOMAIN exec_transactions' = {}
      /\ \A i \in DOMAIN transactions' : transactions'[i].parent \in DOMAIN processes'
      /\ \A i \in DOMAIN exec_transactions' :
            exec_transactions'[i].process \in DOMAIN processes'
  BY <1>1, <1>2, KeysByProcess
<1> QED
  BY <1>4, <1>5, KeysByProcessAfter

\* Any step.
LEMMA KeysStep ==
  ASSUME IInv, KeysResolve, [Next]_vars
  PROVE  KeysResolve'
<1>1. ASSUME NEW peer \in Peer, Connect(peer)
      PROVE  KeysResolve'
  BY <1>1, ConnectKeys
<1>2. ASSUME NEW c \in DOMAIN clients,
             \/ ForkRequest(c) \/ ExecRequest(c)
             \/ StateRequest(c) \/ PoolRequest(c) \/ Shutdown(c)
      PROVE  KeysResolve'
  BY <1>2, ForkRequestKeys, ExecRequestKeys, OtherRequestKeys
<1>3. ASSUME NEW c \in DOMAIN clients, Disconnect(c)
      PROVE  KeysResolve'
  BY <1>3, DisconnectKeys
<1>4. ASSUME NEW peer \in Peer, NEW status \in Status, ProcessExited(peer, status)
      PROVE  KeysResolve'
  BY <1>4, ExitKeys
<1>5. CASE UNCHANGED vars
  BY <1>5, KeysQuiet DEF vars, forkVars, execVars, processVars, KeysSame, ForksSame,
                         ExecsSame
<1> QED
  BY <1>1, <1>2, <1>3, <1>4, <1>5 DEF Next, Transport

\* For any quotas and any number of transactions: the replay records of a
\* process are exactly its forks and execs, one key for each, and no fork or
\* exec outlives its process; so a repeated prepare_fork or prepare_exec finds
\* the transaction its key names, also after acknowledge, exec take-over and
\* the death of either image.
THEOREM KeysCorrect == Spec => []KeysResolve
<1>1. Init => IInv /\ KeysResolve
  BY InitIInv DEF Init, EmptyMap, KeysResolve
<1>2. IInv /\ KeysResolve /\ [Next]_vars => (IInv /\ KeysResolve)'
  BY NextStep, KeysStep
<1> QED
  BY <1>1, <1>2, PTL DEF Spec
-----------------------------------------------------------------------------
(* Module state *)

\* Process `n`, or the reservation of fork `n`, has the states `st`.
HoldsIn(procs, txs, kind, n, st) ==
    \/ kind = "process" /\ n \in DOMAIN procs /\ st = procs[n].snapshot.states
    \/ /\ kind = "fork" /\ n \in DOMAIN txs
       /\ \E s \in txs[n].snapshot : st = s.states

Holds(kind, n, st) == HoldsIn(processes, transactions, kind, n, st)

\* Snapshots have their fields, and a reservation has one.
SnapshotShape ==
    /\ \A pid \in DOMAIN processes :
          DOMAIN processes[pid].snapshot = {"modules", "states"}
    /\ \A id \in DOMAIN transactions : \A s \in transactions[id].snapshot :
          DOMAIN s = {"modules", "states"} /\ \A t \in transactions[id].snapshot : s = t

\* Object identifiers are issued once and objects have their fields.
ObjectShape ==
    /\ next_object \in Nat \ {0}
    /\ \A i \in DOMAIN objects :
          i \in 1..(next_object - 1) /\ DOMAIN objects[i] = {"value", "initial", "fork"}
    /\ \A kind, n, st : Holds(kind, n, st) => IsFiniteSet(DOMAIN st)

\* The objects are those that somebody has.
Exact ==
    \A i : i \in DOMAIN objects <=> \E kind, n, st : Holds(kind, n, st) /\ i \in Range(st)

\* No holder has an object twice, and two holders only a shared one.
Private ==
    /\ \A kind, n, st : Holds(kind, n, st) => IsInjective(st)
    /\ \A j, m, st, k, n, su :
          (Holds(j, m, st) /\ Holds(k, n, su) /\ (j # k \/ m # n)) =>
              \A i \in Range(st) \cap Range(su) : objects[i].fork = "Share"

ObjectInv == SnapshotShape /\ ObjectShape /\ Exact /\ Private

\* Which objects are referenced.
LEMMA ReferencedHeld ==
  ASSUME NEW procs, NEW txs, NEW i
  PROVE  i \in Referenced(procs, txs) <=>
            \E kind, n, st : HoldsIn(procs, txs, kind, n, st) /\ i \in Range(st)
<1>1. i \in Referenced(procs, txs) <=>
         \/ \E pid \in DOMAIN procs : i \in Range(procs[pid].snapshot.states)
         \/ \E id \in DOMAIN txs : \E s \in txs[id].snapshot :
               i \in Range(s.states)
  <2> DEFINE A == UNION {Range(procs[pid].snapshot.states) : pid \in DOMAIN procs}
             Of(id) == UNION {Range(s.states) : s \in txs[id].snapshot}
             B == UNION {Of(id) : id \in DOMAIN txs}
  <2>1. Referenced(procs, txs) = A \cup B
    BY DEF Referenced
  <2>2. i \in A <=> \E pid \in DOMAIN procs : i \in Range(procs[pid].snapshot.states)
    OBVIOUS
  <2>3. ASSUME NEW id
        PROVE  i \in Of(id) <=> \E s \in txs[id].snapshot : i \in Range(s.states)
    OBVIOUS
  <2> HIDE DEF A, Of
  <2>4. i \in B <=> \E id \in DOMAIN txs : i \in Of(id)
    OBVIOUS
  <2> HIDE DEF B
  <2> QED
    BY <2>1, <2>2, <2>3, <2>4
<1>2. ASSUME NEW pid \in DOMAIN procs, i \in Range(procs[pid].snapshot.states)
      PROVE  \E kind, n, st : HoldsIn(procs, txs, kind, n, st) /\ i \in Range(st)
  <2>1. HoldsIn(procs, txs, "process", pid, procs[pid].snapshot.states)
    BY DEF HoldsIn
  <2> QED
    BY <1>2, <2>1
<1>3. ASSUME NEW id \in DOMAIN txs, NEW s \in txs[id].snapshot,
             i \in Range(s.states)
      PROVE  \E kind, n, st : HoldsIn(procs, txs, kind, n, st) /\ i \in Range(st)
  <2>1. HoldsIn(procs, txs, "fork", id, s.states)
    BY DEF HoldsIn
  <2> QED
    BY <1>3, <2>1
<1>4. ASSUME NEW kind, NEW n, NEW st, HoldsIn(procs, txs, kind, n, st), i \in Range(st)
      PROVE  \/ \E pid \in DOMAIN procs : i \in Range(procs[pid].snapshot.states)
             \/ \E id \in DOMAIN txs : \E s \in txs[id].snapshot :
                   i \in Range(s.states)
  BY <1>4 DEF HoldsIn
<1> QED
  BY <1>1, <1>2, <1>3, <1>4

\* The properties that the runs check, in terms of holders.
LEMMA ObjectInvImplies ==
  ASSUME ObjectInv
  PROVE  ObjectsExact /\ PrivateObjects
<1>1. ObjectsExact
  BY ReferencedHeld DEF ObjectInv, Exact, ObjectsExact, Holds
<1>2. \A h \in Holders : \E kind, n, st : h = <<kind, n, st>> /\ Holds(kind, n, st)
  <2> SUFFICES ASSUME NEW h \in Holders
               PROVE  \E kind, n, st : h = <<kind, n, st>> /\ Holds(kind, n, st)
    OBVIOUS
  <2>1. CASE \E pid \in DOMAIN processes :
                h = <<"process", pid, processes[pid].snapshot.states>>
    <3>1. PICK pid \in DOMAIN processes :
                h = <<"process", pid, processes[pid].snapshot.states>>
      BY <2>1
    <3>2. Holds("process", pid, processes[pid].snapshot.states)
      BY DEF Holds, HoldsIn
    <3> QED
      BY <3>1, <3>2
  <2>2. CASE \E id \in DOMAIN transactions : \E s \in transactions[id].snapshot :
                h = <<"fork", id, s.states>>
    <3>1. PICK id \in DOMAIN transactions : \E s \in transactions[id].snapshot :
                h = <<"fork", id, s.states>>
      BY <2>2
    <3>0. PICK s \in transactions[id].snapshot : h = <<"fork", id, s.states>>
      BY <3>1
    <3>2. Holds("fork", id, s.states)
      BY DEF Holds, HoldsIn
    <3> QED
      BY <3>0, <3>2
  <2> QED
    BY <2>1, <2>2 DEF Holders
<1>3. \A kind, n, st, su : (Holds(kind, n, st) /\ Holds(kind, n, su)) => st = su
  BY DEF ObjectInv, SnapshotShape, Holds, HoldsIn
<1>4. ASSUME NEW h \in Holders
      PROVE  IsInjective(h[3])
  <2>1. PICK kind, n, st : h = <<kind, n, st>> /\ Holds(kind, n, st)
    BY <1>2
  <2>2. IsInjective(st) /\ h[3] = st
    BY <2>1 DEF ObjectInv, Private
  <2> QED
    BY <2>2
<1>5. ASSUME NEW g \in Holders, NEW h \in Holders, g # h,
             NEW i \in Range(g[3]) \cap Range(h[3])
      PROVE  objects[i].fork = "Share"
  <2>1. PICK j, m, st : g = <<j, m, st>> /\ Holds(j, m, st)
    BY <1>2
  <2>2. PICK k, n, su : h = <<k, n, su>> /\ Holds(k, n, su)
    BY <1>2
  <2>3. j # k \/ m # n
    BY <1>3, <1>5, <2>1, <2>2
  <2>4. i \in Range(st) \cap Range(su)
    BY <2>1, <2>2
  <2> QED
    BY <2>1, <2>2, <2>3, <2>4 DEF ObjectInv, Private
<1> QED
  BY <1>1, <1>4, <1>5 DEF PrivateObjects

\* No snapshot is added or extended.
SnapshotsFewer ==
    /\ DOMAIN processes' \subseteq DOMAIN processes
    /\ \A pid \in DOMAIN processes' :
          /\ DOMAIN processes'[pid].snapshot = DOMAIN processes[pid].snapshot
          /\ processes'[pid].snapshot.states = processes[pid].snapshot.states
    /\ DOMAIN transactions' \subseteq DOMAIN transactions
    /\ \A id \in DOMAIN transactions' :
          transactions'[id].snapshot \subseteq transactions[id].snapshot

\* Who holds something after such a step held it before.
LEMMA HoldersFewer ==
  ASSUME SnapshotsFewer
  PROVE  \A kind, n, st : Holds(kind, n, st)' => Holds(kind, n, st)
<1> SUFFICES ASSUME NEW kind, NEW n, NEW st, Holds(kind, n, st)'
             PROVE  Holds(kind, n, st)
  OBVIOUS
<1>1. HoldsIn(processes', transactions', kind, n, st)
  BY DEF Holds
<1> QED
  BY <1>1 DEF Holds, HoldsIn, SnapshotsFewer

\* Such a step leaves objects private, if their policies stay.
LEMMA PrivateFewer ==
  ASSUME ObjectInv, SnapshotsFewer, next_object' = next_object,
         DOMAIN objects' \subseteq DOMAIN objects,
         \A i \in DOMAIN objects' : /\ DOMAIN objects'[i] = DOMAIN objects[i]
                                    /\ objects'[i].fork = objects[i].fork,
         Exact'
  PROVE  ObjectInv'
<1>1. ObjectShape'
  <2>1. \A i \in DOMAIN objects' :
           i \in 1..(next_object' - 1) /\ DOMAIN objects'[i] = {"value", "initial", "fork"}
    BY DEF ObjectInv, ObjectShape
  <2>2. \A kind, n, st : Holds(kind, n, st)' => IsFiniteSet(DOMAIN st)
    BY HoldersFewer DEF ObjectInv, ObjectShape
  <2> QED
    BY <2>1, <2>2 DEF ObjectInv, ObjectShape
<1>0. SnapshotShape'
  BY DEF ObjectInv, SnapshotShape, SnapshotsFewer
<1>2. \A kind, n, st : Holds(kind, n, st)' => IsInjective(st)
  BY HoldersFewer DEF ObjectInv, Private
<1>3. ASSUME NEW j, NEW m, NEW st, NEW k, NEW n, NEW su,
             Holds(j, m, st)', Holds(k, n, su)', j # k \/ m # n,
             NEW i \in Range(st) \cap Range(su)
      PROVE  objects'[i].fork = "Share"
  <2>1. Holds(j, m, st) /\ Holds(k, n, su)
    BY <1>3, HoldersFewer
  <2>2. objects[i].fork = "Share"
    BY <1>3, <2>1 DEF ObjectInv, Private
  <2>3. i \in DOMAIN objects'
    BY <1>3 DEF Exact
  <2> QED
    BY <2>2, <2>3
<1>4. Private'
  BY <1>2, <1>3 DEF Private
<1> QED
  BY <1>0, <1>1, <1>4 DEF ObjectInv

\* A step that changes neither who holds what nor which objects there are.
LEMMA ObjectsKept ==
  ASSUME ObjectInv, SnapshotsFewer, next_object' = next_object,
         \A kind, n, st : Holds(kind, n, st) => Holds(kind, n, st)',
         DOMAIN objects' = DOMAIN objects,
         \A i \in DOMAIN objects' : /\ DOMAIN objects'[i] = DOMAIN objects[i]
                                    /\ objects'[i].fork = objects[i].fork
  PROVE  ObjectInv'
<1>1. \A kind, n, st : Holds(kind, n, st)' <=> Holds(kind, n, st)
  BY HoldersFewer
<1>2. Exact'
  BY <1>1 DEF ObjectInv, Exact
<1> QED
  BY <1>2, PrivateFewer

\* A step that drops snapshots and collects what nobody holds any more.
LEMMA ObjectsCollected ==
  ASSUME ObjectInv, SnapshotsFewer, next_object' = next_object, CollectObjects
  PROVE  ObjectInv'
<1>1. \A i : i \in Referenced(processes', transactions') <=>
                \E kind, n, st : Holds(kind, n, st)' /\ i \in Range(st)
  BY ReferencedHeld DEF Holds
<1>2. \A i : i \in Referenced(processes', transactions') => i \in DOMAIN objects
  BY <1>1, HoldersFewer DEF ObjectInv, Exact
<1>3. /\ DOMAIN objects' = DOMAIN objects \cap Referenced(processes', transactions')
      /\ \A i \in DOMAIN objects' : objects'[i] = objects[i]
  BY DEF CollectObjects, Keep, Restrict
<1>4. Exact'
  BY <1>1, <1>2, <1>3 DEF Exact
<1> QED
  BY <1>3, <1>4, PrivateFewer

\* Requests that leave snapshots and objects alone.
LEMMA ObjectsQuiet ==
  ASSUME ObjectInv, UNCHANGED <<objects, next_object>>,
         DOMAIN processes' = DOMAIN processes,
         \A pid \in DOMAIN processes :
            /\ DOMAIN processes'[pid].snapshot = DOMAIN processes[pid].snapshot
            /\ processes'[pid].snapshot.states = processes[pid].snapshot.states,
         DOMAIN transactions' \subseteq DOMAIN transactions,
         \A id \in DOMAIN transactions' :
            transactions'[id].snapshot = transactions[id].snapshot,
         \A id \in DOMAIN transactions \ DOMAIN transactions' :
            transactions[id].snapshot = {}
  PROVE  ObjectInv'
<1>1. SnapshotsFewer
  BY DEF SnapshotsFewer
<1>2. ASSUME NEW kind, NEW n, NEW st, Holds(kind, n, st)
      PROVE  HoldsIn(processes', transactions', kind, n, st)
  BY <1>2 DEF Holds, HoldsIn
<1> QED
  BY <1>1, <1>2, ObjectsKept DEF Holds

\* A new holder: what it has is new, or shared.
LEMMA HolderAdded ==
  ASSUME ObjectInv, SnapshotShape', NEW kind, NEW n, NEW new,
         IsFiniteSet(DOMAIN new), IsInjective(new),
         \A st : ~Holds(kind, n, st),
         \A k, m, st : Holds(k, m, st)' <=>
            Holds(k, m, st) \/ (k = kind /\ m = n /\ st = new),
         next_object' \in Nat, next_object <= next_object',
         DOMAIN objects' = DOMAIN objects \cup Range(new),
         \A i \in DOMAIN objects : objects'[i] = objects[i],
         \A i \in Range(new) : i \in DOMAIN objects => objects[i].fork = "Share",
         \A i \in Range(new) \ DOMAIN objects :
            /\ i \in 1..(next_object' - 1)
            /\ DOMAIN objects'[i] = {"value", "initial", "fork"}
  PROVE  ObjectInv'
<1>1. ObjectShape'
  BY DEF ObjectInv, ObjectShape
<1>2. Exact'
  <2>1. \A i : (\E k, m, st : Holds(k, m, st)' /\ i \in Range(st)) <=>
               (\E k, m, st : Holds(k, m, st) /\ i \in Range(st)) \/ i \in Range(new)
    OBVIOUS
  <2> QED
    BY <2>1 DEF ObjectInv, Exact
<1>3. \A k, m, st : Holds(k, m, st) => \A i \in Range(st) : i \in DOMAIN objects
  BY DEF ObjectInv, Exact
<1>4. \A k, m, st : Holds(k, m, st)' => IsInjective(st)
  BY DEF ObjectInv, Private
<1>5. ASSUME NEW j, NEW m, NEW st, NEW k, NEW l, NEW su,
             Holds(j, m, st)', Holds(k, l, su)', j # k \/ m # l,
             NEW i \in Range(st) \cap Range(su)
      PROVE  objects'[i].fork = "Share"
  <2>1. i \in DOMAIN objects
    BY <1>3, <1>5
  <2>2. CASE i \in Range(new)
    BY <2>1, <2>2
  <2>3. CASE i \notin Range(new)
    <3>1. Holds(j, m, st) /\ Holds(k, l, su)
      BY <1>5, <2>3
    <3>2. objects[i].fork = "Share"
      BY <1>5, <3>1 DEF ObjectInv, Private
    <3> QED
      BY <2>1, <3>2
  <2> QED
    BY <2>2, <2>3
<1>6. Private'
  BY <1>4, <1>5 DEF Private
<1> QED
  BY <1>1, <1>2, <1>6 DEF ObjectInv

\* A reservation becomes a process: it hands on what it has.
LEMMA HolderMoved ==
  ASSUME ObjectInv, SnapshotShape', NEW id, NEW child,
         \A st : ~Holds("process", child, st),
         \A k, m, st : Holds(k, m, st)' <=>
            \/ Holds(k, m, st) /\ (k # "fork" \/ m # id)
            \/ k = "process" /\ m = child /\ Holds("fork", id, st),
         UNCHANGED <<objects, next_object>>
  PROVE  ObjectInv'
<1>1. ObjectShape'
  BY DEF ObjectInv, ObjectShape
<1>2. Exact'
  <2>1. ASSUME NEW k, NEW m, NEW st, Holds(k, m, st)
        PROVE  \E j, l : Holds(j, l, st)'
    <3>1. CASE k # "fork" \/ m # id
      BY <2>1, <3>1
    <3>2. CASE k = "fork" /\ m = id
      <4>1. Holds("process", child, st)'
        BY <2>1, <3>2
      <4> QED
        BY <4>1
    <3> QED
      BY <3>1, <3>2
  <2>2. \A k, m, st : Holds(k, m, st)' => \E j, l : Holds(j, l, st)
    OBVIOUS
  <2>3. \A i : (\E k, m, st : Holds(k, m, st)' /\ i \in Range(st)) <=>
               (\E k, m, st : Holds(k, m, st) /\ i \in Range(st))
    BY <2>1, <2>2
  <2> QED
    BY <2>3 DEF ObjectInv, Exact
<1>3. \A k, m, st : Holds(k, m, st)' => IsInjective(st)
  BY DEF ObjectInv, Private
<1>4. ASSUME NEW j, NEW m, NEW st, NEW k, NEW l, NEW su,
             Holds(j, m, st)', Holds(k, l, su)', j # k \/ m # l,
             NEW i \in Range(st) \cap Range(su)
      PROVE  objects'[i].fork = "Share"
  <2>1. \E a, b, c, d : Holds(a, b, st) /\ Holds(c, d, su) /\ (a # c \/ b # d)
    <3>1. CASE j = "process" /\ m = child
      <4>1. Holds("fork", id, st)
        BY <1>4, <3>1
      <4>2. Holds(k, l, su) /\ (k # "fork" \/ l # id)
        BY <1>4, <3>1
      <4> QED
        BY <4>1, <4>2
    <3>2. CASE k = "process" /\ l = child
      <4>1. Holds("fork", id, su)
        BY <1>4, <3>2
      <4>2. Holds(j, m, st) /\ (j # "fork" \/ m # id)
        BY <1>4, <3>2
      <4> QED
        BY <4>1, <4>2
    <3>3. CASE (j # "process" \/ m # child) /\ (k # "process" \/ l # child)
      BY <1>4, <3>3
    <3> QED
      BY <3>1, <3>2, <3>3
  <2> QED
    BY <1>4, <2>1 DEF ObjectInv, Private
<1>5. Private'
  BY <1>3, <1>4 DEF Private
<1> QED
  BY <1>1, <1>2, <1>5 DEF ObjectInv

\* A holder gets one more state, with an object of its own.
LEMMA HolderExtended ==
  ASSUME ObjectInv, SnapshotShape', NEW pid, NEW key, NEW old, NEW object,
         Holds("process", pid, old), key \notin DOMAIN old,
         \A k, m, st : Holds(k, m, st)' <=>
            \/ Holds(k, m, st) /\ (k # "process" \/ m # pid)
            \/ k = "process" /\ m = pid /\ st = With(old, key, next_object),
         objects' = With(objects, next_object, object),
         DOMAIN object = {"value", "initial", "fork"},
         next_object' = next_object + 1
  PROVE  ObjectInv'
<1>0. PICK new : new = With(old, key, next_object)
  OBVIOUS
<1>1. /\ DOMAIN new = DOMAIN old \cup {key}
      /\ new[key] = next_object
      /\ \A k \in DOMAIN old : new[k] = old[k]
  BY <1>0 DEF With
<1>2. /\ DOMAIN objects' = DOMAIN objects \cup {next_object}
      /\ objects'[next_object] = object
      /\ \A i \in DOMAIN objects : i # next_object => objects'[i] = objects[i]
  BY DEF With
<1>3. next_object \notin DOMAIN objects
  BY DEF ObjectInv, ObjectShape
<1>4. \A k, m, st : Holds(k, m, st) => \A i \in Range(st) : i \in DOMAIN objects
  BY DEF ObjectInv, Exact
<1>5. Range(new) = Range(old) \cup {next_object}
  BY <1>1 DEF Range
<1>6. next_object \notin Range(old)
  BY <1>3, <1>4
<1>7. IsFiniteSet(DOMAIN new)
  BY <1>1, FS_AddElement DEF ObjectInv, ObjectShape
<1>8. IsInjective(new)
  <2>1. IsInjective(old)
    BY DEF ObjectInv, Private
  <2>2. \A k \in DOMAIN old : old[k] # next_object
    BY <1>6 DEF Range
  <2> QED
    BY <1>1, <2>1, <2>2 DEF IsInjective
<1>9. \A k, m, st : Holds(k, m, st)' <=>
            \/ Holds(k, m, st) /\ (k # "process" \/ m # pid)
            \/ k = "process" /\ m = pid /\ st = new
  BY <1>0
<1>10. ObjectShape'
  BY <1>2, <1>7, <1>9 DEF ObjectInv, ObjectShape
<1>11. \A st : Holds("process", pid, st) => st = old
  BY DEF Holds, HoldsIn
<1>12. Exact'
  <2>1. \A i : (\E k, m, st : Holds(k, m, st)' /\ i \in Range(st)) <=>
               (\E k, m, st : Holds(k, m, st) /\ i \in Range(st)) \/ i = next_object
    <3>1. ASSUME NEW i, NEW k, NEW m, NEW st, Holds(k, m, st), i \in Range(st)
          PROVE  \E j, l, su : Holds(j, l, su)' /\ i \in Range(su)
      <4>1. CASE k # "process" \/ m # pid
        BY <1>9, <3>1, <4>1
      <4>2. CASE k = "process" /\ m = pid
        <5>1. i \in Range(new) /\ Holds("process", pid, new)'
          BY <1>5, <1>9, <1>11, <3>1, <4>2
        <5> QED
          BY <5>1
      <4> QED
        BY <4>1, <4>2
    <3>2. Holds("process", pid, new)' /\ next_object \in Range(new)
      BY <1>5, <1>9
    <3>3. ASSUME NEW i, NEW k, NEW m, NEW st, Holds(k, m, st)', i \in Range(st)
          PROVE  (\E j, l, su : Holds(j, l, su) /\ i \in Range(su)) \/ i = next_object
      BY <1>5, <1>9, <3>3
    <3> QED
      BY <3>1, <3>2, <3>3
  <2> QED
    BY <1>2, <2>1 DEF ObjectInv, Exact
<1>13. \A k, m, st : Holds(k, m, st)' => IsInjective(st)
  BY <1>8, <1>9 DEF ObjectInv, Private
<1>14. ASSUME NEW j, NEW m, NEW st, NEW k, NEW l, NEW su,
             Holds(j, m, st)', Holds(k, l, su)', j # k \/ m # l,
             NEW i \in Range(st) \cap Range(su)
      PROVE  objects'[i].fork = "Share"
  <2>1. \E sv, sw : /\ Holds(j, m, sv) /\ Holds(k, l, sw)
                    /\ i \in Range(sv) \cap Range(sw)
    <3>1. CASE j = "process" /\ m = pid
      <4>1. Holds(k, l, su) /\ st = new
        BY <1>9, <1>14, <3>1
      <4>2. i \in DOMAIN objects
        BY <1>4, <1>14, <4>1
      <4>3. i \in Range(old)
        BY <1>3, <1>5, <1>14, <4>1, <4>2
      <4> QED
        BY <1>14, <3>1, <4>1, <4>3
    <3>2. CASE k = "process" /\ l = pid
      <4>1. Holds(j, m, st) /\ su = new
        BY <1>9, <1>14, <3>2
      <4>2. i \in DOMAIN objects
        BY <1>4, <1>14, <4>1
      <4>3. i \in Range(old)
        BY <1>3, <1>5, <1>14, <4>1, <4>2
      <4> QED
        BY <1>14, <3>2, <4>1, <4>3
    <3>3. CASE (j # "process" \/ m # pid) /\ (k # "process" \/ l # pid)
      BY <1>9, <1>14, <3>3
    <3> QED
      BY <3>1, <3>2, <3>3
  <2>2. objects[i].fork = "Share" /\ i \in DOMAIN objects
    BY <1>4, <1>14, <2>1 DEF ObjectInv, Private
  <2> QED
    BY <1>2, <1>3, <2>2
<1>15. Private'
  BY <1>13, <1>14 DEF Private
<1> QED
  BY <1>10, <1>12, <1>15 DEF ObjectInv

\* A root process starts with nothing.
LEMMA ConnectRootObjects ==
  ASSUME IInv, ObjectInv, NEW peer, ConnectRoot(peer)
  PROVE  ObjectInv'
<1>1. /\ next_pid \notin DOMAIN processes
      /\ UNCHANGED <<objects, next_object, transactions>>
  BY DEF ConnectRoot, IInv, Shape, objectVars, forkVars
<1>2. /\ DOMAIN processes' = DOMAIN processes \cup {next_pid}
      /\ processes'[next_pid].snapshot = EmptySnapshot
      /\ \A pid \in DOMAIN processes : processes'[pid] = processes[pid]
  BY <1>1 DEF ConnectRoot, With, NewProcess
<1>3. /\ DOMAIN EmptySnapshot = {"modules", "states"}
      /\ EmptySnapshot.states = EmptyMap
      /\ DOMAIN EmptyMap = {}
  BY DEF EmptySnapshot, EmptyMap
<1>4. SnapshotShape'
  BY <1>1, <1>2, <1>3 DEF ObjectInv, SnapshotShape
<1>5. \A st : ~Holds("process", next_pid, st)
  BY <1>1 DEF Holds, HoldsIn
<1>6. \A k, m, st : HoldsIn(processes', transactions', k, m, st) <=>
         Holds(k, m, st) \/ (k = "process" /\ m = next_pid /\ st = EmptyMap)
  BY <1>1, <1>2, <1>3 DEF Holds, HoldsIn
<1>7. IsFiniteSet(DOMAIN EmptyMap) /\ IsInjective(EmptyMap) /\ Range(EmptyMap) = {}
  BY <1>3, FS_EmptySet DEF IsInjective, Range
<1>8. next_object' \in Nat /\ next_object <= next_object'
  BY <1>1 DEF ObjectInv, ObjectShape
<1> QED
  BY <1>1, <1>4, <1>5, <1>6, <1>7, <1>8, HolderAdded DEF Holds

\* The child of a fork takes the snapshot of its reservation.
LEMMA ConnectForkObjects ==
  ASSUME IInv, Agreed, ObjectInv, NEW peer, NEW id \in DOMAIN transactions,
         ConnectFork(peer, id)
  PROVE  ObjectInv'
<1> DEFINE t == transactions[id]
           given == CHOOSE s \in t.snapshot : TRUE
<1>1. /\ t.state = "Prepared" /\ Cardinality(t.snapshot) = 1
      /\ t.child \notin DOMAIN processes
      /\ DOMAIN t = ForkFields
  BY DEF ConnectFork, Agreed, ForkAgreement, IInv, Shape
<1>2. t.snapshot # {}
  BY <1>1, FS_EmptySet
<1>3. given \in t.snapshot
  BY <1>2
<1>4. \A s \in t.snapshot : s = given /\ DOMAIN s = {"modules", "states"}
  BY <1>3 DEF ObjectInv, SnapshotShape
<1>5. /\ DOMAIN processes' = DOMAIN processes \cup {t.child}
      /\ processes'[t.child].snapshot = given
      /\ \A pid \in DOMAIN processes : processes'[pid] = processes[pid]
      /\ UNCHANGED <<objects, next_object>>
  BY <1>1 DEF ConnectFork, With, NewProcess, objectVars
<1>6. /\ DOMAIN transactions' = DOMAIN transactions
      /\ transactions'[id].snapshot = {}
      /\ \A i \in DOMAIN transactions : i # id => transactions'[i] = transactions[i]
  BY <1>1 DEF ConnectFork, ForkFields
<1> HIDE DEF given
<1>7. SnapshotShape'
  BY <1>3, <1>4, <1>5, <1>6 DEF ObjectInv, SnapshotShape
<1>8. \A st : ~Holds("process", t.child, st)
  BY <1>1 DEF Holds, HoldsIn
<1>9. \A st : Holds("fork", id, st) <=> st = given.states
  BY <1>3, <1>4 DEF Holds, HoldsIn
<1>10. \A k, m, st : HoldsIn(processes', transactions', k, m, st) <=>
         \/ Holds(k, m, st) /\ (k # "fork" \/ m # id)
         \/ k = "process" /\ m = t.child /\ Holds("fork", id, st)
  BY <1>1, <1>5, <1>6, <1>9 DEF Holds, HoldsIn
<1> HIDE DEF t
<1> QED
  BY <1>5, <1>7, <1>8, <1>10, HolderMoved DEF Holds

\* Every registration.
LEMMA ConnectObjects ==
  ASSUME IInv, Agreed, ObjectInv, NEW peer \in Peer, Connect(peer)
  PROVE  ObjectInv'
<1>1. ASSUME UNCHANGED <<objects, next_object, processes, transactions>>
      PROVE  ObjectInv'
  BY <1>1, ObjectsQuiet
<1>2. CASE ConnectHelper(peer)
  BY <1>1, <1>2 DEF ConnectHelper, objectVars, forkVars, processVars
<1>3. ASSUME NEW kind \in {"Controller", "Launcher"}, ConnectControl(peer, kind)
      PROVE  ObjectInv'
  BY <1>1, <1>3 DEF ConnectControl, objectVars, forkVars, processVars
<1>4. CASE ConnectRoot(peer)
  BY <1>4, ConnectRootObjects
<1>5. ASSUME NEW id \in DOMAIN transactions, ConnectFork(peer, id)
      PROVE  ObjectInv'
  BY <1>5, ConnectForkObjects
<1>6. ASSUME NEW id \in DOMAIN exec_transactions, ConnectExec(peer, id)
      PROVE  ObjectInv'
  BY <1>1, <1>6 DEF ConnectExec, objectVars, forkVars, processVars
<1> QED
  BY <1>2, <1>3, <1>4, <1>5, <1>6 DEF Connect

\* A new state gets a new object.
LEMMA DefineStateObjects ==
  ASSUME IInv, ObjectInv, NEW c, NEW key, NEW value, NEW fork,
         DefineState(c, key, value, fork)
  PROVE  ObjectInv'
<1> DEFINE pid == clients[c].pid
           old == processes[pid].snapshot.states
           object == [value |-> value, initial |-> value, fork |-> fork]
<1>1. /\ pid \in DOMAIN processes
      /\ key \notin DOMAIN old
      /\ objects' = With(objects, next_object, object)
      /\ next_object' = next_object + 1
      /\ UNCHANGED transactions
      /\ processes' = [processes EXCEPT ![pid].snapshot.states =
                           With(@, key, next_object)]
  BY DEF DefineState, ActiveWorker, OwnsProcess, forkVars
<1>2. /\ DOMAIN processes[pid] = ProcessFields
      /\ DOMAIN processes[pid].snapshot = {"modules", "states"}
  BY <1>1 DEF IInv, Shape, ObjectInv, SnapshotShape
<1>3. /\ DOMAIN processes' = DOMAIN processes
      /\ DOMAIN processes'[pid].snapshot = {"modules", "states"}
      /\ processes'[pid].snapshot.states = With(old, key, next_object)
      /\ \A p \in DOMAIN processes : p # pid => processes'[p] = processes[p]
  BY <1>1, <1>2 DEF ProcessFields
<1>4. Holds("process", pid, old)
  BY <1>1 DEF Holds, HoldsIn
<1>5. DOMAIN object = {"value", "initial", "fork"}
  OBVIOUS
<1>6. SnapshotShape'
  BY <1>1, <1>3 DEF ObjectInv, SnapshotShape
<1> HIDE DEF old, object
<1>7. \A k, m, st : HoldsIn(processes', transactions', k, m, st) <=>
         \/ Holds(k, m, st) /\ (k # "process" \/ m # pid)
         \/ k = "process" /\ m = pid /\ st = With(old, key, next_object)
  BY <1>1, <1>3, ZenonT(40) DEF Holds, HoldsIn
<1> HIDE DEF pid
<1> QED
  BY <1>1, <1>4, <1>5, <1>6, <1>7, HolderExtended DEF Holds

\* The requests on module state, and shutdown.
LEMMA StateObjects ==
  ASSUME IInv, ObjectInv, NEW c \in DOMAIN clients, StateRequest(c) \/ Shutdown(c)
  PROVE  ObjectInv'
<1>1. ASSUME NEW module \in Module, NEW schema \in Schema,
             RegisterModule(c, module, schema)
      PROVE  ObjectInv'
  <2>1. /\ UNCHANGED <<objects, next_object, transactions>>
        /\ \A pid \in DOMAIN processes :
              /\ DOMAIN processes[pid] = ProcessFields
              /\ DOMAIN processes[pid].snapshot = {"modules", "states"}
    BY <1>1 DEF RegisterModule, objectVars, forkVars, IInv, Shape, ObjectInv, SnapshotShape
  <2>2. PICK pid, new : processes' = [processes EXCEPT ![pid].snapshot.modules = new]
    BY <1>1 DEF RegisterModule
  <2>3. /\ DOMAIN processes' = DOMAIN processes
        /\ \A p \in DOMAIN processes :
              /\ DOMAIN processes'[p].snapshot = DOMAIN processes[p].snapshot
              /\ processes'[p].snapshot.states = processes[p].snapshot.states
    BY <2>1, <2>2 DEF ProcessFields
  <2> QED
    BY <2>1, <2>3, ObjectsQuiet
<1>2. ASSUME NEW key \in StateKey, NEW value \in Value, WriteState(c, key, value)
      PROVE  ObjectInv'
  <2>1. /\ UNCHANGED <<processes, transactions, next_object>>
        /\ \A i \in DOMAIN objects : DOMAIN objects[i] = {"value", "initial", "fork"}
    BY <1>2 DEF WriteState, forkVars, processVars, ObjectInv, ObjectShape
  <2>2. PICK i : objects' = [objects EXCEPT ![i].value = value]
    BY <1>2, Zenon DEF WriteState
  <2>3. /\ DOMAIN objects' = DOMAIN objects
        /\ \A j \in DOMAIN objects' : /\ DOMAIN objects'[j] = DOMAIN objects[j]
                                      /\ objects'[j].fork = objects[j].fork
    BY <2>1, <2>2
  <2>4. SnapshotsFewer
    BY <2>1 DEF SnapshotsFewer
  <2>5. \A kind, n, st : Holds(kind, n, st) => Holds(kind, n, st)'
    BY <2>1 DEF Holds
  <2> QED
    BY <2>1, <2>3, <2>4, <2>5, ObjectsKept
<1>3. ASSUME NEW key \in StateKey, NEW value \in Value, NEW fork \in ForkPolicy,
             DefineState(c, key, value, fork)
      PROVE  ObjectInv'
  BY <1>3, DefineStateObjects
<1>4. CASE Shutdown(c)
  BY <1>4, ObjectsQuiet DEF Shutdown, objectVars, forkVars, processVars
<1> QED
  BY <1>1, <1>2, <1>3, <1>4 DEF StateRequest

\* A clone has the fields of an object.
LEMMA ClonedFields ==
  ASSUME NEW object, DOMAIN object = {"value", "initial", "fork"}
  PROVE  DOMAIN Cloned(object) = {"value", "initial", "fork"}
  BY DEF Cloned

\* There are identifiers for the objects a fork copies, one for each.
LEMMA FreshObjects ==
  ASSUME NEW S, IsFiniteSet(S), NEW first \in Nat
  PROVE  /\ Cardinality(S) \in Nat
         /\ (CHOOSE f \in Bijection(S, first .. (first + Cardinality(S) - 1)) : TRUE)
               \in Bijection(S, first .. (first + Cardinality(S) - 1))
<1> DEFINE last == first + Cardinality(S) - 1
<1>1. Cardinality(S) \in Nat
  BY FS_CardinalityType
<1>2. IsFiniteSet(first .. last) /\ Cardinality(first .. last) = Cardinality(S)
  <2>1. first \in Int /\ last \in Int
    BY <1>1
  <2>2. /\ IsFiniteSet(first .. last)
        /\ Cardinality(first .. last) = IF first > last THEN 0 ELSE last - first + 1
    BY <2>1, FS_Interval
  <2> QED
    BY <1>1, <2>2
<1>3. Bijection(S, first .. last) # {}
  BY <1>2, FS_SameCardinalityBij DEF ExistsBijection
<1> QED
  BY <1>1, <1>3

\* A fork gives the reservation of its child new objects for what is copied.
LEMMA ReserveObjects ==
  ASSUME IInv, ObjectInv, NEW pid \in DOMAIN processes, NEW key, NEW parent,
         Reserve(pid, key, parent)
  PROVE  ObjectInv'
<1>0. PICK states, copied, count, fresh :
        /\ states = processes[pid].snapshot.states
        /\ copied = Copied(pid)
        /\ count = Cardinality(copied)
        /\ fresh = CHOOSE f \in Bijection(copied, next_object .. (next_object + count - 1)) : TRUE
  OBVIOUS
<1>1. PICK new : new = [k \in DOMAIN states |-> IF k \in copied THEN fresh[k] ELSE states[k]]
  OBVIOUS
<1>2. /\ DOMAIN processes[pid] = ProcessFields
      /\ DOMAIN processes[pid].snapshot = {"modules", "states"}
      /\ Holds("process", pid, states)
      /\ next_object \in Nat \ {0}
      /\ \A i \in DOMAIN objects :
            i \in 1..(next_object - 1) /\ DOMAIN objects[i] = {"value", "initial", "fork"}
  BY <1>0 DEF IInv, Shape, ObjectInv, SnapshotShape, ObjectShape, Holds, HoldsIn
<1>3. copied = {k \in DOMAIN states : objects[states[k]].fork # "Share"}
  BY <1>0 DEF Copied
<1>4. IsFiniteSet(DOMAIN states) /\ IsFiniteSet(copied) /\ IsInjective(states)
  <2>1. IsFiniteSet(DOMAIN states) /\ IsInjective(states)
    BY <1>2 DEF ObjectInv, ObjectShape, Private
  <2>2. copied \in SUBSET DOMAIN states
    BY <1>3
  <2> QED
    BY <2>1, <2>2, FS_Subset
<1>5. /\ count \in Nat
      /\ fresh \in Bijection(copied, next_object .. (next_object + count - 1))
  BY <1>0, <1>2, <1>4, FreshObjects
<1>6. /\ DOMAIN fresh = copied
      /\ \A k \in copied : fresh[k] \in next_object .. (next_object + count - 1)
      /\ \A j, k \in copied : fresh[j] = fresh[k] => j = k
      /\ Range(fresh) = {fresh[k] : k \in copied}
  BY <1>5 DEF Bijection, Injection, IsInjective, Range
<1>7. \A k \in DOMAIN states : states[k] \in DOMAIN objects
  <2>1. \A k \in DOMAIN states : states[k] \in Range(states)
    BY DEF Range
  <2> QED
    BY <1>2, <2>1 DEF ObjectInv, Exact
<1>8. /\ DOMAIN new = DOMAIN states
      /\ \A k \in copied : new[k] = fresh[k]
      /\ \A k \in DOMAIN states \ copied : new[k] = states[k]
  BY <1>1, <1>3
<1>9. next_object' = next_object + count
  BY <1>0 DEF Reserve
<1>10. /\ DOMAIN objects' = DOMAIN objects \cup Range(fresh)
       /\ \A i \in DOMAIN objects : objects'[i] = objects[i]
       /\ \A i \in Range(fresh) \ DOMAIN objects :
             objects'[i] = Cloned(objects[states[CHOOSE k \in copied : fresh[k] = i]])
  BY <1>0 DEF Reserve
<1>11. /\ DOMAIN transactions' = DOMAIN transactions \cup {next_transaction}
       /\ transactions'[next_transaction].snapshot =
             {[processes[pid].snapshot EXCEPT !.states = new]}
       /\ \A id \in DOMAIN transactions : id # next_transaction =>
             transactions'[id] = transactions[id]
  BY <1>0, <1>1 DEF Reserve, With
<1>12. PICK keys : processes' = [processes EXCEPT ![pid].request_keys = keys]
  BY DEF Reserve
<1>13. /\ DOMAIN processes' = DOMAIN processes
       /\ \A p \in DOMAIN processes : processes'[p].snapshot = processes[p].snapshot
  BY <1>2, <1>12 DEF ProcessFields
<1>14. next_transaction \notin DOMAIN transactions
  BY DEF IInv, Shape
<1>15. PICK child : child = [processes[pid].snapshot EXCEPT !.states = new]
  OBVIOUS
<1>16. child.states = new /\ DOMAIN child = {"modules", "states"}
  BY <1>2, <1>15
<1>17. SnapshotShape'
  <2>1. transactions'[next_transaction].snapshot = {child}
    BY <1>11, <1>15
  <2>2. \A id \in DOMAIN transactions' :
           \/ id = next_transaction
           \/ id \in DOMAIN transactions /\ transactions'[id] = transactions[id]
    BY <1>11
  <2>3. \A p \in DOMAIN processes' : DOMAIN processes'[p].snapshot = {"modules", "states"}
    BY <1>13 DEF ObjectInv, SnapshotShape
  <2>4. \A id \in DOMAIN transactions' : \A s \in transactions'[id].snapshot :
           DOMAIN s = {"modules", "states"} /\ \A t \in transactions'[id].snapshot : s = t
    BY <1>16, <2>1, <2>2 DEF ObjectInv, SnapshotShape
  <2> QED
    BY <2>3, <2>4 DEF SnapshotShape
<1>18. \A st : ~Holds("fork", next_transaction, st)
  BY <1>14 DEF Holds, HoldsIn
<1>19. \A k, m, st : HoldsIn(processes', transactions', k, m, st) <=>
          Holds(k, m, st) \/ (k = "fork" /\ m = next_transaction /\ st = new)
  BY <1>11, <1>13, <1>14, <1>15, <1>16 DEF Holds, HoldsIn
<1>20. Range(new) = Range(fresh) \cup {states[k] : k \in DOMAIN states \ copied}
  BY <1>3, <1>6, <1>8 DEF Range
<1>21. DOMAIN objects' = DOMAIN objects \cup Range(new)
  BY <1>7, <1>10, <1>20
<1>22. \A k \in copied : fresh[k] \notin DOMAIN objects
  BY <1>2, <1>5, <1>6
<1>23. IsInjective(new)
  <2> SUFFICES ASSUME NEW j \in DOMAIN states, NEW k \in DOMAIN states, new[j] = new[k]
               PROVE  j = k
    BY <1>8 DEF IsInjective
  <2>1. j \in copied <=> k \in copied
    BY <1>7, <1>8, <1>22
  <2> QED
    BY <1>4, <1>6, <1>8, <2>1 DEF IsInjective
<1>24. \A i \in Range(new) : i \in DOMAIN objects => objects[i].fork = "Share"
  BY <1>3, <1>6, <1>20, <1>22
<1>25. ASSUME NEW i \in Range(new) \ DOMAIN objects
       PROVE  /\ i \in 1..(next_object' - 1)
              /\ DOMAIN objects'[i] = {"value", "initial", "fork"}
  <2>1. i \in Range(fresh)
    BY <1>7, <1>20, <1>25
  <2>2. PICK k \in copied : fresh[k] = i
    BY <1>6, <2>1
  <2>3. i \in 1..(next_object' - 1)
    BY <1>2, <1>5, <1>6, <1>9, <2>2
  <2> DEFINE source == CHOOSE j \in copied : fresh[j] = i
  <2>4. source \in copied
    BY <2>2
  <2>5. objects'[i] = Cloned(objects[states[source]])
    BY <1>10, <1>25, <2>1
  <2> HIDE DEF source
  <2>6. DOMAIN objects[states[source]] = {"value", "initial", "fork"}
    BY <1>2, <1>3, <1>7, <2>4
  <2> QED
    BY <2>3, <2>5, <2>6, ClonedFields
<1>26. /\ IsFiniteSet(DOMAIN new)
       /\ next_object' \in Nat /\ next_object <= next_object'
  BY <1>2, <1>4, <1>5, <1>8, <1>9
<1> QED
  BY <1>10, <1>17, <1>18, <1>19, <1>21, <1>23, <1>24, <1>25, <1>26, HolderAdded DEF Holds

\* Every request of the fork protocol.
LEMMA ForkRequestObjects ==
  ASSUME IInv, Agreed, ObjectInv, NEW c \in DOMAIN clients, ForkRequest(c)
  PROVE  ObjectInv'
<1>1. /\ \A pid \in DOMAIN processes : DOMAIN processes[pid] = ProcessFields
      /\ \A id \in DOMAIN transactions : DOMAIN transactions[id] = ForkFields
  BY DEF IInv, Shape
<1>2. ASSUME NEW key \in RequestKey, PrepareFork(c, key) \/ PrepareForkWithParent(c, key)
      PROVE  ObjectInv'
  <2>1. clients[c].pid \in DOMAIN processes
    BY <1>2 DEF PrepareFork, PrepareForkWithParent, ActiveWorker, OwnsProcess
  <2> QED
    BY <1>2, <2>1, ReserveObjects DEF PrepareFork, PrepareForkWithParent
<1>3. CASE MarkReady(c)
  <2>1. /\ UNCHANGED <<objects, next_object, processes>>
        /\ \E id : transactions' = [transactions EXCEPT ![id].state = "Ready"]
    BY <1>3 DEF MarkReady, objectVars, processVars
  <2>2. /\ DOMAIN transactions' = DOMAIN transactions
        /\ \A i \in DOMAIN transactions :
              transactions'[i].snapshot = transactions[i].snapshot
    BY <1>1, <2>1 DEF ForkFields
  <2> QED
    BY <2>1, <2>2, ObjectsQuiet
<1>4. ASSUME NEW id \in DOMAIN transactions, CommitFork(c, id)
      PROVE  ObjectInv'
  <2>1. /\ UNCHANGED <<objects, next_object>>
        /\ transactions' = [transactions EXCEPT ![id].state = "Committed"]
        /\ \E child : processes' = [processes EXCEPT ![child].state = "Active",
                                                     ![child].transaction = NoId]
    BY <1>4 DEF CommitFork, objectVars
  <2>2. /\ DOMAIN transactions' = DOMAIN transactions
        /\ \A i \in DOMAIN transactions :
              transactions'[i].snapshot = transactions[i].snapshot
    BY <1>1, <2>1 DEF ForkFields
  <2>3. /\ DOMAIN processes' = DOMAIN processes
        /\ \A p \in DOMAIN processes : processes'[p].snapshot = processes[p].snapshot
    BY <1>1, <2>1 DEF ProcessFields
  <2> QED
    BY <2>1, <2>2, <2>3, ObjectsQuiet
<1>5. ASSUME NEW id \in DOMAIN transactions, AbortFork(c, id)
      PROVE  ObjectInv'
  <2>1. /\ next_object' = next_object /\ CollectObjects
        /\ transactions' = AbortedForks({id})
        /\ processes' = [pid \in DOMAIN processes |->
                            IF pid \in ChildrenOf({id}) THEN Revoked(processes[pid])
                            ELSE processes[pid]]
    BY <1>5 DEF AbortFork
  <2>2. SnapshotsFewer
    BY <1>1, <2>1, Zenon DEF SnapshotsFewer, AbortedForks, Revoked, ForkFields, ProcessFields
  <2> QED
    BY <2>1, <2>2, ObjectsCollected
<1>6. ASSUME NEW id \in DOMAIN transactions, AcknowledgeFork(c, id)
      PROVE  ObjectInv'
  <2>1. /\ UNCHANGED <<objects, next_object>>
        /\ transactions' = Without(transactions, id)
        /\ \E pid, keys : processes' = [processes EXCEPT ![pid].request_keys = keys]
    BY <1>6 DEF AcknowledgeFork, objectVars
  <2>2. /\ DOMAIN transactions' = DOMAIN transactions \ {id}
        /\ \A i \in DOMAIN transactions' : transactions'[i] = transactions[i]
    BY <2>1 DEF Without, Restrict
  <2>3. transactions[id].snapshot = {}
    BY <1>6 DEF AcknowledgeFork, Terminal, Agreed, ForkAgreement
  <2>4. /\ DOMAIN processes' = DOMAIN processes
        /\ \A p \in DOMAIN processes : processes'[p].snapshot = processes[p].snapshot
    BY <1>1, <2>1 DEF ProcessFields
  <2> QED
    BY <2>1, <2>2, <2>3, <2>4, ObjectsQuiet
<1> QED
  BY <1>2, <1>3, <1>4, <1>5, <1>6 DEF ForkRequest

\* The requests of the exec and of the pool protocol touch no snapshot.
LEMMA OtherSnapshots ==
  ASSUME IInv, NEW c \in DOMAIN clients, ExecRequest(c) \/ PoolRequest(c)
  PROVE  /\ UNCHANGED <<objects, next_object, transactions>>
         /\ DOMAIN processes' = DOMAIN processes
         /\ \A p \in DOMAIN processes : processes'[p].snapshot = processes[p].snapshot
<1>1. \A p \in DOMAIN processes : DOMAIN processes[p] = ProcessFields
  BY DEF IInv, Shape
<1>2. UNCHANGED <<objects, next_object, transactions>>
  BY Zenon DEF ExecRequest, PrepareExec, MarkExecReady, CommitExec, AbortExec,
         AcknowledgeExec, PoolRequest, MarkPrewarmReady, MarkPoolReady,
         ReservePoolWorker, ActivatePrewarm, ReleasePoolWorker,
         ActivatePoolWorker, objectVars, forkVars
<1>3. CASE ExecRequest(c)
  <2>1. \/ UNCHANGED processes
        \/ \E pid, new : processes' = [processes EXCEPT ![pid].exec_request_keys = new]
    BY <1>3, Zenon DEF ExecRequest, PrepareExec, MarkExecReady, CommitExec, AbortExec,
                AcknowledgeExec, processVars
  <2> QED
    BY <1>1, <1>2, <2>1 DEF ProcessFields
<1>4. CASE PoolRequest(c)
  <2>1. \/ \E pid, stage : processes' = [processes EXCEPT ![pid].prewarm = stage]
        \/ \E pid, parent, stage :
              processes' = [processes EXCEPT ![pid].parent_pid = parent,
                                             ![pid].prewarm = stage]
    <3>1. CASE MarkPrewarmReady(c)
      BY <3>1 DEF MarkPrewarmReady
    <3>2. CASE MarkPoolReady(c)
      BY <3>2 DEF MarkPoolReady
    <3>3. CASE ReservePoolWorker(c)
      BY <3>3 DEF ReservePoolWorker
    <3>4. ASSUME NEW pid \in DOMAIN processes,
                 ActivatePrewarm(c, pid) \/ ReleasePoolWorker(c, pid)
          PROVE  \E p, stage : processes' = [processes EXCEPT ![p].prewarm = stage]
      BY <3>4 DEF ActivatePrewarm, ReleasePoolWorker
    <3>5. ASSUME NEW pid \in DOMAIN processes,
                 NEW parent \in DOMAIN processes \cup {NoId}, NEW launch \in Launch,
                 ActivatePoolWorker(c, pid, parent, launch)
          PROVE  \E p, q, stage :
                    processes' = [processes EXCEPT ![p].parent_pid = q,
                                                   ![p].prewarm = stage]
      BY <3>5 DEF ActivatePoolWorker
    <3> QED
      BY <1>4, <3>1, <3>2, <3>3, <3>4, <3>5 DEF PoolRequest
  <2>2. ASSUME NEW pid, NEW stage, processes' = [processes EXCEPT ![pid].prewarm = stage]
        PROVE  /\ DOMAIN processes' = DOMAIN processes
               /\ \A p \in DOMAIN processes : processes'[p].snapshot = processes[p].snapshot
    BY <1>1, <2>2 DEF ProcessFields
  <2>3. ASSUME NEW pid, NEW parent, NEW stage,
               processes' = [processes EXCEPT ![pid].parent_pid = parent,
                                              ![pid].prewarm = stage]
        PROVE  /\ DOMAIN processes' = DOMAIN processes
               /\ \A p \in DOMAIN processes : processes'[p].snapshot = processes[p].snapshot
    BY <1>1, <2>3 DEF ProcessFields
  <2> QED
    BY <1>2, <2>1, <2>2, <2>3
<1> QED
  BY <1>3, <1>4

\* The end of a connection only drops reservations, and so does a death.
LEMMA EndingSnapshots ==
  ASSUME IInv,
         \/ \E c \in DOMAIN clients : Disconnect(c)
         \/ \E peer \in Peer, status \in Status : ProcessExited(peer, status)
  PROVE  SnapshotsFewer /\ CollectObjects /\ next_object' = next_object
<1>1. ASSUME NEW c \in DOMAIN clients, Disconnect(c)
      PROVE  SnapshotsFewer /\ CollectObjects /\ next_object' = next_object
  <2>1. /\ \A pid \in DOMAIN processes : DOMAIN processes[pid] = ProcessFields
        /\ \A id \in DOMAIN transactions : DOMAIN transactions[id] = ForkFields
    BY DEF IInv, Shape
  <2>2. CollectObjects /\ next_object' = next_object
    BY <1>1 DEF Disconnect
  <2>3. PICK forks :
          /\ transactions' = AbortedForks(forks)
          /\ processes' = [pid \in DOMAIN processes |->
                 LET p == [processes[pid] EXCEPT !.prewarm = Released(@, {c})]
                 IN  IF pid \in ChildrenOf(forks) THEN Revoked(p) ELSE p]
    BY <1>1 DEF Disconnect
  <2> QED
    BY <2>1, <2>2, <2>3, Zenon DEF SnapshotsFewer, AbortedForks, Revoked, ForkFields, ProcessFields
<1>2. ASSUME NEW peer \in Peer, NEW status \in Status, ProcessExited(peer, status)
      PROVE  SnapshotsFewer /\ CollectObjects /\ next_object' = next_object
  <2>1. CollectObjects /\ next_object' = next_object
    BY <1>2, Zenon DEF ProcessExited
  <2>2. /\ DOMAIN processes' \subseteq DOMAIN processes
        /\ \A pid \in DOMAIN processes' : processes'[pid].snapshot = processes[pid].snapshot
    BY <1>2, ExitProcesses
  <2>3. /\ DOMAIN transactions' \subseteq DOMAIN transactions
        /\ \A id \in DOMAIN transactions' :
              transactions'[id].snapshot \subseteq transactions[id].snapshot
    BY <1>2, ExitForks
  <2> QED
    BY <2>1, <2>2, <2>3 DEF SnapshotsFewer
<1> QED
  BY <1>1, <1>2

\* Any step.
LEMMA ObjectStep ==
  ASSUME IInv, Agreed, ObjectInv, [Next]_vars
  PROVE  ObjectInv'
<1>1. ASSUME NEW peer \in Peer, Connect(peer)
      PROVE  ObjectInv'
  BY <1>1, ConnectObjects
<1>2. ASSUME NEW c \in DOMAIN clients, ForkRequest(c)
      PROVE  ObjectInv'
  BY <1>2, ForkRequestObjects
<1>3. ASSUME NEW c \in DOMAIN clients, ExecRequest(c) \/ PoolRequest(c)
      PROVE  ObjectInv'
  BY <1>3, OtherSnapshots, ObjectsQuiet
<1>4. ASSUME NEW c \in DOMAIN clients, StateRequest(c) \/ Shutdown(c)
      PROVE  ObjectInv'
  BY <1>4, StateObjects
<1>5. CASE Transport
  BY <1>5, EndingSnapshots, ObjectsCollected DEF Transport
<1>6. CASE UNCHANGED vars
  BY <1>6, ObjectsQuiet DEF vars, objectVars, forkVars, processVars
<1> QED
  BY <1>1, <1>2, <1>3, <1>4, <1>5, <1>6 DEF Next

\* A new manager has no object and nobody who could have one.
LEMMA InitObjectInv == Init => ObjectInv
<1> SUFFICES ASSUME Init PROVE ObjectInv
  OBVIOUS
<1>1. \A kind, n, st : ~Holds(kind, n, st)
  BY DEF Init, EmptyMap, Holds, HoldsIn
<1>2. SnapshotShape
  BY DEF Init, EmptyMap, SnapshotShape
<1>3. DOMAIN objects = {} /\ next_object = 1
  BY DEF Init, EmptyMap
<1> QED
  BY <1>1, <1>2, <1>3 DEF ObjectInv, ObjectShape, Exact, Private

\* For any modules, names and fork policies: the object table is what the
\* processes and the reservations refer to. No read_state of a defined state
\* misses its object, and no abort, disconnect or death leaks one
\* (define_state, prepare_fork, adopt, collect_objects).
THEOREM ObjectsCorrect == Spec => []ObjectsExact
<1>1. Init => IInv /\ Agreed /\ ObjectInv
  BY InitIInv, InitObjectInv DEF Init, EmptyMap, Agreed, ForkAgreement
<1>2. IInv /\ Agreed /\ ObjectInv /\ [Next]_vars => (IInv /\ Agreed /\ ObjectInv)'
  BY NextStep, AgreedStep, ObjectStep
<1>3. ObjectInv => ObjectsExact
  BY ObjectInvImplies
<1> QED
  BY <1>1, <1>2, <1>3, PTL DEF Spec

\* For any modules, names and fork policies: an object that two processes, or
\* a process and a reservation, have in common was defined as shared, and no
\* process has one object under two names (prepare_fork's copies are its own).
THEOREM PrivacyCorrect == Spec => []PrivateObjects
<1>1. Init => IInv /\ Agreed /\ ObjectInv
  BY InitIInv, InitObjectInv DEF Init, EmptyMap, Agreed, ForkAgreement
<1>2. IInv /\ Agreed /\ ObjectInv /\ [Next]_vars => (IInv /\ Agreed /\ ObjectInv)'
  BY NextStep, AgreedStep, ObjectStep
<1>3. ObjectInv => PrivateObjects
  BY ObjectInvImplies
<1> QED
  BY <1>1, <1>2, <1>3, PTL DEF Spec
-----------------------------------------------------------------------------
(* What a child was given *)

\* What a waiting child was given stays.
StatesStay ==
    \A id \in DOMAIN transactions \cap DOMAIN transactions' :
        ~Terminal(transactions'[id]) =>
            /\ ~Terminal(transactions[id])
            /\ ChildStates(transactions', processes', id) =
                  ChildStates(transactions, processes, id)

\* No object changes.
ValuesStay == \A i \in DOMAIN objects \cap DOMAIN objects' : objects'[i] = objects[i]

\* Whoever has the states of a child has not started.
LEMMA StatesHeld ==
  ASSUME Agreed, ObjectInv, NEW id \in DOMAIN transactions, ~Terminal(transactions[id])
  PROVE  \/ Holds("fork", id, ChildStates(transactions, processes, id))
         \/ \E pid \in DOMAIN processes :
               /\ processes[pid].state = "Pending"
               /\ Holds("process", pid, ChildStates(transactions, processes, id))
<1>1. CASE transactions[id].state = "Prepared"
  <2>1. Cardinality(transactions[id].snapshot) = 1
    BY <1>1 DEF Agreed, ForkAgreement
  <2>2. transactions[id].snapshot # {}
    BY <2>1, FS_EmptySet
  <2> DEFINE given == CHOOSE s \in transactions[id].snapshot : TRUE
  <2>3. given \in transactions[id].snapshot
    BY <2>2
  <2>4. ChildStates(transactions, processes, id) = given.states
    BY <1>1 DEF ChildStates
  <2> HIDE DEF given
  <2> QED
    BY <2>3, <2>4 DEF Holds, HoldsIn
<1>2. CASE transactions[id].state # "Prepared"
  BY <1>2, UndecidedFork DEF ChildStates, Holds, HoldsIn
<1> QED
  BY <1>1, <1>2

\* A step in which forks advance or are aborted and waiting children stay.
LEMMA StatesStayed ==
  ASSUME Agreed, Agreed',
         \A id \in DOMAIN transactions \cap DOMAIN transactions' :
            /\ transactions'[id].child = transactions[id].child
            /\ \/ Terminal(transactions'[id])
               \/ /\ transactions'[id].snapshot = transactions[id].snapshot
                  /\ \/ transactions'[id].state = transactions[id].state
                     \/ {transactions[id].state, transactions'[id].state}
                           \subseteq {"Adopted", "Ready"},
         \A pid \in DOMAIN processes \cap DOMAIN processes' :
            processes[pid].state = "Pending" =>
                processes'[pid].snapshot.states = processes[pid].snapshot.states
  PROVE  StatesStay
<1> SUFFICES ASSUME NEW id \in DOMAIN transactions \cap DOMAIN transactions',
                    ~Terminal(transactions'[id])
             PROVE  /\ ~Terminal(transactions[id])
                    /\ ChildStates(transactions', processes', id) =
                          ChildStates(transactions, processes, id)
  BY DEF StatesStay
<1> DEFINE t == transactions[id]
           u == transactions'[id]
<1>1. /\ u.child = t.child /\ u.snapshot = t.snapshot
      /\ u.state = t.state \/ {t.state, u.state} \subseteq {"Adopted", "Ready"}
  OBVIOUS
<1>2. ~Terminal(t)
  BY <1>1 DEF Terminal
<1>3. CASE t.state = "Prepared"
  BY <1>1, <1>2, <1>3 DEF ChildStates
<1>4. CASE t.state # "Prepared"
  <2>1. t.child \in DOMAIN processes /\ processes[t.child].state = "Pending"
    BY <1>2, <1>4, UndecidedFork
  <2>2. u.state \in {"Adopted", "Ready"}
    BY <1>1, <1>2, <1>4 DEF Agreed, TransactionState, Terminal
  <2>3. u.child \in DOMAIN processes'
    BY <2>2 DEF Agreed, ForkAgreement
  <2>4. processes'[t.child].snapshot.states = processes[t.child].snapshot.states
    BY <1>1, <2>1, <2>3
  <2> QED
    BY <1>1, <1>2, <1>4, <2>2, <2>4 DEF ChildStates
<1> QED
  BY <1>3, <1>4

\* With the states of a child stay the values of those that are not shared.
LEMMA FrozenKept ==
  ASSUME Agreed, Agreed', ObjectInv, ObjectInv', StatesStay, ValuesStay,
         NEW id \in DOMAIN transactions \cap DOMAIN transactions',
         ~Terminal(transactions'[id]),
         NEW i \in Range(ChildStates(transactions, processes, id))
  PROVE  objects'[i] = objects[i]
<1>1. /\ ~Terminal(transactions[id])
      /\ ChildStates(transactions', processes', id) =
            ChildStates(transactions, processes, id)
  BY DEF StatesStay
<1>2. i \in DOMAIN objects
  <2>1. \E k, n : Holds(k, n, ChildStates(transactions, processes, id))
    BY <1>1, StatesHeld
  <2> QED
    BY <2>1 DEF ObjectInv, Exact
<1>3. i \in DOMAIN objects'
  <2> DEFINE given == ChildStates(transactions', processes', id)
  <2>1. given = ChildStates(transactions, processes, id)
    BY <1>1
  <2>2. \E k, n : HoldsIn(processes', transactions', k, n, given)
    <3>1. CASE transactions'[id].state = "Prepared"
      <4>1. Cardinality(transactions'[id].snapshot) = 1
        BY <3>1 DEF Agreed, ForkAgreement
      <4>2. transactions'[id].snapshot # {}
        BY <4>1, FS_EmptySet
      <4> DEFINE s == CHOOSE s \in transactions'[id].snapshot : TRUE
      <4>3. s \in transactions'[id].snapshot
        BY <4>2
      <4>4. given = s.states
        BY <3>1 DEF ChildStates
      <4> HIDE DEF s, given
      <4>5. HoldsIn(processes', transactions', "fork", id, given)
        BY <4>3, <4>4 DEF HoldsIn
      <4> QED
        BY <4>5
    <3>2. CASE transactions'[id].state # "Prepared"
      <4>1. transactions'[id].child \in DOMAIN processes'
        BY <3>2 DEF Agreed, ForkAgreement, TransactionState, Terminal
      <4>2. given = processes'[transactions'[id].child].snapshot.states
        BY <3>2 DEF ChildStates
      <4> HIDE DEF given
      <4>3. HoldsIn(processes', transactions', "process", transactions'[id].child, given)
        BY <4>1, <4>2 DEF HoldsIn
      <4> QED
        BY <4>3
    <3> QED
      BY <3>1, <3>2
  <2> HIDE DEF given
  <2>3. i \in Range(given)
    BY <2>1
  <2>4. \A k, n, st, j : (HoldsIn(processes', transactions', k, n, st) /\ j \in Range(st))
                            => j \in DOMAIN objects'
    BY DEF ObjectInv, Exact, Holds
  <2> QED
    BY <2>2, <2>3, <2>4
<1> QED
  BY <1>2, <1>3 DEF ValuesStay

\* A registration: the child that attaches takes over what was reserved for it.
LEMMA ConnectStays ==
  ASSUME IInv, Agreed, Agreed', NEW peer \in Peer, Connect(peer)
  PROVE  StatesStay /\ ValuesStay
<1>1. \A pid \in DOMAIN processes : processes'[pid] = processes[pid]
  BY ConnectAgreed
<1>2. UNCHANGED objects
  BY Zenon DEF Connect, ConnectHelper, ConnectControl, ConnectRoot, ConnectFork,
         ConnectExec, objectVars
<1>3. CASE UNCHANGED transactions
  BY <1>1, <1>2, <1>3, StatesStayed DEF ValuesStay
<1>4. ASSUME NEW id \in DOMAIN transactions, ConnectFork(peer, id)
      PROVE  StatesStay
  <2> DEFINE t == transactions[id]
             given == CHOOSE s \in t.snapshot : TRUE
  <2>1. t.state = "Prepared" /\ DOMAIN t = ForkFields
    BY <1>4 DEF ConnectFork, IInv, Shape
  <2>2. processes'[t.child].snapshot = given
    BY <1>4 DEF ConnectFork, With, NewProcess
  <2>3. /\ transactions'[id].state = "Adopted" /\ transactions'[id].child = t.child
        /\ \A i \in DOMAIN transactions : i # id => transactions'[i] = transactions[i]
    BY <1>4, <2>1 DEF ConnectFork, ForkFields
  <2>4. /\ ~Terminal(t)
        /\ ChildStates(transactions, processes, id) = given.states
        /\ ChildStates(transactions', processes', id) = given.states
    BY <2>1, <2>2, <2>3 DEF Terminal, ChildStates
  <2>5. ASSUME NEW i \in DOMAIN transactions, i # id, ~Terminal(transactions'[i])
        PROVE  /\ ~Terminal(transactions[i])
               /\ ChildStates(transactions', processes', i) =
                     ChildStates(transactions, processes, i)
    <3>1. transactions'[i] = transactions[i]
      BY <2>3, <2>5
    <3>2. CASE transactions[i].state = "Prepared"
      BY <2>5, <3>1, <3>2 DEF ChildStates
    <3>3. CASE transactions[i].state # "Prepared"
      <4>1. transactions[i].child \in DOMAIN processes
        BY <2>5, <3>1, <3>3, UndecidedFork
      <4> QED
        BY <1>1, <2>5, <3>1, <3>3, <4>1 DEF ChildStates
    <3> QED
      BY <3>2, <3>3
  <2> QED
    BY <2>4, <2>5 DEF StatesStay
<1>5. UNCHANGED transactions \/ \E id \in DOMAIN transactions : ConnectFork(peer, id)
  BY Zenon DEF Connect, ConnectHelper, ConnectControl, ConnectRoot, ConnectExec, forkVars
<1> QED
  BY <1>2, <1>3, <1>4, <1>5 DEF ValuesStay

\* Requests of the fork protocol.
LEMMA ForkStays ==
  ASSUME IInv, Agreed, Agreed', ObjectInv, NEW c \in DOMAIN clients, ForkRequest(c)
  PROVE  StatesStay /\ ValuesStay
<1>1. /\ \A pid \in DOMAIN processes : DOMAIN processes[pid] = ProcessFields
      /\ \A id \in DOMAIN transactions : DOMAIN transactions[id] = ForkFields
  BY DEF IInv, Shape
<1>2. ASSUME NEW key \in RequestKey, PrepareFork(c, key) \/ PrepareForkWithParent(c, key)
      PROVE  StatesStay /\ ValuesStay
  <2>1. PICK pid, parent : Reserve(pid, key, parent)
    BY <1>2 DEF PrepareFork, PrepareForkWithParent
  <2>2. PICK keys : processes' = [processes EXCEPT ![pid].request_keys = keys]
    BY <2>1 DEF Reserve
  <2>3. \A p \in DOMAIN processes : processes'[p].snapshot = processes[p].snapshot
    BY <1>1, <2>2 DEF ProcessFields
  <2>4. /\ next_transaction \notin DOMAIN transactions
        /\ \A id \in DOMAIN transactions : id # next_transaction =>
              transactions'[id] = transactions[id]
    BY <2>1 DEF Reserve, With, IInv, Shape
  <2>5. ValuesStay
    BY <2>1 DEF Reserve, ValuesStay
  <2> QED
    BY <2>3, <2>4, <2>5, StatesStayed
<1>3. CASE MarkReady(c)
  <2> DEFINE id == processes[clients[c].pid].transaction
  <2>1. /\ UNCHANGED <<objects, processes>>
        /\ transactions' = [transactions EXCEPT ![id].state = "Ready"]
    BY <1>3 DEF MarkReady, objectVars, processVars
  <2>2. id \in DOMAIN transactions /\ transactions[id].state \in {"Adopted", "Ready"}
    BY <1>3 DEF MarkReady, OwnsProcess, Agreed, ForkAgreement
  <2> HIDE DEF id
  <2>3. \A i \in DOMAIN transactions :
           /\ transactions'[i].child = transactions[i].child
           /\ transactions'[i].snapshot = transactions[i].snapshot
           /\ transactions'[i].state = IF i = id THEN "Ready" ELSE transactions[i].state
    BY <1>1, <2>1 DEF ForkFields
  <2> QED
    BY <2>1, <2>2, <2>3, StatesStayed DEF ValuesStay
<1>4. ASSUME NEW id \in DOMAIN transactions, CommitFork(c, id)
      PROVE  StatesStay /\ ValuesStay
  <2>1. /\ UNCHANGED objects
        /\ transactions' = [transactions EXCEPT ![id].state = "Committed"]
        /\ \E child : processes' = [processes EXCEPT ![child].state = "Active",
                                                     ![child].transaction = NoId]
    BY <1>4 DEF CommitFork, objectVars
  <2>2. \A i \in DOMAIN transactions :
           /\ transactions'[i].child = transactions[i].child
           /\ transactions'[i].snapshot = transactions[i].snapshot
           /\ transactions'[i].state = IF i = id THEN "Committed" ELSE transactions[i].state
    BY <1>1, <2>1 DEF ForkFields
  <2>3. \A p \in DOMAIN processes : processes'[p].snapshot = processes[p].snapshot
    BY <1>1, <2>1 DEF ProcessFields
  <2> QED
    BY <2>1, <2>2, <2>3, StatesStayed DEF ValuesStay, Terminal
<1>5. ASSUME NEW id \in DOMAIN transactions, AbortFork(c, id)
      PROVE  StatesStay /\ ValuesStay
  <2>1. /\ CollectObjects
        /\ transactions' = AbortedForks({id})
        /\ processes' = [pid \in DOMAIN processes |->
                            IF pid \in ChildrenOf({id}) THEN Revoked(processes[pid])
                            ELSE processes[pid]]
    BY <1>5 DEF AbortFork
  <2>2. \A i \in DOMAIN transactions :
           /\ transactions'[i].child = transactions[i].child
           /\ i = id => transactions'[i].state = "Aborted"
           /\ i # id => transactions'[i] = transactions[i]
    BY <1>1, <2>1, Zenon DEF AbortedForks, ForkFields
  <2>3. \A p \in DOMAIN processes : processes'[p].snapshot = processes[p].snapshot
    BY <1>1, <2>1, Zenon DEF Revoked, ProcessFields
  <2>4. ValuesStay
    BY <2>1 DEF CollectObjects, Keep, Restrict, ValuesStay
  <2> QED
    BY <2>2, <2>3, <2>4, StatesStayed DEF Terminal
<1>6. ASSUME NEW id \in DOMAIN transactions, AcknowledgeFork(c, id)
      PROVE  StatesStay /\ ValuesStay
  <2>1. /\ UNCHANGED objects
        /\ transactions' = Without(transactions, id)
        /\ \E pid, keys : processes' = [processes EXCEPT ![pid].request_keys = keys]
    BY <1>6 DEF AcknowledgeFork, objectVars
  <2>2. \A i \in DOMAIN transactions' : transactions'[i] = transactions[i]
    BY <2>1 DEF Without, Restrict
  <2>3. \A p \in DOMAIN processes : processes'[p].snapshot = processes[p].snapshot
    BY <1>1, <2>1 DEF ProcessFields
  <2> QED
    BY <2>1, <2>2, <2>3, StatesStayed DEF ValuesStay
<1> QED
  BY <1>2, <1>3, <1>4, <1>5, <1>6 DEF ForkRequest

\* A process that registers a module or defines a state has started.
LEMMA DefiningStays ==
  ASSUME IInv, Agreed, Agreed', ObjectInv, NEW c \in DOMAIN clients,
         \/ \E module \in Module, schema \in Schema : RegisterModule(c, module, schema)
         \/ \E key \in StateKey, value \in Value, fork \in ForkPolicy :
               DefineState(c, key, value, fork)
  PROVE  StatesStay /\ ValuesStay
<1> DEFINE pid == clients[c].pid
<1>1. /\ UNCHANGED transactions
      /\ pid \in DOMAIN processes /\ processes[pid].state = "Active"
  BY DEF RegisterModule, DefineState, ActiveWorker, OwnsProcess, forkVars
<1>2. \E field, new : processes' = [processes EXCEPT ![pid].snapshot[field] = new]
  <2>1. ASSUME NEW module \in Module, NEW schema \in Schema,
               RegisterModule(c, module, schema)
        PROVE  \E field, new : processes' = [processes EXCEPT ![pid].snapshot[field] = new]
    BY <2>1 DEF RegisterModule
  <2>2. ASSUME NEW key \in StateKey, NEW value \in Value, NEW fork \in ForkPolicy,
               DefineState(c, key, value, fork)
        PROVE  \E field, new : processes' = [processes EXCEPT ![pid].snapshot[field] = new]
    BY <2>2 DEF DefineState
  <2> QED
    BY <2>1, <2>2
<1>3. \A p \in DOMAIN processes : p # pid => processes'[p] = processes[p]
  BY <1>2
<1>4. ValuesStay
  <2>1. UNCHANGED objects \/ \E object : objects' = With(objects, next_object, object)
    BY DEF RegisterModule, DefineState, objectVars
  <2>2. next_object \notin DOMAIN objects
    BY DEF ObjectInv, ObjectShape
  <2> QED
    BY <2>1, <2>2 DEF ValuesStay, With
<1> HIDE DEF pid
<1> QED
  BY <1>1, <1>3, <1>4, StatesStayed, SMTT(30)

\* A write reaches an object of a waiting child only if it is shared.
LEMMA WriteFrozen ==
  ASSUME IInv, Agreed, ObjectInv, NEW c \in DOMAIN clients, NEW key, NEW value,
         WriteState(c, key, value),
         NEW id \in DOMAIN transactions, ~Terminal(transactions[id]),
         NEW i \in Range(ChildStates(transactions, processes, id)),
         objects[i].fork # "Share"
  PROVE  objects'[i] = objects[i]
<1> DEFINE pid == clients[c].pid
           mine == processes[pid].snapshot.states
           given == ChildStates(transactions, processes, id)
<1>1. /\ pid \in DOMAIN processes /\ processes[pid].state = "Active"
      /\ key \in DOMAIN mine
      /\ objects' = [objects EXCEPT ![mine[key]].value = value]
  BY DEF WriteState, ActiveWorker, OwnsProcess
<1>2. Holds("process", pid, mine) /\ mine[key] \in Range(mine)
  BY <1>1 DEF Holds, HoldsIn, Range
<1>3. \E k, n : Holds(k, n, given) /\ (k # "process" \/ n # pid)
  BY <1>1, StatesHeld
<1>4. i \notin Range(mine)
  <2> HIDE DEF given, mine, pid
  <2>1. i \in Range(given)
    BY DEF given
  <2> QED
    BY <1>2, <1>3, <2>1 DEF ObjectInv, Private
<1>5. i # mine[key]
  BY <1>2, <1>4
<1>6. i \in DOMAIN objects
  BY <1>3 DEF ObjectInv, Exact
<1> HIDE DEF mine
<1> QED
  BY <1>1, <1>5, <1>6

\* Connections that end and native processes that die abort forks.
LEMMA EndingStays ==
  ASSUME IInv, Agreed, Agreed', Transport
  PROVE  StatesStay /\ ValuesStay
<1>1. SnapshotsFewer /\ CollectObjects
  BY EndingSnapshots DEF Transport
<1>2. ValuesStay
  BY <1>1 DEF CollectObjects, Keep, Restrict, ValuesStay
<1>3. \A id \in DOMAIN transactions' :
         /\ transactions'[id].child = transactions[id].child
         /\ \/ transactions'[id].state = "Aborted"
            \/ /\ transactions'[id].snapshot = transactions[id].snapshot
               /\ transactions'[id].state = transactions[id].state
  <2>1. ASSUME NEW c \in DOMAIN clients, Disconnect(c)
        PROVE  \A id \in DOMAIN transactions' :
                  /\ transactions'[id].child = transactions[id].child
                  /\ \/ transactions'[id].state = "Aborted"
                     \/ /\ transactions'[id].snapshot = transactions[id].snapshot
                        /\ transactions'[id].state = transactions[id].state
    <3>1. \A id \in DOMAIN transactions : DOMAIN transactions[id] = ForkFields
      BY DEF IInv, Shape
    <3>2. PICK forks : transactions' = AbortedForks(forks)
      BY <2>1 DEF Disconnect
    <3> QED
      BY <3>1, <3>2, Zenon DEF AbortedForks, ForkFields
  <2>2. ASSUME NEW peer \in Peer, NEW status \in Status, ProcessExited(peer, status)
        PROVE  \A id \in DOMAIN transactions' :
                  /\ transactions'[id].child = transactions[id].child
                  /\ \/ transactions'[id].state = "Aborted"
                     \/ /\ transactions'[id].snapshot = transactions[id].snapshot
                        /\ transactions'[id].state = transactions[id].state
    BY <2>2, ExitForks
  <2> QED
    BY <2>1, <2>2 DEF Transport
<1> QED
  BY <1>1, <1>2, <1>3, StatesStayed DEF SnapshotsFewer, Terminal

\* What FrozenUntilCommit allows one step to do to one fork.
Frozen(id) ==
    ~Terminal(transactions'[id]) =>
        LET states == ChildStates(transactions, processes, id)
        IN  /\ ChildStates(transactions', processes', id) = states
            /\ \A i \in Range(states) :
                  objects[i].fork # "Share" => objects'[i] = objects[i]

\* Any step.
LEMMA FrozenStep ==
  ASSUME IInv, Agreed, Agreed', ObjectInv, ObjectInv', [Next]_vars,
         NEW id \in DOMAIN transactions \cap DOMAIN transactions'
  PROVE  Frozen(id)
<1>1. ASSUME StatesStay, ValuesStay
      PROVE  Frozen(id)
  BY <1>1, FrozenKept DEF StatesStay, Frozen
<1>2. ASSUME NEW peer \in Peer, Connect(peer)
      PROVE  Frozen(id)
  BY <1>1, <1>2, ConnectStays
<1>3. ASSUME NEW c \in DOMAIN clients, ForkRequest(c)
      PROVE  Frozen(id)
  BY <1>1, <1>3, ForkStays
<1>4. ASSUME NEW c \in DOMAIN clients, ExecRequest(c) \/ PoolRequest(c)
      PROVE  Frozen(id)
  BY <1>1, <1>4, OtherSnapshots, StatesStayed DEF ValuesStay
<1>5. ASSUME NEW c \in DOMAIN clients, Shutdown(c)
      PROVE  Frozen(id)
  BY <1>1, <1>5, StatesStayed DEF Shutdown, objectVars, forkVars, processVars, ValuesStay
<1>6. ASSUME NEW c \in DOMAIN clients, NEW key \in StateKey, NEW value \in Value,
             WriteState(c, key, value)
      PROVE  Frozen(id)
  <2>1. UNCHANGED <<transactions, processes>>
    BY <1>6 DEF WriteState, forkVars, processVars
  <2>2. ChildStates(transactions', processes', id) = ChildStates(transactions, processes, id)
    BY <2>1
  <2> QED
    BY <1>6, <2>1, <2>2, WriteFrozen, SMTT(30) DEF Frozen
<1>7. ASSUME NEW c \in DOMAIN clients, StateRequest(c)
      PROVE  Frozen(id)
  BY <1>1, <1>6, <1>7, DefiningStays DEF StateRequest
<1>8. CASE Transport
  BY <1>1, <1>8, EndingStays
<1>9. CASE UNCHANGED vars
  BY <1>1, <1>9, StatesStayed DEF vars, objectVars, forkVars, processVars, ValuesStay
<1> QED
  BY <1>2, <1>3, <1>4, <1>5, <1>7, <1>8, <1>9 DEF Next

\* For any modules, names, values and policies, and any requests of anyone in
\* between: until the commit a child keeps exactly the objects its parent gave
\* it in prepare_fork, through the reservation and after adopt, and the value
\* of each that is not shared (a later write_state of the parent does not
\* reach the child).
THEOREM FrozenCorrect == Spec => FrozenUntilCommit
<1>1. Init => IInv /\ Agreed /\ ObjectInv
  BY InitIInv, InitObjectInv DEF Init, EmptyMap, Agreed, ForkAgreement
<1>2. IInv /\ Agreed /\ ObjectInv /\ [Next]_vars => (IInv /\ Agreed /\ ObjectInv)'
  BY NextStep, AgreedStep, ObjectStep
<1>3. IInv /\ Agreed /\ ObjectInv /\ [Next]_vars =>
         [\A id \in DOMAIN transactions \cap DOMAIN transactions' :
             ~Terminal(transactions'[id]) =>
                 LET states == ChildStates(transactions, processes, id)
                 IN  /\ ChildStates(transactions', processes', id) = states
                     /\ \A i \in Range(states) :
                           objects[i].fork # "Share" => objects'[i] = objects[i]]_vars
  BY AgreedStep, ObjectStep, FrozenStep DEF Frozen
<1> QED
  BY <1>1, <1>2, <1>3, PTL DEF Spec, FrozenUntilCommit
-----------------------------------------------------------------------------
(* Quotas *)

ProcessQuota ==
    Cardinality(DOMAIN processes) + Cardinality(Prepared) <= MAX_PROCESSES

ObjectQuota == Cardinality(DOMAIN objects) <= MAX_OBJECTS

RecordQuota ==
    Cardinality(DOMAIN transactions) + Cardinality(DOMAIN exec_transactions)
      <= MAX_TRANSACTIONS

RetiredQuota ==
    /\ IsFiniteSet(retired_peers)
    /\ Cardinality(retired_peers) + Cardinality(PendingExecs) <= MAX_TRANSACTIONS

QuotaInv == ProcessQuota /\ ObjectQuota /\ RecordQuota /\ RetiredQuota

\* The tables are finite: their keys have been issued.
LEMMA TablesFinite ==
  ASSUME IInv, ObjectInv
  PROVE  /\ IsFiniteSet(DOMAIN processes) /\ IsFiniteSet(DOMAIN objects)
         /\ IsFiniteSet(DOMAIN transactions) /\ IsFiniteSet(Prepared)
         /\ IsFiniteSet(DOMAIN exec_transactions) /\ IsFiniteSet(PendingExecs)
<1>1. /\ next_pid \in Nat /\ next_object \in Nat /\ next_transaction \in Nat
      /\ DOMAIN processes \in SUBSET (1..(next_pid - 1))
      /\ DOMAIN objects \in SUBSET (1..(next_object - 1))
      /\ DOMAIN transactions \in SUBSET (1..(next_transaction - 1))
      /\ DOMAIN exec_transactions \in SUBSET (1..(next_transaction - 1))
  BY DEF IInv, Shape, ObjectInv, ObjectShape
<1>2. /\ IsFiniteSet(1..(next_pid - 1)) /\ IsFiniteSet(1..(next_object - 1))
      /\ IsFiniteSet(1..(next_transaction - 1))
  BY <1>1, FS_Interval
<1>3. /\ IsFiniteSet(DOMAIN processes) /\ IsFiniteSet(DOMAIN objects)
      /\ IsFiniteSet(DOMAIN transactions) /\ IsFiniteSet(DOMAIN exec_transactions)
  BY <1>1, <1>2, FS_Subset
<1>4. /\ Prepared \in SUBSET DOMAIN transactions
      /\ PendingExecs \in SUBSET DOMAIN exec_transactions
  BY DEF Prepared, PendingExecs
<1> QED
  BY <1>3, <1>4, FS_Subset

\* A part of a finite set.
LEMMA CountFewer ==
  ASSUME NEW S, NEW T, IsFiniteSet(S), T \subseteq S
  PROVE  /\ IsFiniteSet(T) /\ Cardinality(T) <= Cardinality(S)
         /\ Cardinality(T) \in Nat /\ Cardinality(S) \in Nat
  BY FS_Subset, FS_CardinalityType

\* A finite set with at most one element more.
LEMMA CountOneMore ==
  ASSUME NEW S, NEW T, NEW x, IsFiniteSet(S), T \subseteq S \cup {x}
  PROVE  /\ IsFiniteSet(T) /\ Cardinality(T) <= Cardinality(S) + 1
         /\ Cardinality(T) \in Nat /\ Cardinality(S) \in Nat
<1>1. /\ IsFiniteSet(S \cup {x}) /\ Cardinality(S) \in Nat
      /\ Cardinality(S \cup {x}) <= Cardinality(S) + 1
  <2>1. Cardinality(S) \in Nat
    BY FS_CardinalityType
  <2>2. /\ IsFiniteSet(S \cup {x})
        /\ Cardinality(S \cup {x}) = IF x \in S THEN Cardinality(S) ELSE Cardinality(S) + 1
    BY FS_AddElement
  <2> QED
    BY <2>1, <2>2
<1>2. /\ IsFiniteSet(T) /\ Cardinality(T) <= Cardinality(S \cup {x})
      /\ Cardinality(T) \in Nat /\ Cardinality(S \cup {x}) \in Nat
  BY <1>1, CountFewer
<1> QED
  BY <1>1, <1>2

\* A finite set without one of its elements.
LEMMA CountOneLess ==
  ASSUME NEW S, NEW T, NEW x \in S, IsFiniteSet(S), T \subseteq S \ {x}
  PROVE  /\ IsFiniteSet(T) /\ Cardinality(T) <= Cardinality(S) - 1
         /\ Cardinality(T) \in Nat /\ Cardinality(S) \in Nat
<1>1. /\ IsFiniteSet(S \ {x}) /\ Cardinality(S) \in Nat
      /\ Cardinality(S \ {x}) = Cardinality(S) - 1
  BY FS_RemoveElement, FS_CardinalityType
<1>2. /\ IsFiniteSet(T) /\ Cardinality(T) <= Cardinality(S \ {x})
      /\ Cardinality(T) \in Nat
  BY <1>1, CountFewer
<1> QED
  BY <1>1, <1>2

\* The limits are numbers.
LEMMA LimitsAreNumbers ==
  /\ MAX_PROCESSES \in Nat /\ MAX_OBJECTS \in Nat /\ MAX_TRANSACTIONS \in Nat
  BY ManagerAssumption DEF Limit

\* Tables that do not grow keep their quotas.
LEMMA NoGrowth ==
  ASSUME IInv, ObjectInv, QuotaInv
  PROVE  /\ (DOMAIN processes' \subseteq DOMAIN processes /\ Prepared' \subseteq Prepared)
               => ProcessQuota'
         /\ DOMAIN objects' \subseteq DOMAIN objects => ObjectQuota'
         /\ (/\ DOMAIN transactions' \subseteq DOMAIN transactions
             /\ DOMAIN exec_transactions' \subseteq DOMAIN exec_transactions)
               => RecordQuota'
         /\ (/\ retired_peers' \subseteq retired_peers
             /\ PendingExecs' \subseteq PendingExecs)
               => RetiredQuota'
<1>1. ASSUME DOMAIN processes' \subseteq DOMAIN processes, Prepared' \subseteq Prepared
      PROVE  ProcessQuota'
  <2>1. /\ Cardinality(DOMAIN processes') <= Cardinality(DOMAIN processes)
        /\ Cardinality(DOMAIN processes') \in Nat /\ Cardinality(DOMAIN processes) \in Nat
    BY <1>1, TablesFinite, CountFewer
  <2>2. /\ Cardinality(Prepared') <= Cardinality(Prepared)
        /\ Cardinality(Prepared') \in Nat /\ Cardinality(Prepared) \in Nat
    BY <1>1, TablesFinite, CountFewer
  <2> QED
    BY <2>1, <2>2, LimitsAreNumbers DEF QuotaInv, ProcessQuota
<1>2. ASSUME DOMAIN objects' \subseteq DOMAIN objects
      PROVE  ObjectQuota'
  <2>1. /\ Cardinality(DOMAIN objects') <= Cardinality(DOMAIN objects)
        /\ Cardinality(DOMAIN objects') \in Nat /\ Cardinality(DOMAIN objects) \in Nat
    BY <1>2, TablesFinite, CountFewer
  <2> QED
    BY <2>1, LimitsAreNumbers DEF QuotaInv, ObjectQuota
<1>3. ASSUME DOMAIN transactions' \subseteq DOMAIN transactions,
             DOMAIN exec_transactions' \subseteq DOMAIN exec_transactions
      PROVE  RecordQuota'
  <2>1. /\ Cardinality(DOMAIN transactions') <= Cardinality(DOMAIN transactions)
        /\ Cardinality(DOMAIN transactions') \in Nat
        /\ Cardinality(DOMAIN transactions) \in Nat
    BY <1>3, TablesFinite, CountFewer
  <2>2. /\ Cardinality(DOMAIN exec_transactions') <= Cardinality(DOMAIN exec_transactions)
        /\ Cardinality(DOMAIN exec_transactions') \in Nat
        /\ Cardinality(DOMAIN exec_transactions) \in Nat
    BY <1>3, TablesFinite, CountFewer
  <2> QED
    BY <2>1, <2>2, LimitsAreNumbers DEF QuotaInv, RecordQuota
<1>4. ASSUME retired_peers' \subseteq retired_peers, PendingExecs' \subseteq PendingExecs
      PROVE  RetiredQuota'
  <2>1. /\ IsFiniteSet(retired_peers')
        /\ Cardinality(retired_peers') <= Cardinality(retired_peers)
        /\ Cardinality(retired_peers') \in Nat /\ Cardinality(retired_peers) \in Nat
    BY <1>4, CountFewer DEF QuotaInv, RetiredQuota
  <2>2. /\ Cardinality(PendingExecs') <= Cardinality(PendingExecs)
        /\ Cardinality(PendingExecs') \in Nat /\ Cardinality(PendingExecs) \in Nat
    BY <1>4, TablesFinite, CountFewer
  <2> QED
    BY <2>1, <2>2, LimitsAreNumbers DEF QuotaInv, RetiredQuota
<1> QED
  BY <1>1, <1>2, <1>3, <1>4

\* Revoked execs are no longer undecided, and no more candidates are
\* remembered than execs were revoked.
LEMMA RevokingQuota ==
  ASSUME IInv, ObjectInv, QuotaInv, NEW execs, execs \subseteq PendingExecs,
         retired_peers' \subseteq retired_peers \cup RevokedCandidates(execs),
         PendingExecs' \subseteq PendingExecs \ execs
  PROVE  RetiredQuota'
<1> DEFINE attached == {i \in execs : exec_transactions[i].candidate # NoId}
           f == [i \in attached |-> exec_transactions[i].target]
           revoked == RevokedCandidates(execs)
           left == PendingExecs \ execs
<1>1. IsFiniteSet(PendingExecs) /\ IsFiniteSet(execs) /\ IsFiniteSet(attached)
  <2>1. IsFiniteSet(PendingExecs)
    BY TablesFinite
  <2>2. IsFiniteSet(execs)
    BY <2>1, CountFewer
  <2>3. attached \subseteq execs
    OBVIOUS
  <2> HIDE DEF attached
  <2> QED
    BY <2>1, <2>2, <2>3, CountFewer
<1>2. f \in Surjection(attached, revoked)
  BY DEF Surjection, RevokedCandidates
<1>3. attached \subseteq execs
  OBVIOUS
<1> HIDE DEF attached, f, revoked
<1>4. IsFiniteSet(revoked) /\ Cardinality(revoked) <= Cardinality(attached)
  BY <1>1, <1>2, FS_Surjection
<1>5. /\ Cardinality(attached) <= Cardinality(execs)
      /\ Cardinality(attached) \in Nat /\ Cardinality(execs) \in Nat
      /\ Cardinality(revoked) \in Nat
  BY <1>1, <1>3, <1>4, CountFewer, FS_CardinalityType
<1>6. IsFiniteSet(left) /\ Cardinality(left) = Cardinality(PendingExecs) - Cardinality(execs)
  <2>1. PendingExecs \cap execs = execs
    OBVIOUS
  <2> QED
    BY <1>1, <2>1, FS_Difference
<1>7. /\ Cardinality(PendingExecs') <= Cardinality(left)
      /\ Cardinality(PendingExecs') \in Nat /\ Cardinality(left) \in Nat
  BY <1>6, CountFewer
<1>8. /\ IsFiniteSet(retired_peers \cup revoked) /\ Cardinality(retired_peers) \in Nat
      /\ Cardinality(retired_peers \cup revoked)
            <= Cardinality(retired_peers) + Cardinality(revoked)
  <2>1. IsFiniteSet(retired_peers)
    BY DEF QuotaInv, RetiredQuota
  <2>2. /\ IsFiniteSet(retired_peers \cup revoked)
        /\ Cardinality(retired_peers \cup revoked) =
              Cardinality(retired_peers) + Cardinality(revoked)
                - Cardinality(retired_peers \cap revoked)
    BY <1>4, <2>1, FS_Union
  <2>3. Cardinality(retired_peers \cap revoked) \in Nat
    <3>1. retired_peers \cap revoked \subseteq retired_peers
      OBVIOUS
    <3> QED
      BY <2>1, <3>1, CountFewer
  <2>4. Cardinality(retired_peers) \in Nat
    BY <2>1, FS_CardinalityType
  <2> QED
    BY <1>5, <2>2, <2>3, <2>4
<1>9. /\ IsFiniteSet(retired_peers') /\ Cardinality(retired_peers') \in Nat
      /\ Cardinality(retired_peers') <= Cardinality(retired_peers \cup revoked)
      /\ Cardinality(retired_peers \cup revoked) \in Nat
  BY <1>8, CountFewer DEF revoked
<1>10. Cardinality(PendingExecs) \in Nat
  BY <1>1, FS_CardinalityType
<1> HIDE DEF left
<1> QED
  BY <1>4, <1>5, <1>6, <1>7, <1>8, <1>9, <1>10, LimitsAreNumbers DEF QuotaInv, RetiredQuota

\* A root process was counted before it came, a forked child when its fork
\* was prepared.
LEMMA ConnectQuota ==
  ASSUME IInv, ObjectInv, QuotaInv, NEW peer \in Peer, Connect(peer)
  PROVE  QuotaInv'
<1>1. UNCHANGED <<objects, retired_peers>>
  BY Zenon DEF Connect, ConnectHelper, ConnectControl, ConnectRoot, ConnectFork,
         ConnectExec, objectVars, execVars
<1>2. DOMAIN transactions' = DOMAIN transactions
  BY Zenon DEF Connect, ConnectHelper, ConnectControl, ConnectRoot, ConnectFork,
         ConnectExec, forkVars
<1>3. /\ DOMAIN exec_transactions' = DOMAIN exec_transactions
      /\ PendingExecs' = PendingExecs
  <2>1. CASE UNCHANGED exec_transactions
    BY <2>1 DEF PendingExecs
  <2>2. ASSUME NEW id \in DOMAIN exec_transactions, ConnectExec(peer, id)
        PROVE  /\ DOMAIN exec_transactions' = DOMAIN exec_transactions
               /\ PendingExecs' = PendingExecs
    <3>1. /\ exec_transactions[id].state = "Prepared"
          /\ DOMAIN exec_transactions[id] = ExecFields
          /\ exec_transactions' = [exec_transactions EXCEPT ![id].candidate = next_client,
                                                            ![id].state = "Adopted"]
      BY <2>2 DEF ConnectExec, IInv, Shape
    <3>2. /\ DOMAIN exec_transactions' = DOMAIN exec_transactions
          /\ exec_transactions'[id].state = "Adopted"
          /\ \A i \in DOMAIN exec_transactions : i # id =>
                exec_transactions'[i] = exec_transactions[i]
      BY <3>1 DEF ExecFields
    <3> QED
      BY <3>1, <3>2 DEF PendingExecs, Terminal
  <2>3. UNCHANGED exec_transactions
          \/ \E id \in DOMAIN exec_transactions : ConnectExec(peer, id)
    BY Zenon DEF Connect, ConnectHelper, ConnectControl, ConnectRoot, ConnectFork, execVars
  <2> QED
    BY <2>1, <2>2, <2>3
<1>4. ObjectQuota' /\ RecordQuota' /\ RetiredQuota'
  BY <1>1, <1>2, <1>3, NoGrowth
<1>5. ProcessQuota'
  <2>1. CASE UNCHANGED <<processes, transactions>>
    BY <2>1, NoGrowth DEF Prepared
  <2>2. CASE ConnectRoot(peer)
    <3>1. /\ ProcessCapacity
          /\ DOMAIN processes' = DOMAIN processes \cup {next_pid}
          /\ Prepared' = Prepared
      BY <2>2 DEF ConnectRoot, With, Prepared, forkVars
    <3>2. /\ Cardinality(DOMAIN processes') <= Cardinality(DOMAIN processes) + 1
          /\ Cardinality(DOMAIN processes') \in Nat /\ Cardinality(DOMAIN processes) \in Nat
      BY <3>1, TablesFinite, CountOneMore
    <3>3. Cardinality(Prepared) \in Nat
      BY TablesFinite, FS_CardinalityType
    <3> QED
      BY <3>1, <3>2, <3>3, LimitsAreNumbers DEF ProcessCapacity, ProcessQuota
  <2>3. ASSUME NEW id \in DOMAIN transactions, ConnectFork(peer, id)
        PROVE  ProcessQuota'
    <3>1. /\ id \in Prepared /\ DOMAIN transactions[id] = ForkFields
          /\ DOMAIN processes' = DOMAIN processes \cup {transactions[id].child}
          /\ transactions' = [transactions EXCEPT ![id].snapshot = {},
                                                  ![id].state = "Adopted"]
      BY <2>3 DEF ConnectFork, With, Prepared, IInv, Shape
    <3>2. Prepared' \subseteq Prepared \ {id}
      BY <3>1 DEF Prepared, ForkFields
    <3>3. /\ Cardinality(DOMAIN processes') <= Cardinality(DOMAIN processes) + 1
          /\ Cardinality(DOMAIN processes') \in Nat /\ Cardinality(DOMAIN processes) \in Nat
      BY <3>1, TablesFinite, CountOneMore
    <3>4. /\ Cardinality(Prepared') <= Cardinality(Prepared) - 1
          /\ Cardinality(Prepared') \in Nat /\ Cardinality(Prepared) \in Nat
      BY <3>1, <3>2, TablesFinite, CountOneLess
    <3> QED
      BY <3>3, <3>4, LimitsAreNumbers DEF QuotaInv, ProcessQuota
  <2>4. \/ UNCHANGED <<processes, transactions>>
        \/ ConnectRoot(peer)
        \/ \E id \in DOMAIN transactions : ConnectFork(peer, id)
    BY Zenon DEF Connect, ConnectHelper, ConnectControl, ConnectExec, forkVars, processVars
  <2> QED
    BY <2>1, <2>2, <2>3, <2>4
<1> QED
  BY <1>4, <1>5 DEF QuotaInv

\* A fork is prepared only if there is room for its child, its record and the
\* objects that are copied.
LEMMA ReserveQuota ==
  ASSUME IInv, ObjectInv, QuotaInv, NEW pid \in DOMAIN processes, NEW key, NEW parent,
         Reserve(pid, key, parent)
  PROVE  QuotaInv'
<1>1. /\ ProcessCapacity /\ TransactionCapacity
      /\ UNCHANGED <<exec_transactions, retired_peers>>
      /\ DOMAIN transactions' = DOMAIN transactions \cup {next_transaction}
      /\ \A id \in DOMAIN transactions : id # next_transaction =>
            transactions'[id] = transactions[id]
      /\ DOMAIN processes' = DOMAIN processes
  BY DEF Reserve, With, execVars
<1>2. ProcessQuota'
  <2>1. Prepared' \subseteq Prepared \cup {next_transaction}
    BY <1>1 DEF Prepared
  <2>2. /\ Cardinality(Prepared') <= Cardinality(Prepared) + 1
        /\ Cardinality(Prepared') \in Nat /\ Cardinality(Prepared) \in Nat
    BY <2>1, TablesFinite, CountOneMore
  <2>3. Cardinality(DOMAIN processes) \in Nat
    BY TablesFinite, FS_CardinalityType
  <2> QED
    BY <1>1, <2>2, <2>3, LimitsAreNumbers DEF ProcessCapacity, ProcessQuota
<1>3. RecordQuota'
  <2>1. /\ Cardinality(DOMAIN transactions') <= Cardinality(DOMAIN transactions) + 1
        /\ Cardinality(DOMAIN transactions') \in Nat
        /\ Cardinality(DOMAIN transactions) \in Nat
    BY <1>1, TablesFinite, CountOneMore
  <2>2. Cardinality(DOMAIN exec_transactions) \in Nat
    BY TablesFinite, FS_CardinalityType
  <2> QED
    BY <1>1, <2>1, <2>2, LimitsAreNumbers DEF TransactionCapacity, RecordQuota
<1>4. RetiredQuota'
  BY <1>1, NoGrowth DEF PendingExecs
<1>5. ObjectQuota'
  <2>0. PICK copied, count, new, fresh :
          /\ copied = Copied(pid) /\ count = Cardinality(copied)
          /\ new = next_object .. (next_object + count - 1)
          /\ fresh = CHOOSE f \in Bijection(copied, new) : TRUE
    OBVIOUS
  <2>1. IsFiniteSet(copied) /\ next_object \in Nat \ {0}
    <3>1. Holds("process", pid, processes[pid].snapshot.states)
      BY DEF Holds, HoldsIn
    <3>2. IsFiniteSet(DOMAIN processes[pid].snapshot.states)
      BY <3>1 DEF ObjectInv, ObjectShape
    <3>3. copied \subseteq DOMAIN processes[pid].snapshot.states
      BY <2>0 DEF Copied
    <3> QED
      BY <3>2, <3>3, CountFewer DEF ObjectInv, ObjectShape
  <2>2. count \in Nat /\ fresh \in Bijection(copied, new)
    BY <2>0, <2>1, FreshObjects
  <2>3. Range(fresh) \subseteq new
    BY <2>2 DEF Bijection, Injection, Range
  <2>4. /\ ObjectCapacity(count)
        /\ DOMAIN objects' = DOMAIN objects \cup Range(fresh)
    BY <2>0 DEF Reserve
  <2>5. IsFiniteSet(new) /\ Cardinality(new) = count
    <3>1. next_object \in Int /\ next_object + count - 1 \in Int
      BY <2>1, <2>2
    <3>2. /\ IsFiniteSet(new)
          /\ Cardinality(new) = IF next_object > next_object + count - 1 THEN 0
                                ELSE (next_object + count - 1) - next_object + 1
      BY <2>0, <3>1, FS_Interval
    <3> QED
      BY <2>1, <2>2, <3>2
  <2>6. /\ IsFiniteSet(Range(fresh)) /\ Cardinality(Range(fresh)) <= count
        /\ Cardinality(Range(fresh)) \in Nat
    BY <2>3, <2>5, CountFewer
  <2>7. Cardinality(DOMAIN objects \cup Range(fresh)) =
           Cardinality(DOMAIN objects) + Cardinality(Range(fresh))
             - Cardinality(DOMAIN objects \cap Range(fresh))
    BY <2>6, TablesFinite, FS_Union
  <2>8. /\ Cardinality(DOMAIN objects \cap Range(fresh)) \in Nat
        /\ Cardinality(DOMAIN objects) \in Nat
    <3>1. DOMAIN objects \cap Range(fresh) \subseteq DOMAIN objects
      OBVIOUS
    <3> QED
      BY <3>1, TablesFinite, CountFewer
  <2> QED
    BY <2>2, <2>4, <2>6, <2>7, <2>8, LimitsAreNumbers DEF ObjectCapacity, ObjectQuota
<1> QED
  BY <1>2, <1>3, <1>4, <1>5 DEF QuotaInv

\* The other requests of the fork protocol only settle forks.
LEMMA ForkRequestQuota ==
  ASSUME IInv, Agreed, ObjectInv, QuotaInv, NEW c \in DOMAIN clients, ForkRequest(c)
  PROVE  QuotaInv'
<1>1. ASSUME NEW key \in RequestKey, PrepareFork(c, key) \/ PrepareForkWithParent(c, key)
      PROVE  QuotaInv'
  <2>1. clients[c].pid \in DOMAIN processes
    BY <1>1 DEF PrepareFork, PrepareForkWithParent, ActiveWorker, OwnsProcess
  <2> QED
    BY <1>1, <2>1, ReserveQuota DEF PrepareFork, PrepareForkWithParent
<1>2. ASSUME \/ MarkReady(c)
             \/ \E id \in DOMAIN transactions :
                   CommitFork(c, id) \/ AbortFork(c, id) \/ AcknowledgeFork(c, id)
      PROVE  QuotaInv'
  <2>1. /\ UNCHANGED <<exec_transactions, retired_peers>>
        /\ DOMAIN processes' = DOMAIN processes
    BY <1>2 DEF MarkReady, CommitFork, AbortFork, AcknowledgeFork, execVars, processVars
  <2>2. DOMAIN objects' \subseteq DOMAIN objects
    BY <1>2 DEF MarkReady, CommitFork, AbortFork, AcknowledgeFork, CollectObjects,
                Keep, Restrict, objectVars
  <2>3. \A id \in DOMAIN transactions : DOMAIN transactions[id] = ForkFields
    BY DEF IInv, Shape
  <2>4. /\ DOMAIN transactions' \subseteq DOMAIN transactions
        /\ \A id \in DOMAIN transactions' : transactions'[id].state = "Prepared" =>
              transactions[id].state = "Prepared"
    <3>1. CASE MarkReady(c)
      BY <2>3, <3>1 DEF MarkReady, ForkFields
    <3>2. ASSUME NEW id \in DOMAIN transactions, CommitFork(c, id)
          PROVE  /\ DOMAIN transactions' \subseteq DOMAIN transactions
                 /\ \A i \in DOMAIN transactions' : transactions'[i].state = "Prepared" =>
                       transactions[i].state = "Prepared"
      BY <2>3, <3>2 DEF CommitFork, ForkFields
    <3>3. ASSUME NEW id \in DOMAIN transactions, AbortFork(c, id)
          PROVE  /\ DOMAIN transactions' \subseteq DOMAIN transactions
                 /\ \A i \in DOMAIN transactions' : transactions'[i].state = "Prepared" =>
                       transactions[i].state = "Prepared"
      BY <3>3, AbortedForksFacts DEF AbortFork
    <3>4. ASSUME NEW id \in DOMAIN transactions, AcknowledgeFork(c, id)
          PROVE  /\ DOMAIN transactions' \subseteq DOMAIN transactions
                 /\ \A i \in DOMAIN transactions' : transactions'[i].state = "Prepared" =>
                       transactions[i].state = "Prepared"
      BY <3>4 DEF AcknowledgeFork, Without, Restrict
    <3> QED
      BY <1>2, <3>1, <3>2, <3>3, <3>4
  <2>5. Prepared' \subseteq Prepared
    BY <2>4 DEF Prepared
  <2>6. PendingExecs' = PendingExecs
    BY <2>1 DEF PendingExecs
  <2> QED
    BY <2>1, <2>2, <2>4, <2>5, <2>6, NoGrowth DEF QuotaInv
<1> QED
  BY <1>1, <1>2 DEF ForkRequest

\* An exec reserves a record and the place of an image to remember; its
\* decision uses that place.
LEMMA ExecRequestQuota ==
  ASSUME IInv, ObjectInv, QuotaInv, NEW c \in DOMAIN clients, ExecRequest(c)
  PROVE  QuotaInv'
<1>1. UNCHANGED <<objects, transactions>> /\ DOMAIN processes' = DOMAIN processes
  BY OtherSnapshots
<1>2. ProcessQuota' /\ ObjectQuota'
  BY <1>1, NoGrowth DEF Prepared
<1>3. \A id \in DOMAIN exec_transactions : DOMAIN exec_transactions[id] = ExecFields
  BY DEF IInv, Shape
<1>4. ASSUME NEW key \in RequestKey, NEW target \in Peer, PrepareExec(c, key, target)
      PROVE  RecordQuota' /\ RetiredQuota'
  <2>1. /\ TransactionCapacity /\ UNCHANGED retired_peers
        /\ Cardinality(retired_peers) + Cardinality(PendingExecs) < MAX_TRANSACTIONS
        /\ DOMAIN exec_transactions' = DOMAIN exec_transactions \cup {next_transaction}
        /\ \A id \in DOMAIN exec_transactions : id # next_transaction =>
              exec_transactions'[id] = exec_transactions[id]
    BY <1>4 DEF PrepareExec, With
  <2>2. PendingExecs' \subseteq PendingExecs \cup {next_transaction}
    BY <2>1 DEF PendingExecs
  <2>3. /\ Cardinality(DOMAIN exec_transactions') <= Cardinality(DOMAIN exec_transactions) + 1
        /\ Cardinality(DOMAIN exec_transactions') \in Nat
        /\ Cardinality(DOMAIN exec_transactions) \in Nat
    BY <2>1, TablesFinite, CountOneMore
  <2>4. /\ Cardinality(PendingExecs') <= Cardinality(PendingExecs) + 1
        /\ Cardinality(PendingExecs') \in Nat /\ Cardinality(PendingExecs) \in Nat
    BY <2>2, TablesFinite, CountOneMore
  <2>5. /\ Cardinality(DOMAIN transactions) \in Nat
        /\ IsFiniteSet(retired_peers) /\ Cardinality(retired_peers) \in Nat
    BY TablesFinite, FS_CardinalityType DEF QuotaInv, RetiredQuota
  <2>6. RecordQuota'
    BY <1>1, <2>1, <2>3, <2>5, LimitsAreNumbers DEF TransactionCapacity, RecordQuota
  <2>7. RetiredQuota'
    BY <2>1, <2>4, <2>5, LimitsAreNumbers DEF RetiredQuota
  <2> QED
    BY <2>6, <2>7
<1>5. CASE MarkExecReady(c)
  <2> DEFINE id == clients[c].transaction
  <2>1. /\ UNCHANGED retired_peers
        /\ id \in DOMAIN exec_transactions /\ ~Terminal(exec_transactions[id])
        /\ exec_transactions' = [exec_transactions EXCEPT ![id].state = "Ready"]
    BY <1>5 DEF MarkExecReady
  <2>2. /\ DOMAIN exec_transactions' = DOMAIN exec_transactions
        /\ PendingExecs' \subseteq PendingExecs
    BY <1>3, <2>1 DEF PendingExecs, ExecFields
  <2> QED
    BY <1>1, <1>2, <2>1, <2>2, NoGrowth DEF QuotaInv
<1>6. ASSUME NEW id \in DOMAIN exec_transactions, CommitExec(c, id)
      PROVE  RecordQuota' /\ RetiredQuota'
  <2>1. /\ exec_transactions[id].state = "Ready"
        /\ DOMAIN exec_transactions' = DOMAIN exec_transactions
        /\ \E peer : retired_peers' = retired_peers \cup {peer}
        /\ exec_transactions' = [exec_transactions EXCEPT ![id].state = "Committed",
                                                          ![id].retiring = TRUE]
    BY <1>6 DEF CommitExec
  <2>2. id \in PendingExecs /\ PendingExecs' \subseteq PendingExecs \ {id}
    BY <1>3, <2>1 DEF PendingExecs, Terminal, ExecFields
  <2>3. /\ Cardinality(PendingExecs') <= Cardinality(PendingExecs) - 1
        /\ Cardinality(PendingExecs') \in Nat /\ Cardinality(PendingExecs) \in Nat
    BY <2>2, TablesFinite, CountOneLess
  <2>4. /\ IsFiniteSet(retired_peers')
        /\ Cardinality(retired_peers') <= Cardinality(retired_peers) + 1
        /\ Cardinality(retired_peers') \in Nat /\ Cardinality(retired_peers) \in Nat
    BY <2>1, CountOneMore DEF QuotaInv, RetiredQuota
  <2>5. RetiredQuota'
    BY <2>3, <2>4, LimitsAreNumbers DEF QuotaInv, RetiredQuota
  <2> QED
    BY <1>1, <2>1, <2>5, NoGrowth
<1>7. ASSUME NEW id \in DOMAIN exec_transactions, AbortExec(c, id)
      PROVE  RecordQuota' /\ RetiredQuota'
  <2>1. /\ id \in PendingExecs
        /\ exec_transactions' = AbortedExecs({id})
        /\ retired_peers' = retired_peers \cup RevokedCandidates({id})
    BY <1>7 DEF AbortExec
  <2>2. /\ DOMAIN exec_transactions' = DOMAIN exec_transactions
        /\ PendingExecs' \subseteq PendingExecs \ {id}
    BY <1>3, <2>1 DEF AbortedExecs, PendingExecs, Terminal, ExecFields
  <2> QED
    BY <1>1, <2>1, <2>2, NoGrowth, RevokingQuota
<1>8. ASSUME NEW id \in DOMAIN exec_transactions, AcknowledgeExec(c, id)
      PROVE  RecordQuota' /\ RetiredQuota'
  <2>1. UNCHANGED retired_peers /\ exec_transactions' = Without(exec_transactions, id)
    BY <1>8 DEF AcknowledgeExec
  <2>2. /\ DOMAIN exec_transactions' \subseteq DOMAIN exec_transactions
        /\ PendingExecs' \subseteq PendingExecs
    BY <2>1 DEF Without, Restrict, PendingExecs
  <2> QED
    BY <1>1, <2>1, <2>2, NoGrowth
<1> QED
  BY <1>2, <1>4, <1>5, <1>6, <1>7, <1>8 DEF ExecRequest, QuotaInv

\* A new state needs room for its object.
LEMMA StateQuota ==
  ASSUME IInv, ObjectInv, QuotaInv, NEW c \in DOMAIN clients,
         StateRequest(c) \/ Shutdown(c) \/ PoolRequest(c)
  PROVE  QuotaInv'
<1>1. /\ UNCHANGED <<transactions, exec_transactions, retired_peers>>
      /\ DOMAIN processes' = DOMAIN processes
  BY StateFrame, PoolFrame DEF ExecFrame, OwnersSame
<1>2. ProcessQuota' /\ RecordQuota' /\ RetiredQuota'
  BY <1>1, NoGrowth DEF Prepared, PendingExecs
<1>3. ASSUME NEW key \in StateKey, NEW value \in Value, NEW fork \in ForkPolicy,
             DefineState(c, key, value, fork)
      PROVE  ObjectQuota'
  <2>1. /\ ObjectCapacity(1)
        /\ DOMAIN objects' = DOMAIN objects \cup {next_object}
    BY <1>3 DEF DefineState, With
  <2>2. /\ Cardinality(DOMAIN objects') <= Cardinality(DOMAIN objects) + 1
        /\ Cardinality(DOMAIN objects') \in Nat /\ Cardinality(DOMAIN objects) \in Nat
    BY <2>1, TablesFinite, CountOneMore
  <2> QED
    BY <2>1, <2>2, LimitsAreNumbers DEF ObjectCapacity, ObjectQuota
<1>4. \/ DOMAIN objects' = DOMAIN objects
      \/ \E key \in StateKey, value \in Value, fork \in ForkPolicy :
            DefineState(c, key, value, fork)
  <2>1. CASE PoolRequest(c)
    BY <2>1, OtherSnapshots
  <2>2. CASE Shutdown(c)
    BY <2>2 DEF Shutdown, objectVars
  <2>3. CASE StateRequest(c)
    BY <2>3, Zenon DEF StateRequest, RegisterModule, WriteState, objectVars
  <2> QED
    BY <2>1, <2>2, <2>3
<1> QED
  BY <1>2, <1>3, <1>4, NoGrowth DEF QuotaInv

\* A lost connection and a death: what is dropped makes room, and what is
\* remembered of a revoked exec takes the place the exec had reserved.
LEMMA EndingQuota ==
  ASSUME IInv, ObjectInv, QuotaInv, Transport
  PROVE  QuotaInv'
<1>1. SnapshotsFewer /\ CollectObjects
  BY EndingSnapshots DEF Transport
<1>2. /\ DOMAIN processes' \subseteq DOMAIN processes
      /\ DOMAIN transactions' \subseteq DOMAIN transactions
      /\ DOMAIN objects' \subseteq DOMAIN objects
  BY <1>1 DEF SnapshotsFewer, CollectObjects, Keep, Restrict
<1>3. ASSUME NEW c \in DOMAIN clients, Disconnect(c)
      PROVE  /\ Prepared' \subseteq Prepared
             /\ DOMAIN exec_transactions' \subseteq DOMAIN exec_transactions
             /\ RetiredQuota'
  <2>1. \A id \in DOMAIN exec_transactions : DOMAIN exec_transactions[id] = ExecFields
    BY DEF IInv, Shape
  <2> DEFINE owned == IF OwnsProcess(c) THEN {clients[c].pid} ELSE {}
             execs == PendingExecsOf(owned)
                        \cup {id \in PendingExecs : /\ clients[c].kind = "ExecCandidate"
                                                    /\ clients[c].transaction = id}
  <2>2. execs \subseteq PendingExecs
    BY DEF PendingExecsOf
  <2>3. /\ exec_transactions' = AbortedExecs(execs)
        /\ retired_peers' = retired_peers \cup RevokedCandidates(execs)
        /\ \E forks : transactions' = AbortedForks(forks)
    BY <1>3 DEF Disconnect
  <2> HIDE DEF execs
  <2>4. /\ DOMAIN exec_transactions' = DOMAIN exec_transactions
        /\ PendingExecs' \subseteq PendingExecs \ execs
    BY <2>1, <2>2, <2>3 DEF AbortedExecs, PendingExecs, Terminal, ExecFields
  <2>5. Prepared' \subseteq Prepared
    BY <2>3, AbortedForksFacts DEF Prepared
  <2> QED
    BY <2>2, <2>3, <2>4, <2>5, RevokingQuota
<1>4. ASSUME NEW peer \in Peer, NEW status \in Status, ProcessExited(peer, status)
      PROVE  /\ Prepared' \subseteq Prepared
             /\ DOMAIN exec_transactions' \subseteq DOMAIN exec_transactions
             /\ RetiredQuota'
  <2>1. Prepared' \subseteq Prepared
    BY <1>4, ExitForks DEF Prepared
  <2>2. /\ ExecsLost(peer) \subseteq PendingExecs
        /\ DOMAIN exec_transactions' \subseteq DOMAIN exec_transactions
        /\ \A id \in DOMAIN exec_transactions' :
              exec_transactions'[id].state =
                 IF id \in ExecsLost(peer) THEN "Aborted" ELSE exec_transactions[id].state
    BY <1>4, ExitExecs, ZenonT(40)
  <2>3. PendingExecs' \subseteq PendingExecs \ ExecsLost(peer)
    BY <2>2 DEF PendingExecs, Terminal
  <2>4. retired_peers' \subseteq retired_peers \cup RevokedCandidates(ExecsLost(peer))
    BY <1>4, Zenon DEF ProcessExited, ExecsLost, Ending, Dying
  <2> QED
    BY <2>1, <2>2, <2>3, <2>4, RevokingQuota
<1>5. /\ Prepared' \subseteq Prepared
      /\ DOMAIN exec_transactions' \subseteq DOMAIN exec_transactions
      /\ RetiredQuota'
  BY <1>3, <1>4 DEF Transport
<1> QED
  BY <1>2, <1>5, NoGrowth DEF QuotaInv

\* Any step.
LEMMA QuotaStep ==
  ASSUME IInv, Agreed, ObjectInv, QuotaInv, [Next]_vars
  PROVE  QuotaInv'
<1>1. ASSUME NEW peer \in Peer, Connect(peer)
      PROVE  QuotaInv'
  BY <1>1, ConnectQuota
<1>2. ASSUME NEW c \in DOMAIN clients, ForkRequest(c)
      PROVE  QuotaInv'
  BY <1>2, ForkRequestQuota
<1>3. ASSUME NEW c \in DOMAIN clients, ExecRequest(c)
      PROVE  QuotaInv'
  BY <1>3, ExecRequestQuota
<1>4. ASSUME NEW c \in DOMAIN clients, StateRequest(c) \/ Shutdown(c) \/ PoolRequest(c)
      PROVE  QuotaInv'
  BY <1>4, StateQuota
<1>5. CASE Transport
  BY <1>5, EndingQuota
<1>6. CASE UNCHANGED vars
  <2>1. UNCHANGED <<processes, objects, transactions, exec_transactions, retired_peers>>
    BY <1>6 DEF vars, objectVars, forkVars, execVars, processVars
  <2> QED
    BY <2>1 DEF QuotaInv, ProcessQuota, ObjectQuota, RecordQuota, RetiredQuota,
                Prepared, PendingExecs
<1> QED
  BY <1>1, <1>2, <1>3, <1>4, <1>5, <1>6 DEF Next

\* For any limits: processes and prepared children together, objects, records
\* and the native processes that are remembered stay within their quotas.
\* Neither adopt nor commit_exec, abort_exec, disconnect or
\* process_exited_with_status checks a quota: what they add was reserved by
\* prepare_fork or prepare_exec.
THEOREM QuotasCorrect == Spec => []QuotasHold
<1>1. Init => IInv /\ Agreed /\ ObjectInv /\ QuotaInv
  <2> SUFFICES ASSUME Init PROVE IInv /\ Agreed /\ ObjectInv /\ QuotaInv
    OBVIOUS
  <2>1. IInv /\ Agreed /\ ObjectInv
    BY InitIInv, InitObjectInv DEF Init, EmptyMap, Agreed, ForkAgreement
  <2>2. /\ DOMAIN processes = {} /\ DOMAIN objects = {} /\ DOMAIN transactions = {}
        /\ DOMAIN exec_transactions = {} /\ retired_peers = {}
    BY DEF Init, EmptyMap
  <2>3. Prepared = {} /\ PendingExecs = {}
    BY <2>2 DEF Prepared, PendingExecs
  <2>4. IsFiniteSet({}) /\ Cardinality({}) = 0
    BY FS_EmptySet
  <2>5. QuotaInv
    BY <2>2, <2>3, <2>4, LimitsAreNumbers
       DEF QuotaInv, ProcessQuota, ObjectQuota, RecordQuota, RetiredQuota
  <2> QED
    BY <2>1, <2>5
<1>2. IInv /\ Agreed /\ ObjectInv /\ QuotaInv /\ [Next]_vars =>
         (IInv /\ Agreed /\ ObjectInv /\ QuotaInv)'
  BY NextStep, AgreedStep, ObjectStep, QuotaStep
<1>3. QuotaInv => QuotasHold
  BY DEF QuotaInv, ProcessQuota, ObjectQuota, RecordQuota, RetiredQuota, QuotasHold
<1> QED
  BY <1>1, <1>2, <1>3, PTL DEF Spec
-----------------------------------------------------------------------------
(* Types *)

\* Is `p` a record with these fields?
IsRecord(p, fields) == DOMAIN p = fields /\ p = [f \in fields |-> p[f]]

\* The types of the fields of a process.
ProcessTyped(p) ==
    /\ IsRecord(p, ProcessFields)
    /\ p.parent_pid \in Nat /\ p.peer \in Peer
    /\ p.state \in {"Active", "Pending", "Aborted"} /\ p.transaction \in Nat
    /\ p.prewarm \in PrewarmState
    /\ IsSnapshot(p.snapshot)
    /\ IsMap(p.request_keys, RequestKey, Nat)
    /\ IsMap(p.exec_request_keys, RequestKey, Nat)

\* IsProcess, field by field.
LEMMA ProcessType == \A p : IsProcess(p) <=> ProcessTyped(p)
  BY DEF IsProcess, ProcessTyped, IsRecord, ProcessFields, Id

TransactionTyped(t) ==
    /\ IsRecord(t, ForkFields)
    /\ t.parent \in Nat /\ t.requested_parent \in Nat /\ t.child \in Nat
    /\ t.child_parent \in Nat /\ t.state \in TransactionState
    /\ \A s \in t.snapshot : IsSnapshot(s)

\* IsTransaction, field by field.
LEMMA TransactionType == \A t : IsTransaction(t) <=> TransactionTyped(t)
  BY DEF IsTransaction, TransactionTyped, IsRecord, ForkFields, Id

ExecTyped(t) ==
    /\ IsRecord(t, ExecFields)
    /\ t.process \in Nat /\ t.owner \in Nat /\ t.owner_peer \in Peer /\ t.target \in Peer
    /\ t.candidate \in Nat /\ t.state \in TransactionState /\ t.retiring \in BOOLEAN
    /\ t.candidate_exit \subseteq Status

\* ExecTransaction, field by field.
LEMMA ExecType == \A t : t \in ExecTransaction <=> ExecTyped(t)
  BY DEF ExecTransaction, ExecTyped, IsRecord, ExecFields, Id

\* A map with one more entry, or with fewer.
LEMMA MapChanged ==
  ASSUME NEW f, NEW S, NEW T, IsMap(f, S, T)
  PROVE  /\ \A x \in S : \A v \in T : IsMap(With(f, x, v), S, T)
         /\ \A R : IsMap(Restrict(f, DOMAIN f \cap R), S, T)
         /\ \A R : R \subseteq DOMAIN f => IsMap(Restrict(f, R), S, T)
         /\ IsMap(EmptyMap, S, T)
  BY DEF IsMap, With, Restrict, EmptyMap

ProcessTypes == \A pid \in DOMAIN processes : ProcessTyped(processes[pid])

ForkTypes == \A id \in DOMAIN transactions : TransactionTyped(transactions[id])

ExecTypes == \A id \in DOMAIN exec_transactions : ExecTyped(exec_transactions[id])

ObjectTypes == \A i \in DOMAIN objects : objects[i] \in Object

SessionTypes ==
    /\ \A c \in DOMAIN clients : clients[c] \in Client
    /\ IsMap(modules, Module, Schema)
    /\ retired_peers \subseteq Peer
    /\ shutdown_requested \in BOOLEAN
    /\ IsMap(exited, Peer, Status)
    /\ IsMap(registered, Peer, Id)

ExitTypes ==
    /\ IsMap(exit_records, 1..(next_pid - 1), Status)
    /\ exit_order \in Seq(1..(next_pid - 1))

TypeInv == /\ ProcessTypes
           /\ ForkTypes
           /\ ExecTypes
           /\ ObjectTypes
           /\ SessionTypes
           /\ ExitTypes

\* The updates of a process that keep its type.
LEMMA ProcessUpdated ==
  ASSUME NEW p, ProcessTyped(p)
  PROVE  /\ \A v \in PrewarmState : ProcessTyped([p EXCEPT !.prewarm = v])
         /\ \A v \in PrewarmState : \A q \in Nat :
               ProcessTyped([p EXCEPT !.parent_pid = q, !.prewarm = v])
         /\ \A k : IsMap(k, RequestKey, Nat) =>
               /\ ProcessTyped([p EXCEPT !.request_keys = k])
               /\ ProcessTyped([p EXCEPT !.exec_request_keys = k])
         /\ ProcessTyped(Revoked(p))
         /\ ProcessTyped([p EXCEPT !.state = "Active", !.transaction = NoId])
         /\ \A s : IsSnapshot(s) => ProcessTyped([p EXCEPT !.snapshot = s])
<1> USE DEF ProcessTyped, IsRecord, ProcessFields
<1>1. \A v \in PrewarmState : ProcessTyped([p EXCEPT !.prewarm = v])
  OBVIOUS
<1>2. \A v \in PrewarmState : \A q \in Nat :
         ProcessTyped([p EXCEPT !.parent_pid = q, !.prewarm = v])
  BY ZenonT(40)
<1>3. \A k : IsMap(k, RequestKey, Nat) =>
         /\ ProcessTyped([p EXCEPT !.request_keys = k])
         /\ ProcessTyped([p EXCEPT !.exec_request_keys = k])
  OBVIOUS
<1>4. ProcessTyped(Revoked(p))
  BY DEF Revoked, NoId
<1>5. ProcessTyped([p EXCEPT !.state = "Active", !.transaction = NoId])
  BY DEF NoId
<1>6. \A s : IsSnapshot(s) => ProcessTyped([p EXCEPT !.snapshot = s])
  OBVIOUS
<1> QED
  BY <1>1, <1>2, <1>3, <1>4, <1>5, <1>6, Zenon

\* A new process.
LEMMA NewProcessTyped ==
  ASSUME NEW parent \in Nat, NEW peer \in Peer, NEW snapshot, IsSnapshot(snapshot),
         NEW state \in {"Active", "Pending"}, NEW id \in Nat
  PROVE  ProcessTyped(NewProcess(parent, peer, snapshot, state, id))
<1>1. Prewarm("Fresh") \in PrewarmState
  BY DEF Prewarm, PrewarmState
<1>2. IsMap(EmptyMap, RequestKey, Nat)
  BY DEF IsMap, EmptyMap
<1> QED
  BY <1>1, <1>2 DEF NewProcess, ProcessTyped, IsRecord, ProcessFields

\* A snapshot whose modules or states have changed.
LEMMA SnapshotUpdated ==
  ASSUME NEW s, IsSnapshot(s)
  PROVE  /\ \A f : IsMap(f, Module, Schema) => IsSnapshot([s EXCEPT !.modules = f])
         /\ \A f : IsMap(f, StateKey, Id) => IsSnapshot([s EXCEPT !.states = f])
         /\ IsMap(s.modules, Module, Schema) /\ IsMap(s.states, StateKey, Id)
  BY DEF IsSnapshot

\* The updates of a fork that keep its type.
LEMMA ForkUpdated ==
  ASSUME NEW t, TransactionTyped(t)
  PROVE  /\ \A state \in TransactionState : TransactionTyped([t EXCEPT !.state = state])
         /\ \A state \in TransactionState :
               TransactionTyped([t EXCEPT !.state = state, !.snapshot = {}])
         /\ \A q \in Nat : TransactionTyped([t EXCEPT !.child_parent = q])
<1> USE DEF TransactionTyped, IsRecord, ForkFields
<1>1. \A state \in TransactionState : TransactionTyped([t EXCEPT !.state = state])
  OBVIOUS
<1>2. \A state \in TransactionState :
         TransactionTyped([t EXCEPT !.state = state, !.snapshot = {}])
  OBVIOUS
<1>3. \A q \in Nat : TransactionTyped([t EXCEPT !.child_parent = q])
  OBVIOUS
<1> QED
  BY <1>1, <1>2, <1>3, Zenon

\* The updates of an exec that keep its type.
LEMMA ExecUpdated ==
  ASSUME NEW t, ExecTyped(t)
  PROVE  /\ \A state \in TransactionState : ExecTyped([t EXCEPT !.state = state])
         /\ \A c \in Nat : \A state \in TransactionState :
               ExecTyped([t EXCEPT !.candidate = c, !.state = state])
         /\ \A state \in TransactionState :
               ExecTyped([t EXCEPT !.state = state, !.retiring = TRUE])
         /\ \A e \in SUBSET Status : ExecTyped([t EXCEPT !.candidate_exit = e])
<1> USE DEF ExecTyped, IsRecord, ExecFields
<1>1. \A state \in TransactionState : ExecTyped([t EXCEPT !.state = state])
  OBVIOUS
<1>2. \A c \in Nat : \A state \in TransactionState :
         ExecTyped([t EXCEPT !.candidate = c, !.state = state])
  BY ZenonT(40)
<1>3. \A state \in TransactionState :
         ExecTyped([t EXCEPT !.state = state, !.retiring = TRUE])
  OBVIOUS
<1>4. \A e \in SUBSET Status : ExecTyped([t EXCEPT !.candidate_exit = e])
  OBVIOUS
<1> QED
  BY <1>1, <1>2, <1>3, <1>4, Zenon

\* A registration.
LEMMA ConnectTypes ==
  ASSUME IInv, Agreed, TypeInv, NEW peer \in Peer, Connect(peer)
  PROVE  ProcessTypes' /\ ForkTypes' /\ ExecTypes'
<1>1. ASSUME UNCHANGED processes PROVE ProcessTypes'
  BY <1>1 DEF TypeInv, ProcessTypes
<1>2. ASSUME UNCHANGED transactions PROVE ForkTypes'
  BY <1>2 DEF TypeInv, ForkTypes
<1>3. ASSUME UNCHANGED exec_transactions PROVE ExecTypes'
  BY <1>3 DEF TypeInv, ExecTypes
<1>4. CASE ConnectHelper(peer)
  BY <1>1, <1>2, <1>3, <1>4 DEF ConnectHelper, forkVars, execVars, processVars
<1>5. ASSUME NEW kind \in {"Controller", "Launcher"}, ConnectControl(peer, kind)
      PROVE  ProcessTypes' /\ ForkTypes' /\ ExecTypes'
  BY <1>1, <1>2, <1>3, <1>5 DEF ConnectControl, forkVars, execVars, processVars
<1>6. CASE ConnectRoot(peer)
  <2>1. /\ UNCHANGED <<transactions, exec_transactions>>
        /\ processes' = With(processes, next_pid,
               NewProcess(NoId, peer, EmptySnapshot, "Active", NoId))
    BY <1>6 DEF ConnectRoot, forkVars, execVars
  <2>2. IsSnapshot(EmptySnapshot)
    BY DEF IsSnapshot, EmptySnapshot, EmptyMap, IsMap
  <2>3. ProcessTyped(NewProcess(NoId, peer, EmptySnapshot, "Active", NoId))
    BY <2>2, NewProcessTyped DEF NoId
  <2>4. ProcessTypes'
    BY <2>1, <2>3 DEF TypeInv, ProcessTypes, With
  <2> QED
    BY <1>2, <1>3, <2>1, <2>4
<1>7. ASSUME NEW id \in DOMAIN transactions, ConnectFork(peer, id)
      PROVE  ProcessTypes' /\ ForkTypes' /\ ExecTypes'
  <2> DEFINE t == transactions[id]
             given == CHOOSE s \in t.snapshot : TRUE
             new == NewProcess(t.child_parent, peer, given, "Pending", id)
  <2>1. /\ UNCHANGED exec_transactions
        /\ processes' = With(processes, t.child, new)
        /\ transactions' = [transactions EXCEPT ![id].snapshot = {},
                                                ![id].state = "Adopted"]
    BY <1>7 DEF ConnectFork, execVars
  <2>2. TransactionTyped(t) /\ id \in Nat
    BY DEF TypeInv, ForkTypes, IInv, Shape
  <2>3. Cardinality(t.snapshot) = 1
    BY <1>7 DEF ConnectFork, Agreed, ForkAgreement
  <2>4. given \in t.snapshot
    BY <2>3, FS_EmptySet
  <2>5. ProcessTyped(new)
    <3>1. IsSnapshot(given) /\ t.child_parent \in Nat
      BY <2>2, <2>4 DEF TransactionTyped
    <3> HIDE DEF given
    <3> QED
      BY <2>2, <3>1, NewProcessTyped
  <2> HIDE DEF new
  <2>6. ProcessTypes'
    BY <2>1, <2>5 DEF TypeInv, ProcessTypes, With
  <2>7. ForkTypes'
    BY <2>1, <2>2, ZenonT(40) DEF TypeInv, ForkTypes, TransactionTyped, IsRecord, ForkFields,
                      TransactionState
  <2> QED
    BY <1>3, <2>1, <2>6, <2>7
<1>8. ASSUME NEW id \in DOMAIN exec_transactions, ConnectExec(peer, id)
      PROVE  ProcessTypes' /\ ForkTypes' /\ ExecTypes'
  <2>1. /\ UNCHANGED <<transactions, processes>>
        /\ exec_transactions' = [exec_transactions EXCEPT ![id].candidate = next_client,
                                                          ![id].state = "Adopted"]
    BY <1>8 DEF ConnectExec, forkVars, processVars
  <2>2. next_client \in Nat
    BY DEF IInv, Shape
  <2>3. ExecTyped([exec_transactions[id] EXCEPT !.candidate = next_client,
                                                !.state = "Adopted"])
    BY <2>2, ExecUpdated, Zenon DEF TypeInv, ExecTypes, TransactionState
  <2>4. ExecTypes'
    BY <2>1, <2>3 DEF TypeInv, ExecTypes
  <2> QED
    BY <1>1, <1>2, <2>1, <2>4
<1> QED
  BY <1>4, <1>5, <1>6, <1>7, <1>8 DEF Connect

\* The child of a fork gets a snapshot and its parent a record.
LEMMA ReserveTypes ==
  ASSUME IInv, ObjectInv, TypeInv, NEW pid \in DOMAIN processes, NEW key \in RequestKey,
         NEW parent \in Nat, Reserve(pid, key, parent)
  PROVE  ProcessTypes' /\ ForkTypes' /\ ObjectTypes'
<1>1. ProcessTyped(processes[pid]) /\ next_transaction \in Nat /\ next_pid \in Nat
  BY DEF TypeInv, ProcessTypes, IInv, Shape
<1>2. ProcessTypes'
  <2>1. processes' = [processes EXCEPT ![pid].request_keys = With(@, key, next_transaction)]
    BY DEF Reserve
  <2>2. IsMap(With(processes[pid].request_keys, key, next_transaction), RequestKey, Nat)
    BY <1>1, MapChanged DEF ProcessTyped
  <2>3. ProcessTyped([processes[pid] EXCEPT !.request_keys =
                          With(processes[pid].request_keys, key, next_transaction)])
    BY <1>1, <2>2, ProcessUpdated, Zenon
  <2> QED
    BY <2>1, <2>3 DEF TypeInv, ProcessTypes
<1>0. PICK states, copied, count, fresh :
        /\ states = processes[pid].snapshot.states
        /\ copied = Copied(pid)
        /\ count = Cardinality(copied)
        /\ fresh = CHOOSE f \in Bijection(copied, next_object .. (next_object + count - 1)) : TRUE
  OBVIOUS
<1>3. /\ IsFiniteSet(copied) /\ next_object \in Nat \ {0}
      /\ copied = {k \in DOMAIN states : objects[states[k]].fork # "Share"}
      /\ \A k \in DOMAIN states : states[k] \in DOMAIN objects
  <2>1. Holds("process", pid, states)
    BY <1>0 DEF Holds, HoldsIn
  <2>2. IsFiniteSet(DOMAIN states)
    BY <2>1 DEF ObjectInv, ObjectShape
  <2>3. copied = {k \in DOMAIN states : objects[states[k]].fork # "Share"}
    BY <1>0 DEF Copied
  <2>4. \A k \in DOMAIN states : states[k] \in Range(states)
    BY DEF Range
  <2>5. \A k \in DOMAIN states : states[k] \in DOMAIN objects
    BY <2>1, <2>4 DEF ObjectInv, Exact
  <2>6. copied \subseteq DOMAIN states
    BY <2>3, SMTT(30)
  <2> QED
    BY <2>2, <2>3, <2>5, <2>6, CountFewer DEF ObjectInv, ObjectShape
<1>4. count \in Nat /\ fresh \in Bijection(copied, next_object .. (next_object + count - 1))
  BY <1>0, <1>3, FreshObjects
<1>5. /\ DOMAIN fresh = copied
      /\ \A k \in copied : fresh[k] \in next_object .. (next_object + count - 1)
  BY <1>4 DEF Bijection, Injection
<1>6. ForkTypes'
  <2>1. PICK new : new = [k \in DOMAIN states |-> IF k \in copied THEN fresh[k] ELSE states[k]]
    OBVIOUS
  <2>2. PICK child : child = [processes[pid].snapshot EXCEPT !.states = new]
    OBVIOUS
  <2>3. IsSnapshot(processes[pid].snapshot)
    BY <1>1 DEF ProcessTyped
  <2>4. IsMap(states, StateKey, Id)
    BY <1>0, <2>3, SnapshotUpdated
  <2>5. IsMap(new, StateKey, Id)
    BY <1>3, <1>4, <1>5, <2>1, <2>4 DEF IsMap, Id
  <2>6. IsSnapshot(child)
    BY <2>2, <2>3, <2>5, SnapshotUpdated
  <2>7. transactions' = With(transactions, next_transaction,
             [parent |-> pid, requested_parent |-> parent, child |-> next_pid,
              child_parent |-> parent, snapshot |-> {child}, state |-> "Prepared"])
    BY <1>0, <2>1, <2>2 DEF Reserve
  <2>8. pid \in Nat
    BY DEF IInv, Shape
  <2>9. TransactionTyped([parent |-> pid, requested_parent |-> parent, child |-> next_pid,
              child_parent |-> parent, snapshot |-> {child}, state |-> "Prepared"])
    BY <1>1, <2>6, <2>8 DEF TransactionTyped, IsRecord, ForkFields, TransactionState
  <2> QED
    BY <2>7, <2>9 DEF TypeInv, ForkTypes, With
<1>7. ObjectTypes'
  <2>1. /\ DOMAIN objects' = DOMAIN objects \cup Range(fresh)
        /\ \A i \in DOMAIN objects : objects'[i] = objects[i]
        /\ \A i \in Range(fresh) \ DOMAIN objects :
              objects'[i] = Cloned(objects[states[CHOOSE k \in copied : fresh[k] = i]])
    BY <1>0 DEF Reserve
  <2>2. \A o \in Object : Cloned(o) \in Object
    BY DEF Cloned, Object
  <2>3. ASSUME NEW i \in Range(fresh) \ DOMAIN objects
        PROVE  objects'[i] \in Object
    <3> DEFINE source == CHOOSE k \in copied : fresh[k] = i
    <3>1. \E k \in copied : fresh[k] = i
      BY <1>5, <2>3 DEF Range
    <3>2. source \in copied
      BY <3>1
    <3>3. objects'[i] = Cloned(objects[states[source]])
      BY <2>1, <2>3
    <3> HIDE DEF source
    <3>4. objects[states[source]] \in Object
      BY <1>3, <3>2 DEF TypeInv, ObjectTypes
    <3> QED
      BY <2>2, <3>3, <3>4
  <2> QED
    BY <2>1, <2>3 DEF TypeInv, ObjectTypes
<1> QED
  BY <1>2, <1>6, <1>7

\* A step that leaves a table alone.
LEMMA TypesQuiet ==
  ASSUME TypeInv
  PROVE  /\ UNCHANGED processes => ProcessTypes'
         /\ UNCHANGED transactions => ForkTypes'
         /\ UNCHANGED exec_transactions => ExecTypes'
         /\ UNCHANGED objects => ObjectTypes'
         /\ CollectObjects => ObjectTypes'
<1>1. CollectObjects => ObjectTypes'
  BY DEF CollectObjects, Keep, Restrict, TypeInv, ObjectTypes
<1> QED
  BY <1>1 DEF TypeInv, ProcessTypes, ForkTypes, ExecTypes, ObjectTypes

\* Aborted forks and execs keep their types.
LEMMA AbortedTypes ==
  ASSUME TypeInv
  PROVE  /\ \A ids : \A id \in DOMAIN transactions : TransactionTyped(AbortedForks(ids)[id])
         /\ \A ids : DOMAIN AbortedForks(ids) = DOMAIN transactions
         /\ \A ids : \A id \in DOMAIN exec_transactions : ExecTyped(AbortedExecs(ids)[id])
         /\ \A ids : DOMAIN AbortedExecs(ids) = DOMAIN exec_transactions
<1>0. "Aborted" \in TransactionState
  BY DEF TransactionState
<1>1. \A ids : \A id \in DOMAIN transactions : TransactionTyped(AbortedForks(ids)[id])
  <2>1. \A id \in DOMAIN transactions :
           /\ TransactionTyped(transactions[id])
           /\ TransactionTyped([transactions[id] EXCEPT !.state = "Aborted", !.snapshot = {}])
    BY <1>0, ForkUpdated, Zenon DEF TypeInv, ForkTypes
  <2> QED
    BY <2>1, Zenon DEF AbortedForks
<1>2. \A ids : \A id \in DOMAIN exec_transactions : ExecTyped(AbortedExecs(ids)[id])
  <2>1. \A id \in DOMAIN exec_transactions :
           /\ ExecTyped(exec_transactions[id])
           /\ ExecTyped([exec_transactions[id] EXCEPT !.state = "Aborted"])
    BY <1>0, ExecUpdated, Zenon DEF TypeInv, ExecTypes
  <2> QED
    BY <2>1 DEF AbortedExecs
<1> QED
  BY <1>1, <1>2, Zenon DEF AbortedForks, AbortedExecs

\* The requests of a fork.
LEMMA ForkRequestTypes ==
  ASSUME IInv, ObjectInv, TypeInv, NEW c \in DOMAIN clients, ForkRequest(c)
  PROVE  ProcessTypes' /\ ForkTypes' /\ ExecTypes' /\ ObjectTypes'
<1> DEFINE pid == clients[c].pid
<1>0. \A id \in DOMAIN processes : ProcessTyped(processes[id]) /\ id \in Nat
  BY DEF TypeInv, ProcessTypes, IInv, Shape
<1>1. ASSUME NEW key \in RequestKey, PrepareFork(c, key) \/ PrepareForkWithParent(c, key)
      PROVE  ProcessTypes' /\ ForkTypes' /\ ExecTypes' /\ ObjectTypes'
  <2>1. pid \in DOMAIN processes
    BY <1>1 DEF PrepareFork, PrepareForkWithParent, ActiveWorker, OwnsProcess
  <2>2. PICK parent \in Nat : Reserve(pid, key, parent)
    BY <1>0, <1>1, <2>1, SMTT(30) DEF PrepareFork, PrepareForkWithParent, ProcessTyped
  <2>3. UNCHANGED exec_transactions
    BY <2>2, Zenon DEF Reserve, execVars
  <2> HIDE DEF pid
  <2> QED
    BY <2>1, <2>2, <2>3, ReserveTypes, TypesQuiet
<1>2. CASE MarkReady(c)
  <2> DEFINE id == processes[pid].transaction
  <2>1. /\ UNCHANGED <<processes, exec_transactions, objects>>
        /\ transactions' = [transactions EXCEPT ![id].state = "Ready"]
    BY <1>2 DEF MarkReady, processVars, execVars, objectVars
  <2>2. id \in DOMAIN transactions =>
           TransactionTyped([transactions[id] EXCEPT !.state = "Ready"])
    BY ForkUpdated, Zenon DEF TypeInv, ForkTypes, TransactionState
  <2>3. ForkTypes'
    BY <2>1, <2>2 DEF TypeInv, ForkTypes
  <2> QED
    BY <2>1, <2>3, TypesQuiet
<1>3. ASSUME NEW id \in DOMAIN transactions, CommitFork(c, id)
      PROVE  ProcessTypes' /\ ForkTypes' /\ ExecTypes' /\ ObjectTypes'
  <2> DEFINE child == transactions[id].child
  <2>1. /\ UNCHANGED <<exec_transactions, objects>>
        /\ transactions' = [transactions EXCEPT ![id].state = "Committed"]
        /\ processes' = [processes EXCEPT ![child].state = "Active",
                                          ![child].transaction = NoId]
    BY <1>3 DEF CommitFork, execVars, objectVars
  <2>2. TransactionTyped([transactions[id] EXCEPT !.state = "Committed"])
    BY ForkUpdated, Zenon DEF TypeInv, ForkTypes, TransactionState
  <2>3. ForkTypes'
    BY <2>1, <2>2 DEF TypeInv, ForkTypes
  <2>4. child \in DOMAIN processes =>
           ProcessTyped([processes[child] EXCEPT !.state = "Active", !.transaction = NoId])
    BY <1>0, ProcessUpdated, Zenon
  <2>5. ProcessTypes'
    <3>1. \A q \in DOMAIN processes : processes'[q] =
             IF q = child
             THEN [processes[q] EXCEPT !.state = "Active", !.transaction = NoId]
             ELSE processes[q]
      BY <2>1
    <3>2. DOMAIN processes' = DOMAIN processes
      BY <2>1
    <3> QED
      BY <1>0, <2>4, <3>1, <3>2, Zenon DEF ProcessTypes
  <2> QED
    BY <2>1, <2>3, <2>5, TypesQuiet
<1>4. ASSUME NEW id \in DOMAIN transactions, AbortFork(c, id)
      PROVE  ProcessTypes' /\ ForkTypes' /\ ExecTypes' /\ ObjectTypes'
  <2>1. /\ UNCHANGED exec_transactions
        /\ transactions' = AbortedForks({id})
        /\ processes' = [q \in DOMAIN processes |->
               IF q \in ChildrenOf({id}) THEN Revoked(processes[q]) ELSE processes[q]]
        /\ CollectObjects
    BY <1>4 DEF AbortFork, execVars
  <2>2. ForkTypes'
    BY <2>1, AbortedTypes DEF ForkTypes
  <2>3. ProcessTypes'
    <3>1. \A q \in DOMAIN processes : ProcessTyped(Revoked(processes[q]))
      BY <1>0, ProcessUpdated, Zenon
    <3> QED
      BY <1>0, <2>1, <3>1 DEF ProcessTypes
  <2> QED
    BY <2>1, <2>2, <2>3, TypesQuiet
<1>5. ASSUME NEW id \in DOMAIN transactions, AcknowledgeFork(c, id)
      PROVE  ProcessTypes' /\ ForkTypes' /\ ExecTypes' /\ ObjectTypes'
  <2>1. /\ UNCHANGED <<exec_transactions, objects>>
        /\ transactions' = Without(transactions, id)
        /\ pid \in DOMAIN processes
        /\ processes' = [processes EXCEPT ![pid].request_keys = DropRecord(@, id)]
    BY <1>5 DEF AcknowledgeFork, OwnsProcess, execVars, objectVars
  <2>2. ForkTypes'
    BY <2>1 DEF TypeInv, ForkTypes, Without, Restrict
  <2>3. IsMap(DropRecord(processes[pid].request_keys, id), RequestKey, Nat)
    BY <1>0, <2>1, MapChanged DEF ProcessTyped, DropRecord
  <2>4. ProcessTyped([processes[pid] EXCEPT !.request_keys =
                          DropRecord(processes[pid].request_keys, id)])
    BY <1>0, <2>1, <2>3, ProcessUpdated, Zenon
  <2>5. ProcessTypes'
    BY <1>0, <2>1, <2>4 DEF ProcessTypes
  <2> QED
    BY <2>1, <2>2, <2>5, TypesQuiet
<1> QED
  BY <1>1, <1>2, <1>3, <1>4, <1>5 DEF ForkRequest

\* The requests of an exec.
LEMMA ExecRequestTypes ==
  ASSUME IInv, TypeInv, NEW c \in DOMAIN clients, ExecRequest(c)
  PROVE  ProcessTypes' /\ ForkTypes' /\ ExecTypes' /\ ObjectTypes'
<1> DEFINE pid == clients[c].pid
<1>0. /\ \A id \in DOMAIN processes : ProcessTyped(processes[id]) /\ id \in Nat
      /\ \A id \in DOMAIN exec_transactions : ExecTyped(exec_transactions[id])
      /\ next_transaction \in Nat /\ c \in Nat
  BY DEF TypeInv, ProcessTypes, ExecTypes, IInv, Shape
<1>1. ASSUME NEW key \in RequestKey, NEW target \in Peer, PrepareExec(c, key, target)
      PROVE  ProcessTypes' /\ ForkTypes' /\ ExecTypes' /\ ObjectTypes'
  <2> DEFINE t == [process |-> pid, owner |-> c, owner_peer |-> processes[pid].peer,
                   target |-> target, candidate |-> NoId, state |-> "Prepared",
                   retiring |-> FALSE, candidate_exit |-> {}]
  <2>1. /\ UNCHANGED <<transactions, objects>>
        /\ pid \in DOMAIN processes
        /\ exec_transactions' = With(exec_transactions, next_transaction, t)
        /\ processes' = [processes EXCEPT ![pid].exec_request_keys =
                             With(@, key, next_transaction)]
    BY <1>1 DEF PrepareExec, ActiveWorker, OwnsProcess, objectVars
  <2>2. ExecTyped(t)
    BY <1>0, <2>1 DEF ExecTyped, IsRecord, ExecFields, TransactionState, ProcessTyped, NoId
  <2> HIDE DEF t
  <2>3. ExecTypes'
    BY <1>0, <2>1, <2>2 DEF ExecTypes, With
  <2>4. IsMap(With(processes[pid].exec_request_keys, key, next_transaction), RequestKey, Nat)
    BY <1>0, <2>1, MapChanged DEF ProcessTyped
  <2>5. ProcessTyped([processes[pid] EXCEPT !.exec_request_keys =
                          With(processes[pid].exec_request_keys, key, next_transaction)])
    BY <1>0, <2>1, <2>4, ProcessUpdated, Zenon
  <2>6. ProcessTypes'
    BY <1>0, <2>1, <2>5 DEF ProcessTypes
  <2> QED
    BY <2>1, <2>3, <2>6, TypesQuiet
<1>2. CASE MarkExecReady(c)
  <2> DEFINE id == clients[c].transaction
  <2>1. /\ UNCHANGED <<transactions, objects, processes>>
        /\ exec_transactions' = [exec_transactions EXCEPT ![id].state = "Ready"]
        /\ id \in DOMAIN exec_transactions
    BY <1>2 DEF MarkExecReady, forkVars, objectVars, processVars
  <2>2. ExecTyped([exec_transactions[id] EXCEPT !.state = "Ready"])
    BY <1>0, <2>1, ExecUpdated, Zenon DEF TransactionState
  <2>3. ExecTypes'
    BY <1>0, <2>1, <2>2 DEF ExecTypes
  <2> QED
    BY <2>1, <2>3, TypesQuiet
<1>3. ASSUME NEW id \in DOMAIN exec_transactions, CommitExec(c, id)
      PROVE  ProcessTypes' /\ ForkTypes' /\ ExecTypes' /\ ObjectTypes'
  <2>1. /\ UNCHANGED <<transactions, objects, processes>>
        /\ exec_transactions' = [exec_transactions EXCEPT ![id].state = "Committed",
                                                          ![id].retiring = TRUE]
    BY <1>3 DEF CommitExec, forkVars, objectVars, processVars
  <2>2. ExecTyped([exec_transactions[id] EXCEPT !.state = "Committed", !.retiring = TRUE])
    BY <1>0, <2>1, ExecUpdated, Zenon DEF TransactionState
  <2>3. ExecTypes'
    BY <1>0, <2>1, <2>2 DEF ExecTypes
  <2> QED
    BY <2>1, <2>3, TypesQuiet
<1>4. ASSUME NEW id \in DOMAIN exec_transactions, AbortExec(c, id)
      PROVE  ProcessTypes' /\ ForkTypes' /\ ExecTypes' /\ ObjectTypes'
  <2>1. /\ UNCHANGED <<transactions, objects, processes>>
        /\ exec_transactions' = AbortedExecs({id})
    BY <1>4 DEF AbortExec, forkVars, objectVars, processVars
  <2>2. ExecTypes'
    BY <2>1, AbortedTypes DEF ExecTypes
  <2> QED
    BY <2>1, <2>2, TypesQuiet
<1>5. ASSUME NEW id \in DOMAIN exec_transactions, AcknowledgeExec(c, id)
      PROVE  ProcessTypes' /\ ForkTypes' /\ ExecTypes' /\ ObjectTypes'
  <2>1. /\ UNCHANGED <<transactions, objects>>
        /\ exec_transactions' = Without(exec_transactions, id)
        /\ pid \in DOMAIN processes
        /\ processes' = [processes EXCEPT ![pid].exec_request_keys = DropRecord(@, id)]
    BY <1>5 DEF AcknowledgeExec, OwnsProcess, forkVars, objectVars
  <2>2. ExecTypes'
    BY <2>1 DEF TypeInv, ExecTypes, Without, Restrict
  <2>3. IsMap(DropRecord(processes[pid].exec_request_keys, id), RequestKey, Nat)
    BY <1>0, <2>1, MapChanged DEF ProcessTyped, DropRecord
  <2>4. ProcessTyped([processes[pid] EXCEPT !.exec_request_keys =
                          DropRecord(processes[pid].exec_request_keys, id)])
    BY <1>0, <2>1, <2>3, ProcessUpdated, Zenon
  <2>5. ProcessTypes'
    BY <1>0, <2>1, <2>4 DEF ProcessTypes
  <2> QED
    BY <2>1, <2>2, <2>5, TypesQuiet
<1> QED
  BY <1>1, <1>2, <1>3, <1>4, <1>5 DEF ExecRequest

\* Module state.
LEMMA StateTypes ==
  ASSUME IInv, ObjectInv, TypeInv, NEW c \in DOMAIN clients, StateRequest(c)
  PROVE  ProcessTypes' /\ ForkTypes' /\ ExecTypes' /\ ObjectTypes'
<1> DEFINE pid == clients[c].pid
<1>0. /\ \A id \in DOMAIN processes : ProcessTyped(processes[id])
      /\ next_object \in Nat
  BY DEF TypeInv, ProcessTypes, ObjectInv, ObjectShape
<1>1. ASSUME NEW module \in Module, NEW schema \in Schema, RegisterModule(c, module, schema)
      PROVE  ProcessTypes' /\ ForkTypes' /\ ExecTypes' /\ ObjectTypes'
  <2> DEFINE s == processes[pid].snapshot
             new == [s EXCEPT !.modules = With(@, module, schema)]
  <2>1. /\ UNCHANGED <<transactions, exec_transactions, objects>>
        /\ pid \in DOMAIN processes
        /\ processes' = [processes EXCEPT ![pid].snapshot.modules = With(@, module, schema)]
    BY <1>1 DEF RegisterModule, ActiveWorker, OwnsProcess, forkVars, execVars, objectVars
  <2>2. IsSnapshot(s)
    BY <1>0, <2>1 DEF ProcessTyped
  <2>3. IsMap(With(s.modules, module, schema), Module, Schema)
    BY <2>2, SnapshotUpdated, MapChanged
  <2>4. IsSnapshot(new)
    BY <2>2, <2>3, SnapshotUpdated
  <2>5. ProcessTyped([processes[pid] EXCEPT !.snapshot = new])
    <3> HIDE DEF new
    <3> QED
      BY <1>0, <2>1, <2>4, ProcessUpdated, Zenon
  <2>6. processes' = [processes EXCEPT ![pid].snapshot = new]
    BY <2>1
  <2>7. ProcessTypes'
    <3> HIDE DEF new
    <3> QED
      BY <1>0, <2>1, <2>5, <2>6, SMTT(30) DEF ProcessTypes
  <2> QED
    BY <2>1, <2>7, TypesQuiet
<1>2. ASSUME NEW key \in StateKey, NEW value \in Value, WriteState(c, key, value)
      PROVE  ProcessTypes' /\ ForkTypes' /\ ExecTypes' /\ ObjectTypes'
  <2> DEFINE i == processes[pid].snapshot.states[key]
  <2>1. /\ UNCHANGED <<transactions, exec_transactions, processes>>
        /\ objects' = [objects EXCEPT ![i].value = value]
    BY <1>2 DEF WriteState, forkVars, execVars, processVars
  <2>2. \A o \in Object : [o EXCEPT !.value = value] \in Object
    BY <1>2, SMTT(30) DEF Object
  <2>3. ObjectTypes'
    BY <2>1, <2>2 DEF TypeInv, ObjectTypes
  <2> QED
    BY <2>1, <2>3, TypesQuiet, SMTT(30)
<1>3. ASSUME NEW key \in StateKey, NEW value \in Value, NEW fork \in ForkPolicy,
             DefineState(c, key, value, fork)
      PROVE  ProcessTypes' /\ ForkTypes' /\ ExecTypes' /\ ObjectTypes'
  <2> DEFINE s == processes[pid].snapshot
             new == [s EXCEPT !.states = With(@, key, next_object)]
             o == [value |-> value, initial |-> value, fork |-> fork]
  <2>1. /\ UNCHANGED <<transactions, exec_transactions>>
        /\ pid \in DOMAIN processes
        /\ objects' = With(objects, next_object, o)
        /\ processes' = [processes EXCEPT ![pid].snapshot.states = With(@, key, next_object)]
    BY <1>3 DEF DefineState, ActiveWorker, OwnsProcess, forkVars, execVars
  <2>2. IsSnapshot(s)
    BY <1>0, <2>1 DEF ProcessTyped
  <2>3. IsMap(With(s.states, key, next_object), StateKey, Id)
    BY <1>0, <2>2, SnapshotUpdated, MapChanged DEF Id
  <2>4. IsSnapshot(new)
    BY <2>2, <2>3, SnapshotUpdated
  <2>5. ProcessTyped([processes[pid] EXCEPT !.snapshot = new])
    <3> HIDE DEF new
    <3> QED
      BY <1>0, <2>1, <2>4, ProcessUpdated, Zenon
  <2>6. processes' = [processes EXCEPT ![pid].snapshot = new]
    BY <2>1
  <2>7. ProcessTypes'
    <3> HIDE DEF new
    <3> QED
      BY <1>0, <2>1, <2>5, <2>6 DEF ProcessTypes
  <2>8. o \in Object
    BY <1>3 DEF Object
  <2>9. ObjectTypes'
    <3> HIDE DEF o
    <3> QED
      BY <2>1, <2>8 DEF TypeInv, ObjectTypes, With
  <2> QED
    BY <2>1, <2>7, <2>9, TypesQuiet
<1> QED
  BY <1>1, <1>2, <1>3 DEF StateRequest

\* The worker pool.
LEMMA PoolTypes ==
  ASSUME IInv, TypeInv, NEW c \in DOMAIN clients, PoolRequest(c)
  PROVE  ProcessTypes' /\ ForkTypes' /\ ExecTypes' /\ ObjectTypes'
<1>0. /\ \A id \in DOMAIN processes : ProcessTyped(processes[id]) /\ id \in Nat
      /\ c \in Nat
  BY DEF TypeInv, ProcessTypes, IInv, Shape
<1>1. /\ UNCHANGED <<transactions, exec_transactions, objects>>
      /\ \/ \E pid, v : /\ v \in PrewarmState
                        /\ processes' = [processes EXCEPT ![pid].prewarm = v]
         \/ \E pid, v, q : /\ v \in PrewarmState /\ q \in Nat
                           /\ processes' = [processes EXCEPT ![pid].parent_pid = q,
                                                             ![pid].prewarm = v]
  <2>1. \A stage \in {"Fresh", "Ready", "Activated", "PoolReady"} :
           Prewarm(stage) \in PrewarmState
    BY DEF Prewarm, PrewarmState
  <2>2. [at |-> "PoolReserved", client |-> c] \in PrewarmState
    BY <1>0 DEF PrewarmState, Id
  <2>3. \A launch \in Launch, parent \in Nat :
           [at |-> "PoolActivated", launch |-> launch, client |-> c, parent |-> parent]
              \in PrewarmState
    BY <1>0 DEF PrewarmState, Id
  <2>4. CASE MarkPrewarmReady(c)
    BY <2>1, <2>4 DEF MarkPrewarmReady, forkVars, execVars, objectVars
  <2>5. CASE MarkPoolReady(c)
    BY <2>1, <2>5 DEF MarkPoolReady, forkVars, execVars, objectVars
  <2>6. CASE ReservePoolWorker(c)
    BY <2>2, <2>6 DEF ReservePoolWorker, forkVars, execVars, objectVars
  <2>7. ASSUME NEW pid \in DOMAIN processes,
               ActivatePrewarm(c, pid) \/ ReleasePoolWorker(c, pid)
        PROVE  /\ UNCHANGED <<transactions, exec_transactions, objects>>
               /\ \E v : /\ v \in PrewarmState
                         /\ processes' = [processes EXCEPT ![pid].prewarm = v]
    BY <2>1, <2>7 DEF ActivatePrewarm, ReleasePoolWorker, forkVars, execVars, objectVars
  <2>8. ASSUME NEW pid \in DOMAIN processes, NEW parent \in DOMAIN processes \cup {NoId},
               NEW launch \in Launch, ActivatePoolWorker(c, pid, parent, launch)
        PROVE  /\ UNCHANGED <<transactions, exec_transactions, objects>>
               /\ \E v, q : /\ v \in PrewarmState /\ q \in Nat
                            /\ processes' = [processes EXCEPT ![pid].parent_pid = q,
                                                              ![pid].prewarm = v]
    <3>1. parent \in Nat
      BY <1>0, <2>8 DEF NoId
    <3>2. /\ UNCHANGED <<transactions, exec_transactions, objects>>
          /\ processes' = [processes EXCEPT
                 ![pid].parent_pid = parent,
                 ![pid].prewarm = [at |-> "PoolActivated", launch |-> launch,
                                   client |-> c, parent |-> parent]]
      BY <2>8 DEF ActivatePoolWorker, forkVars, execVars, objectVars
    <3> QED
      BY <2>3, <3>1, <3>2, Zenon
  <2> QED
    BY <2>4, <2>5, <2>6, <2>7, <2>8, Zenon DEF PoolRequest
<1>2. ASSUME NEW pid, NEW v \in PrewarmState,
             processes' = [processes EXCEPT ![pid].prewarm = v]
      PROVE  ProcessTypes'
  <2>1. \A p \in DOMAIN processes : ProcessTyped([processes[p] EXCEPT !.prewarm = v])
    BY <1>0, ProcessUpdated, Zenon
  <2> QED
    BY <1>0, <1>2, <2>1 DEF ProcessTypes
<1>3. ASSUME NEW pid, NEW v \in PrewarmState, NEW q \in Nat,
             processes' = [processes EXCEPT ![pid].parent_pid = q, ![pid].prewarm = v]
      PROVE  ProcessTypes'
  <2>1. \A p \in DOMAIN processes :
           ProcessTyped([processes[p] EXCEPT !.parent_pid = q, !.prewarm = v])
    BY <1>0, ProcessUpdated, Zenon
  <2>2. DOMAIN processes' = DOMAIN processes
    BY <1>3
  <2>3. \A p \in DOMAIN processes : processes'[p] =
           IF p = pid THEN [processes[p] EXCEPT !.parent_pid = q, !.prewarm = v]
           ELSE processes[p]
    BY <1>3
  <2> QED
    BY <1>0, <2>1, <2>2, <2>3, Zenon DEF ProcessTypes
<1>4. ProcessTypes'
  BY <1>1, <1>2, <1>3
<1> QED
  BY <1>1, <1>4, TypesQuiet

\* The end of a connection.
LEMMA DisconnectTypes ==
  ASSUME IInv, TypeInv, NEW c \in DOMAIN clients, Disconnect(c)
  PROVE  ProcessTypes' /\ ForkTypes' /\ ExecTypes' /\ ObjectTypes'
<1>1. PICK forks, execs :
        /\ transactions' = AbortedForks(forks)
        /\ exec_transactions' = AbortedExecs(execs)
        /\ processes' = [pid \in DOMAIN processes |->
               LET p == [processes[pid] EXCEPT !.prewarm = Released(@, {c})]
               IN  IF pid \in ChildrenOf(forks) THEN Revoked(p) ELSE p]
        /\ CollectObjects
  BY DEF Disconnect
<1>2. ForkTypes' /\ ExecTypes'
  BY <1>1, AbortedTypes DEF ForkTypes, ExecTypes
<1>3. ProcessTypes'
  <2>1. ASSUME NEW pid \in DOMAIN processes
        PROVE  LET p == [processes[pid] EXCEPT !.prewarm = Released(@, {c})]
               IN  ProcessTyped(p) /\ ProcessTyped(Revoked(p))
    <3>1. ProcessTyped(processes[pid])
      BY DEF TypeInv, ProcessTypes
    <3>2. Released(processes[pid].prewarm, {c}) \in PrewarmState
      BY <3>1 DEF Released, ProcessTyped, Prewarm, PrewarmState
    <3>3. ProcessTyped([processes[pid] EXCEPT !.prewarm = Released(@, {c})])
      BY <3>1, <3>2, ProcessUpdated, Zenon
    <3> QED
      BY <3>3, ProcessUpdated, Zenon
  <2> QED
    BY <1>1, <2>1 DEF ProcessTypes
<1> QED
  BY <1>1, <1>2, <1>3, TypesQuiet

\* The death of a native process.
LEMMA ExitTablesTyped ==
  ASSUME IInv, TypeInv, NEW peer \in Peer, NEW status \in Status, ProcessExited(peer, status)
  PROVE  ProcessTypes' /\ ForkTypes' /\ ExecTypes' /\ ObjectTypes'
<1>1. ObjectTypes'
  <2>1. CollectObjects
    BY Zenon DEF ProcessExited
  <2> QED
    BY <2>1, TypesQuiet
<1>2. ForkTypes'
  <2>1. transactions' = [id \in DOMAIN transactions \ Spent(peer) |->
             [AbortedForks(ForksLost(peer))[id] EXCEPT !.child_parent =
                  Reparented(@, Ending(peer))]]
    BY Zenon DEF ProcessExited, Dying, Ending, Replaced, ForksLost, Spent
  <2>2. ASSUME NEW id \in DOMAIN transactions, NEW t, t = AbortedForks(ForksLost(peer))[id]
        PROVE  TransactionTyped([t EXCEPT !.child_parent = Reparented(@, Ending(peer))])
    <3>1. TransactionTyped(t)
      BY <2>2, AbortedTypes
    <3>2. Reparented(t.child_parent, Ending(peer)) \in Nat
      BY <3>1 DEF Reparented, TransactionTyped, NoId
    <3> QED
      BY <3>1, <3>2, ForkUpdated, Zenon
  <2> QED
    BY <2>1, <2>2 DEF ForkTypes
<1>3. ExecTypes'
  <2>1. exec_transactions' =
             [id \in {i \in DOMAIN exec_transactions :
                        exec_transactions[i].process
                            \notin Ending(peer) \cup Replaced(peer)} |->
                [AbortedExecs(ExecsLost(peer))[id] EXCEPT !.candidate_exit =
                     IF exec_transactions[id].retiring
                          /\ exec_transactions[id].target = peer /\ @ = {}
                     THEN {status} ELSE @]]
    BY Zenon DEF ProcessExited, Dying, Ending, Replaced, ExecsLost
  <2>2. ASSUME NEW id \in DOMAIN exec_transactions, NEW t,
               t = AbortedExecs(ExecsLost(peer))[id]
        PROVE  ExecTyped([t EXCEPT !.candidate_exit =
                     IF exec_transactions[id].retiring
                          /\ exec_transactions[id].target = peer /\ @ = {}
                     THEN {status} ELSE @])
    <3>1. ExecTyped(t)
      BY <2>2, AbortedTypes
    <3>2. {status} \in SUBSET Status /\ t.candidate_exit \in SUBSET Status
      BY <3>1 DEF ExecTyped
    <3> QED
      BY <3>1, <3>2, ExecUpdated, Zenon
  <2> QED
    BY <2>1, <2>2, Zenon DEF ExecTypes
<1>4. ProcessTypes'
  <2> DEFINE moved(i) ==
               [processes[i] EXCEPT
                   !.peer = Successor(i, peer),
                   !.prewarm = Released(@, Cut(peer)),
                   !.parent_pid = Reparented(@, Ending(peer)),
                   !.request_keys =
                       IF i \notin Replaced(peer) THEN @
                       ELSE Restrict(@, {k \in DOMAIN @ : @[k] \notin Spent(peer)}),
                   !.exec_request_keys = IF i \in Replaced(peer) THEN EmptyMap ELSE @]
  <2>1. processes' = [i \in DOMAIN processes \ Ending(peer) |->
              IF i \in ChildrenOf(ForksLost(peer)) THEN Revoked(moved(i)) ELSE moved(i)]
    BY Zenon DEF ProcessExited, Dying, Ending, Replaced, Cut, ForksLost, Spent
  <2>2. ASSUME NEW pid \in DOMAIN processes
        PROVE  ProcessTyped(moved(pid)) /\ ProcessTyped(Revoked(moved(pid)))
    <3>1. ProcessTyped(processes[pid])
      BY DEF TypeInv, ProcessTypes
    <3>2. Successor(pid, peer) \in Peer
      <4>1. CASE \E id \in TakenOver(peer) : exec_transactions[id].process = pid
        BY <4>1, SuccessorFacts DEF TypeInv, ExecTypes, ExecTyped
      <4>2. CASE \A id \in TakenOver(peer) : exec_transactions[id].process # pid
        BY <3>1, <4>2, SuccessorFacts DEF ProcessTyped
      <4> QED
        BY <4>1, <4>2
    <3>3. Released(processes[pid].prewarm, Cut(peer)) \in PrewarmState
      BY <3>1 DEF Released, ProcessTyped, Prewarm, PrewarmState
    <3>4. Reparented(processes[pid].parent_pid, Ending(peer)) \in Nat
      BY <3>1 DEF Reparented, ProcessTyped, NoId
    <3>5. PICK keys, execs :
            /\ keys = IF pid \notin Replaced(peer) THEN processes[pid].request_keys
                      ELSE Restrict(processes[pid].request_keys,
                                    {k \in DOMAIN processes[pid].request_keys :
                                        processes[pid].request_keys[k] \notin Spent(peer)})
            /\ execs = IF pid \in Replaced(peer) THEN EmptyMap
                       ELSE processes[pid].exec_request_keys
      OBVIOUS
    <3>6. IsMap(keys, RequestKey, Nat) /\ IsMap(execs, RequestKey, Nat)
      BY <3>1, <3>5, MapChanged DEF ProcessTyped
    <3>7. moved(pid) = [processes[pid] EXCEPT
                   !.peer = Successor(pid, peer),
                   !.prewarm = Released(@, Cut(peer)),
                   !.parent_pid = Reparented(@, Ending(peer)),
                   !.request_keys = keys,
                   !.exec_request_keys = execs]
      BY <3>1, <3>5 DEF ProcessTyped, IsRecord, ProcessFields
    <3> HIDE DEF moved
    <3>8. ProcessTyped(moved(pid))
      BY <3>1, <3>2, <3>3, <3>4, <3>6, <3>7 DEF ProcessTyped, IsRecord, ProcessFields
    <3> QED
      BY <3>8, ProcessUpdated, Zenon
  <2> HIDE DEF moved
  <2> QED
    BY <2>1, <2>2 DEF ProcessTypes
<1> QED
  BY <1>1, <1>2, <1>3, <1>4

\* The status of a process that ends with the death of `peer`: that of `peer`,
\* or the one that its replacement had when it died earlier.
LEMMA FinalStatus ==
  ASSUME IInv, TypeInv, NEW peer, NEW status \in Status, NEW pid \in Ending(peer)
  PROVE  (IF pid \in Replaced(peer)
          THEN CHOOSE e \in Status : \E id \in Succession(pid, peer) :
                   e \in exec_transactions[id].candidate_exit
          ELSE status) \in Status
<1>1. CASE pid \notin Replaced(peer)
  BY <1>1
<1>2. CASE pid \in Replaced(peer)
  <2>1. PICK id \in TakenOver(peer) : exec_transactions[id].process = pid
    BY <1>2 DEF Replaced
  <2>2. /\ id \in DOMAIN exec_transactions /\ exec_transactions[id].state = "Committed"
        /\ Successor(pid, peer) = exec_transactions[id].target
        /\ pid \in DOMAIN processes /\ processes[pid].peer = peer
    BY <2>1, SuccessorFacts
  <2>3. exec_transactions[id].target # peer
    BY <2>2 DEF IInv, Candidates
  <2>4. PICK j \in Deferred(peer) : exec_transactions[j].target = exec_transactions[id].target
    BY <2>2, <2>3 DEF Ending, Dying
  <2>5. j = id
    BY <2>2, <2>4 DEF IInv, Targets, Deferred, TakenOver
  <2>6. id \in Succession(pid, peer) /\ exec_transactions[id].candidate_exit # {}
    BY <2>1, <2>4, <2>5 DEF Succession, Deferred
  <2>7. exec_transactions[id].candidate_exit \subseteq Status
    BY <2>2 DEF TypeInv, ExecTypes, ExecTyped
  <2>8. \E e \in Status : \E i \in Succession(pid, peer) :
           e \in exec_transactions[i].candidate_exit
    BY <2>6, <2>7
  <2> QED
    BY <1>2, <2>8
<1> QED
  BY <1>1, <1>2

\* The pids of the exits that are kept when one more is recorded.
LEMMA KeptExits ==
  ASSUME NEW S, NEW order \in Seq(S), NEW max \in Nat, max # 0
  PROVE  (IF Len(order) < max THEN order
          ELSE SubSeq(order, Len(order) - max + 2, Len(order))) \in Seq(S)
<1>1. CASE Len(order) < max
  BY <1>1
<1>2. CASE ~(Len(order) < max)
  <2>1. Len(order) \in Nat /\ Len(order) - max \in Nat
    BY <1>2
  <2>2. SubSeq(order, Len(order) - max + 2, Len(order)) \in Seq(S)
    BY <2>1
  <2> QED
    BY <1>2, <2>2
<1> QED
  BY <1>1, <1>2

\* The completions that are kept.
LEMMA ExitRecorded ==
  ASSUME IInv, TypeInv, NEW peer, NEW status \in Status, ProcessExited(peer, status)
  PROVE  ExitTypes'
<1> DEFINE pids == 1..(next_pid - 1)
<1>1. UNCHANGED next_pid
  BY Zenon DEF ProcessExited
<1>2. IsMap(exit_records, pids, Status) /\ exit_order \in Seq(pids)
  BY DEF TypeInv, ExitTypes
<1>3. CASE UNCHANGED <<exit_records, exit_order>>
  BY <1>1, <1>2, <1>3 DEF ExitTypes
<1>4. ASSUME NEW pid \in pids, NEW e \in Status, RecordExit(pid, e), MAX_EXIT_RECORDS # 0
      PROVE  ExitTypes'
  <2>1. PICK kept : kept = IF Len(exit_order) < MAX_EXIT_RECORDS THEN exit_order
                           ELSE SubSeq(exit_order, Len(exit_order) - MAX_EXIT_RECORDS + 2,
                                       Len(exit_order))
    OBVIOUS
  <2>2. kept \in Seq(pids)
    <3>1. MAX_EXIT_RECORDS \in Nat
      BY ManagerAssumption DEF Limit
    <3> HIDE DEF pids
    <3> QED
      BY <1>2, <1>4, <2>1, <3>1, KeptExits
  <2>3. /\ exit_order' = Append(kept, pid)
        /\ exit_records' = With(Keep(exit_records, Range(kept)), pid, e)
    BY <1>4, <2>1 DEF RecordExit
  <2>4. exit_order' \in Seq(pids)
    BY <2>2, <2>3
  <2>5. IsMap(Keep(exit_records, Range(kept)), pids, Status)
    BY <1>2, MapChanged DEF Keep
  <2>6. IsMap(exit_records', pids, Status)
    BY <2>3, <2>5, MapChanged, Zenon
  <2> QED
    BY <1>1, <2>4, <2>6 DEF ExitTypes
<1>5. CASE Ending(peer) = {}
  <2>1. UNCHANGED <<exit_records, exit_order>>
    BY <1>5, Zenon DEF ProcessExited, Ending, Dying
  <2> QED
    BY <1>3, <2>1
<1>6. CASE Ending(peer) # {}
  <2>1. PICK pid : pid = CHOOSE p \in Ending(peer) : TRUE
    OBVIOUS
  <2>2. PICK e : e = IF pid \in Replaced(peer)
                     THEN CHOOSE s \in Status : \E id \in Succession(pid, peer) :
                              s \in exec_transactions[id].candidate_exit
                     ELSE status
    OBVIOUS
  <2>3. pid \in Ending(peer) /\ pid \in pids
    BY <1>6, <2>1 DEF IInv, Shape, Ending
  <2>4. e \in Status
    BY <2>2, <2>3, FinalStatus
  <2>5. RecordExit(pid, e)
    <3>1. LET p == CHOOSE p \in Ending(peer) : TRUE
          IN  RecordExit(p, IF p \in Replaced(peer)
                            THEN CHOOSE s \in Status : \E id \in Succession(p, peer) :
                                     s \in exec_transactions[id].candidate_exit
                            ELSE status)
      BY <1>6, Zenon DEF ProcessExited, Ending, Dying, Replaced
    <3> QED
      BY <2>1, <2>2, <3>1
  <2>6. CASE MAX_EXIT_RECORDS = 0
    BY <1>3, <2>5, <2>6 DEF RecordExit
  <2> QED
    BY <1>4, <2>3, <2>4, <2>5, <2>6
<1> QED
  BY <1>5, <1>6

\* Exits that were recorded stay typed when pids are issued.
LEMMA MorePids ==
  ASSUME IInv, TypeInv
  PROVE  (UNCHANGED <<exit_records, exit_order>> /\ next_pid' \in {next_pid, next_pid + 1})
            => ExitTypes'
<1> SUFFICES ASSUME UNCHANGED <<exit_records, exit_order>>, next_pid' \in {next_pid, next_pid + 1}
             PROVE  ExitTypes'
  OBVIOUS
<1>1. 1..(next_pid - 1) \subseteq 1..(next_pid' - 1)
  <2>1. next_pid \in Nat
    BY DEF IInv, Shape
  <2>2. next_pid' = next_pid \/ next_pid' = next_pid + 1
    OBVIOUS
  <2>3. ASSUME NEW n \in Nat, NEW m, m = n \/ m = n + 1
        PROVE  1..(n - 1) \subseteq 1..(m - 1)
    BY <2>3
  <2> QED
    BY <2>1, <2>2, <2>3
<1>2. exit_order \in Seq(1..(next_pid - 1)) /\ UNCHANGED exit_order
  BY DEF TypeInv, ExitTypes
<1>3. exit_order' \in Seq(1..(next_pid' - 1))
  <2>1. ASSUME NEW S, NEW T, NEW s \in Seq(S), S \subseteq T
        PROVE  s \in Seq(T)
    <3>1. Len(s) \in Nat /\ s \in [1..Len(s) -> S]
      BY <2>1
    <3>2. s \in [1..Len(s) -> T]
      BY <2>1, <3>1
    <3> QED
      BY <3>1, <3>2
  <2> QED
    BY <1>1, <1>2, <2>1
<1>4. IsMap(exit_records', 1..(next_pid' - 1), Status)
  BY <1>1 DEF TypeInv, ExitTypes, IsMap
<1> QED
  BY <1>3, <1>4 DEF ExitTypes

\* The parts of SessionTypes, one by one.
LEMMA SessionParts ==
  ASSUME TypeInv
  PROVE  /\ ((\A c \in DOMAIN clients' : clients'[c] \in Client) /\ retired_peers' \subseteq Peer
               /\ UNCHANGED <<modules, shutdown_requested, exited, registered>>)
            => SessionTypes'
         /\ UNCHANGED <<clients, modules, retired_peers, shutdown_requested, exited, registered>>
            => SessionTypes'
  BY DEF TypeInv, SessionTypes

\* Revoked candidates are native processes.
LEMMA RevokedPeers ==
  ASSUME TypeInv, NEW ids \in SUBSET DOMAIN exec_transactions
  PROVE  RevokedCandidates(ids) \subseteq Peer
  BY DEF TypeInv, ExecTypes, ExecTyped, RevokedCandidates

\* A registration.
LEMMA ConnectSession ==
  ASSUME IInv, TypeInv, NEW peer \in Peer, Connect(peer)
  PROVE  SessionTypes' /\ ExitTypes'
<1>1. /\ UNCHANGED <<modules, retired_peers, shutdown_requested,
                     exit_records, exit_order>>
      /\ next_pid' \in {next_pid, next_pid + 1}
      /\ \E kind \in ClientKind, pid \in Nat, id \in Nat : AddClient(peer, kind, pid, id)
  <2> USE DEF sessionVars, execVars, recordVars, processVars, ClientKind, NoId
  <2>1. CASE ConnectHelper(peer)
    BY <2>1 DEF ConnectHelper
  <2>2. ASSUME NEW kind \in {"Controller", "Launcher"}, ConnectControl(peer, kind)
        PROVE  <1>1!1 /\ <1>1!2 /\ <1>1!3
    BY <2>2 DEF ConnectControl
  <2>3. CASE ConnectRoot(peer)
    BY <2>3 DEF ConnectRoot, IInv, Shape
  <2>4. ASSUME NEW id \in DOMAIN transactions, ConnectFork(peer, id)
        PROVE  <1>1!1 /\ <1>1!2 /\ <1>1!3
    BY <2>4 DEF ConnectFork, TypeInv, ForkTypes, TransactionTyped
  <2>5. ASSUME NEW id \in DOMAIN exec_transactions, ConnectExec(peer, id)
        PROVE  <1>1!1 /\ <1>1!2 /\ <1>1!3
    BY <2>5 DEF ConnectExec, TypeInv, ExecTypes, ExecTyped, IInv, Shape
  <2> QED
    BY <2>1, <2>2, <2>3, <2>4, <2>5 DEF Connect
<1>2. PICK kind \in ClientKind, pid \in Nat, id \in Nat : AddClient(peer, kind, pid, id)
  BY <1>1
<1>3. \A c \in DOMAIN clients' : clients'[c] \in Client
  BY <1>2 DEF AddClient, With, Client, Id, TypeInv, SessionTypes
<1>4. IsMap(registered', Peer, Id)
  BY <1>2, MapChanged DEF AddClient, Id, TypeInv, SessionTypes
<1>5. ExitTypes'
  BY <1>1, MorePids
<1>6. IsMap(exited', Peer, Status)
  <2>1. IsMap(exited, Peer, Status)
    BY DEF TypeInv, SessionTypes
  <2>2. IsMap(Without(exited, peer), Peer, Status)
    BY <2>1, MapChanged DEF Without
  <2>3. exited' = exited \/ exited' = Without(exited, peer)
    BY <1>2, AddClientExits
  <2> QED
    BY <2>1, <2>2, <2>3
<1> QED
  BY <1>1, <1>3, <1>4, <1>5, <1>6 DEF TypeInv, SessionTypes

\* The requests of a client.
LEMMA RequestSession ==
  ASSUME IInv, TypeInv, NEW c \in DOMAIN clients,
         \/ ForkRequest(c) \/ ExecRequest(c) \/ StateRequest(c)
         \/ PoolRequest(c) \/ Shutdown(c)
  PROVE  SessionTypes' /\ ExitTypes'
<1>1. CASE ForkRequest(c)
  <2>1. /\ UNCHANGED <<clients, modules, retired_peers, shutdown_requested, exited, registered,
                       exit_records, exit_order>>
        /\ next_pid' \in {next_pid, next_pid + 1}
    BY <1>1, Zenon DEF ForkRequest, PrepareFork, PrepareForkWithParent, Reserve, MarkReady, CommitFork,
                AbortFork, AcknowledgeFork, sessionVars, execVars, exitVars, connectVars,
                processVars
  <2> QED
    BY <2>1, SessionParts, MorePids
<1>2. CASE ExecRequest(c)
  <2>1. /\ UNCHANGED <<modules, shutdown_requested, exited, registered,
                       exit_records, exit_order, next_pid>>
        /\ \/ UNCHANGED <<clients, retired_peers>>
           \/ \E id \in DOMAIN exec_transactions : CommitExec(c, id) \/ AbortExec(c, id)
    BY <1>2, Zenon DEF ExecRequest, PrepareExec, MarkExecReady, CommitExec, AbortExec,
                AcknowledgeExec, sessionVars, execVars, exitVars, connectVars, processVars
  <2>2. ASSUME NEW id \in DOMAIN exec_transactions, CommitExec(c, id) \/ AbortExec(c, id)
        PROVE  (\A d \in DOMAIN clients' : clients'[d] \in Client) /\ retired_peers' \subseteq Peer
    <3>1. /\ id \in Nat /\ RevokedCandidates({id}) \subseteq Peer
          /\ retired_peers \subseteq Peer
          /\ \A d \in DOMAIN clients : clients[d] \in Client
      BY RevokedPeers DEF IInv, Shape, TypeInv, SessionTypes
    <3>2. CASE AbortExec(c, id)
      BY <3>1, <3>2 DEF AbortExec, connectVars
    <3>3. CASE CommitExec(c, id)
      <4>1. clients[c].pid \in DOMAIN processes
        BY <3>3 DEF CommitExec, OwnedExec, ActiveWorker, OwnsProcess
      <4>2. processes[clients[c].pid].peer \in Peer
        BY <4>1 DEF TypeInv, ProcessTypes, ProcessTyped
      <4>3. [clients[c] EXCEPT !.kind = "Retired", !.transaction = id] \in Client
        BY <3>1 DEF Client, ClientKind, Id
      <4>4. /\ DOMAIN clients' = DOMAIN clients
            /\ \A d \in DOMAIN clients : clients'[d] =
                  IF d = c THEN [clients[c] EXCEPT !.kind = "Retired", !.transaction = id]
                  ELSE clients[d]
        BY <3>3 DEF CommitExec
      <4>5. retired_peers' = retired_peers \cup {processes[clients[c].pid].peer}
        BY <3>3 DEF CommitExec
      <4> QED
        BY <3>1, <4>2, <4>3, <4>4, <4>5
    <3> QED
      BY <2>2, <3>2, <3>3
  <2>3. (\A d \in DOMAIN clients' : clients'[d] \in Client) /\ retired_peers' \subseteq Peer
    BY <2>1, <2>2 DEF TypeInv, SessionTypes
  <2> QED
    BY <2>1, <2>3, SessionParts, MorePids
<1>3. CASE StateRequest(c)
  <2>1. /\ UNCHANGED <<clients, retired_peers, shutdown_requested, exited, registered,
                       exit_records, exit_order, next_pid>>
        /\ \/ UNCHANGED modules
           \/ \E module \in Module, schema \in Schema : modules' = With(modules, module, schema)
    BY <1>3, Zenon DEF StateRequest, RegisterModule, WriteState, DefineState, sessionVars, execVars,
                exitVars, connectVars, processVars
  <2>2. IsMap(modules', Module, Schema)
    BY <2>1, MapChanged DEF TypeInv, SessionTypes
  <2> QED
    BY <2>1, <2>2, MorePids DEF TypeInv, SessionTypes
<1>4. CASE PoolRequest(c)
  <2>1. UNCHANGED <<clients, modules, retired_peers, shutdown_requested, exited, registered,
                    exit_records, exit_order, next_pid>>
    BY <1>4, Zenon DEF PoolRequest, MarkPrewarmReady, MarkPoolReady, ReservePoolWorker,
                ActivatePrewarm, ReleasePoolWorker, ActivatePoolWorker, sessionVars, execVars,
                exitVars, connectVars
  <2> QED
    BY <2>1, SessionParts, MorePids
<1>5. CASE Shutdown(c)
  <2>1. /\ UNCHANGED <<clients, modules, retired_peers, exited, registered,
                       exit_records, exit_order, next_pid>>
        /\ shutdown_requested' = TRUE
    BY <1>5 DEF Shutdown, execVars, exitVars, connectVars, processVars
  <2> QED
    BY <2>1, MorePids DEF TypeInv, SessionTypes
<1> QED
  BY <1>1, <1>2, <1>3, <1>4, <1>5

\* The end of a connection and the death of a native process.
LEMMA EndingSession ==
  ASSUME IInv, TypeInv, Transport
  PROVE  SessionTypes' /\ ExitTypes'
<1>1. ASSUME NEW c \in DOMAIN clients, Disconnect(c)
      PROVE  SessionTypes' /\ ExitTypes'
  <2>1. PICK execs \in SUBSET DOMAIN exec_transactions :
           /\ clients' = Without(clients, c)
           /\ retired_peers' = retired_peers \cup RevokedCandidates(execs)
    <3>1. \A pids : PendingExecsOf(pids) \subseteq DOMAIN exec_transactions
      BY DEF PendingExecsOf, PendingExecs
    <3> QED
      BY <1>1, <3>1 DEF Disconnect, PendingExecs
  <2>2. UNCHANGED <<modules, shutdown_requested, exited, registered,
                    exit_records, exit_order, next_pid>>
    BY <1>1 DEF Disconnect, sessionVars, exitVars
  <2>3. (\A d \in DOMAIN clients' : clients'[d] \in Client) /\ retired_peers' \subseteq Peer
    BY <2>1, RevokedPeers DEF Without, Restrict, TypeInv, SessionTypes
  <2> QED
    BY <2>2, <2>3, SessionParts, MorePids
<1>2. ASSUME NEW peer \in Peer, NEW status \in Status, ProcessExited(peer, status)
      PROVE  SessionTypes' /\ ExitTypes'
  <2>1. /\ UNCHANGED <<modules, shutdown_requested, registered>>
        /\ exited' = IF peer \in DOMAIN exited THEN exited ELSE With(exited, peer, status)
        /\ clients' = [c \in DOMAIN clients \ Cut(peer) |->
               IF c \in Promoted(peer)
               THEN [clients[c] EXCEPT !.kind = "Worker", !.transaction = NoId]
               ELSE clients[c]]
        /\ retired_peers' = (retired_peers \cup RevokedCandidates(ExecsLost(peer))) \ Dying(peer)
    BY <1>2, Zenon DEF ProcessExited, sessionVars, Cut, Promoted, Dying, ExecsLost, Ending
  <2>2. IsMap(exited', Peer, Status)
    BY <2>1, MapChanged, Zenon DEF TypeInv, SessionTypes
  <2>3. ExecsLost(peer) \subseteq DOMAIN exec_transactions
    BY DEF ExecsLost, PendingExecsOf, PendingExecs
  <2>4. RevokedCandidates(ExecsLost(peer)) \subseteq Peer
    BY <2>3, RevokedPeers
  <2>5. \A d \in Client : [d EXCEPT !.kind = "Worker", !.transaction = NoId] \in Client
    BY DEF Client, ClientKind, Id, NoId
  <2>6. \A c \in DOMAIN clients' : clients'[c] \in Client
    BY <2>1, <2>5, Zenon DEF TypeInv, SessionTypes
  <2> QED
    BY <1>2, <2>1, <2>2, <2>4, <2>6, ExitRecorded, Zenon DEF TypeInv, SessionTypes
<1> QED
  BY <1>1, <1>2 DEF Transport

\* Every step keeps the types.
LEMMA TypesStep ==
  ASSUME IInv, Agreed, ObjectInv, TypeInv, [Next]_vars
  PROVE  TypeInv'
<1>1. ASSUME NEW peer \in Peer, Connect(peer)
      PROVE  TypeInv'
  <2>1. UNCHANGED objects
    BY <1>1, Zenon DEF Connect, ConnectHelper, ConnectControl, ConnectRoot, ConnectFork, ConnectExec,
                objectVars
  <2> QED
    BY <1>1, <2>1, ConnectTypes, ConnectSession, TypesQuiet DEF TypeInv
<1>2. ASSUME NEW c \in DOMAIN clients,
             \/ ForkRequest(c) \/ ExecRequest(c) \/ StateRequest(c)
             \/ PoolRequest(c) \/ Shutdown(c)
      PROVE  TypeInv'
  <2>1. SessionTypes' /\ ExitTypes'
    BY <1>2, RequestSession
  <2>2. CASE Shutdown(c)
    <3>1. UNCHANGED <<processes, transactions, exec_transactions, objects>>
      BY <2>2 DEF Shutdown, processVars, forkVars, execVars, objectVars
    <3> QED
      BY <2>1, <3>1, TypesQuiet DEF TypeInv
  <2> QED
    BY <1>2, <2>1, <2>2, ForkRequestTypes, ExecRequestTypes, StateTypes, PoolTypes DEF TypeInv
<1>3. CASE Transport
  BY <1>3, EndingSession, DisconnectTypes, ExitTablesTyped DEF Transport, TypeInv
<1>4. CASE UNCHANGED vars
  <2>1. UNCHANGED <<clients, modules, retired_peers, shutdown_requested, exited, registered,
                    exit_records, exit_order, next_pid,
                    processes, transactions, exec_transactions, objects>>
    BY <1>4 DEF vars, sessionVars, objectVars, forkVars, execVars, exitVars, connectVars,
                processVars
  <2> QED
    BY <2>1, SessionParts, MorePids, TypesQuiet DEF TypeInv
<1> QED
  BY <1>1, <1>2, <1>3, <1>4 DEF Next

\* Nothing is recorded at first.
LEMMA InitTypes == Init => TypeInv
<1> SUFFICES ASSUME Init PROVE TypeInv
  OBVIOUS
<1>1. \A S, T : IsMap(EmptyMap, S, T)
  BY DEF IsMap, EmptyMap
<1>2. SessionTypes
  BY <1>1 DEF Init, EmptyMap, SessionTypes
<1>3. ExitTypes
  BY <1>1 DEF Init, ExitTypes
<1>4. ProcessTypes /\ ForkTypes /\ ExecTypes /\ ObjectTypes
  BY DEF Init, EmptyMap, ProcessTypes, ForkTypes, ExecTypes, ObjectTypes
<1> QED
  BY <1>2, <1>3, <1>4 DEF TypeInv

\* For any constants: every table holds well-formed records and every
\* identifier in use has been issued. In particular the status recorded for a
\* process whose replacement died before the image it replaces is one that was
\* reported (process_exited_with_status, record_exit).
THEOREM TypesCorrect == Spec => []TypeOK
<1>1. Init => IInv /\ Agreed /\ ObjectInv /\ TypeInv
  BY InitIInv, InitObjectInv, InitTypes DEF Init, EmptyMap, Agreed, ForkAgreement
<1>2. IInv /\ Agreed /\ ObjectInv /\ TypeInv /\ [Next]_vars
        => (IInv /\ Agreed /\ ObjectInv /\ TypeInv)'
  BY NextStep, AgreedStep, ObjectStep, TypesStep
<1>3. IInv /\ ObjectInv /\ TypeInv => TypeOK
  BY ProcessType, TransactionType, ExecType
     DEF IInv, Shape, ObjectInv, ObjectShape, TypeInv, ProcessTypes, ForkTypes, ExecTypes,
         ObjectTypes, SessionTypes, ExitTypes, TypeOK
<1> QED
  BY <1>1, <1>2, <1>3, PTL DEF Spec
=============================================================================
