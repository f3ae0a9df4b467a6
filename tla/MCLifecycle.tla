---------------------------- MODULE MCLifecycle -----------------------------
(***************************************************************************)
(* Fork, exec and native death without pool, module state or shutdown.     *)
(***************************************************************************)
EXTENDS ManagerLife, TLC

LifecycleNext ==
    \/ \E peer \in Peer :
          \/ ConnectRoot(peer)
          \/ \E id \in DOMAIN transactions : ConnectFork(peer, id)
          \/ \E id \in DOMAIN exec_transactions : ConnectExec(peer, id)
    \/ \E c \in DOMAIN clients : ForkRequest(c) \/ ExecRequest(c)
    \/ Transport

LifecycleSpec == Init /\ [][LifecycleNext]_vars

Symmetry == Permutations(Peer) \cup Permutations(Status)
=============================================================================
