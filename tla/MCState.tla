------------------------------ MODULE MCState ------------------------------
(***************************************************************************)
(* Module state under fork: roots register modules, define and write       *)
(* states, fork, lose connections and die.                                 *)
(***************************************************************************)
EXTENDS StateManager, TLC

StateNext ==
    \/ \E peer \in Peer :
          \/ ConnectRoot(peer)
          \/ \E id \in DOMAIN transactions : ConnectFork(peer, id)
    \/ \E c \in DOMAIN clients : ForkRequest(c) \/ StateRequest(c)
    \/ Transport

StateSpec == Init /\ [][StateNext]_vars

Symmetry == Permutations(Peer) \cup Permutations(Schema) \cup Permutations(Value)
=============================================================================
