------------------------------- MODULE MCPool -------------------------------
(***************************************************************************)
(* The whole manager with several roots: helpers, controllers, launchers,  *)
(* pooled and prewarmed workers, forks, execs and shutdown.                *)
(***************************************************************************)
EXTENDS StateManager, TLC

Symmetry == Permutations(Peer)
=============================================================================
