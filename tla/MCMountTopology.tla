-------------------------- MODULE MCMountTopology ---------------------------
(***************************************************************************)
(* Two namespaces and one to be created, two workers and two readers.      *)
(***************************************************************************)
EXTENDS MountTopology, TLC

Symmetry ==
    Permutations(Worker) \cup Permutations(Reader) \cup Permutations(Existing)
=============================================================================
