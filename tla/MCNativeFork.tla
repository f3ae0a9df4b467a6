---------------------------- MODULE MCNativeFork ----------------------------
(***************************************************************************)
(* A root worker forks into prepared processes of two templates, and may   *)
(* exec into an ordinary replacement while a fork is pending.              *)
(***************************************************************************)
EXTENDS NativeFork, TLC

Symmetry == Permutations(Pooled) \cup Permutations(ModuleSpec)
=============================================================================
