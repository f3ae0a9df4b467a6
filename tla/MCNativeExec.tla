---------------------------- MODULE MCNativeExec ----------------------------
(***************************************************************************)
(* One root worker and two prepared processes: an exec into a pooled       *)
(* process, which may exec into the other one.                             *)
(***************************************************************************)
EXTENDS NativeExec, TLC

Symmetry == Permutations(Pooled)
=============================================================================
