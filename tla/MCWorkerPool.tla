---------------------------- MODULE MCWorkerPool ----------------------------
(***************************************************************************)
(* A pool of one slot, and launchers of one client process.                *)
(***************************************************************************)
EXTENDS WorkerPool
=============================================================================
