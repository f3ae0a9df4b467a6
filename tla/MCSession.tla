----------------------------- MODULE MCSession ------------------------------
(***************************************************************************)
(* Two connections, an exit watcher, a native pool thread and the worker   *)
(* pool thread.                                                            *)
(***************************************************************************)
EXTENDS Session
=============================================================================
