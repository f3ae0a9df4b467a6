---------------------------- MODULE MCWriteback -----------------------------
(***************************************************************************)
(* Two keys, two clients and a capacity of two: the table fills, both      *)
(* workers hold a hint of one key, two waiters compete for one failure.    *)
(***************************************************************************)
EXTENDS Writeback
=============================================================================
