--------------------------- MODULE MCSharedStore ----------------------------
(***************************************************************************)
(* Records of different lengths; every word tells which record it is of.   *)
(***************************************************************************)
EXTENDS SharedStore

Records == {<<>>, <<1>>, <<2, 2>>}
=============================================================================
