-------------------------- MODULE MCKernelObjects ---------------------------
(***************************************************************************)
(* A root that can refer to one of two objects in a cycle; the other is a  *)
(* System V object.                                                        *)
(***************************************************************************)
EXTENDS KernelObjects

CONSTANTS root, a, b

Cycle == {<<root, a>>, <<a, b>>, <<b, a>>}
=============================================================================
