------------------------------ MODULE MCLists ------------------------------
(***************************************************************************)
(* Every sequence of list operations on a few nodes.  The nodes are        *)
(* interchangeable.                                                        *)
(***************************************************************************)
EXTENDS Lists, TLC

MCSymmetry == Permutations(Nodes)
============================================================================
