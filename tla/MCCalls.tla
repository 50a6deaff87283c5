------------------------------ MODULE MCCalls -------------------------------
(***************************************************************************)
(* Two threads and a table of three descriptors: both can be in a call     *)
(* that needs two of them, and the table can be full.                      *)
(***************************************************************************)
EXTENDS Calls, TLC

CONSTANTS t1, t2

MCThreads == {t1, t2}
MCLimit == 3
MCMaxOptions == 1
MCSymmetry == Permutations(MCThreads)
=============================================================================
