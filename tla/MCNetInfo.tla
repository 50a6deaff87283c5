----------------------------- MODULE MCNetInfo -----------------------------
(***************************************************************************)
(* Two interchangeable sockets and three processes.                        *)
(***************************************************************************)
EXTENDS NetInfo, TLC

\* The path of the third is shorter than the others.
MCPathLen == <<2, 2, 1>>

MCSymmetry == Permutations(Sockets)
============================================================================
