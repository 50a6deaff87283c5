---------------------------- MODULE MCInstance ----------------------------
(***************************************************************************)
(* Two launches of a program that uses the library in one of the ways that *)
(* keep the lock, with six descriptors per process.                        *)
(***************************************************************************)
EXTENDS Instance

Usage(ops, nofileclose, nostdclose, unlimited, inherits) ==
  [ops |-> ops, nofileclose |-> nofileclose, nostdclose |-> nostdclose,
   unlimited |-> unlimited, inherits |-> inherits]

MCPrograms ==
  {Usage(<<"lock">>, FALSE, FALSE, FALSE, {{}, Std}),
   Usage(<<"daemon", "lock">>, FALSE, FALSE, FALSE, {{}, {1, 2}, Std, 0 .. 4}),
   Usage(<<"daemon", "lock">>, FALSE, FALSE, TRUE, {0 .. 4}),
   Usage(<<"daemon", "lock">>, TRUE, TRUE, FALSE, {{}, Std}),
   Usage(<<"daemon", "lock">>, TRUE, FALSE, FALSE, {{}, {0, 1, 3}, 0 .. 4}),
   Usage(<<"lock", "daemon">>, TRUE, TRUE, FALSE, {{}, Std}),
   Usage(<<"lock", "daemon">>, TRUE, FALSE, FALSE, {Std, 0 .. 3})}

\* The usages that SingleInstance depends on.
MCKeepsLock == \A g \in MCPrograms : KeepsLock(g)
ASSUME MCUsageAssumption == MCKeepsLock
===========================================================================
