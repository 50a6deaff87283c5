------------------------------ MODULE MCLogins ------------------------------
(***************************************************************************)
(* Every file of up to four records on two terminals with two time stamps, *)
(* and at most one failing allocation.                                     *)
(***************************************************************************)
EXTENDS Logins

MCTtys == {"tty1", "tty2"}
============================================================================
