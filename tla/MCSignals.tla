----------------------------- MODULE MCSignals -----------------------------
(***************************************************************************)
(* Small instances of Signals.  MCSignals.cfg and MCSignalsUnblock.cfg     *)
(* have two signals that can be caught, one of which is ignored by         *)
(* default; MCSignalsLive.cfg has one that can and one that cannot be      *)
(* caught.                                                                 *)
(***************************************************************************)
EXTENDS Signals

\* The first signal of the table ends the process by default.
MCFatal == {1}
\* SIGKILL stands last in MCSignalsLive.cfg and ends the process too.
MCUncatchable == {NSIG - 1}
MCFatalWithKill == MCFatal \cup MCUncatchable
\* Handlers that undo their own registration, as example/testsignal.c does.
MCHandlerCalls == {"del", "delall"}
============================================================================
