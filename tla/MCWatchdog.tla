----------------------------- MODULE MCWatchdog -----------------------------
(***************************************************************************)
(* Watchdog for TLC: the signal handler and the exit chord may both ask    *)
(* for a shutdown; two restarts a minute over two minutes.                 *)
(***************************************************************************)
EXTENDS Watchdog

CONSTANTS r1, r2

McRequesters == {r1, r2}
=============================================================================
