----------------------------- MODULE MCWatchdog -----------------------------
(* An instance of Watchdog for TLC: two requests at a time. *)
EXTENDS Watchdog

CONSTANTS j1, j2

TwoJobs == {j1, j2}
=============================================================================
