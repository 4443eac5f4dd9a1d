----------------------------- MODULE MCDaemon ------------------------------
(* Instances of Daemon for TLC; the configurations give the numbers.       *)
EXTENDS Daemon
=============================================================================
