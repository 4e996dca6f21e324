------------------------------ MODULE MCDaemon ------------------------------
(* An instance of Daemon for TLC: a port that is exclusive and one that is  *)
(* shared stand for two of each.                                            *)
EXTENDS Daemon

BroadcastAndTcp == <<"broadcast", "tcp">>
=============================================================================
