------------------------------- MODULE MCDaemon -------------------------------
(* A small instance of the daemon for TLC: one scope with a local history,  *)
(* whose scan publishes while the quota fetch is backed off.                *)
EXTENDS Daemon

CONSTANTS s1

RankOne == [s \in {s1} |-> 1]
FloorOne == [s \in {s1} |-> 1]
StartupOne == <<Refresh(s1, "Periodic")>>

==============================================================================
