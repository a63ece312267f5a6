------------------------------- MODULE MCDisplay -------------------------------
(****************************************************************************)
(* A small instance of the display protocol with three scenarios, one of    *)
(* them chosen in the initial state: a daemon that restarts and a frontend  *)
(* that reconnects, two incarnations of the shell, and a client that is not *)
(* the frontend.                                                            *)
(****************************************************************************)
EXTENDS DisplayServer

Restarts ==
    [restarts |-> 1, shells |-> 0, user |-> 2, refusals |-> 1,
     faults |-> 1, strangers |-> 0]
Shells ==
    [restarts |-> 0, shells |-> 1, user |-> 2, refusals |-> 0,
     faults |-> 1, strangers |-> 0]
Strangers ==
    [restarts |-> 0, shells |-> 0, user |-> 1, refusals |-> 0,
     faults |-> 0, strangers |-> 1]
Scenarios == {Restarts, Shells, Strangers}

ASSUME DisplayAssumption == ServerAssumption /\ ClientAssumption
================================================================================
