------------------------------ MODULE MCTasks -------------------------------
(* Instances of Tasks for TLC: what kmain has started. *)
EXTENDS Tasks
CONSTANTS u1, u2
BothStarted == <<u1, u2>>
OneStarted == <<u1>>
=============================================================================
