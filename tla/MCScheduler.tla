---------------------------- MODULE MCScheduler ----------------------------
(* Instances of Scheduler for TLC: the operations on processes.            *)
EXTENDS Scheduler
============================================================================
