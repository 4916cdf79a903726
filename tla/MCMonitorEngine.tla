---------------------------- MODULE MCMonitorEngine ----------------------------
(***************************************************************************)
(* MonitorEngine on small instances.  The configurations choose which      *)
(* processes exist; model values of one kind are interchangeable.          *)
(***************************************************************************)
EXTENDS MonitorEngine, TLC

Interchangeable ==
    Permutations(Incidents) \cup Permutations(Consumers) \cup Permutations(Users)

===============================================================================
