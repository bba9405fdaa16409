---------------------------- MODULE MCOrtpSched ----------------------------
(* The scheduler with two sending sessions and a thread in select. *)
EXTENDS OrtpScheduler

MCSpec == SchedulerInit /\ [][SchedulerNext]_schedulerVars /\ SchedulerFairness
=============================================================================
