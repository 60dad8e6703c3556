---------------------------- MODULE MCSchedulerPump ----------------------------
(* SchedulerPump on small instances; the .cfg files choose the instance.     *)
EXTENDS SchedulerPump

===============================================================================
