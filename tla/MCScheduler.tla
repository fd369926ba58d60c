---------------------------- MODULE MCScheduler ----------------------------
(***************************************************************************)
(* One client task and two tiers, of which the jobs of normal also call    *)
(* the scheduler.  Two jobs follow each other in one slot, so that handles,*)
(* timers' args and queued items go stale, and a worker queue of one item  *)
(* is full when the second job is due.                                     *)
(***************************************************************************)
EXTENDS Scheduler

CONSTANTS client, normal, slow
=============================================================================
