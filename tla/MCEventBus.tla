----------------------------- MODULE MCEventBus -----------------------------
(***************************************************************************)
(* A queue of two events, a task and an interrupt that publish twice each, *)
(* and two subscriptions, made in two slots or one after the other in the  *)
(* same slot: the queue is full at a publication, the interrupt takes the  *)
(* room the task made, and handles go stale.                               *)
(***************************************************************************)
EXTENDS EventBus

CONSTANTS t1, isr
=============================================================================
