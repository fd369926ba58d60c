---------------------------- MODULE JobContract ----------------------------
(***************************************************************************)
(* What the kernel scheduler promises about one job, with no slots, timers,*)
(* queues or workers.  A run of a job begins only while the job is live,   *)
(* never twice at a time, and for a one-shot job once; a job that is dead  *)
(* never runs again; and a job that cancel() has reported cancelled is     *)
(* quiet: not running, so that the caller may free what the job uses.      *)
(* Scheduler implements this module (see Scheduler!Contract).              *)
(***************************************************************************)
CONSTANTS Job

VARIABLES life,      \* unborn, live, last (a one-shot's only run), dead
          active,    \* the jobs whose callback is running
          quiet      \* the jobs reported cancelled

vars == <<life, active, quiet>>

Init ==
  /\ life = [j \in Job |-> "unborn"]
  /\ active = {}
  /\ quiet = {}

Create(j) ==
  /\ life[j] = "unborn"
  /\ life' = [life EXCEPT ![j] = "live"]
  /\ UNCHANGED <<active, quiet>>

Begin(j) ==
  /\ life[j] = "live"
  /\ j \notin active
  /\ active' = active \cup {j}
  /\ \/ UNCHANGED life
     \/ life' = [life EXCEPT ![j] = "last"]
  /\ UNCHANGED quiet

End(j) ==
  /\ j \in active
  /\ active' = active \ {j}
  /\ life' = [life EXCEPT ![j] = IF @ = "last" THEN "dead" ELSE @]
  /\ UNCHANGED quiet

Kill(j) ==
  /\ life[j] \in {"live", "last"}
  /\ life' = [life EXCEPT ![j] = "dead"]
  /\ UNCHANGED <<active, quiet>>

Confirm(j) ==
  /\ life[j] = "dead"
  /\ j \notin active
  /\ quiet' = quiet \cup {j}
  /\ UNCHANGED <<life, active>>

Next == \E j \in Job : Create(j) \/ Begin(j) \/ End(j) \/ Kill(j) \/ Confirm(j)

Spec == Init /\ [][Next]_vars
=============================================================================
