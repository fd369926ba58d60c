-------------------------- MODULE ModuleLifecycle --------------------------
(***************************************************************************)
(* What a module instance is promised by the framework: it is created and  *)
(* initialized, then started and stopped in turn, and is destroyed once    *)
(* and never while it runs, unless the whole system restarts.              *)
(* ModuleManager implements this module (see ModuleManager!Lifecycle).     *)
(***************************************************************************)
CONSTANTS Instance

VARIABLE life   \* of each instance: none, ready, running, broken, gone

Init == life = [i \in Instance |-> "none"]

Become(i, from, to) ==
  /\ life[i] = from
  /\ life' = [life EXCEPT ![i] = to]

Create(i)    == Become(i, "none", "ready")
Start(i)     == Become(i, "ready", "running")
StartFail(i) == Become(i, "ready", "broken")
Stop(i)      == Become(i, "running", "ready")
Destroy(i)   == Become(i, "ready", "gone") \/ Become(i, "broken", "gone")

\* enable() replaces an instance whose start failed.
Replace(i, j) ==
  /\ life[i] = "broken"
  /\ life[j] = "none"
  /\ life' = [life EXCEPT ![i] = "gone", ![j] = "ready"]

\* A restart ends every instance; the enabled modules get a new one.
Restart ==
  \E new \in SUBSET {i \in Instance : life[i] = "none"} :
    life' = [i \in Instance |-> IF i \in new THEN "ready"
                                ELSE IF life[i] = "none" THEN "none" ELSE "gone"]

Next ==
  \/ \E i \in Instance : Create(i) \/ Start(i) \/ StartFail(i) \/ Stop(i) \/ Destroy(i)
  \/ \E i, j \in Instance : Replace(i, j)
  \/ Restart

Spec == Init /\ [][Next]_life
=============================================================================
