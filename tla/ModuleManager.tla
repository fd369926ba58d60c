--------------------------- MODULE ModuleManager ---------------------------
(***************************************************************************)
(* The module manager: the lifecycle of the application modules.  It has   *)
(* no lock and is called by the boot task, the HTTP server task, and, by   *)
(* way of charge mode, the button task and a scheduler worker.  The calls  *)
(* of one task are steps at the points where they leave the manager: the   *)
(* start() and stop() of the instance, and the writes of the enable flag.  *)
(*                                                                         *)
(* The modules are those of the repository: initialize() and stop() do not *)
(* fail, none registers routes, start() schedules at most one periodic job *)
(* whose ctx is the instance, and fails when it cannot (a pin in use, the  *)
(* job table full).  An instance is named by its module and its number.    *)
(*                                                                         *)
(* The flags are a file that the config API writes too, and whose writes   *)
(* may fail, reported to the manager or, in fclose(), unseen.              *)
(***************************************************************************)
EXTENDS Naturals, FiniteSets

CONSTANTS Tasks,      \* the tasks that call the manager
          Modules,    \* the registered modules
          AutoStart,  \* those whose config does not say auto_start = false
          NumJobs,    \* job slots of the scheduler the modules can have
          MaxInst     \* bound: instances made of one module

JobSlots == 1 .. NumJobs
Inst     == Modules \X (1 .. MaxInst)
NoInst   == <<>>

ASSUME ManagerAssumption ==
  /\ AutoStart \subseteq Modules
  /\ NumJobs \in Nat
  /\ MaxInst \in Nat \ {0}

VARIABLES
  enabled,   \* the persisted flags, namespace "modules"
  state,     \* of each entry
  instance,  \* of each entry: the number of its instance, 0 for nullptr
  made,      \* history: how many instances of each module were made
  down,      \* history: modules that a disable() which answered ok, or their flag
             \* at boot, turned off, and whose flag has been off since with no
             \* enable() for them that answered ok
  phase,     \* what each instance has been through
  handle,    \* job_ of each instance: a job slot, or 0
  jobs,      \* the scheduler: the ctx of the job in each slot
  pc,        \* where each task stands in the manager
  op,        \* the call it makes
  target,    \* the module it is about
  todo       \* modules startAll() and stopAll() have still to visit

entryVars == <<enabled, state, instance, made, down>>
instVars  == <<phase, handle, jobs>>
callVars  == <<pc, op, target, todo>>
vars      == <<entryVars, instVars, callVars>>

\* A fault: a disabled entry keeps the state it is declared with.
FreshStateUnset(m) == IF enabled[m] THEN "Initialized" ELSE "Registered"

\* What initAll() makes of the entries, by their flags.
FreshState(m) == IF enabled[m] THEN "Initialized" ELSE "Disabled"

Fresh(m, n) == IF enabled[m] THEN n ELSE 0

Init ==
  /\ enabled \in [Modules -> BOOLEAN]
  /\ state = [m \in Modules |-> FreshState(m)]
  /\ instance = [m \in Modules |-> Fresh(m, 1)]
  /\ made = instance
  /\ down = {m \in Modules : ~enabled[m]}
  /\ phase = [i \in Inst |-> IF enabled[i[1]] /\ i[2] = 1 THEN "ready" ELSE "none"]
  /\ handle = [i \in Inst |-> 0]
  /\ jobs = [s \in JobSlots |-> NoInst]
  /\ pc = [t \in Tasks |-> "idle"]
  /\ op = [t \in Tasks |-> "none"]
  /\ target \in [Tasks -> Modules] /\ \A t, u \in Tasks : target[t] = target[u]
  /\ todo = [t \in Tasks |-> {}]

-----------------------------------------------------------------------------
(* The calls.                                                                *)

Call(t, o, m, at) ==
  /\ pc[t] = "idle"
  /\ op' = [op EXCEPT ![t] = o]
  /\ target' = [target EXCEPT ![t] = m]
  /\ pc' = [pc EXCEPT ![t] = at]
  /\ UNCHANGED <<todo, entryVars, instVars>>

At(t, here) == pc[t] = here

GoTo(t, there) == pc' = [pc EXCEPT ![t] = there]

\* Back to the loop of startAll() or stopAll(), or out of the manager.
Return(t) == GoTo(t, IF op[t] \in {"startAll", "stopAll"} THEN op[t] ELSE "idle")

\* A fault: the state of the entry is not looked at.
MayStartAnyState(m) == instance[m] # 0

MayStart(m) == state[m] \in {"Initialized", "Stopped"} /\ instance[m] # 0
MayStop(m)  == state[m] = "Started" /\ instance[m] # 0

Start(t, m)   == enabled[m] /\ MayStart(m) /\ Call(t, "start", m, "starting")
Stop(t, m)    == MayStop(m) /\ Call(t, "stop", m, "stopping")
Enable(t, m)  == Call(t, "enable", m, "enabling")

\* A fault: the instance is destroyed without being stopped.
DisableWithoutStop(t, m) == Call(t, "disable", m, "destroying")

Disable(t, m) ==
  \/ MayStop(m) /\ Call(t, "disable", m, "stopping")
  \/ state[m] # "Started" /\ Call(t, "disable", m, "destroying")

\* startAll() at boot and on leaving charge mode, stopAll() on entering it.
ForAll(t, o) ==
  /\ pc[t] = "idle"
  /\ op' = [op EXCEPT ![t] = o]
  /\ pc' = [pc EXCEPT ![t] = o]
  /\ todo' = [todo EXCEPT ![t] = Modules]
  /\ UNCHANGED <<target, entryVars, instVars>>

NextOne(t, guard, at) ==
  /\ At(t, op[t])
  /\ \E m \in todo[t] :
       /\ todo' = [todo EXCEPT ![t] = @ \ {m}]
       /\ \/ guard[m] /\ GoTo(t, at) /\ target' = [target EXCEPT ![t] = m]
          \/ ~guard[m] /\ UNCHANGED <<pc, target>>
  /\ UNCHANGED <<op, entryVars, instVars>>

StartNext(t) ==
  op[t] = "startAll" /\ NextOne(t, [m \in Modules |-> MayStart(m) /\ m \in AutoStart], "starting")

StopNext(t) ==
  op[t] = "stopAll" /\ NextOne(t, [m \in Modules |-> MayStop(m)], "stopping")

AllVisited(t) ==
  /\ op[t] \in {"startAll", "stopAll"} /\ At(t, op[t])
  /\ todo[t] = {}
  /\ GoTo(t, "idle")
  /\ UNCHANGED <<op, target, todo, entryVars, instVars>>

-----------------------------------------------------------------------------
(* startOne() and stopOne().                                                 *)

\* The instance the entry has now: the code dereferences it at each use.
Of(t) == <<target[t], instance[target[t]]>>

SetState(t, s) == state' = [state EXCEPT ![target[t]] = s]

\* instance->start(): with a period it schedules its job and keeps the handle.
InstanceStarts(t) ==
  /\ At(t, "starting") /\ Of(t) \in Inst
  /\ \/ \E s \in JobSlots :
          /\ jobs[s] = NoInst
          /\ jobs' = [jobs EXCEPT ![s] = Of(t)]
          /\ handle' = [handle EXCEPT ![Of(t)] = s]
     \/ UNCHANGED <<jobs, handle>>
  /\ phase' = [phase EXCEPT ![Of(t)] = "running"]
  /\ GoTo(t, "started")
  /\ UNCHANGED <<op, target, todo, entryVars>>

InstanceStartFails(t) ==
  /\ At(t, "starting") /\ Of(t) \in Inst
  /\ phase' = [phase EXCEPT ![Of(t)] = "broken"]
  /\ SetState(t, "Failed")
  /\ Return(t)
  /\ UNCHANGED <<op, target, todo, enabled, instance, made, down, handle, jobs>>

MarkStarted(t) ==
  /\ At(t, "started")
  /\ SetState(t, "Started")
  /\ Return(t)
  /\ UNCHANGED <<op, target, todo, enabled, instance, made, down, instVars>>

\* instance->stop(): cancel() and forget the handle.
InstanceStops(t) ==
  /\ At(t, "stopping") /\ Of(t) \in Inst
  /\ jobs' = [s \in JobSlots |-> IF s = handle[Of(t)] THEN NoInst ELSE jobs[s]]
  /\ handle' = [handle EXCEPT ![Of(t)] = 0]
  /\ phase' = [phase EXCEPT ![Of(t)] = "ready"]
  /\ GoTo(t, "stopped")
  /\ UNCHANGED <<op, target, todo, entryVars>>

MarkStopped(t) ==
  /\ At(t, "stopped")
  /\ SetState(t, "Stopped")
  /\ IF op[t] = "disable" THEN GoTo(t, "destroying") ELSE Return(t)
  /\ UNCHANGED <<op, target, todo, enabled, instance, made, down, instVars>>

-----------------------------------------------------------------------------
(* disable() and enable().                                                   *)

Destroy(t) ==
  /\ At(t, "destroying")
  /\ phase' = [i \in Inst |-> IF i = Of(t) THEN "gone" ELSE phase[i]]
  /\ instance' = [instance EXCEPT ![target[t]] = 0]
  /\ GoTo(t, "disabling")
  /\ UNCHANGED <<op, target, todo, enabled, state, made, down, handle, jobs>>

Write(m, flag) == enabled' = [enabled EXCEPT ![m] = flag]

\* The write of the flags may fail: the file is as it was, or it is cut short,
\* and a file that does not parse reads as a module's default, enabled.
WriteFails == enabled' = enabled \/ enabled' = [m \in Modules |-> TRUE]

\* Of the modules that were down, those whose flag is still off.
StillOff(ms) == {m \in ms : ~enabled'[m]}

\* setBool() answers ok: the flag is written, or the write failed in fclose().
PersistDisabled(t) ==
  /\ At(t, "disabling")
  /\ \/ /\ Write(target[t], FALSE) \/ WriteFails
        /\ SetState(t, "Disabled")
        /\ down' = StillOff(down \cup {target[t]})
     \/ /\ WriteFails
        /\ down' = StillOff(down)
        /\ UNCHANGED state
  /\ GoTo(t, "idle")
  /\ UNCHANGED <<op, target, todo, instance, made, instVars>>

\* The call is over, and it succeeded.
Enabled(t) == GoTo(t, "idle") /\ op' = [op EXCEPT ![t] = "enabled"]

\* enable() after its write: a module that has an instance keeps it.
MakeOrKeep(t) ==
  IF state[target[t]] \in {"Started", "Stopped", "Initialized"}
  THEN Enabled(t) ELSE GoTo(t, "making") /\ UNCHANGED op

\* A fault: the module is initialized although the write is known to have failed.
PersistEnabledRegardless(t) ==
  /\ At(t, "enabling")
  /\ \/ /\ Write(target[t], TRUE) \/ WriteFails
        /\ down' = StillOff(down \ {target[t]})
     \/ WriteFails /\ down' = StillOff(down)
  /\ MakeOrKeep(t)
  /\ UNCHANGED <<target, todo, state, instance, made, instVars>>

PersistEnabled(t) ==
  /\ At(t, "enabling")
  /\ \/ /\ Write(target[t], TRUE) \/ WriteFails
        /\ down' = StillOff(down \ {target[t]})
        /\ MakeOrKeep(t)
     \/ /\ WriteFails
        /\ down' = StillOff(down)
        /\ GoTo(t, "idle") /\ UNCHANGED op
  /\ UNCHANGED <<target, todo, state, instance, made, instVars>>

\* initOne(): the old instance, if any, is destroyed first.
MakeInstance(t) ==
  /\ At(t, "making")
  /\ LET m == target[t] IN
     /\ made[m] < MaxInst
     /\ made' = [made EXCEPT ![m] = @ + 1]
     /\ instance' = [instance EXCEPT ![m] = made[m] + 1]
     /\ phase' = [i \in Inst |-> IF i = Of(t) THEN "gone"
                                 ELSE IF i = <<m, made[m] + 1>> THEN "ready" ELSE phase[i]]
  /\ SetState(t, "Initialized")
  /\ Enabled(t)
  /\ UNCHANGED <<target, todo, enabled, down, handle, jobs>>

-----------------------------------------------------------------------------
\* The config API: a PUT to the namespace "modules", or a factory reset.
ConfigWrites ==
  /\ WriteFails \/ \E m \in Modules, flag \in BOOLEAN : Write(m, flag)
  /\ down' = StillOff(down)
  /\ UNCHANGED <<state, instance, made, instVars, callVars>>

\* A restart, at any point of any call: only the flags survive.
Restart ==
  /\ \A m \in Modules : made[m] < MaxInst
  /\ state' = [m \in Modules |-> FreshState(m)]
  /\ instance' = [m \in Modules |-> Fresh(m, made[m] + 1)]
  /\ made' = [m \in Modules |-> IF enabled[m] THEN made[m] + 1 ELSE made[m]]
  /\ phase' = [i \in Inst |-> IF enabled[i[1]] /\ i[2] = made[i[1]] + 1 THEN "ready"
                              ELSE IF phase[i] = "none" THEN "none" ELSE "gone"]
  /\ handle' = [i \in Inst |-> 0]
  /\ jobs' = [s \in JobSlots |-> NoInst]
  /\ pc' = [t \in Tasks |-> "idle"]
  /\ op' = [t \in Tasks |-> "none"]
  /\ todo' = [t \in Tasks |-> {}]
  /\ down' = {m \in Modules : ~enabled[m]}
  /\ UNCHANGED <<enabled, target>>

Request(t) ==
  \/ \E m \in Modules : Start(t, m) \/ Stop(t, m) \/ Enable(t, m) \/ Disable(t, m)
  \/ \E o \in {"startAll", "stopAll"} : ForAll(t, o)

Proceed(t) ==
  \/ StartNext(t) \/ StopNext(t) \/ AllVisited(t)
  \/ InstanceStarts(t) \/ InstanceStartFails(t) \/ MarkStarted(t)
  \/ InstanceStops(t) \/ MarkStopped(t)
  \/ Destroy(t) \/ PersistDisabled(t) \/ PersistEnabled(t) \/ MakeInstance(t)

Next == (\E t \in Tasks : Request(t) \/ Proceed(t)) \/ ConfigWrites \/ Restart

Spec == Init /\ [][Next]_vars

-----------------------------------------------------------------------------
(* Properties.                                                               *)

TypeOK ==
  /\ enabled \in [Modules -> BOOLEAN]
  /\ state \in [Modules -> {"Disabled", "Initialized", "Started", "Stopped", "Failed"}]
  /\ instance \in [Modules -> 0 .. MaxInst]
  /\ made \in [Modules -> 0 .. MaxInst]
  /\ down \subseteq Modules
  /\ phase \in [Inst -> {"none", "ready", "running", "broken", "gone"}]
  /\ handle \in [Inst -> 0 .. NumJobs]
  /\ jobs \in [JobSlots -> Inst \cup {NoInst}]
  /\ pc \in [Tasks -> {"idle", "startAll", "stopAll", "starting", "started", "stopping",
                       "stopped", "destroying", "disabling", "enabling", "making"}]
  /\ op \in [Tasks -> {"none", "start", "stop", "enable", "enabled", "disable", "startAll", "stopAll"}]
  /\ target \in [Tasks -> Modules]
  /\ todo \in [Tasks -> SUBSET Modules]

\* No job outlives what it works on: the ctx of every module job is a running
\* instance that is still its module's and that holds the job's handle.
JobsAreOwned ==
  \A s \in JobSlots : jobs[s] # NoInst =>
    /\ phase[jobs[s]] = "running"
    /\ instance[jobs[s][1]] = jobs[s][2]
    /\ handle[jobs[s]] = s

\* A module that was turned off, by a disable() that answered ok or by its flag
\* at boot, has no instance, through failed writes, calls that report failure and
\* restarts, as long as its flag on disk stays off.  An enable() that answers ok
\* ends it, also when its write failed unseen and the flag is still off; so does
\* a flag that is lost with a cut file or set by the config API.
DisabledStaysDown == \A m \in down : state[m] = "Disabled" /\ instance[m] = 0

\* The manager keeps its promise to the instances.
Lifecycle == INSTANCE ModuleLifecycle WITH Instance <- Inst, life <- phase

KeepsLifecycle == [][Lifecycle!Next]_phase

\* What module.hpp says of stop(): "Undo start(): cancel jobs, unsubscribe,
\* release pins".  While no task is in the manager, a module that is stopped
\* has no job.
StopUndoesStart ==
  (\A t \in Tasks : pc[t] = "idle") =>
    \A m \in Modules : state[m] = "Stopped" => \A s \in JobSlots : jobs[s] # <<m, instance[m]>>
=============================================================================
