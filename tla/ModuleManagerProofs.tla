----------------------- MODULE ModuleManagerProofs -----------------------
(***************************************************************************)
(* Proofs about ModuleManager for any modules, job slots and callers.      *)
(*                                                                         *)
(* The manager has no lock, so what it promises it promises to callers     *)
(* that take turns: the theorems about more than types assume TakeTurns,   *)
(* that no two calls are in the manager at once, in every state.  Restarts *)
(* and writes of the flags, failed ones too, may come at any point of one. *)
(*                                                                         *)
(* The inductive invariant relates the state of an entry, which the        *)
(* manager writes one step after the instance did its part, to what the    *)
(* instance has been through: they agree for every module but the one a    *)
(* call has just started or stopped.                                       *)
(***************************************************************************)
EXTENDS ModuleManager, TLAPS

TakeTurns == \A t, u \in Tasks : pc[t] # "idle" /\ pc[u] # "idle" => t = u

Current(m) == <<m, instance[m]>>

\* The instance of m has started or stopped, and its entry does not say so yet.
Passing(m) == \E t \in Tasks : target[t] = m /\ pc[t] \in {"started", "stopped"}

StateFits(m) ==
  /\ state[m] = "Started"  => instance[m] # 0
  /\ state[m] = "Disabled" => instance[m] = 0
  /\ instance[m] # 0 =>
       /\ state[m] = "Started" => phase[Current(m)] = "running"
       /\ state[m] \in {"Initialized", "Stopped"} => phase[Current(m)] = "ready"
       /\ state[m] = "Failed" => phase[Current(m)] = "broken"

StatesFit == \A m \in Modules : ~Passing(m) => StateFits(m)

\* What a task knows of its module at each place of a call.
Knows(t) ==
  LET m == target[t] IN
  /\ pc[t] = "starting"   => instance[m] # 0 /\ state[m] \in {"Initialized", "Stopped"}
  /\ pc[t] = "started"    => instance[m] # 0 /\ phase[Current(m)] = "running"
  /\ pc[t] = "stopping"   => state[m] = "Started"
  /\ pc[t] = "stopped"    => instance[m] # 0 /\ phase[Current(m)] = "ready"
  /\ pc[t] = "destroying" => state[m] # "Started"
  /\ pc[t] = "disabling"  => state[m] # "Started" /\ instance[m] = 0
  /\ pc[t] = "making"     => state[m] \in {"Disabled", "Failed"} /\ m \notin down

CallsKnow == \A t \in Tasks : Knows(t)

\* Of the instances that were made, all but the entry's are gone; the entry's lives.
OldAreGone ==
  /\ \A m \in Modules : instance[m] <= made[m]
  /\ \A i \in Inst : i[2] # instance[i[1]] => phase[i] = IF i[2] <= made[i[1]] THEN "gone" ELSE "none"
  /\ \A m \in Modules : instance[m] # 0 => phase[Current(m)] \in {"ready", "running", "broken"}

Inv ==
  /\ TypeOK /\ StatesFit /\ CallsKnow /\ OldAreGone /\ JobsAreOwned /\ DisabledStaysDown

States == {"Disabled", "Initialized", "Started", "Stopped", "Failed"}
Phases == {"none", "ready", "running", "broken", "gone"}
Places == {"idle", "startAll", "stopAll", "starting", "started", "stopping",
           "stopped", "destroying", "disabling", "enabling", "making"}
Ops    == {"none", "start", "stop", "enable", "enabled", "disable", "startAll", "stopAll"}

EntryTypes ==
  /\ enabled \in [Modules -> BOOLEAN]
  /\ state \in [Modules -> States]
  /\ instance \in [Modules -> 0 .. MaxInst]
  /\ made \in [Modules -> 0 .. MaxInst]
  /\ down \subseteq Modules

InstTypes ==
  /\ phase \in [Inst -> Phases]
  /\ handle \in [Inst -> 0 .. NumJobs]
  /\ jobs \in [JobSlots -> Inst \cup {NoInst}]

CallTypes ==
  /\ pc \in [Tasks -> Places]
  /\ op \in [Tasks -> Ops]
  /\ target \in [Tasks -> Modules]
  /\ todo \in [Tasks -> SUBSET Modules]

LEMMA TypeParts == TypeOK <=> EntryTypes /\ InstTypes /\ CallTypes
  BY DEF TypeOK, EntryTypes, InstTypes, CallTypes, States, Phases, Places, Ops

LEMMA InstFacts ==
  /\ \A i \in Inst : i[1] \in Modules /\ i[2] \in 1 .. MaxInst /\ i = <<i[1], i[2]>>
  /\ \A m \in Modules, n \in 1 .. MaxInst :
       <<m, n>> \in Inst /\ <<m, n>>[1] = m /\ <<m, n>>[2] = n
  /\ NoInst \notin Inst
  BY ManagerAssumption DEF Inst, NoInst

LEMMA GoToEffect ==
  ASSUME CallTypes, NEW t \in Tasks, NEW there \in Places, GoTo(t, there)
  PROVE  /\ pc' \in [Tasks -> Places] /\ pc'[t] = there
         /\ \A u \in Tasks \ {t} : pc'[u] = pc[u]
  BY DEF CallTypes, GoTo

LEMMA ReturnEffect ==
  ASSUME CallTypes, NEW t \in Tasks, Return(t)
  PROVE  /\ pc' \in [Tasks -> Places] /\ pc'[t] \in {"idle", "startAll", "stopAll"}
         /\ \A u \in Tasks \ {t} : pc'[u] = pc[u]
<1>1. PICK there \in {"idle", "startAll", "stopAll"} : GoTo(t, there)
  BY DEF Return
<1> QED
  BY <1>1, GoToEffect DEF Places

LEMMA EnabledEffect ==
  ASSUME CallTypes, NEW t \in Tasks, Enabled(t)
  PROVE  /\ pc' \in [Tasks -> Places] /\ pc'[t] = "idle"
         /\ op' \in [Tasks -> Ops]
         /\ \A u \in Tasks \ {t} : pc'[u] = pc[u]
  BY GoToEffect DEF Enabled, CallTypes, Places, Ops

-----------------------------------------------------------------------------
(* Types, which hold whoever calls.                                          *)

LEMMA InitTypeOK == Init => TypeOK
<1> SUFFICES ASSUME Init PROVE EntryTypes /\ InstTypes /\ CallTypes
  BY TypeParts
<1> USE ManagerAssumption
<1>0. 0 \in 0 .. MaxInst /\ 1 \in 0 .. MaxInst /\ 0 \in 0 .. NumJobs
  OBVIOUS
<1>1. EntryTypes
  BY <1>0 DEF Init, EntryTypes, FreshState, Fresh, States
<1>2. InstTypes
  BY <1>0 DEF Init, InstTypes, Phases
<1>3. CallTypes
  BY DEF Init, CallTypes, Places, Ops
<1> QED
  BY <1>1, <1>2, <1>3

\* A call of a task that is not in the manager: what it writes.
LEMMA RequestEffect ==
  ASSUME CallTypes, NEW t \in Tasks, Request(t)
  PROVE  /\ CallTypes' /\ UNCHANGED <<entryVars, instVars>>
         /\ pc[t] = "idle"
         /\ pc'[t] \in {"starting", "stopping", "enabling", "destroying", "startAll", "stopAll"}
         /\ \A u \in Tasks \ {t} : pc'[u] = pc[u] /\ target'[u] = target[u]
         /\ pc'[t] = "starting"   => MayStart(target'[t])
         /\ pc'[t] = "stopping"   => MayStop(target'[t])
         /\ pc'[t] = "destroying" => state[target'[t]] # "Started"
<1>1. CASE \E o \in {"startAll", "stopAll"} : ForAll(t, o)
  BY <1>1 DEF ForAll, CallTypes, Places, Ops
<1>2. ASSUME NEW m \in Modules, Start(t, m) \/ Stop(t, m) \/ Enable(t, m) \/ Disable(t, m)
      PROVE  \E o \in Ops, at \in {"starting", "stopping", "enabling", "destroying"} :
               /\ Call(t, o, m, at)
               /\ at = "starting"   => MayStart(m)
               /\ at = "stopping"   => MayStop(m)
               /\ at = "destroying" => state[m] # "Started"
  BY <1>2 DEF Start, Stop, Enable, Disable, Ops
<1>3. ASSUME NEW m \in Modules, NEW o \in Ops,
             NEW at \in {"starting", "stopping", "enabling", "destroying"}, Call(t, o, m, at)
      PROVE  /\ CallTypes' /\ UNCHANGED <<entryVars, instVars>>
             /\ pc[t] = "idle" /\ pc'[t] = at /\ target'[t] = m
             /\ \A u \in Tasks \ {t} : pc'[u] = pc[u] /\ target'[u] = target[u]
  <2>1. at \in Places
    BY DEF Places
  <2> QED
    BY <1>3, <2>1 DEF Call, CallTypes
<1> QED
  BY <1>1, <1>2, <1>3 DEF Request

\* A step of the loops of startAll() and stopAll().
LEMMA LoopEffect ==
  ASSUME CallTypes, NEW t \in Tasks, StartNext(t) \/ StopNext(t) \/ AllVisited(t)
  PROVE  /\ CallTypes' /\ UNCHANGED <<entryVars, instVars>>
         /\ pc[t] \in {"startAll", "stopAll"}
         /\ pc'[t] \in {"starting", "stopping", "startAll", "stopAll", "idle"}
         /\ \A u \in Tasks \ {t} : pc'[u] = pc[u] /\ target'[u] = target[u]
         /\ pc'[t] = "starting" => MayStart(target'[t])
         /\ pc'[t] = "stopping" => MayStop(target'[t])
<1>1. ASSUME NEW guard, NEW at \in {"starting", "stopping"}, NextOne(t, guard, at),
             op[t] \in {"startAll", "stopAll"}
      PROVE  /\ CallTypes' /\ UNCHANGED <<entryVars, instVars>>
             /\ pc[t] = op[t]
             /\ \A u \in Tasks \ {t} : pc'[u] = pc[u] /\ target'[u] = target[u]
             /\ \/ pc'[t] = at /\ guard[target'[t]]
                \/ pc'[t] = pc[t]
  <2>1. PICK m \in todo[t] :
          /\ todo' = [todo EXCEPT ![t] = @ \ {m}]
          /\ \/ guard[m] /\ GoTo(t, at) /\ target' = [target EXCEPT ![t] = m]
             \/ ~guard[m] /\ UNCHANGED <<pc, target>>
    BY <1>1 DEF NextOne
  <2>2. m \in Modules /\ at \in Places /\ UNCHANGED <<op, entryVars, instVars>> /\ pc[t] = op[t]
    BY <1>1 DEF CallTypes, Places, NextOne, At
  <2>3. todo' \in [Tasks -> SUBSET Modules]
    BY <2>1 DEF CallTypes
  <2>4. CASE guard[m] /\ GoTo(t, at) /\ target' = [target EXCEPT ![t] = m]
    BY <2>2, <2>3, <2>4, GoToEffect DEF CallTypes
  <2>5. CASE UNCHANGED <<pc, target>>
    BY <2>2, <2>3, <2>5 DEF CallTypes
  <2> QED
    BY <2>1, <2>4, <2>5
<1>2. CASE StartNext(t)
  <2> DEFINE guard == [m \in Modules |-> MayStart(m) /\ m \in AutoStart]
  <2>1. NextOne(t, guard, "starting") /\ op[t] = "startAll"
    BY <1>2 DEF StartNext
  <2>2. \A m \in Modules : guard[m] => MayStart(m)
    OBVIOUS
  <2> HIDE DEF guard
  <2>3. CallTypes' => target'[t] \in Modules
    BY DEF CallTypes
  <2> QED
    BY <1>1, <2>1, <2>2, <2>3
<1>3. CASE StopNext(t)
  <2> DEFINE guard == [m \in Modules |-> MayStop(m)]
  <2>1. NextOne(t, guard, "stopping") /\ op[t] = "stopAll"
    BY <1>3 DEF StopNext
  <2>2. \A m \in Modules : guard[m] => MayStop(m)
    OBVIOUS
  <2> HIDE DEF guard
  <2>3. CallTypes' => target'[t] \in Modules
    BY DEF CallTypes
  <2> QED
    BY <1>1, <2>1, <2>2, <2>3
<1>4. CASE AllVisited(t)
  BY <1>4, GoToEffect DEF AllVisited, At, CallTypes, Places
<1> QED
  BY <1>2, <1>3, <1>4

\* What each step of startOne(), stopOne(), enable() and disable() writes.
LEMMA StepTypeOK == TypeOK /\ [Next]_vars => TypeOK'
<1> SUFFICES ASSUME TypeOK, [Next]_vars PROVE EntryTypes' /\ InstTypes' /\ CallTypes'
  BY DEF TypeOK, EntryTypes, InstTypes, CallTypes, States, Phases, Places, Ops
<1> USE ManagerAssumption, InstFacts
<1>0. EntryTypes /\ InstTypes /\ CallTypes
  BY TypeParts
<1>a. ASSUME UNCHANGED entryVars PROVE EntryTypes'
  BY <1>0, <1>a DEF entryVars, EntryTypes
<1>b. ASSUME UNCHANGED instVars PROVE InstTypes'
  BY <1>0, <1>b DEF instVars, InstTypes
<1>c. ASSUME NEW t \in Tasks, NEW s \in States, SetState(t, s), UNCHANGED <<enabled, instance, made, down>>
      PROVE  EntryTypes'
  BY <1>0, <1>c DEF SetState, EntryTypes, CallTypes
<1>d. ASSUME NEW t \in Tasks, NEW there \in Places, GoTo(t, there), UNCHANGED <<op, target, todo>>
      PROVE  CallTypes'
  BY <1>0, <1>d, GoToEffect DEF CallTypes
<1>e. ASSUME NEW t \in Tasks, Return(t), UNCHANGED <<op, target, todo>>
      PROVE  CallTypes'
  BY <1>0, <1>e, ReturnEffect DEF CallTypes
<1>f. ASSUME NEW t \in Tasks, Enabled(t), UNCHANGED <<target, todo>>
      PROVE  CallTypes'
  BY <1>0, <1>f, EnabledEffect DEF CallTypes
<1>g. ASSUME NEW b \in BOOLEAN,
             NEW m \in Modules, Write(m, b) \/ WriteFails
      PROVE  enabled' \in [Modules -> BOOLEAN]
  BY <1>0, <1>g DEF Write, WriteFails, EntryTypes
<1>h. ASSUME NEW t \in Tasks PROVE target[t] \in Modules
  BY <1>0, <1>h DEF CallTypes
<1>1. ASSUME NEW t \in Tasks, Request(t) \/ StartNext(t) \/ StopNext(t) \/ AllVisited(t)
      PROVE  EntryTypes' /\ InstTypes' /\ CallTypes'
  BY <1>0, <1>1, <1>a, <1>b, RequestEffect, LoopEffect
<1>2. ASSUME NEW t \in Tasks, InstanceStarts(t)
      PROVE  EntryTypes' /\ InstTypes' /\ CallTypes'
  <2>1. CallTypes' /\ EntryTypes'
    BY <1>2, <1>a, <1>d DEF InstanceStarts, Places
  <2>2. phase' \in [Inst -> Phases]
    BY <1>2, <1>0 DEF InstanceStarts, InstTypes, Phases
  <2>3. handle' \in [Inst -> 0 .. NumJobs] /\ jobs' \in [JobSlots -> Inst \cup {NoInst}]
    <3>1. CASE UNCHANGED <<jobs, handle>>
      BY <3>1, <1>0 DEF InstTypes
    <3>2. ASSUME NEW s \in JobSlots,
                 jobs' = [jobs EXCEPT ![s] = Of(t)], handle' = [handle EXCEPT ![Of(t)] = s]
          PROVE  handle' \in [Inst -> 0 .. NumJobs] /\ jobs' \in [JobSlots -> Inst \cup {NoInst}]
      <4>1. Of(t) \in Inst /\ s \in 0 .. NumJobs
        BY <1>2 DEF InstanceStarts, JobSlots
      <4> QED
        BY <3>2, <4>1, <1>0 DEF InstTypes
    <3> QED
      BY <3>1, <3>2, <1>2 DEF InstanceStarts
  <2> QED
    BY <2>1, <2>2, <2>3 DEF InstTypes
<1>3. ASSUME NEW t \in Tasks, InstanceStartFails(t)
      PROVE  EntryTypes' /\ InstTypes' /\ CallTypes'
  BY <1>3, <1>0, <1>c, <1>e DEF InstanceStartFails, InstTypes, Phases, States
<1>4. ASSUME NEW t \in Tasks, MarkStarted(t)
      PROVE  EntryTypes' /\ InstTypes' /\ CallTypes'
  BY <1>4, <1>b, <1>c, <1>e DEF MarkStarted, States
<1>5. ASSUME NEW t \in Tasks, InstanceStops(t)
      PROVE  EntryTypes' /\ InstTypes' /\ CallTypes'
  <2>1. CallTypes' /\ EntryTypes'
    BY <1>5, <1>a, <1>d DEF InstanceStops, Places
  <2>2. phase' \in [Inst -> Phases] /\ handle' \in [Inst -> 0 .. NumJobs]
    BY <1>5, <1>0 DEF InstanceStops, InstTypes, Phases
  <2>3. jobs' \in [JobSlots -> Inst \cup {NoInst}]
    BY <1>5, <1>0 DEF InstanceStops, InstTypes
  <2> QED
    BY <2>1, <2>2, <2>3 DEF InstTypes
<1>6. ASSUME NEW t \in Tasks, MarkStopped(t)
      PROVE  EntryTypes' /\ InstTypes' /\ CallTypes'
  BY <1>6, <1>b, <1>c, <1>d, <1>e DEF MarkStopped, States, Places
<1>7. ASSUME NEW t \in Tasks, Destroy(t)
      PROVE  EntryTypes' /\ InstTypes' /\ CallTypes'
  <2>1. CallTypes'
    BY <1>7, <1>d DEF Destroy, Places
  <2>2. InstTypes'
    BY <1>7, <1>0 DEF Destroy, InstTypes, Phases
  <2>3. EntryTypes'
    BY <1>7, <1>0 DEF Destroy, EntryTypes, CallTypes
  <2> QED
    BY <2>1, <2>2, <2>3
<1>8. ASSUME NEW t \in Tasks, PersistDisabled(t)
      PROVE  EntryTypes' /\ InstTypes' /\ CallTypes'
  <2>1. CallTypes' /\ InstTypes'
    BY <1>8, <1>b, <1>d DEF PersistDisabled, Places
  <2>2. EntryTypes'
    <3>1. enabled' \in [Modules -> BOOLEAN] /\ UNCHANGED <<instance, made>>
      BY <1>8, <1>g, <1>h DEF PersistDisabled
    <3>2. /\ SetState(t, "Disabled") \/ UNCHANGED state
          /\ down' = StillOff(down \cup {target[t]}) \/ down' = StillOff(down)
      BY <1>8 DEF PersistDisabled
    <3>3. down' \subseteq Modules
      BY <1>0, <1>h, <3>2 DEF StillOff, EntryTypes
    <3>4. state' \in [Modules -> States]
      BY <1>0, <1>h, <3>2 DEF SetState, EntryTypes, States
    <3> QED
      BY <3>1, <3>3, <3>4, <1>0 DEF EntryTypes
  <2> QED
    BY <2>1, <2>2
<1>9. ASSUME NEW t \in Tasks, PersistEnabled(t)
      PROVE  EntryTypes' /\ InstTypes' /\ CallTypes'
  <2>1. CallTypes' /\ InstTypes'
    <3>1. \/ Enabled(t)
          \/ (GoTo(t, "making") \/ GoTo(t, "idle")) /\ UNCHANGED op
      BY <1>9 DEF PersistEnabled, MakeOrKeep
    <3>2. UNCHANGED <<target, todo, instVars>>
      BY <1>9 DEF PersistEnabled
    <3> QED
      BY <3>1, <3>2, <1>b, <1>d, <1>f DEF Places
  <2>2. EntryTypes'
    <3>1. enabled' \in [Modules -> BOOLEAN] /\ UNCHANGED <<state, instance, made>>
      BY <1>9, <1>g, <1>h DEF PersistEnabled
    <3>2. down' \subseteq Modules
      BY <1>9, <1>0 DEF PersistEnabled, StillOff, EntryTypes
    <3> QED
      BY <3>1, <3>2, <1>0 DEF EntryTypes
  <2> QED
    BY <2>1, <2>2
<1>10. ASSUME NEW t \in Tasks, MakeInstance(t)
       PROVE  EntryTypes' /\ InstTypes' /\ CallTypes'
  <2>1. CallTypes'
    BY <1>10, <1>f DEF MakeInstance
  <2>2. InstTypes'
    BY <1>10, <1>0 DEF MakeInstance, InstTypes, Phases
  <2>3. EntryTypes'
    BY <1>10, <1>0 DEF MakeInstance, SetState, EntryTypes, CallTypes, States
  <2> QED
    BY <2>1, <2>2, <2>3
<1>11. ASSUME Restart
       PROVE  EntryTypes' /\ InstTypes' /\ CallTypes'
  <2>1. CallTypes'
    BY <1>11, <1>0 DEF Restart, CallTypes, Places, Ops
  <2>2. InstTypes'
    BY <1>11, <1>0 DEF Restart, InstTypes, Phases
  <2>3. \A m \in Modules : Fresh(m, made[m] + 1) \in 0 .. MaxInst /\ FreshState(m) \in States
    BY <1>11, <1>0 DEF Restart, Fresh, FreshState, States, EntryTypes
  <2>4. \A m \in Modules : (IF enabled[m] THEN made[m] + 1 ELSE made[m]) \in 0 .. MaxInst
    BY <1>11, <1>0 DEF Restart, EntryTypes
  <2>5. EntryTypes'
    BY <1>11, <1>0, <2>3, <2>4 DEF Restart, EntryTypes
  <2> QED
    BY <2>1, <2>2, <2>5
<1>12. ASSUME UNCHANGED vars
       PROVE  EntryTypes' /\ InstTypes' /\ CallTypes'
  BY <1>12, <1>0, <1>a, <1>b DEF vars, callVars, CallTypes
<1>13. ASSUME ConfigWrites
       PROVE  EntryTypes' /\ InstTypes' /\ CallTypes'
  <2>1. CallTypes' /\ InstTypes'
    BY <1>13, <1>0, <1>b DEF ConfigWrites, callVars, CallTypes
  <2>2. enabled' \in [Modules -> BOOLEAN]
    BY <1>13, <1>0, <1>g DEF ConfigWrites, WriteFails, EntryTypes
  <2>3. EntryTypes'
    BY <1>13, <1>0, <2>2 DEF ConfigWrites, StillOff, EntryTypes
  <2> QED
    BY <2>1, <2>3
<1> QED
  BY <1>1, <1>2, <1>3, <1>4, <1>5, <1>6, <1>7, <1>8, <1>9, <1>10, <1>11, <1>12, <1>13
     DEF Next, Proceed

-----------------------------------------------------------------------------
(* The invariant, for callers that take turns.                               *)

LEMMA InvParts ==
  Inv => /\ TypeOK /\ EntryTypes /\ InstTypes /\ CallTypes
         /\ StatesFit /\ CallsKnow /\ OldAreGone /\ JobsAreOwned /\ DisabledStaysDown
  BY TypeParts DEF Inv

LEMMA InitInv == Init => Inv
<1> SUFFICES ASSUME Init PROVE Inv
  OBVIOUS
<1> USE ManagerAssumption, InstFacts
<1>1. TypeOK
  BY InitTypeOK
<1>2. \A t \in Tasks : pc[t] = "idle"
  BY DEF Init
<1>3. CallsKnow
  BY <1>2 DEF CallsKnow, Knows
<1>4. \A m \in Modules :
        /\ enabled[m] => /\ state[m] = "Initialized" /\ instance[m] = 1 /\ made[m] = 1
                         /\ phase[<<m, 1>>] = "ready"
        /\ ~enabled[m] => state[m] = "Disabled" /\ instance[m] = 0 /\ made[m] = 0
  BY DEF Init, FreshState, Fresh
<1>b. \A m \in Modules : \/ (instance[m] = 1 /\ made[m] = 1)
                          \/ (instance[m] = 0 /\ made[m] = 0)
  BY <1>4
<1>5. StatesFit
  BY <1>4 DEF StatesFit, StateFits, Current
<1>6. OldAreGone
  <2>1. ASSUME NEW i \in Inst, i[2] # instance[i[1]]
        PROVE  phase[i] = "none" /\ ~(i[2] <= made[i[1]])
    <3>1. i[1] \in Modules /\ i[2] \in 1 .. MaxInst
      OBVIOUS
    <3>2. phase[i] = IF enabled[i[1]] /\ i[2] = 1 THEN "ready" ELSE "none"
      BY DEF Init
    <3>3. CASE enabled[i[1]]
      <4>1. instance[i[1]] = 1 /\ made[i[1]] = 1
        BY <3>1, <3>3, <1>4
      <4> QED
        BY <4>1, <3>1, <3>2, <2>1
    <3>4. CASE ~enabled[i[1]]
      <4>1. made[i[1]] = 0
        BY <3>1, <3>4, <1>4
      <4> QED
        BY <4>1, <3>1, <3>2, <3>4
    <3> QED
      BY <3>3, <3>4
  <2>2. \A m \in Modules : instance[m] <= made[m]
    BY <1>b
  <2>3. \A m \in Modules : instance[m] # 0 => phase[Current(m)] = "ready"
    BY <1>4 DEF Current
  <2> QED
    BY <2>1, <2>2, <2>3 DEF OldAreGone
<1>7. JobsAreOwned /\ DisabledStaysDown
  BY <1>4 DEF Init, JobsAreOwned, DisabledStaysDown
<1> QED
  BY <1>1, <1>3, <1>5, <1>6, <1>7 DEF Inv

LEMMA Alone ==
  ASSUME TakeTurns, NEW t \in Tasks, pc[t] # "idle"
  PROVE  \A u \in Tasks \ {t} : pc[u] = "idle"
  BY DEF TakeTurns

\* A step that leaves entries and instances alone, and marks none.
LEMMA EntriesStay ==
  ASSUME Inv, NEW t \in Tasks, TypeOK', UNCHANGED <<entryVars, instVars>>,
         \A u \in Tasks \ {t} : pc'[u] = pc[u] /\ target'[u] = target[u],
         pc[t] \notin {"started", "stopped"}, pc'[t] \notin {"started", "stopped"},
         Knows(t)'
  PROVE  Inv'
<1> USE InvParts
<1>1. UNCHANGED <<enabled, state, instance, made, down, phase, handle, jobs>>
  BY DEF entryVars, instVars
<1>2. \A m \in Modules : Passing(m)' <=> Passing(m)
  BY DEF Passing
<1>3. StatesFit'
  BY <1>1, <1>2 DEF StatesFit, StateFits, Current
<1>4. CallsKnow'
  <2>1. ASSUME NEW u \in Tasks \ {t} PROVE Knows(u)'
    BY <1>1 DEF CallsKnow, Knows, Current
  <2> QED
    BY <2>1 DEF CallsKnow
<1>5. OldAreGone' /\ JobsAreOwned' /\ DisabledStaysDown'
  BY <1>1 DEF OldAreGone, JobsAreOwned, DisabledStaysDown, Current
<1> QED
  BY <1>3, <1>4, <1>5 DEF Inv

LEMMA StepCall ==
  ASSUME Inv, TypeOK', NEW t \in Tasks,
         Request(t) \/ StartNext(t) \/ StopNext(t) \/ AllVisited(t)
  PROVE  Inv'
<1> USE InvParts
<1>1. /\ UNCHANGED <<entryVars, instVars>>
      /\ \A u \in Tasks \ {t} : pc'[u] = pc[u] /\ target'[u] = target[u]
      /\ pc[t] \in {"idle", "startAll", "stopAll"}
      /\ pc'[t] \in {"starting", "stopping", "enabling", "destroying", "startAll", "stopAll",
                     "idle"}
      /\ pc'[t] = "starting"   => MayStart(target'[t])
      /\ pc'[t] = "stopping"   => MayStop(target'[t])
      /\ pc'[t] = "destroying" => state[target'[t]] # "Started"
  BY RequestEffect, LoopEffect
<1>2. Knows(t)'
  BY <1>1 DEF Knows, MayStart, MayStop, entryVars
<1> QED
  BY <1>1, <1>2, EntriesStay

\* A step inside a call, while nobody else is in the manager: it disturbs
\* no module but its own.
LEMMA StepInside ==
  ASSUME Inv, TakeTurns, TypeOK', NEW t \in Tasks, pc[t] # "idle", UNCHANGED target,
         \A u \in Tasks \ {t} : pc'[u] = pc[u],
         \A m \in Modules \ {target[t]} :
           /\ state'[m] = state[m] /\ instance'[m] = instance[m]
           /\ instance[m] # 0 => phase'[Current(m)] = phase[Current(m)],
         Knows(t)',
         pc'[t] \notin {"started", "stopped"} => StateFits(target[t])',
         OldAreGone', JobsAreOwned', DisabledStaysDown'
  PROVE  Inv'
<1> USE InvParts
<1>1. \A u \in Tasks \ {t} : pc[u] = "idle" /\ pc'[u] = "idle"
  BY Alone
<1>2. CallsKnow'
  BY <1>1 DEF CallsKnow, Knows
<1>3. StatesFit'
  <2>1. SUFFICES ASSUME NEW m \in Modules', ~Passing(m)' PROVE StateFits(m)'
    BY DEF StatesFit
  <2>2. CASE m = target[t]
    <3>1. pc'[t] \notin {"started", "stopped"}
      BY <2>1, <2>2 DEF Passing
    <3> QED
      BY <2>2, <3>1
  <2>3. CASE m # target[t]
    <3>1. ~Passing(m)
      BY <1>1, <2>3 DEF Passing
    <3>2. StateFits(m)
      BY <3>1 DEF StatesFit
    <3> QED
      BY <2>3, <3>2 DEF StateFits, Current
  <2> QED
    BY <2>2, <2>3
<1> QED
  BY <1>2, <1>3 DEF Inv

\* What is known of the module and the instance a call is about.
LEMMA TargetFacts ==
  ASSUME Inv, TakeTurns, NEW t \in Tasks, pc[t] # "idle"
  PROVE  /\ target[t] \in Modules /\ Knows(t)
         /\ Of(t) = Current(target[t]) /\ Of(t) = <<target[t], instance[target[t]]>>
         /\ instance[target[t]] # 0 => Of(t) \in Inst
         /\ pc[t] \notin {"started", "stopped"} => StateFits(target[t])
<1> USE InvParts, InstFacts
<1>1. target[t] \in Modules /\ Knows(t)
  BY DEF CallTypes, CallsKnow
<1>2. instance[target[t]] # 0 => instance[target[t]] \in 1 .. MaxInst
  BY <1>1, ManagerAssumption DEF EntryTypes
<1>3. ASSUME pc[t] \notin {"started", "stopped"} PROVE StateFits(target[t])
  <2>1. ~Passing(target[t])
    BY <1>3, Alone DEF Passing
  <2> QED
    BY <1>1, <2>1 DEF StatesFit
<1> QED
  BY <1>1, <1>2, <1>3 DEF Of, Current

LEMMA CurrentDiffers ==
  ASSUME NEW m \in Modules, NEW n \in Modules, m # n
  PROVE  Current(m) # Current(n)
  BY DEF Current

LEMMA StepInstanceStarts ==
  ASSUME Inv, TakeTurns, TypeOK', NEW t \in Tasks, InstanceStarts(t)
  PROVE  Inv'
<1> USE InvParts, InstFacts
<1>1. /\ pc[t] = "starting" /\ Of(t) \in Inst
      /\ phase' = [phase EXCEPT ![Of(t)] = "running"]
      /\ UNCHANGED <<op, target, todo, enabled, state, instance, made, down>>
  BY DEF InstanceStarts, At, entryVars
<1>2. pc'[t] = "started" /\ \A u \in Tasks \ {t} : pc'[u] = pc[u]
  BY GoToEffect DEF InstanceStarts, Places
<1>3. /\ target[t] \in Modules /\ instance[target[t]] # 0 /\ Of(t) = Current(target[t])
      /\ phase[Of(t)] = "ready"
  BY <1>1, TargetFacts DEF Knows, StateFits
<1>4. phase'[Of(t)] = "running" /\ \A i \in Inst \ {Of(t)} : phase'[i] = phase[i]
  BY <1>1 DEF InstTypes
<1>5. \A m \in Modules : instance[m] # 0 => Current(m) \in Inst
  BY ManagerAssumption DEF EntryTypes, Current
<1>6. \A m \in Modules \ {target[t]} : instance[m] # 0 => phase'[Current(m)] = phase[Current(m)]
  BY <1>3, <1>4, <1>5, CurrentDiffers
<1>7. Knows(t)'
  BY <1>1, <1>2, <1>3, <1>4 DEF Knows, Current
<1>8. OldAreGone'
  <2>1. \A m \in Modules : instance'[m] # 0 => phase'[Current(m)'] \in {"ready", "running", "broken"}
    BY <1>1, <1>3, <1>4, <1>6 DEF OldAreGone, Current
  <2>2. \A i \in Inst : i[2] # instance[i[1]] => i # Of(t)
    BY <1>3 DEF Current
  <2> QED
    BY <1>1, <1>4, <2>1, <2>2 DEF OldAreGone
<1>9. JobsAreOwned'
  <2>1. \A s \in JobSlots : jobs[s] # NoInst =>
          jobs[s] \in Inst \ {Of(t)} /\ phase'[jobs[s]] = "running"
    BY <1>3, <1>4 DEF JobsAreOwned, InstTypes
  <2>2. CASE UNCHANGED <<jobs, handle>>
    BY <1>1, <2>1, <2>2 DEF JobsAreOwned
  <2>3. ASSUME NEW s \in JobSlots, jobs[s] = NoInst,
               jobs' = [jobs EXCEPT ![s] = Of(t)], handle' = [handle EXCEPT ![Of(t)] = s]
        PROVE  JobsAreOwned'
    <3>1. jobs'[s] = Of(t) /\ \A r \in JobSlots \ {s} : jobs'[r] = jobs[r]
      BY <2>3 DEF InstTypes
    <3>2. handle'[Of(t)] = s /\ \A i \in Inst \ {Of(t)} : handle'[i] = handle[i]
      BY <1>1, <2>3 DEF InstTypes
    <3>3. SUFFICES ASSUME NEW r \in JobSlots', jobs'[r] # NoInst
                   PROVE  /\ phase'[jobs'[r]] = "running"
                          /\ instance'[jobs'[r][1]] = jobs'[r][2]
                          /\ handle'[jobs'[r]] = r
      BY DEF JobsAreOwned
    <3>4. CASE r = s
      BY <1>1, <1>3, <1>4, <3>1, <3>2, <3>4 DEF Current
    <3>5. CASE r # s
      BY <1>1, <2>1, <3>1, <3>2, <3>3, <3>5 DEF JobsAreOwned
    <3> QED
      BY <3>4, <3>5
  <2> QED
    BY <2>2, <2>3 DEF InstanceStarts
<1>10. DisabledStaysDown'
  BY <1>1 DEF DisabledStaysDown
<1> QED
  BY <1>1, <1>2, <1>6, <1>7, <1>8, <1>9, <1>10, StepInside

LEMMA StepInstanceStartFails ==
  ASSUME Inv, TakeTurns, TypeOK', NEW t \in Tasks, InstanceStartFails(t)
  PROVE  Inv'
<1> USE InvParts, InstFacts
<1>1. /\ pc[t] = "starting" /\ Of(t) \in Inst
      /\ phase' = [phase EXCEPT ![Of(t)] = "broken"]
      /\ state' = [state EXCEPT ![target[t]] = "Failed"]
      /\ UNCHANGED <<op, target, todo, enabled, instance, made, down, handle, jobs>>
  BY DEF InstanceStartFails, At, SetState
<1>2. pc'[t] \in {"idle", "startAll", "stopAll"} /\ \A u \in Tasks \ {t} : pc'[u] = pc[u]
  BY ReturnEffect DEF InstanceStartFails
<1>3. /\ target[t] \in Modules /\ instance[target[t]] # 0 /\ Of(t) = Current(target[t])
      /\ phase[Of(t)] = "ready"
  BY <1>1, TargetFacts DEF Knows, StateFits
<1>4. phase'[Of(t)] = "broken" /\ \A i \in Inst \ {Of(t)} : phase'[i] = phase[i]
  BY <1>1 DEF InstTypes
<1>5. \A m \in Modules : instance[m] # 0 => Current(m) \in Inst
  BY ManagerAssumption DEF EntryTypes, Current
<1>6. \A m \in Modules \ {target[t]} : instance[m] # 0 => phase'[Current(m)] = phase[Current(m)]
  BY <1>3, <1>4, <1>5, CurrentDiffers
<1>7. state'[target[t]] = "Failed" /\ \A m \in Modules \ {target[t]} : state'[m] = state[m]
  BY <1>1, <1>3 DEF EntryTypes
<1>8. Knows(t)' /\ StateFits(target[t])'
  BY <1>1, <1>2, <1>3, <1>4, <1>7 DEF Knows, StateFits, Current
<1>9. OldAreGone'
  <2>1. \A m \in Modules : instance'[m] # 0 => phase'[Current(m)'] \in {"ready", "running", "broken"}
    BY <1>1, <1>3, <1>4, <1>6 DEF OldAreGone, Current
  <2>2. \A i \in Inst : i[2] # instance[i[1]] => i # Of(t)
    BY <1>3 DEF Current
  <2> QED
    BY <1>1, <1>4, <2>1, <2>2 DEF OldAreGone
<1>10. JobsAreOwned'
  <2>1. \A s \in JobSlots : jobs[s] # NoInst => jobs[s] \in Inst \ {Of(t)}
    BY <1>3 DEF JobsAreOwned, InstTypes
  <2> QED
    BY <1>1, <1>4, <2>1 DEF JobsAreOwned
<1>11. DisabledStaysDown'
  <2>1. target[t] \notin down
    BY <1>3 DEF DisabledStaysDown
  <2> QED
    BY <1>1, <1>7, <2>1 DEF DisabledStaysDown, EntryTypes
<1> QED
  BY <1>1, <1>2, <1>6, <1>7, <1>8, <1>9, <1>10, <1>11, StepInside

\* The two steps that write the state of the entry after the instance did its part.
LEMMA StepMark ==
  ASSUME Inv, TakeTurns, TypeOK', NEW t \in Tasks, MarkStarted(t) \/ MarkStopped(t)
  PROVE  Inv'
<1> USE InvParts, InstFacts
<1> DEFINE m == target[t]
<1>1. UNCHANGED <<op, target, todo, enabled, instance, made, down, phase, handle, jobs>>
  BY DEF MarkStarted, MarkStopped, instVars
<1>2. pc[t] \in {"started", "stopped"}
  BY DEF MarkStarted, MarkStopped, At
<1>3. /\ pc'[t] \in {"idle", "startAll", "stopAll", "destroying"}
      /\ pc[t] = "started" => pc'[t] # "destroying"
      /\ \A u \in Tasks \ {t} : pc'[u] = pc[u]
  BY ReturnEffect, GoToEffect DEF MarkStarted, MarkStopped, At, Places
<1>4. m \in Modules /\ Knows(t)
  BY <1>2, TargetFacts
<1>5. /\ pc[t] = "started" => state'[m] = "Started"
      /\ pc[t] = "stopped" => state'[m] = "Stopped"
      /\ \A n \in Modules \ {m} : state'[n] = state[n]
  BY <1>4 DEF MarkStarted, MarkStopped, At, SetState, EntryTypes
<1>6. Knows(t)'
  BY <1>1, <1>2, <1>3, <1>5 DEF Knows
<1>7. StateFits(target[t])'
  BY <1>1, <1>2, <1>4, <1>5 DEF Knows, StateFits, Current
<1>8. OldAreGone' /\ JobsAreOwned'
  BY <1>1 DEF OldAreGone, JobsAreOwned, Current
<1>9. DisabledStaysDown'
  <2>1. m \notin down
    BY <1>2, <1>4 DEF DisabledStaysDown, Knows
  <2> QED
    BY <1>1, <1>5, <2>1 DEF DisabledStaysDown, EntryTypes
<1> QED
  BY <1>1, <1>2, <1>3, <1>5, <1>6, <1>7, <1>8, <1>9, StepInside

LEMMA StepInstanceStops ==
  ASSUME Inv, TakeTurns, TypeOK', NEW t \in Tasks, InstanceStops(t)
  PROVE  Inv'
<1> USE InvParts, InstFacts
<1>1. /\ pc[t] = "stopping" /\ Of(t) \in Inst
      /\ jobs' = [s \in JobSlots |-> IF s = handle[Of(t)] THEN NoInst ELSE jobs[s]]
      /\ handle' = [handle EXCEPT ![Of(t)] = 0]
      /\ phase' = [phase EXCEPT ![Of(t)] = "ready"]
      /\ UNCHANGED <<op, target, todo, enabled, state, instance, made, down>>
  BY DEF InstanceStops, At, entryVars
<1>2. pc'[t] = "stopped" /\ \A u \in Tasks \ {t} : pc'[u] = pc[u]
  BY GoToEffect DEF InstanceStops, Places
<1>3. /\ target[t] \in Modules /\ instance[target[t]] # 0 /\ Of(t) = Current(target[t])
      /\ phase[Of(t)] = "running"
  BY <1>1, TargetFacts DEF Knows, StateFits
<1>4. phase'[Of(t)] = "ready" /\ \A i \in Inst \ {Of(t)} : phase'[i] = phase[i]
  BY <1>1 DEF InstTypes
<1>5. \A m \in Modules : instance[m] # 0 => Current(m) \in Inst
  BY ManagerAssumption DEF EntryTypes, Current
<1>6. \A m \in Modules \ {target[t]} : instance[m] # 0 => phase'[Current(m)] = phase[Current(m)]
  BY <1>3, <1>4, <1>5, CurrentDiffers
<1>7. Knows(t)'
  BY <1>1, <1>2, <1>3, <1>4 DEF Knows, Current
<1>8. OldAreGone'
  <2>1. \A m \in Modules : instance'[m] # 0 => phase'[Current(m)'] \in {"ready", "running", "broken"}
    BY <1>1, <1>3, <1>4, <1>6 DEF OldAreGone, Current
  <2>2. \A i \in Inst : i[2] # instance[i[1]] => i # Of(t)
    BY <1>3 DEF Current
  <2> QED
    BY <1>1, <1>4, <2>1, <2>2 DEF OldAreGone
<1>9. JobsAreOwned'
  <2>1. SUFFICES ASSUME NEW s \in JobSlots', jobs'[s] # NoInst
                 PROVE  /\ phase'[jobs'[s]] = "running"
                        /\ instance'[jobs'[s][1]] = jobs'[s][2]
                        /\ handle'[jobs'[s]] = s
    BY DEF JobsAreOwned
  <2>2. jobs'[s] = jobs[s] /\ s # handle[Of(t)]
    BY <1>1, <2>1
  <2>3. jobs[s] \in Inst /\ handle[jobs[s]] = s
    BY <2>1, <2>2 DEF JobsAreOwned, InstTypes
  <2>4. jobs[s] # Of(t)
    BY <2>2, <2>3
  <2>5. handle'[jobs[s]] = handle[jobs[s]] /\ phase'[jobs[s]] = phase[jobs[s]]
    BY <1>1, <2>3, <2>4 DEF InstTypes
  <2> QED
    BY <1>1, <2>1, <2>2, <2>3, <2>5 DEF JobsAreOwned
<1>10. DisabledStaysDown'
  BY <1>1 DEF DisabledStaysDown
<1> QED
  BY <1>1, <1>2, <1>6, <1>7, <1>8, <1>9, <1>10, StepInside

LEMMA StepDestroy ==
  ASSUME Inv, TakeTurns, TypeOK', NEW t \in Tasks, Destroy(t)
  PROVE  Inv'
<1> USE InvParts, InstFacts
<1> DEFINE m == target[t]
<1>1. /\ pc[t] = "destroying"
      /\ phase' = [i \in Inst |-> IF i = Of(t) THEN "gone" ELSE phase[i]]
      /\ instance' = [instance EXCEPT ![m] = 0]
      /\ UNCHANGED <<op, target, todo, enabled, state, made, down, handle, jobs>>
  BY DEF Destroy, At
<1>2. pc'[t] = "disabling" /\ \A u \in Tasks \ {t} : pc'[u] = pc[u]
  BY GoToEffect DEF Destroy, Places
<1>3. /\ m \in Modules /\ Of(t) = <<m, instance[m]>> /\ Of(t) = Current(m)
      /\ state[m] # "Started" /\ StateFits(m)
  BY <1>1, TargetFacts DEF Knows
<1>4. instance'[m] = 0 /\ \A n \in Modules \ {m} : instance'[n] = instance[n]
  BY <1>1, <1>3 DEF EntryTypes
<1>5. \A n \in Modules : instance[n] # 0 => Current(n) \in Inst
  BY ManagerAssumption DEF EntryTypes, Current
<1>6. \A n \in Modules \ {m} : instance[n] # 0 => phase'[Current(n)] = phase[Current(n)]
  BY <1>1, <1>3, <1>5, CurrentDiffers
<1>7. Knows(t)' /\ StateFits(target[t])'
  BY <1>1, <1>2, <1>3, <1>4 DEF Knows, StateFits
<1>8. OldAreGone'
  <2>1. \A n \in Modules : instance'[n] <= made'[n]
    BY <1>1, <1>4, <1>3 DEF OldAreGone, EntryTypes
  <2>2. ASSUME NEW n \in Modules, instance'[n] # 0
        PROVE  phase'[Current(n)'] \in {"ready", "running", "broken"}
    <3>1. n # m /\ instance'[n] = instance[n] /\ instance[n] # 0
      BY <2>2, <1>4
    <3> QED
      BY <3>1, <1>6 DEF OldAreGone, Current
  <2>3. ASSUME NEW i \in Inst, i[2] # instance'[i[1]]
        PROVE  phase'[i] = IF i[2] <= made'[i[1]] THEN "gone" ELSE "none"
    <3>1. CASE i = Of(t)
      <4>1. i[1] = m /\ i[2] = instance[m]
        BY <1>3, <3>1
      <4> QED
        BY <1>1, <1>3, <3>1, <4>1 DEF OldAreGone
    <3>2. CASE i # Of(t)
      <4>1. i[2] # instance[i[1]]
        BY <1>3, <1>4, <2>3, <3>2
      <4> QED
        BY <1>1, <3>2, <4>1 DEF OldAreGone
    <3> QED
      BY <3>1, <3>2
  <2> QED
    BY <2>1, <2>2, <2>3 DEF OldAreGone
<1>9. JobsAreOwned'
  <2>1. SUFFICES ASSUME NEW s \in JobSlots', jobs'[s] # NoInst
                 PROVE  /\ phase'[jobs'[s]] = "running"
                        /\ instance'[jobs'[s][1]] = jobs'[s][2]
                        /\ handle'[jobs'[s]] = s
    BY DEF JobsAreOwned
  <2>2. /\ jobs[s] \in Inst /\ jobs'[s] = jobs[s] /\ phase[jobs[s]] = "running"
        /\ instance[jobs[s][1]] = jobs[s][2] /\ handle[jobs[s]] = s
    BY <1>1, <2>1 DEF JobsAreOwned, InstTypes
  <2>3. jobs[s][1] # m
    <3>1. ASSUME jobs[s][1] = m PROVE FALSE
      <4>1. instance[m] # 0 /\ phase[Current(m)] = "running"
        BY <2>2, <3>1 DEF Current
      <4>2. state[m] \in {"Initialized", "Stopped", "Failed", "Disabled"}
        BY <1>3 DEF EntryTypes, States
      <4> QED
        BY <1>3, <4>1, <4>2 DEF StateFits
    <3> QED
      BY <3>1
  <2> QED
    BY <1>1, <1>3, <1>4, <2>2, <2>3
<1>10. DisabledStaysDown'
  BY <1>1, <1>4 DEF DisabledStaysDown, EntryTypes
<1> QED
  BY <1>1, <1>2, <1>4, <1>6, <1>7, <1>8, <1>9, <1>10, StepInside

LEMMA StepPersistDisabled ==
  ASSUME Inv, TakeTurns, TypeOK', NEW t \in Tasks, PersistDisabled(t)
  PROVE  Inv'
<1> USE InvParts
<1> DEFINE m == target[t]
<1>1. /\ pc[t] = "disabling"
      /\ UNCHANGED <<op, target, todo, instance, made, phase, handle, jobs>>
  BY DEF PersistDisabled, At, instVars
<1>2. pc'[t] = "idle" /\ \A u \in Tasks \ {t} : pc'[u] = pc[u]
  BY GoToEffect DEF PersistDisabled, Places
<1>3. m \in Modules /\ instance[m] = 0 /\ state[m] # "Started"
  BY <1>1, TargetFacts DEF Knows
<1>4. state'[m] # "Started" /\ \A n \in Modules \ {m} : state'[n] = state[n]
  BY <1>3 DEF PersistDisabled, SetState, EntryTypes
<1>5. DisabledStaysDown'
  <2>1. \/ state'[m] = "Disabled" /\ down' \subseteq down \cup {m}
        \/ state' = state /\ down' \subseteq down
    BY <1>3 DEF PersistDisabled, SetState, StillOff, EntryTypes
  <2> QED
    BY <1>1, <1>3, <1>4, <2>1 DEF DisabledStaysDown, EntryTypes
<1>6. Knows(t)' /\ StateFits(target[t])'
  BY <1>1, <1>2, <1>3, <1>4 DEF Knows, StateFits
<1>7. OldAreGone' /\ JobsAreOwned'
  BY <1>1 DEF OldAreGone, JobsAreOwned, Current
<1> QED
  BY <1>1, <1>2, <1>4, <1>5, <1>6, <1>7, StepInside

LEMMA StepPersistEnabled ==
  ASSUME Inv, TakeTurns, TypeOK', NEW t \in Tasks, PersistEnabled(t)
  PROVE  Inv'
<1> USE InvParts
<1> DEFINE m == target[t]
<1>1. /\ pc[t] = "enabling"
      /\ UNCHANGED <<target, todo, state, instance, made, phase, handle, jobs>>
  BY DEF PersistEnabled, At, instVars
<1>2. m \in Modules /\ StateFits(m)
  BY <1>1, TargetFacts
<1>3. /\ \A u \in Tasks \ {t} : pc'[u] = pc[u]
      /\ \/ pc'[t] = "idle"
         \/ pc'[t] = "making" /\ m \notin down' /\ state[m] \notin {"Started", "Stopped", "Initialized"}
  <2>1. CASE GoTo(t, "idle")
    BY <2>1, GoToEffect DEF Places
  <2>2. CASE MakeOrKeep(t) /\ down' = StillOff(down \ {m})
    <3>1. m \notin down'
      BY <2>2 DEF StillOff
    <3>2. CASE Enabled(t)
      BY <3>2, EnabledEffect
    <3>3. CASE GoTo(t, "making") /\ state[m] \notin {"Started", "Stopped", "Initialized"}
      BY <3>1, <3>3, GoToEffect DEF Places
    <3> QED
      BY <2>2, <3>2, <3>3 DEF MakeOrKeep
  <2> QED
    BY <2>1, <2>2 DEF PersistEnabled
<1>4. DisabledStaysDown'
  <2>1. down' \subseteq down
    BY DEF PersistEnabled, StillOff
  <2> QED
    BY <1>1, <2>1 DEF DisabledStaysDown
<1>5. Knows(t)' /\ StateFits(target[t])'
  <2>1. state[m] \in States
    BY <1>2 DEF EntryTypes
  <2> QED
    BY <1>1, <1>2, <1>3, <2>1 DEF Knows, StateFits, Current, States
<1>6. OldAreGone' /\ JobsAreOwned'
  BY <1>1 DEF OldAreGone, JobsAreOwned, Current
<1> QED
  BY <1>1, <1>3, <1>4, <1>5, <1>6, StepInside DEF Current

\* enable() makes an instance only for an entry whose last one is gone or
\* failed to start, and so holds no job.
LEMMA StepMakeInstance ==
  ASSUME Inv, TakeTurns, TypeOK', NEW t \in Tasks, MakeInstance(t)
  PROVE  Inv'
<1> USE InvParts, InstFacts
<1> DEFINE m == target[t]
<1> DEFINE new == <<m, made[m] + 1>>
<1>1. /\ pc[t] = "making" /\ made[m] < MaxInst
      /\ made' = [made EXCEPT ![m] = made[m] + 1]
      /\ instance' = [instance EXCEPT ![m] = made[m] + 1]
      /\ phase' = [i \in Inst |-> IF i = Of(t) THEN "gone" ELSE IF i = new THEN "ready" ELSE phase[i]]
      /\ state' = [state EXCEPT ![m] = "Initialized"]
      /\ UNCHANGED <<target, todo, enabled, down, handle, jobs>>
  BY DEF MakeInstance, At, SetState
<1>2. pc'[t] = "idle" /\ \A u \in Tasks \ {t} : pc'[u] = pc[u]
  BY EnabledEffect DEF MakeInstance
<1>3. /\ m \in Modules /\ Of(t) = <<m, instance[m]>> /\ m \notin down /\ StateFits(m)
      /\ state[m] \in {"Disabled", "Failed"}
  BY <1>1, TargetFacts DEF Knows
<1>4. /\ made[m] \in Nat /\ made[m] + 1 \in 1 .. MaxInst /\ new \in Inst /\ new # Of(t)
      /\ instance[m] <= made[m]
  BY <1>1, <1>3, ManagerAssumption DEF EntryTypes, OldAreGone
<1>5. /\ instance'[m] = made[m] + 1 /\ made'[m] = made[m] + 1 /\ state'[m] = "Initialized"
      /\ \A n \in Modules \ {m} :
           instance'[n] = instance[n] /\ made'[n] = made[n] /\ state'[n] = state[n]
  BY <1>1, <1>3 DEF EntryTypes
<1>6. phase'[new] = "ready" /\ \A i \in Inst : i[1] # m => phase'[i] = phase[i]
  BY <1>1, <1>3, <1>4
<1>7. \A n \in Modules \ {m} : instance[n] # 0 => phase'[Current(n)] = phase[Current(n)]
  BY <1>6, ManagerAssumption DEF EntryTypes, Current
<1>8. Knows(t)' /\ StateFits(target[t])'
  BY <1>1, <1>2, <1>5, <1>6 DEF Knows, StateFits, Current
<1>9. OldAreGone'
  <2>1. \A n \in Modules : instance'[n] <= made'[n]
    BY <1>4, <1>5 DEF OldAreGone
  <2>2. ASSUME NEW n \in Modules, instance'[n] # 0
        PROVE  phase'[Current(n)'] \in {"ready", "running", "broken"}
    <3>1. CASE n = m
      BY <1>5, <1>6, <3>1 DEF Current
    <3>2. CASE n # m
      BY <1>5, <1>7, <2>2, <3>2 DEF OldAreGone, Current
    <3> QED
      BY <3>1, <3>2
  <2>3. ASSUME NEW i \in Inst, i[2] # instance'[i[1]]
        PROVE  phase'[i] = IF i[2] <= made'[i[1]] THEN "gone" ELSE "none"
    <3>1. CASE i = Of(t)
      BY <1>1, <1>3, <1>4, <1>5, <3>1
    <3>2. CASE i # Of(t) /\ i[1] = m
      <4>1. i[2] \in Nat /\ i[2] # made[m] + 1 /\ i # new /\ i[2] # instance[m]
        BY <1>3, <1>4, <1>5, <2>3, <3>2
      <4>2. phase[i] = IF i[2] <= made[m] THEN "gone" ELSE "none"
        BY <3>2, <4>1 DEF OldAreGone
      <4>3. i[2] <= made[m] <=> i[2] <= made[m] + 1
        BY <1>4, <4>1
      <4> QED
        BY <1>1, <1>5, <3>2, <4>1, <4>2, <4>3
    <3>3. CASE i[1] # m
      BY <1>5, <1>6, <2>3, <3>3 DEF OldAreGone
    <3> QED
      BY <3>1, <3>2, <3>3
  <2> QED
    BY <2>1, <2>2, <2>3 DEF OldAreGone
<1>10. JobsAreOwned'
  <2>1. SUFFICES ASSUME NEW s \in JobSlots', jobs'[s] # NoInst
                 PROVE  /\ phase'[jobs'[s]] = "running"
                        /\ instance'[jobs'[s][1]] = jobs'[s][2]
                        /\ handle'[jobs'[s]] = s
    BY DEF JobsAreOwned
  <2>2. /\ jobs[s] \in Inst /\ jobs'[s] = jobs[s] /\ phase[jobs[s]] = "running"
        /\ instance[jobs[s][1]] = jobs[s][2] /\ handle[jobs[s]] = s
    BY <1>1, <2>1 DEF JobsAreOwned, InstTypes
  <2>3. jobs[s][1] # m
    <3>1. ASSUME jobs[s][1] = m PROVE FALSE
      <4>1. instance[m] # 0 /\ phase[Current(m)] = "running"
        BY <2>2, <3>1 DEF Current
      <4> QED
        BY <1>3, <4>1 DEF StateFits
    <3> QED
      BY <3>1
  <2> QED
    BY <1>1, <1>5, <1>6, <2>2, <2>3
<1>11. DisabledStaysDown'
  BY <1>1, <1>3, <1>5 DEF DisabledStaysDown, EntryTypes
<1> QED
  BY <1>1, <1>2, <1>5, <1>7, <1>8, <1>9, <1>10, <1>11, StepInside

LEMMA StepRestart ==
  ASSUME Inv, TypeOK', Restart
  PROVE  Inv'
<1> USE InvParts, InstFacts
<1>1. \A t \in Tasks : pc'[t] = "idle"
  BY DEF Restart
<1>2. CallsKnow'
  BY <1>1 DEF CallsKnow, Knows
<1>3. \A m \in Modules :
        /\ enabled[m] =>
             /\ state'[m] = "Initialized" /\ instance'[m] = made[m] + 1 /\ made'[m] = made[m] + 1
             /\ phase'[<<m, made[m] + 1>>] = "ready"
        /\ ~enabled[m] => state'[m] = "Disabled" /\ instance'[m] = 0 /\ made'[m] = made[m]
  <2>1. \A m \in Modules : <<m, made[m] + 1>> \in Inst
    BY ManagerAssumption DEF Restart, EntryTypes
  <2> QED
    BY <2>1 DEF Restart, FreshState, Fresh
<1>4. \A m \in Modules : made[m] \in Nat
  BY ManagerAssumption DEF EntryTypes
<1>5. StatesFit'
  <2>1. ASSUME NEW m \in Modules PROVE StateFits(m)'
    <3>1. made[m] + 1 # 0
      BY <1>4
    <3>2. CASE enabled[m]
      BY <1>3, <3>1, <3>2 DEF StateFits, Current
    <3>3. CASE ~enabled[m]
      BY <1>3, <3>3 DEF StateFits
    <3> QED
      BY <3>2, <3>3
  <2> QED
    BY <2>1 DEF StatesFit
<1>6. OldAreGone'
  <2>1. ASSUME NEW m \in Modules PROVE instance'[m] <= made'[m]
    <3>1. /\ instance'[m] = made'[m] \/ instance'[m] = 0
          /\ made'[m] = made[m] + 1 \/ made'[m] = made[m]
      <4>1. CASE enabled[m]
        BY <1>3, <4>1
      <4>2. CASE ~enabled[m]
        BY <1>3, <4>2
      <4> QED
        BY <4>1, <4>2
    <3>2. made'[m] \in Nat /\ 0 <= made'[m] /\ made'[m] <= made'[m]
      BY <1>4, <3>1
    <3> QED
      BY <3>1, <3>2
  <2>2. \A m \in Modules : instance'[m] # 0 => phase'[Current(m)'] = "ready"
    BY <1>3 DEF Current
  <2>3. ASSUME NEW i \in Inst, i[2] # instance'[i[1]]
        PROVE  phase'[i] = IF i[2] <= made'[i[1]] THEN "gone" ELSE "none"
    <3>1. i[1] \in Modules /\ i[2] \in 1 .. MaxInst /\ i[2] \in Nat /\ made[i[1]] \in Nat
      BY <1>4
    <3>2. phase'[i] = IF enabled[i[1]] /\ i[2] = made[i[1]] + 1 THEN "ready"
                      ELSE IF phase[i] = "none" THEN "none" ELSE "gone"
      BY DEF Restart
    <3>3. phase[i] = "none" <=> ~(i[2] <= made[i[1]])
      <4>1. CASE i[2] = instance[i[1]]
        <5>1. instance[i[1]] # 0 /\ i = Current(i[1]) /\ i[2] <= made[i[1]]
          BY <3>1, <4>1 DEF Current, OldAreGone
        <5> QED
          BY <3>1, <5>1 DEF OldAreGone
      <4>2. CASE i[2] # instance[i[1]]
        BY <4>2 DEF OldAreGone
      <4> QED
        BY <4>1, <4>2
    <3>4. CASE enabled[i[1]]
      <4>1. made'[i[1]] = made[i[1]] + 1 /\ i[2] # made[i[1]] + 1
        BY <1>3, <2>3, <3>1, <3>4
      <4>2. i[2] <= made[i[1]] <=> i[2] <= made[i[1]] + 1
        BY <3>1, <4>1
      <4> QED
        BY <3>2, <3>3, <4>1, <4>2
    <3>5. CASE ~enabled[i[1]]
      <4>1. made'[i[1]] = made[i[1]]
        BY <1>3, <3>1, <3>5
      <4> QED
        BY <3>2, <3>3, <3>5, <4>1
    <3> QED
      BY <3>4, <3>5
  <2> QED
    BY <2>1, <2>2, <2>3 DEF OldAreGone
<1>7. JobsAreOwned'
  BY DEF Restart, JobsAreOwned
<1>8. DisabledStaysDown'
  <2>1. down' = {m \in Modules : ~enabled[m]}
    BY DEF Restart
  <2> QED
    BY <1>3, <2>1 DEF DisabledStaysDown
<1> QED
  BY <1>2, <1>5, <1>6, <1>7, <1>8 DEF Inv

\* The config API changes flags, and so can only shorten the list of those down.
LEMMA StepConfigWrites ==
  ASSUME Inv, TypeOK', ConfigWrites
  PROVE  Inv'
<1> USE InvParts
<1>1. /\ UNCHANGED <<state, instance, made, phase, handle, jobs, pc, op, target, todo>>
      /\ down' \subseteq down
  BY DEF ConfigWrites, StillOff, instVars, callVars
<1>2. StatesFit'
  BY <1>1 DEF StatesFit, StateFits, Passing, Current
<1>3. CallsKnow'
  BY <1>1 DEF CallsKnow, Knows, Current
<1>4. OldAreGone' /\ JobsAreOwned' /\ DisabledStaysDown'
  BY <1>1 DEF OldAreGone, JobsAreOwned, DisabledStaysDown, Current
<1> QED
  BY <1>2, <1>3, <1>4 DEF Inv

LEMMA StepInv == Inv /\ TakeTurns /\ [Next]_vars => Inv'
<1> SUFFICES ASSUME Inv, TakeTurns, [Next]_vars PROVE Inv'
  OBVIOUS
<1>0. TypeOK'
  BY StepTypeOK, InvParts
<1>1. ASSUME NEW t \in Tasks, Request(t) \/ Proceed(t) PROVE Inv'
  BY <1>0, <1>1, StepCall, StepInstanceStarts, StepInstanceStartFails, StepMark,
     StepInstanceStops, StepDestroy, StepPersistDisabled, StepPersistEnabled, StepMakeInstance
     DEF Proceed
<1>2. CASE Restart
  BY <1>0, <1>2, StepRestart
<1>4. CASE ConfigWrites
  BY <1>0, <1>4, StepConfigWrites
<1>3. CASE UNCHANGED vars
  <2>1. UNCHANGED <<enabled, state, instance, made, down, phase, handle, jobs, pc, op, target, todo>>
    BY <1>3 DEF vars, entryVars, instVars, callVars
  <2>2. StatesFit' /\ CallsKnow'
    BY <2>1, InvParts DEF StatesFit, StateFits, Passing, Current, CallsKnow, Knows
  <2>3. OldAreGone' /\ JobsAreOwned' /\ DisabledStaysDown'
    BY <2>1, InvParts DEF OldAreGone, JobsAreOwned, DisabledStaysDown, Current
  <2> QED
    BY <1>0, <2>2, <2>3 DEF Inv
<1> QED
  BY <1>1, <1>2, <1>3, <1>4 DEF Next

-----------------------------------------------------------------------------
(* The manager keeps its promise to the instances: each step is one of       *)
(* ModuleLifecycle or leaves the instances as they were.                     *)

LEMMA StepLifecycle == Inv /\ TakeTurns /\ [Next]_vars => [Lifecycle!Next]_phase
<1> SUFFICES ASSUME Inv, TakeTurns, [Next]_vars, phase' # phase PROVE Lifecycle!Next
  OBVIOUS
<1> USE InvParts, InstFacts
<1>a. ASSUME NEW t \in Tasks, Of(t) \in Inst,
             Lifecycle!Start(Of(t)) \/ Lifecycle!StartFail(Of(t)) \/ Lifecycle!Stop(Of(t))
               \/ Lifecycle!Destroy(Of(t))
      PROVE  Lifecycle!Next
  BY <1>a DEF Lifecycle!Next
<1>1. ASSUME NEW t \in Tasks, Request(t) PROVE FALSE
  BY <1>1, RequestEffect DEF instVars
<1>2. ASSUME NEW t \in Tasks, Proceed(t) PROVE Lifecycle!Next
  <2>1. CASE StartNext(t) \/ StopNext(t) \/ AllVisited(t)
    BY <2>1, LoopEffect DEF instVars
  <2>2. CASE InstanceStarts(t) \/ InstanceStartFails(t)
    <3>1. pc[t] = "starting" /\ Of(t) \in Inst
      BY <2>2 DEF InstanceStarts, InstanceStartFails, At
    <3>2. phase[Of(t)] = "ready"
      BY <3>1, TargetFacts DEF Knows, StateFits
    <3> QED
      BY <2>2, <3>1, <3>2, <1>a
         DEF InstanceStarts, InstanceStartFails, Lifecycle!Start, Lifecycle!StartFail, Lifecycle!Become
  <2>3. CASE InstanceStops(t)
    <3>1. pc[t] = "stopping" /\ Of(t) \in Inst
      BY <2>3 DEF InstanceStops, At
    <3>2. phase[Of(t)] = "running"
      BY <3>1, TargetFacts DEF Knows, StateFits
    <3> QED
      BY <2>3, <3>1, <3>2, <1>a DEF InstanceStops, Lifecycle!Stop, Lifecycle!Become
  <2>4. CASE Destroy(t)
    <3>1. /\ pc[t] = "destroying"
          /\ phase' = [i \in Inst |-> IF i = Of(t) THEN "gone" ELSE phase[i]]
      BY <2>4 DEF Destroy, At
    <3>2. Of(t) \in Inst
      BY <3>1 DEF InstTypes
    <3>3. instance[target[t]] # 0 /\ state[target[t]] # "Started" /\ StateFits(target[t])
      BY <3>1, <3>2, TargetFacts DEF Knows
    <3>4. phase[Of(t)] \in {"ready", "broken"}
      BY <3>1, <3>3, TargetFacts DEF StateFits, EntryTypes, States
    <3>5. phase' = [phase EXCEPT ![Of(t)] = "gone"]
      BY <3>1, <3>2 DEF InstTypes
    <3> QED
      BY <3>2, <3>4, <3>5, <1>a DEF Lifecycle!Destroy, Lifecycle!Become
  <2>5. CASE MakeInstance(t)
    <3> DEFINE m == target[t]
    <3> DEFINE new == <<m, made[m] + 1>>
    <3>1. /\ pc[t] = "making" /\ made[m] < MaxInst
          /\ phase' = [i \in Inst |-> IF i = Of(t) THEN "gone" ELSE IF i = new THEN "ready" ELSE phase[i]]
      BY <2>5 DEF MakeInstance, At
    <3>2. /\ m \in Modules /\ Of(t) = <<m, instance[m]>> /\ StateFits(m)
          /\ state[m] \in {"Disabled", "Failed"}
      BY <3>1, TargetFacts DEF Knows
    <3>3. made[m] \in Nat /\ new \in Inst /\ new # Of(t) /\ instance[m] <= made[m]
      BY <3>1, <3>2, ManagerAssumption DEF EntryTypes, OldAreGone
    <3>4. phase[new] = "none"
      <4>1. new[1] = m /\ new[2] = made[m] + 1 /\ new[2] # instance[m] /\ ~(new[2] <= made[m])
        BY <3>2, <3>3 DEF EntryTypes
      <4> QED
        BY <3>3, <4>1 DEF OldAreGone
    <3>5. CASE instance[m] = 0
      <4>1. Of(t) \notin Inst
        BY <3>2, <3>5
      <4>2. PICK j \in Inst : j = new
        BY <3>3
      <4>3. phase' = [phase EXCEPT ![j] = "ready"]
        BY <3>1, <4>1, <4>2 DEF InstTypes
      <4> QED
        BY <3>4, <4>2, <4>3 DEF Lifecycle!Next, Lifecycle!Create, Lifecycle!Become
    <3>6. CASE instance[m] # 0
      <4>1. Of(t) \in Inst /\ phase[Of(t)] = "broken"
        BY <3>1, <3>2, <3>6, TargetFacts DEF StateFits
      <4>2. PICK j \in Inst : j = new
        BY <3>3
      <4>3. PICK i \in Inst : i = Of(t)
        BY <4>1
      <4>4. phase' = [phase EXCEPT ![i] = "gone", ![j] = "ready"]
        BY <3>1, <3>3, <4>2, <4>3 DEF InstTypes
      <4> QED
        BY <3>4, <4>1, <4>2, <4>3, <4>4 DEF Lifecycle!Next, Lifecycle!Replace
    <3> QED
      BY <3>5, <3>6
  <2>6. CASE MarkStarted(t) \/ MarkStopped(t) \/ PersistDisabled(t) \/ PersistEnabled(t)
    BY <2>6 DEF MarkStarted, MarkStopped, PersistDisabled, PersistEnabled, instVars
  <2> QED
    BY <1>2, <2>1, <2>2, <2>3, <2>4, <2>5, <2>6 DEF Proceed
<1>3. ASSUME Restart PROVE Lifecycle!Next
  <2> DEFINE fresh == {i \in Inst : enabled[i[1]] /\ i[2] = made[i[1]] + 1}
  <2>1. ASSUME NEW i \in fresh PROVE phase[i] = "none"
    <3>1. i \in Inst /\ made[i[1]] \in Nat /\ instance[i[1]] \in Nat /\ instance[i[1]] <= made[i[1]]
      BY <2>1, ManagerAssumption DEF EntryTypes, OldAreGone
    <3>2. i[2] # instance[i[1]] /\ ~(i[2] <= made[i[1]])
      BY <2>1, <3>1
    <3> QED
      BY <3>1, <3>2 DEF OldAreGone
  <2>2. fresh \in SUBSET {i \in Inst : phase[i] = "none"}
    BY <2>1
  <2>3. phase' = [i \in Inst |-> IF i \in fresh THEN "ready"
                                 ELSE IF phase[i] = "none" THEN "none" ELSE "gone"]
    BY <1>3 DEF Restart
  <2> QED
    BY <2>2, <2>3 DEF Lifecycle!Next, Lifecycle!Restart
<1>4. CASE UNCHANGED vars \/ ConfigWrites
  BY <1>4 DEF vars, ConfigWrites, instVars
<1> QED
  BY <1>1, <1>2, <1>3, <1>4 DEF Next

-----------------------------------------------------------------------------
(* The theorems.                                                             *)

\* The manager's state keeps its types, whoever calls: no instance number
\* passes the bound and no task is left at a place the code does not have.
THEOREM ManagerTypes == Spec => []TypeOK
<1>1. Init => TypeOK
  BY InitTypeOK
<1>2. TypeOK /\ [Next]_vars => TypeOK'
  BY StepTypeOK
<1> QED
  BY <1>1, <1>2, PTL DEF Spec

\* The inductive invariant: with one call in the manager at a time, the state
\* of every entry fits what its instance has been through.
THEOREM ManagerInvariant == Spec /\ []TakeTurns => []Inv
<1>1. Init => Inv
  BY InitInv
<1>2. Inv /\ TakeTurns /\ [Next]_vars => Inv'
  BY StepInv
<1> QED
  BY <1>1, <1>2, PTL DEF Spec

\* No job outlives what it works on: stop() cancels the job before the entry
\* says Stopped, and only an entry that is not Started loses its instance.
THEOREM NoJobOutlivesItsModule == Spec /\ []TakeTurns => []JobsAreOwned
<1>1. Inv => JobsAreOwned
  BY DEF Inv
<1> QED
  BY <1>1, ManagerInvariant, PTL

\* disable() is final: a module that was turned off has no instance, whatever
\* call reported failure and wherever a restart cut a call off, until an enable()
\* answers ok or its flag on disk is set or lost.
THEOREM DisableIsFinal == Spec /\ []TakeTurns => []DisabledStaysDown
<1>1. Inv => DisabledStaysDown
  BY DEF Inv
<1> QED
  BY <1>1, ManagerInvariant, PTL

\* What module.hpp says of stop() holds for callers that take turns: while
\* nobody is in the manager, a module that is stopped has no job.  Without
\* the hypothesis it does not (the run ModuleRace).
THEOREM StopUndoesStartInTurns == Spec /\ []TakeTurns => []StopUndoesStart
<1>1. Inv => StopUndoesStart
  <2> SUFFICES ASSUME Inv, \A t \in Tasks : pc[t] = "idle",
                      NEW m \in Modules, state[m] = "Stopped",
                      NEW s \in JobSlots, jobs[s] = <<m, instance[m]>>
               PROVE  FALSE
    BY DEF StopUndoesStart
  <2>0. InstTypes /\ StatesFit /\ JobsAreOwned
    BY InvParts
  <2>a. jobs[s] = Current(m) /\ jobs[s] # NoInst
    BY DEF Current, NoInst
  <2>1. jobs[s] \in Inst /\ jobs[s] = Current(m) /\ phase[Current(m)] = "running"
    BY <2>0, <2>a DEF InstTypes, JobsAreOwned
  <2>2. instance[m] # 0
    BY <2>1, InstFacts DEF Current, Inst
  <2>3. StateFits(m)
    BY <2>0 DEF StatesFit, Passing
  <2> QED
    BY <2>1, <2>2, <2>3 DEF StateFits
<1> QED
  BY <1>1, ManagerInvariant, PTL

\* The manager implements the lifecycle it promises to instances: each is
\* created once, started and stopped in turn, and destroyed only at rest.
THEOREM LifecycleIsKept == Spec /\ []TakeTurns => KeepsLifecycle
<1>1. Inv /\ TakeTurns /\ [Next]_vars => [Lifecycle!Next]_phase
  BY StepLifecycle
<1> QED
  BY <1>1, ManagerInvariant, PTL DEF Spec, KeepsLifecycle
=============================================================================
