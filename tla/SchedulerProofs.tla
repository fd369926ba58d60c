-------------------------- MODULE SchedulerProofs --------------------------
(***************************************************************************)
(* Proofs about Scheduler for every number of clients, tiers and slots and *)
(* every depth of the worker queues.                                       *)
(*                                                                         *)
(* The inductive invariant says that whatever names a job (a queued item,  *)
(* the item a worker holds, the timer task's arg, the handle in a call of  *)
(* cancel()) agrees with what the job was scheduled as, that the mark of   *)
(* the running job is the item being run, and that a job taken out of the  *)
(* table has one task that deletes its timer.                              *)
(***************************************************************************)
EXTENDS Scheduler, TLAPS

Issued(j) == asked[j] # NoJob

ItemOK(i, t) ==
  /\ Issued(i.job)
  /\ asked[i.job].tier = t
  /\ i.once <=> ~asked[i.job].periodic

TableInv ==
  \A j \in JobId :
    /\ Issued(j) => j[2] <= jobs[j[1]].gen
    /\ Active(j) => /\ Issued(j)
                    /\ jobs[j[1]].tier = asked[j].tier
                    /\ jobs[j[1]].periodic <=> asked[j].periodic

QueueInv == \A t \in Tiers : \A i \in 1 .. Len(queues[t]) : ItemOK(queues[t][i], t)

WorkerInv ==
  \A t \in Tiers :
    /\ workPc[t] = "wait" <=> workItem[t] = NoJob
    /\ workPc[t] # "wait" => ItemOK(workItem[t], t)
    /\ workPc[t] = "run" => running[t] = workItem[t].job
    /\ workPc[t] # "run" => running[t] = NoJob
    /\ workPc[t] = "free" => workItem[t].once /\ ~Active(workItem[t].job)

CallbackInv ==
  /\ cbPc = "idle" <=> cbJob = NoJob
  /\ cbPc # "idle" => Issued(cbJob)
  /\ cbPc \in {"send", "clean", "free"} => (cbOnce <=> ~asked[cbJob].periodic)
  /\ cbPc \in {"clean", "free"} => cbOnce
  /\ cbPc = "free" => ~Active(cbJob)

CallInv ==
  \A a \in Agents :
    /\ callPc[a] = "idle" <=> callJob[a] = NoJob
    /\ callPc[a] # "idle" => /\ Issued(callJob[a])
                             /\ ~Active(callJob[a])
                             /\ callTier[a] = asked[callJob[a]].tier
    /\ callPc[a] = "fence" => callTier[a] # a

OneOwner ==
  /\ \A a, b \in Agents :
       callPc[a] = "stop" /\ callPc[b] = "stop" /\ callJob[a] = callJob[b] => a = b
  /\ \A a \in Agents, t \in Tiers :
       callPc[a] = "stop" /\ workPc[t] = "free" => callJob[a] # workItem[t].job
  /\ \A a \in Agents : callPc[a] = "stop" /\ cbPc = "free" => callJob[a] # cbJob
  /\ \A t \in Tiers : workPc[t] = "free" /\ cbPc = "free" => workItem[t].job # cbJob

AnswerInv ==
  \A r \in answers :
    /\ Issued(r.job)
    /\ r.status = "Success" =>
         /\ ~Active(r.job)
         /\ r.by # asked[r.job].tier => r.job \notin RunningJobs

Inv ==
  /\ TypeOK /\ TableInv /\ QueueInv /\ WorkerInv /\ CallbackInv /\ CallInv
  /\ OneOwner /\ AnswerInv /\ TimersAreOwned /\ OnlyOwnHandleCancels

LEMMA JobIdFacts ==
  /\ \A j \in JobId : j[1] \in Slots /\ j[2] \in 1 .. MaxGen /\ j = <<j[1], j[2]>>
  /\ \A s \in Slots, g \in 1 .. MaxGen :
       <<s, g>> \in JobId /\ <<s, g>>[1] = s /\ <<s, g>>[2] = g
  /\ NoJob \notin JobId
  BY SchedulerAssumption DEF JobId

LEMMA ItemFacts ==
  /\ \A i \in Item : i.job \in JobId /\ i.once \in BOOLEAN
  /\ \A j \in JobId, b \in BOOLEAN : [job |-> j, once |-> b] \in Item
  /\ NoJob \notin Item
  BY SchedulerAssumption DEF Item

LEMMA QueueTail ==
  ASSUME NEW q \in Seq(Item), q # <<>>
  PROVE  /\ Head(q) \in Item
         /\ Head(q) = q[1]
         /\ Tail(q) \in Seq(Item)
         /\ Len(Tail(q)) = Len(q) - 1
         /\ \A i \in 1 .. Len(Tail(q)) : Tail(q)[i] = q[i + 1]
  OBVIOUS

LEMMA QueueAppend ==
  ASSUME NEW q \in Seq(Item), NEW e \in Item
  PROVE  /\ Append(q, e) \in Seq(Item)
         /\ Len(Append(q, e)) = Len(q) + 1
         /\ \A i \in 1 .. Len(q) : Append(q, e)[i] = q[i]
         /\ Append(q, e)[Len(q) + 1] = e
  OBVIOUS

JobTable ==
  [Slots -> [active : BOOLEAN, gen : 0 .. MaxGen, tier : Tiers, periodic : BOOLEAN]]

LEMMA DetachEffect ==
  ASSUME jobs \in JobTable, NEW j \in JobId, Active(j), Detach(j)
  PROVE  /\ jobs' \in JobTable
         /\ \A k \in JobId : Active(k)' <=> Active(k) /\ k # j
         /\ \A s \in Slots : /\ jobs'[s].gen = jobs[s].gen
                             /\ jobs'[s].tier = jobs[s].tier
                             /\ jobs'[s].periodic = jobs[s].periodic
<1> USE JobIdFacts
<1> PICK s \in Slots : s = j[1]
  OBVIOUS
<1>1. jobs' = [jobs EXCEPT ![s] = [jobs[s] EXCEPT !.active = FALSE]]
  BY DEF Detach
<1>a. PICK old \in [active : BOOLEAN, gen : 0 .. MaxGen, tier : Tiers, periodic : BOOLEAN] :
        old = jobs[s]
  BY DEF JobTable
<1>2. PICK row \in [active : BOOLEAN, gen : 0 .. MaxGen, tier : Tiers, periodic : BOOLEAN] :
        row = [old EXCEPT !.active = FALSE]
  OBVIOUS
<1>3. /\ row.active = FALSE
      /\ row.gen = jobs[s].gen
      /\ row.tier = jobs[s].tier
      /\ row.periodic = jobs[s].periodic
  BY <1>2, <1>a
<1>4. jobs' = [jobs EXCEPT ![s] = row]
  BY <1>1, <1>2, <1>a
<1>5. jobs' \in JobTable /\ jobs'[s] = row /\ \A r \in Slots : r # s => jobs'[r] = jobs[r]
  BY <1>4 DEF JobTable
<1>6. ASSUME NEW k \in JobId PROVE Active(k)' <=> Active(k) /\ k # j
  <2>1. CASE k[1] = s
    BY <2>1, <1>3, <1>5 DEF Active
  <2>2. CASE k[1] # s
    BY <2>2, <1>5 DEF Active
  <2> QED
    BY <2>1, <2>2
<1>7. ASSUME NEW r \in Slots
      PROVE  /\ jobs'[r].gen = jobs[r].gen
             /\ jobs'[r].tier = jobs[r].tier
             /\ jobs'[r].periodic = jobs[r].periodic
  BY <1>3, <1>5
<1> QED
  BY <1>5, <1>6, <1>7

LEMMA ScheduleEffect ==
  ASSUME jobs \in JobTable, NEW s \in Slots, ~jobs[s].active, jobs[s].gen < MaxGen,
         NEW ask \in Ask, NEW b \in BOOLEAN,
         jobs' = [jobs EXCEPT ![s] = [active |-> b, gen |-> @.gen + 1,
                                      tier |-> ask.tier, periodic |-> ask.periodic]]
  PROVE  /\ jobs' \in JobTable
         /\ <<s, jobs[s].gen + 1>> \in JobId
         /\ \A k \in JobId : Active(k)' <=> Active(k) \/ (b /\ k = <<s, jobs[s].gen + 1>>)
         /\ \A r \in Slots : r # s => jobs'[r] = jobs[r]
         /\ jobs'[s].gen = jobs[s].gen + 1
         /\ jobs'[s].tier = ask.tier
         /\ jobs'[s].periodic = ask.periodic
<1> USE JobIdFacts, SchedulerAssumption
<1>0. ask.tier \in Tiers /\ ask.periodic \in BOOLEAN
  BY DEF Ask
<1>a. jobs[s].gen \in 0 .. MaxGen /\ jobs[s].gen + 1 \in 1 .. MaxGen
  BY DEF JobTable
<1>1. jobs' \in JobTable
  BY <1>0, <1>a DEF JobTable
<1>2. \A r \in Slots : r # s => jobs'[r] = jobs[r]
  BY DEF JobTable
<1>3. jobs'[s] = [active |-> b, gen |-> jobs[s].gen + 1, tier |-> ask.tier, periodic |-> ask.periodic]
  BY DEF JobTable
<1>4. ASSUME NEW k \in JobId
      PROVE  Active(k)' <=> Active(k) \/ (b /\ k = <<s, jobs[s].gen + 1>>)
  <2>1. CASE k[1] # s
    BY <2>1, <1>2, <1>a DEF Active
  <2>2. CASE k[1] = s
    BY <2>2, <1>3, <1>a DEF Active
  <2> QED
    BY <2>1, <2>2
<1> QED
  BY <1>1, <1>2, <1>3, <1>4, <1>a
LEMMA InitTypeOK == Init => TypeOK
<1> SUFFICES ASSUME Init PROVE TypeOK
  OBVIOUS
<1>1. (CHOOSE t \in Tiers : TRUE) \in Tiers
  BY SchedulerAssumption
<1>2. jobs \in JobTable
  BY <1>1, SchedulerAssumption DEF Init, JobTable
<1>3. queues \in [Tiers -> Seq(Item)] /\ \A t \in Tiers : Len(queues[t]) <= QueueDepth
  BY SchedulerAssumption DEF Init
<1> QED
  BY <1>2, <1>3 DEF Init, TypeOK, JobTable

LEMMA StepTypeOK == TypeOK /\ WorkerInv /\ CallbackInv /\ CallInv /\ [Next]_vars => TypeOK'
<1> SUFFICES ASSUME TypeOK, WorkerInv, CallbackInv, CallInv, [Next]_vars PROVE TypeOK'
  OBVIOUS
<1> USE SchedulerAssumption
<1>1. ASSUME NEW a \in Agents, NEW ask \in Ask, Schedule(a, ask) PROVE TypeOK'
  <2>1. PICK s \in Slots : Schedule(a, ask)!2!(s)
    BY <1>1 DEF Schedule
  <2>2. jobs \in JobTable /\ ~jobs[s].active /\ jobs[s].gen < MaxGen
    BY <2>1 DEF TypeOK, JobTable, FreeSlot
  <2>3. jobs' \in JobTable /\ <<s, jobs[s].gen + 1>> \in JobId
    BY <2>1, <2>2, ScheduleEffect
  <2> QED
    BY <1>1, <2>1, <2>3 DEF TypeOK, JobTable, Schedule, timeVars, cbVars, workVars, callVars
<1>2. ASSUME NEW a \in Agents, NEW ask \in Ask, ScheduleFails(a, ask) PROVE TypeOK'
  <2>1. PICK s \in Slots : ScheduleFails(a, ask)!2!(s)
    BY <1>2 DEF ScheduleFails
  <2>2. jobs \in JobTable /\ ~jobs[s].active /\ jobs[s].gen < MaxGen
    BY <2>1 DEF TypeOK, JobTable, FreeSlot
  <2>3. jobs' \in JobTable
    BY <2>1, <2>2, ScheduleEffect
  <2> QED
    BY <1>2, <2>3 DEF TypeOK, JobTable, ScheduleFails, timeVars, cbVars, workVars, callVars
<1>3. ASSUME NEW a \in Agents, NEW j \in JobId, Cancel(a, j) PROVE TypeOK'
  <2>0. jobs \in JobTable
    BY DEF TypeOK, JobTable
  <2>1. CASE Active(j)
    <3>1. jobs' \in JobTable
      BY <1>3, <2>0, <2>1, DetachEffect DEF Cancel
    <3>2. jobs[j[1]].tier \in Tiers
      BY <2>0, JobIdFacts DEF JobTable
    <3>3. /\ callPc' = [callPc EXCEPT ![a] = "stop"]
          /\ callJob' = [callJob EXCEPT ![a] = j]
          /\ callTier' = [callTier EXCEPT ![a] = jobs[j[1]].tier]
          /\ UNCHANGED <<answers, asked, timeVars, cbVars, queues, workVars>>
      BY <1>3, <2>1 DEF Cancel
    <3>4. /\ callPc' \in [Agents -> {"idle", "stop", "fence"}]
          /\ callJob' \in [Agents -> JobId \cup {NoJob}]
          /\ callTier' \in [Agents -> Tiers \cup {NoJob}]
      BY <3>2, <3>3 DEF TypeOK
    <3> QED
      BY <3>1, <3>3, <3>4 DEF TypeOK, JobTable, timeVars, cbVars, workVars
  <2>2. CASE ~Active(j)
    <3>1. [job |-> j, by |-> a, status |-> "NotFound"] \in [job : JobId, by : Agents, status : {"Success", "NotFound"}]
      OBVIOUS
    <3> QED
      BY <1>3, <2>2, <3>1 DEF TypeOK, Cancel, Answer, timeVars, cbVars, workVars
  <2> QED
    BY <2>1, <2>2
<1>4. ASSUME NEW a \in Agents, CancelStop(a) PROVE TypeOK'
  <2>1. callJob[a] \in JobId /\ callJob[a] # NoJob
    BY <1>4, JobIdFacts DEF TypeOK, CallInv, CancelStop
  <2>2. [job |-> callJob[a], by |-> a, status |-> "Success"] \in [job : JobId, by : Agents, status : {"Success", "NotFound"}]
    BY <2>1
  <2> QED
    BY <1>4, <2>1, <2>2 DEF TypeOK, CancelStop, StopTimer, Returns, Answer, cbVars, workVars
<1>5. ASSUME NEW a \in Agents, CancelFence(a) PROVE TypeOK'
  <2>1. callJob[a] \in JobId /\ callJob[a] # NoJob
    BY <1>5, JobIdFacts DEF TypeOK, CallInv, CancelFence
  <2>2. [job |-> callJob[a], by |-> a, status |-> "Success"] \in [job : JobId, by : Agents, status : {"Success", "NotFound"}]
    BY <2>1
  <2> QED
    BY <1>5, <2>1, <2>2 DEF TypeOK, CancelFence, Returns, Answer, timeVars, cbVars, workVars
<1>6. ASSUME NEW j \in JobId, TimerFires(j) PROVE TypeOK'
  BY <1>6 DEF TypeOK, TimerFires, timeVars, cbVars, workVars, callVars
<1>7. ASSUME CallbackLookup PROVE TypeOK'
  <2>1. cbOnce' \in BOOLEAN
    BY <1>7 DEF TypeOK, CallbackLookup, CallbackDone
  <2> QED
    BY <1>7, <2>1 DEF TypeOK, CallbackLookup, CallbackDone, timeVars, workVars, callVars
<1>8. ASSUME CallbackSend PROVE TypeOK'
  <2>1. cbJob \in JobId /\ asked[cbJob] \in Ask
    BY <1>8, JobIdFacts DEF TypeOK, CallbackInv, CallbackSend, Issued
  <2>2. PICK t \in Tiers : t = asked[cbJob].tier
    BY <2>1 DEF Ask
  <2>3. PICK item \in Item : item = [job |-> cbJob, once |-> cbOnce]
    BY <2>1, ItemFacts DEF TypeOK
  <2>4. CASE Len(queues[t]) < QueueDepth
    <3>1. queues[t] \in Seq(Item)
      BY DEF TypeOK
    <3>2. Append(queues[t], item) \in Seq(Item) /\ Len(Append(queues[t], item)) = Len(queues[t]) + 1
      BY <3>1, QueueAppend
    <3>3. queues' = [queues EXCEPT ![t] = Append(queues[t], item)] /\ CallbackDone
      BY <1>8, <2>2, <2>3, <2>4 DEF CallbackSend
    <3>4. queues' \in [Tiers -> Seq(Item)] /\ \A u \in Tiers : Len(queues'[u]) <= QueueDepth
      BY <2>4, <3>1, <3>2, <3>3 DEF TypeOK
    <3> QED
      BY <1>8, <3>3, <3>4 DEF TypeOK, CallbackSend, CallbackDone, timeVars, workVars, callVars
  <2>5. CASE ~(Len(queues[t]) < QueueDepth)
    BY <1>8, <2>2, <2>5 DEF TypeOK, CallbackSend, CallbackDone, timeVars, workVars, callVars
  <2> QED
    BY <2>4, <2>5
<1>9. ASSUME CallbackClean PROVE TypeOK'
  <2>0. jobs \in JobTable /\ cbJob \in JobId
    BY <1>9, JobIdFacts DEF TypeOK, JobTable, CallbackInv, CallbackClean
  <2>1. jobs' \in JobTable
    BY <1>9, <2>0, DetachEffect DEF CallbackClean
  <2> QED
    BY <1>9, <2>1 DEF TypeOK, JobTable, CallbackClean, CallbackDone, timeVars, workVars, callVars
<1>10. ASSUME CallbackFree PROVE TypeOK'
  BY <1>10 DEF TypeOK, CallbackFree, CallbackDone, StopTimer, timeVars, cbVars, workVars, callVars
<1>11. ASSUME NEW t \in Tiers, WorkerReceive(t) PROVE TypeOK'
  <2>1. queues[t] \in Seq(Item) /\ queues[t] # <<>>
    BY <1>11 DEF TypeOK, WorkerReceive
  <2>2. /\ Head(queues[t]) \in Item
        /\ Tail(queues[t]) \in Seq(Item) /\ Len(Tail(queues[t])) = Len(queues[t]) - 1
    BY <2>1, QueueTail
  <2>3. queues' \in [Tiers -> Seq(Item)] /\ \A u \in Tiers : Len(queues'[u]) <= QueueDepth
    BY <1>11, <2>1, <2>2 DEF TypeOK, WorkerReceive
  <2> QED
    BY <1>11, <2>2, <2>3 DEF TypeOK, WorkerReceive, timeVars, cbVars, callVars
<1>12. ASSUME NEW t \in Tiers, WorkerCheck(t) PROVE TypeOK'
  <2>1. workItem[t] \in Item /\ workItem[t].job \in JobId
    BY <1>12, ItemFacts DEF TypeOK, WorkerInv, WorkerCheck
  <2> QED
    BY <1>12, <2>1 DEF TypeOK, WorkerCheck, WorkerIdle, timeVars, cbVars, callVars
<1>13. ASSUME NEW t \in Tiers, WorkerReturn(t) PROVE TypeOK'
  <2>0. jobs \in JobTable /\ workItem[t].job \in JobId
    BY <1>13, ItemFacts DEF TypeOK, JobTable, WorkerInv, WorkerReturn
  <2>1. jobs' \in JobTable
    BY <1>13, <2>0, DetachEffect DEF WorkerReturn
  <2> QED
    BY <1>13, <2>1 DEF TypeOK, JobTable, WorkerReturn, WorkerIdle, timeVars, cbVars, callVars
<1>14. ASSUME NEW t \in Tiers, WorkerFree(t) PROVE TypeOK'
  BY <1>14 DEF TypeOK, WorkerFree, WorkerIdle, StopTimer, timeVars, cbVars, workVars, callVars
<1>15. CASE UNCHANGED vars
  BY <1>15 DEF TypeOK, vars
<1> QED
  BY <1>1, <1>2, <1>3, <1>4, <1>5, <1>6, <1>7, <1>8, <1>9, <1>10, <1>11, <1>12, <1>13, <1>14, <1>15 DEF Next, InCancel, Callback, Worker

\* Which actions touch which part of the state.
Scheduling == \E a \in Agents, ask \in Ask : Schedule(a, ask) \/ ScheduleFails(a, ask)
Cancelling == \/ \E a \in Agents, j \in JobId : Cancel(a, j)
              \/ \E a \in Agents : InCancel(a)
Working    == \E t \in Tiers : Worker(t)
Firing     == Callback \/ \E j \in JobId : TimerFires(j)

LEMMA Touches ==
  ASSUME [Next]_vars
  PROVE  /\ UNCHANGED queues \/ CallbackSend \/ \E t \in Tiers : WorkerReceive(t)
         /\ UNCHANGED workVars \/ Working
         /\ UNCHANGED cbVars \/ Firing
         /\ UNCHANGED callVars \/ Cancelling
         /\ UNCHANGED asked \/ \E a \in Agents, ask \in Ask : Schedule(a, ask)
         /\ UNCHANGED jobs \/ Scheduling \/ CallbackClean
              \/ (\E a \in Agents, j \in JobId : Cancel(a, j))
              \/ (\E t \in Tiers : WorkerReturn(t))
<1>1. ASSUME NEW a \in Agents, NEW ask \in Ask, Schedule(a, ask)
      PROVE  UNCHANGED <<queues, workVars, cbVars, callVars>>
  BY <1>1 DEF Schedule, workVars, cbVars, callVars
<1>2. ASSUME NEW a \in Agents, NEW ask \in Ask, ScheduleFails(a, ask)
      PROVE  UNCHANGED <<queues, workVars, cbVars, callVars, asked>>
  BY <1>2 DEF ScheduleFails, workVars, cbVars, callVars
<1>3. ASSUME NEW a \in Agents, NEW j \in JobId, Cancel(a, j)
      PROVE  UNCHANGED <<queues, workVars, cbVars, asked>>
  BY <1>3 DEF Cancel, workVars, cbVars, callVars
<1>4. ASSUME NEW a \in Agents, CancelStop(a)
      PROVE  UNCHANGED <<queues, workVars, cbVars, asked, jobs>>
  BY <1>4 DEF CancelStop, workVars, cbVars, callVars
<1>5. ASSUME NEW a \in Agents, CancelFence(a)
      PROVE  UNCHANGED <<queues, workVars, cbVars, asked, jobs>>
  BY <1>5 DEF CancelFence, workVars, cbVars, callVars
<1>6. ASSUME NEW j \in JobId, TimerFires(j)
      PROVE  UNCHANGED <<queues, workVars, callVars, asked, jobs>>
  BY <1>6 DEF TimerFires, workVars, cbVars, callVars
<1>7. ASSUME CallbackLookup
      PROVE  UNCHANGED <<queues, workVars, callVars, asked, jobs>>
  BY <1>7 DEF CallbackLookup, workVars, cbVars, callVars
<1>8. ASSUME CallbackSend
      PROVE  UNCHANGED <<workVars, callVars, asked, jobs>>
  BY <1>8 DEF CallbackSend, workVars, cbVars, callVars
<1>9. ASSUME CallbackClean
      PROVE  UNCHANGED <<queues, workVars, callVars, asked>>
  BY <1>9 DEF CallbackClean, workVars, cbVars, callVars
<1>10. ASSUME CallbackFree
      PROVE  UNCHANGED <<queues, workVars, callVars, asked, jobs>>
  BY <1>10 DEF CallbackFree, workVars, cbVars, callVars
<1>11. ASSUME NEW t \in Tiers, WorkerReceive(t)
      PROVE  UNCHANGED <<cbVars, callVars, asked, jobs>>
  BY <1>11 DEF WorkerReceive, workVars, cbVars, callVars
<1>12. ASSUME NEW t \in Tiers, WorkerCheck(t)
      PROVE  UNCHANGED <<queues, cbVars, callVars, asked, jobs>>
  BY <1>12 DEF WorkerCheck, workVars, cbVars, callVars
<1>13. ASSUME NEW t \in Tiers, WorkerReturn(t)
      PROVE  UNCHANGED <<queues, cbVars, callVars, asked>>
  BY <1>13 DEF WorkerReturn, workVars, cbVars, callVars
<1>14. ASSUME NEW t \in Tiers, WorkerFree(t)
      PROVE  UNCHANGED <<queues, cbVars, callVars, asked, jobs>>
  BY <1>14 DEF WorkerFree, workVars, cbVars, callVars
<1>15. CASE UNCHANGED vars
  BY <1>15 DEF vars, workVars, cbVars, callVars
<1> QED
  BY <1>1, <1>2, <1>3, <1>4, <1>5, <1>6, <1>7, <1>8, <1>9, <1>10, <1>11, <1>12, <1>13, <1>14, <1>15
  DEF Next, InCancel, Callback, Worker, Scheduling, Cancelling, Working, Firing

\* What a scheduling step does: a job never issued is now in the table, or
\* only a free slot's generation moves on.
Created(j, ask) ==
  /\ jobs \in JobTable /\ jobs' \in JobTable
  /\ ~Issued(j) /\ ~Active(j) /\ ask # NoJob
  /\ asked' = [asked EXCEPT ![j] = ask]
  /\ timers' = timers \cup {j} /\ armed' = armed \cup {j}
  /\ jobs'[j[1]].gen = j[2]
  /\ jobs'[j[1]].tier = ask.tier /\ (jobs'[j[1]].periodic <=> ask.periodic)
  /\ \A k \in JobId : /\ Active(k)' <=> Active(k) \/ k = j
                      /\ jobs[k[1]].gen <= jobs'[k[1]].gen
                      /\ k[1] # j[1] => jobs'[k[1]] = jobs[k[1]]

NotCreated ==
  /\ jobs \in JobTable /\ jobs' \in JobTable
  /\ UNCHANGED <<asked, timers, armed>>
  /\ \A k \in JobId : /\ Active(k)' <=> Active(k)
                      /\ jobs[k[1]].gen <= jobs'[k[1]].gen
                      /\ Active(k) => jobs'[k[1]] = jobs[k[1]]

LEMMA ScheduleStep ==
  ASSUME TypeOK, TableInv, NEW a \in Agents, NEW ask \in Ask, Schedule(a, ask)
  PROVE  \E j \in JobId : Created(j, ask)
<1> USE JobIdFacts, SchedulerAssumption
<1>1. PICK s \in Slots : Schedule(a, ask)!2!(s)
  BY DEF Schedule
<1>2. jobs \in JobTable /\ ~jobs[s].active /\ jobs[s].gen < MaxGen
  BY <1>1 DEF TypeOK, JobTable, FreeSlot
<1>3. PICK j \in JobId : j = <<s, jobs[s].gen + 1>>
  BY <1>1, <1>2, ScheduleEffect
<1>4. j[1] = s /\ j[2] = jobs[s].gen + 1
  BY <1>3
<1>5. jobs[s].gen \in Nat
  BY <1>2 DEF JobTable
<1>6. ~Issued(j) /\ ~Active(j)
  BY <1>2, <1>4, <1>5 DEF TableInv, Active
<1>7. /\ jobs' \in JobTable
      /\ jobs'[s].gen = j[2]
      /\ jobs'[s].tier = ask.tier /\ jobs'[s].periodic = ask.periodic
      /\ \A r \in Slots : r # s => jobs'[r] = jobs[r]
      /\ \A k \in JobId : Active(k)' <=> Active(k) \/ k = j
  BY <1>1, <1>2, <1>3, <1>4, ScheduleEffect
<1>8. ASSUME NEW k \in JobId PROVE jobs[k[1]].gen <= jobs'[k[1]].gen
  <2>1. jobs[k[1]].gen \in Nat
    BY <1>2 DEF JobTable
  <2>2. CASE k[1] = s
    BY <2>2, <1>4, <1>5, <1>7
  <2>3. CASE k[1] # s
    BY <2>1, <2>3, <1>7
  <2> QED
    BY <2>2, <2>3
<1> QED
  BY <1>1, <1>2, <1>3, <1>4, <1>6, <1>7, <1>8 DEF Created

LEMMA ScheduleFailsStep ==
  ASSUME TypeOK, NEW a \in Agents, NEW ask \in Ask, ScheduleFails(a, ask)
  PROVE  NotCreated
<1> USE JobIdFacts, SchedulerAssumption
<1>1. PICK s \in Slots : ScheduleFails(a, ask)!2!(s)
  BY DEF ScheduleFails
<1>2. jobs \in JobTable /\ ~jobs[s].active /\ jobs[s].gen < MaxGen
  BY <1>1 DEF TypeOK, JobTable, FreeSlot
<1>3. /\ jobs' \in JobTable
      /\ \A k \in JobId : Active(k)' <=> Active(k)
      /\ \A r \in Slots : r # s => jobs'[r] = jobs[r]
      /\ jobs'[s].gen = jobs[s].gen + 1
  BY <1>1, <1>2, ScheduleEffect
<1>4. \A r \in Slots : jobs[r].gen \in Nat
  BY <1>2 DEF JobTable
<1>5. ASSUME NEW k \in JobId
      PROVE  jobs[k[1]].gen <= jobs'[k[1]].gen /\ (Active(k) => jobs'[k[1]] = jobs[k[1]])
  <2>1. CASE k[1] = s
    BY <2>1, <1>2, <1>3, <1>4 DEF Active
  <2>2. CASE k[1] # s
    BY <2>2, <1>3, <1>4
  <2> QED
    BY <2>1, <2>2
<1> QED
  BY <1>2, <1>3, <1>5 DEF ScheduleFails, timeVars, NotCreated

Detaches(j) == Active(j) /\ Detach(j) /\ UNCHANGED asked

\* The steps that take a job out of the table.
LEMMA WhoDetaches ==
  ASSUME TypeOK, WorkerInv, CallbackInv, [Next]_vars
  PROVE  \/ UNCHANGED <<jobs, asked>>
         \/ Scheduling
         \/ \E j \in JobId : Detaches(j)
<1>1. ASSUME CallbackClean PROVE cbJob \in JobId /\ (UNCHANGED <<jobs, asked>> \/ Detaches(cbJob))
  BY <1>1 DEF CallbackClean, CallbackInv, TypeOK, Detaches
<1>2. ASSUME NEW t \in Tiers, WorkerReturn(t)
      PROVE  /\ workItem[t].job \in JobId
             /\ UNCHANGED <<jobs, asked>> \/ Detaches(workItem[t].job)
  <2>1. workItem[t] \in Item
    BY <1>2 DEF WorkerReturn, WorkerInv, TypeOK
  <2> QED
    BY <1>2, <2>1, ItemFacts DEF WorkerReturn, Detaches
<1>3. ASSUME NEW a \in Agents, NEW j \in JobId, Cancel(a, j)
      PROVE  UNCHANGED <<jobs, asked>> \/ Detaches(j)
  BY <1>3 DEF Cancel, Detaches
<1>4. UNCHANGED asked \/ Scheduling
  BY Touches DEF Scheduling
<1> QED
  BY <1>1, <1>2, <1>3, <1>4, Touches

\* A job once issued stays what it was scheduled as, and out of the table
\* once it is out.
Stable ==
  \A k \in JobId : Issued(k) => asked'[k] = asked[k] /\ Issued(k)' /\ (Active(k)' => Active(k))

LEMMA StepStable ==
  ASSUME TypeOK, TableInv, WorkerInv, CallbackInv, [Next]_vars
  PROVE  Stable
<1>1. CASE UNCHANGED <<jobs, asked>>
  BY <1>1 DEF Stable, Issued, Active
<1>2. ASSUME NEW j \in JobId, Detaches(j) PROVE Stable
  <2>1. jobs \in JobTable
    BY DEF TypeOK, JobTable
  <2>2. \A k \in JobId : Active(k)' <=> Active(k) /\ k # j
    BY <1>2, <2>1, DetachEffect DEF Detaches
  <2> QED
    BY <1>2, <2>2 DEF Stable, Issued, Detaches
<1>3. ASSUME NEW a \in Agents, NEW ask \in Ask, Schedule(a, ask) PROVE Stable
  <2>1. PICK j \in JobId :
           /\ ~Issued(j) /\ asked' = [asked EXCEPT ![j] = ask]
           /\ \A k \in JobId : Active(k)' <=> Active(k) \/ k = j
    BY <1>3, ScheduleStep DEF Created
  <2>2. \A k \in JobId : Issued(k) => k # j /\ asked'[k] = asked[k]
    BY <2>1 DEF TypeOK
  <2> QED
    BY <2>1, <2>2 DEF Stable, Issued
<1>4. ASSUME NEW a \in Agents, NEW ask \in Ask, ScheduleFails(a, ask) PROVE Stable
  BY <1>4, ScheduleFailsStep DEF NotCreated, Stable, Issued
<1> QED
  BY <1>1, <1>2, <1>3, <1>4, WhoDetaches DEF Scheduling

LEMMA StepTableInv ==
  ASSUME TypeOK, TableInv, WorkerInv, CallbackInv, [Next]_vars
  PROVE  TableInv'
<1> USE JobIdFacts
<1>1. CASE UNCHANGED <<jobs, asked>>
  BY <1>1 DEF TableInv, Issued, Active
<1>2. ASSUME NEW j \in JobId, Detaches(j) PROVE TableInv'
  <2>1. jobs \in JobTable
    BY DEF TypeOK, JobTable
  <2>2. /\ \A k \in JobId : Active(k)' <=> Active(k) /\ k # j
        /\ \A s \in Slots : /\ jobs'[s].gen = jobs[s].gen
                            /\ jobs'[s].tier = jobs[s].tier
                            /\ jobs'[s].periodic = jobs[s].periodic
    BY <1>2, <2>1, DetachEffect DEF Detaches
  <2> QED
    BY <1>2, <2>2 DEF TableInv, Issued, Detaches
<1>3. ASSUME NEW a \in Agents, NEW ask \in Ask, Schedule(a, ask) PROVE TableInv'
  <2>1. PICK j \in JobId : Created(j, ask)
    BY <1>3, ScheduleStep
  <2> SUFFICES ASSUME NEW k \in JobId
               PROVE  /\ Issued(k)' => k[2] <= jobs'[k[1]].gen
                      /\ Active(k)' => /\ Issued(k)'
                                       /\ jobs'[k[1]].tier = asked'[k].tier
                                       /\ jobs'[k[1]].periodic <=> asked'[k].periodic
    BY DEF TableInv
  <2>2. CASE k = j
    <3>1. asked'[k] = ask
      BY <2>1, <2>2 DEF TypeOK, Created
    <3> QED
      BY <2>1, <2>2, <3>1 DEF Issued, TypeOK, Created
  <2>3. CASE k # j
    <3>1. asked'[k] = asked[k] /\ (Active(k)' <=> Active(k))
      BY <2>1, <2>3 DEF TypeOK, Created
    <3>2. Active(k) => k[1] # j[1]
      BY <2>1, <2>3 DEF Active, TableInv, Created
    <3>3. jobs[k[1]].gen \in Nat /\ jobs'[k[1]].gen \in Nat
      BY <2>1 DEF Created, JobTable
    <3> QED
      BY <2>1, <3>1, <3>2, <3>3 DEF TableInv, Issued, Created
  <2> QED
    BY <2>2, <2>3
<1>4. ASSUME NEW a \in Agents, NEW ask \in Ask, ScheduleFails(a, ask) PROVE TableInv'
  <2>1. NotCreated
    BY <1>4, ScheduleFailsStep
  <2> QED
    <3> SUFFICES ASSUME NEW k \in JobId
                 PROVE  /\ Issued(k)' => k[2] <= jobs'[k[1]].gen
                        /\ Active(k)' => /\ Issued(k)'
                                         /\ jobs'[k[1]].tier = asked'[k].tier
                                         /\ jobs'[k[1]].periodic <=> asked'[k].periodic
      BY DEF TableInv
    <3>1. jobs[k[1]].gen \in Nat /\ jobs'[k[1]].gen \in Nat
      BY <2>1 DEF NotCreated, JobTable
    <3> QED
      BY <2>1, <3>1 DEF TableInv, Issued, NotCreated
<1> QED
  BY <1>1, <1>2, <1>3, <1>4, WhoDetaches DEF Scheduling

\* What an item says of its job stays true.
LEMMA ItemStays ==
  ASSUME Stable, NEW i \in Item, NEW t \in Tiers, ItemOK(i, t)
  PROVE  ItemOK(i, t)' /\ (~Active(i.job) => ~Active(i.job)')
  BY ItemFacts DEF Stable, ItemOK, Issued

ItemsOK(q, t) == \A i \in 1 .. Len(q) : ItemOK(q[i], t)

LEMMA ItemsStay ==
  ASSUME Stable, NEW q \in Seq(Item), NEW t \in Tiers, ItemsOK(q, t)
  PROVE  ItemsOK(q, t)'
<1> SUFFICES ASSUME NEW i \in 1 .. Len(q) PROVE ItemOK(q[i], t)'
  BY DEF ItemsOK
<1> PICK item \in Item : item = q[i]
  OBVIOUS
<1> QED
  BY ItemStays DEF ItemsOK

LEMMA StepQueueInv ==
  ASSUME TypeOK, QueueInv, WorkerInv, CallbackInv, Stable, [Next]_vars
  PROVE  QueueInv'
<1>0. \A t \in Tiers : queues[t] \in Seq(Item) /\ ItemsOK(queues[t], t)
  BY DEF TypeOK, QueueInv, ItemsOK
<1>a. ASSUME \A t \in Tiers : \E q \in Seq(Item) : q = queues'[t] /\ ItemsOK(q, t)'
      PROVE  QueueInv'
  BY <1>a DEF QueueInv, ItemsOK
<1>1. CASE UNCHANGED queues
  <2>1. ASSUME NEW t \in Tiers PROVE \E q \in Seq(Item) : q = queues'[t] /\ ItemsOK(q, t)'
    <3>1. PICK q \in Seq(Item) : q = queues[t] /\ ItemsOK(q, t)
      BY <1>0
    <3> QED
      BY <1>1, <3>1, ItemsStay
  <2> QED
    BY <2>1, <1>a
<1>2. CASE CallbackSend
  <2>1. cbJob \in JobId /\ Issued(cbJob) /\ asked[cbJob] \in Ask
    BY <1>2 DEF TypeOK, CallbackInv, CallbackSend, Issued
  <2>2. PICK s \in Tiers : s = asked[cbJob].tier
    BY <2>1 DEF Ask
  <2>3. PICK item \in Item : item = [job |-> cbJob, once |-> cbOnce]
    BY <2>1, ItemFacts DEF TypeOK
  <2>4. item.job = cbJob /\ item.once = cbOnce
    BY <2>3
  <2>5. ItemOK(item, s)
    BY <1>2, <2>1, <2>2, <2>4 DEF ItemOK, CallbackSend, CallbackInv
  <2>6. UNCHANGED queues \/ queues' = [queues EXCEPT ![s] = Append(queues[s], item)]
    BY <1>2, <2>2, <2>3 DEF CallbackSend
  <2>7. CASE queues' = [queues EXCEPT ![s] = Append(queues[s], item)]
    <3>1. ASSUME NEW t \in Tiers PROVE \E q \in Seq(Item) : q = queues'[t] /\ ItemsOK(q, t)'
      <4>1. PICK q \in Seq(Item) : q = queues[t] /\ ItemsOK(q, t)
        BY <1>0
      <4>2. CASE t # s
        BY <2>7, <4>1, <4>2, ItemsStay DEF TypeOK
      <4>3. CASE t = s
        <5>1. PICK r \in Seq(Item) : r = Append(q, item)
          BY QueueAppend
        <5>2. ItemsOK(r, t)
          BY <2>5, <4>1, <4>3, <5>1, QueueAppend DEF ItemsOK
        <5>3. r = queues'[t]
          BY <2>7, <4>1, <4>3, <5>1 DEF TypeOK
        <5> QED
          BY <5>2, <5>3, ItemsStay
      <4> QED
        BY <4>2, <4>3
    <3> QED
      BY <3>1, <1>a
  <2> QED
    BY <1>1, <2>6, <2>7
<1>3. ASSUME NEW s \in Tiers, WorkerReceive(s) PROVE QueueInv'
  <2>1. queues' = [queues EXCEPT ![s] = Tail(queues[s])] /\ queues[s] # <<>>
    BY <1>3 DEF WorkerReceive
  <2>2. ASSUME NEW t \in Tiers PROVE \E q \in Seq(Item) : q = queues'[t] /\ ItemsOK(q, t)'
    <3>1. PICK q \in Seq(Item) : q = queues[t] /\ ItemsOK(q, t)
      BY <1>0
    <3>2. CASE t # s
      BY <2>1, <3>1, <3>2, ItemsStay DEF TypeOK
    <3>3. CASE t = s
      <4>1. q # <<>>
        BY <2>1, <3>1, <3>3
      <4>2. PICK r \in Seq(Item) : r = Tail(q)
        BY <4>1, QueueTail
      <4>3. ItemsOK(r, t)
        <5>1. Len(r) = Len(q) - 1 /\ \A i \in 1 .. Len(r) : r[i] = q[i + 1]
          BY <4>1, <4>2, QueueTail
        <5>2. Len(q) \in Nat
          OBVIOUS
        <5> QED
          BY <3>1, <5>1, <5>2 DEF ItemsOK
      <4>4. r = queues'[t]
        BY <2>1, <3>1, <3>3, <4>2 DEF TypeOK
      <4> QED
        BY <4>3, <4>4, ItemsStay
    <3> QED
      BY <3>2, <3>3
  <2> QED
    BY <2>2, <1>a
<1> QED
  BY <1>1, <1>2, <1>3, Touches

LEMMA StepWorkerInv ==
  ASSUME TypeOK, QueueInv, WorkerInv, CallbackInv, Stable, [Next]_vars
  PROVE  WorkerInv'
<1> USE ItemFacts
<1>0. ASSUME NEW t \in Tiers, workItem[t] \in Item, UNCHANGED workItem[t], ItemOK(workItem[t], t)
      PROVE  ItemOK(workItem[t], t)' /\ (~Active(workItem[t].job) => ~Active(workItem[t].job)')
  <2>1. PICK item \in Item : item = workItem[t]
    BY <1>0
  <2>2. ItemOK(item, t)' /\ (~Active(item.job) => ~Active(item.job)')
    BY <1>0, <2>1, ItemStays
  <2> QED
    BY <1>0, <2>1, <2>2 DEF ItemOK, Issued, Active
<1>1. ASSUME NEW t \in Tiers, UNCHANGED <<workPc[t], workItem[t], running[t]>>
      PROVE  WorkerInv!(t)'
  <2>1. CASE workPc[t] = "wait"
    BY <1>1, <2>1 DEF WorkerInv
  <2>2. CASE workPc[t] # "wait"
    <3>1. workItem[t] \in Item /\ ItemOK(workItem[t], t)
      BY <2>2 DEF TypeOK, WorkerInv
    <3> QED
      BY <1>0, <1>1, <2>2, <3>1 DEF WorkerInv
  <2> QED
    BY <2>1, <2>2
<1>2. CASE UNCHANGED workVars
  BY <1>1, <1>2 DEF workVars, WorkerInv
<1>3. ASSUME NEW t \in Tiers, WorkerReceive(t) PROVE WorkerInv'
  <2>1. \A u \in Tiers : u # t => UNCHANGED <<workPc[u], workItem[u], running[u]>>
    BY <1>3 DEF WorkerReceive, TypeOK
  <2>2. WorkerInv!(t)'
    <3>1. queues[t] \in Seq(Item) /\ queues[t] # <<>>
      BY <1>3 DEF TypeOK, WorkerReceive
    <3>2. PICK item \in Item : item = Head(queues[t])
      BY <3>1, QueueTail
    <3>3. ItemOK(item, t)
      BY <3>1, <3>2, QueueTail DEF QueueInv
    <3>4. ItemOK(item, t)'
      BY <3>3, ItemStays
    <3>5. workPc'[t] = "check" /\ workItem'[t] = item /\ running'[t] = NoJob
      BY <1>3, <3>2 DEF WorkerReceive, TypeOK, WorkerInv
    <3> QED
      BY <3>4, <3>5 DEF ItemOK, Issued
  <2> QED
    BY <1>1, <2>1, <2>2 DEF WorkerInv
<1>4. ASSUME NEW t \in Tiers, WorkerCheck(t) PROVE WorkerInv'
  <2>1. \A u \in Tiers : u # t => UNCHANGED <<workPc[u], workItem[u], running[u]>>
    BY <1>4 DEF WorkerCheck, WorkerIdle, TypeOK
  <2>2. workItem[t] \in Item /\ ItemOK(workItem[t], t) /\ running[t] = NoJob
    BY <1>4 DEF TypeOK, WorkerInv, WorkerCheck
  <2>3. WorkerInv!(t)'
    <3>1. CASE Active(workItem[t].job)
      <4>1. workPc'[t] = "run" /\ running'[t] = workItem[t].job /\ workItem'[t] = workItem[t]
        BY <1>4, <3>1 DEF WorkerCheck, TypeOK
      <4> QED
        BY <1>0, <2>2, <4>1
    <3>2. CASE ~Active(workItem[t].job)
      <4>1. workPc'[t] = "wait" /\ running'[t] = NoJob /\ workItem'[t] = NoJob
        BY <1>4, <2>2, <3>2 DEF WorkerCheck, WorkerIdle, TypeOK
      <4> QED
        BY <4>1
    <3> QED
      BY <3>1, <3>2
  <2> QED
    BY <1>1, <2>1, <2>3 DEF WorkerInv
<1>5. ASSUME NEW t \in Tiers, WorkerReturn(t) PROVE WorkerInv'
  <2>1. \A u \in Tiers : u # t => UNCHANGED <<workPc[u], workItem[u], running[u]>>
    BY <1>5 DEF WorkerReturn, WorkerIdle, TypeOK
  <2>2. workItem[t] \in Item /\ ItemOK(workItem[t], t)
    BY <1>5 DEF TypeOK, WorkerInv, WorkerReturn
  <2>3. WorkerInv!(t)'
    <3>1. CASE workItem[t].once /\ Active(workItem[t].job)
      <4>1. workPc'[t] = "free" /\ running'[t] = NoJob /\ workItem'[t] = workItem[t]
        BY <1>5, <3>1 DEF WorkerReturn, TypeOK
      <4>2. jobs \in JobTable /\ Detach(workItem[t].job)
        BY <1>5, <3>1 DEF WorkerReturn, TypeOK, JobTable
      <4>3. PICK j \in JobId : j = workItem[t].job
        BY <2>2
      <4>4. ~Active(j)'
        BY <4>2, <4>3, <3>1, DetachEffect
      <4>5. ~Active(workItem[t].job)'
        BY <4>1, <4>3, <4>4 DEF Active
      <4> QED
        BY <1>0, <2>2, <3>1, <4>1, <4>5
    <3>2. CASE ~(workItem[t].once /\ Active(workItem[t].job))
      <4>1. workPc'[t] = "wait" /\ running'[t] = NoJob /\ workItem'[t] = NoJob
        BY <1>5, <3>2 DEF WorkerReturn, WorkerIdle, TypeOK
      <4> QED
        BY <4>1
    <3> QED
      BY <3>1, <3>2
  <2> QED
    BY <1>1, <2>1, <2>3 DEF WorkerInv
<1>6. ASSUME NEW t \in Tiers, WorkerFree(t) PROVE WorkerInv'
  <2>1. \A u \in Tiers : u # t => UNCHANGED <<workPc[u], workItem[u], running[u]>>
    BY <1>6 DEF WorkerFree, WorkerIdle, TypeOK
  <2>2. workPc'[t] = "wait" /\ running'[t] = NoJob /\ workItem'[t] = NoJob
    BY <1>6 DEF WorkerFree, WorkerIdle, WorkerInv, TypeOK
  <2>3. WorkerInv!(t)'
    BY <2>2
  <2> QED
    BY <1>1, <2>1, <2>3 DEF WorkerInv
<1> QED
  BY <1>2, <1>3, <1>4, <1>5, <1>6, Touches DEF Working, Worker

LEMMA StepCallbackInv ==
  ASSUME TypeOK, TableInv, WorkerInv, CallbackInv, TimersAreOwned, CallInv, Stable, [Next]_vars
  PROVE  CallbackInv'
<1> USE JobIdFacts
<1>0. ASSUME cbJob \in JobId, Issued(cbJob), UNCHANGED cbJob
      PROVE  /\ Issued(cbJob)' /\ asked'[cbJob] = asked[cbJob]
             /\ ~Active(cbJob) => ~Active(cbJob)'
  <2>1. PICK j \in JobId : j = cbJob
    BY <1>0
  <2> QED
    BY <1>0, <2>1 DEF Stable, Issued, Active
<1>a. cbPc # "idle" => cbJob \in JobId /\ Issued(cbJob)
  BY DEF CallbackInv, TypeOK
<1>1. CASE UNCHANGED cbVars
  BY <1>0, <1>1, <1>a DEF cbVars, CallbackInv
<1>2. ASSUME NEW j \in JobId, TimerFires(j) PROVE CallbackInv'
  <2>1. Issued(j)
    <3>1. Active(j) \/ BeingFreed(j)
      BY <1>2 DEF TimersAreOwned, TimerFires
    <3>2. CASE Active(j)
      BY <3>2 DEF TableInv
    <3>3. CASE BeingFreed(j)
      BY <3>3 DEF BeingFreed, CallInv, WorkerInv, CallbackInv, ItemOK
    <3> QED
      BY <3>1, <3>2, <3>3
  <2>2. cbPc' = "fired" /\ cbJob' = j /\ UNCHANGED asked
    BY <1>2 DEF TimerFires
  <2> QED
    BY <2>1, <2>2 DEF CallbackInv, Issued
<1>3. ASSUME CallbackLookup PROVE CallbackInv'
  <2>0. cbJob \in JobId /\ Issued(cbJob) /\ UNCHANGED <<jobs, asked>>
    BY <1>3, <1>a DEF CallbackLookup
  <2>1. CASE Active(cbJob)
    <3>1. jobs[cbJob[1]].periodic <=> asked[cbJob].periodic
      BY <2>0, <2>1 DEF TableInv
    <3>2. (cbOnce' <=> ~jobs[cbJob[1]].periodic) /\ cbPc' = "send" /\ cbJob' = cbJob
      BY <1>3, <2>1 DEF CallbackLookup
    <3> QED
      BY <2>0, <3>1, <3>2 DEF CallbackInv, Issued
  <2>2. CASE ~Active(cbJob)
    BY <1>3, <2>2 DEF CallbackLookup, CallbackDone, CallbackInv
  <2> QED
    BY <2>1, <2>2
<1>4. ASSUME CallbackSend PROVE CallbackInv'
  <2>0. UNCHANGED <<jobs, asked>> /\ (cbOnce <=> ~asked[cbJob].periodic) /\ cbPc = "send"
    BY <1>4 DEF CallbackSend, CallbackInv
  <2>1. \/ CallbackDone
        \/ cbOnce /\ cbPc' = "clean" /\ UNCHANGED <<cbJob, cbOnce>>
    BY <1>4 DEF CallbackSend
  <2>2. CASE CallbackDone
    BY <2>2 DEF CallbackDone, CallbackInv
  <2>3. CASE cbOnce /\ cbPc' = "clean" /\ UNCHANGED <<cbJob, cbOnce>>
    BY <1>a, <2>0, <2>3 DEF CallbackInv, Issued
  <2> QED
    BY <2>1, <2>2, <2>3
<1>5. ASSUME CallbackClean PROVE CallbackInv'
  <2>1. CASE Active(cbJob)
    <3>1. PICK j \in JobId : j = cbJob
      BY <1>5, <1>a DEF CallbackClean
    <3>2. jobs \in JobTable /\ Detach(j)
      BY <1>5, <2>1, <3>1 DEF CallbackClean, TypeOK, JobTable
    <3>3. ~Active(j)'
      BY <2>1, <3>1, <3>2, DetachEffect
    <3>4. cbPc = "clean" /\ cbPc' = "free" /\ UNCHANGED <<cbJob, cbOnce, asked>>
      BY <1>5, <2>1 DEF CallbackClean
    <3>5. ~Active(cbJob)'
      BY <3>1, <3>3, <3>4 DEF Active
    <3> QED
      BY <3>1, <3>4, <3>5 DEF CallbackInv, Issued
  <2>2. CASE ~Active(cbJob)
    BY <1>5, <2>2 DEF CallbackClean, CallbackDone, CallbackInv
  <2> QED
    BY <2>1, <2>2
<1>6. ASSUME CallbackFree PROVE CallbackInv'
  BY <1>6 DEF CallbackFree, CallbackDone, CallbackInv
<1> QED
  BY <1>1, <1>2, <1>3, <1>4, <1>5, <1>6, Touches DEF Firing, Callback

LEMMA StepCallInv ==
  ASSUME TypeOK, TableInv, WorkerInv, CallInv, Stable, [Next]_vars
  PROVE  CallInv'
<1> USE JobIdFacts
<1>1. ASSUME NEW a \in Agents, UNCHANGED <<callPc[a], callJob[a], callTier[a]>>
      PROVE  CallInv!(a)'
  <2>1. CASE callPc[a] = "idle"
    BY <1>1, <2>1 DEF CallInv
  <2>2. CASE callPc[a] # "idle"
    <3>1. PICK j \in JobId : j = callJob[a]
      BY <2>2 DEF CallInv, TypeOK
    <3>2. Issued(j) /\ ~Active(j) /\ callTier[a] = asked[j].tier
      BY <2>2, <3>1 DEF CallInv
    <3>3. Issued(j)' /\ ~Active(j)' /\ asked'[j] = asked[j]
      BY <3>2 DEF Stable
    <3>4. Issued(callJob[a])' /\ ~Active(callJob[a])' /\ asked'[callJob'[a]] = asked[j]
      BY <1>1, <3>1, <3>3 DEF Issued, Active
    <3> QED
      BY <1>1, <2>2, <3>1, <3>2, <3>4 DEF CallInv
  <2> QED
    BY <2>1, <2>2
<1>2. CASE UNCHANGED callVars
  BY <1>1, <1>2 DEF callVars, CallInv
<1>3. ASSUME NEW a \in Agents, NEW j \in JobId, Cancel(a, j) PROVE CallInv'
  <2>1. CASE Active(j)
    <3>1. \A b \in Agents : b # a => UNCHANGED <<callPc[b], callJob[b], callTier[b]>>
      BY <1>3, <2>1 DEF Cancel, TypeOK
    <3>2. callPc'[a] = "stop" /\ callJob'[a] = j /\ callTier'[a] = jobs[j[1]].tier
      BY <1>3, <2>1 DEF Cancel, TypeOK
    <3>3. jobs \in JobTable /\ Detach(j) /\ UNCHANGED asked /\ Issued(j)
      BY <1>3, <2>1 DEF Cancel, TypeOK, JobTable, Issued
    <3>4. ~Active(j)'
      BY <2>1, <3>3, DetachEffect
    <3>5. ~Active(callJob[a])' /\ Issued(callJob[a])'
      BY <3>2, <3>3, <3>4 DEF Active, Issued
    <3>6. jobs[j[1]].tier = asked'[callJob'[a]].tier
      BY <2>1, <3>2, <3>3 DEF TableInv
    <3>7. CallInv!(a)'
      BY <3>2, <3>5, <3>6
    <3> QED
      BY <1>1, <3>1, <3>7 DEF CallInv
  <2>2. CASE ~Active(j)
    BY <1>1, <1>3, <2>2 DEF Cancel, CallInv
  <2> QED
    BY <2>1, <2>2
<1>4. ASSUME NEW a \in Agents, callPc'[a] = "idle", callJob'[a] = NoJob PROVE CallInv!(a)'
  BY <1>4
<1>5. ASSUME NEW a \in Agents, CancelStop(a) PROVE CallInv'
  <2>1. \A b \in Agents : b # a => UNCHANGED <<callPc[b], callJob[b], callTier[b]>>
    BY <1>5 DEF CancelStop, Returns, TypeOK
  <2>2. CallInv!(a)'
    <3>1. CASE callTier[a] = a
      <4>1. callPc'[a] = "idle" /\ callJob'[a] = NoJob
        BY <1>5, <3>1 DEF CancelStop, Returns, TypeOK
      <4> QED
        BY <1>4, <4>1
    <3>2. CASE callTier[a] # a
      <4>1. callPc'[a] = "fence" /\ UNCHANGED <<callJob, callTier, jobs, asked>>
        BY <1>5, <3>2 DEF CancelStop, TypeOK
      <4>2. callJob[a] # NoJob /\ Issued(callJob[a]) /\ ~Active(callJob[a])
              /\ callTier[a] = asked[callJob[a]].tier
        BY <1>5 DEF CancelStop, CallInv
      <4> QED
        BY <3>2, <4>1, <4>2 DEF Issued, Active
    <3> QED
      BY <3>1, <3>2
  <2> QED
    BY <1>1, <2>1, <2>2 DEF CallInv
<1>6. ASSUME NEW a \in Agents, CancelFence(a) PROVE CallInv'
  <2>1. \A b \in Agents : b # a => UNCHANGED <<callPc[b], callJob[b], callTier[b]>>
    BY <1>6 DEF CancelFence, Returns, TypeOK
  <2>2. callPc'[a] = "idle" /\ callJob'[a] = NoJob
    BY <1>6 DEF CancelFence, Returns, TypeOK
  <2>3. CallInv!(a)'
    BY <1>4, <2>2
  <2> QED
    BY <1>1, <2>1, <2>3 DEF CallInv
<1> QED
  BY <1>2, <1>3, <1>5, <1>6, Touches DEF Cancelling, InCancel

\* A job in the table has no task about to free it.
LEMMA ActiveIsUnowned ==
  ASSUME WorkerInv, CallbackInv, CallInv, NEW j \in JobId, Active(j)
  PROVE  ~BeingFreed(j)
  BY DEF BeingFreed, WorkerInv, CallbackInv, CallInv

\* A step after which nobody new is about to free a job.
NoNewOwner ==
  /\ \A a \in Agents : callPc'[a] = "stop" => callPc[a] = "stop" /\ callJob'[a] = callJob[a]
  /\ \A t \in Tiers : workPc'[t] = "free" => workPc[t] = "free" /\ workItem'[t] = workItem[t]
  /\ cbPc' = "free" => cbPc = "free" /\ cbJob' = cbJob

\* A step by which one task takes a job out of the table to free it.
TakesOut(j) ==
  /\ Active(j) /\ Detach(j) /\ UNCHANGED <<timers, armed, asked>>
  /\ \/ \E a \in Agents : /\ callPc[a] # "stop"
                          /\ callPc' = [callPc EXCEPT ![a] = "stop"]
                          /\ callJob' = [callJob EXCEPT ![a] = j]
                          /\ UNCHANGED <<workPc, workItem, cbPc, cbJob>>
     \/ \E t \in Tiers : /\ workPc' = [workPc EXCEPT ![t] = "free"]
                         /\ workItem[t].job = j
                         /\ UNCHANGED <<workItem, callPc, callJob, cbPc, cbJob>>
     \/ /\ cbPc' = "free" /\ cbJob = j
        /\ UNCHANGED <<cbJob, workPc, workItem, callPc, callJob>>

\* A step by which the task that is about to free a job frees it.
Frees(j) ==
  /\ StopTimer(j) /\ UNCHANGED <<jobs, asked>>
  /\ NoNewOwner
  /\ \/ \E a \in Agents : /\ callPc[a] = "stop" /\ callJob[a] = j /\ callPc'[a] # "stop"
                          /\ \A b \in Agents \ {a} : UNCHANGED <<callPc[b], callJob[b]>>
                          /\ UNCHANGED <<workPc, workItem, cbPc, cbJob>>
     \/ \E t \in Tiers : /\ workPc[t] = "free" /\ workItem[t].job = j /\ workPc'[t] # "free"
                         /\ \A u \in Tiers \ {t} : UNCHANGED <<workPc[u], workItem[u]>>
                         /\ UNCHANGED <<callPc, callJob, cbPc, cbJob>>
     \/ /\ cbPc = "free" /\ cbJob = j /\ cbPc' # "free"
        /\ UNCHANGED <<workPc, workItem, callPc, callJob>>

SameOwners == NoNewOwner /\ \A j \in JobId : BeingFreed(j) => BeingFreed(j)'

\* Every step is one of these.
Effect ==
  \/ SameOwners /\ UNCHANGED <<jobs, asked, timers, armed>>
  \/ SameOwners /\ \E j \in armed : /\ UNCHANGED <<jobs, asked, timers>>
                                    /\ armed' \in {armed, armed \ {j}}
  \/ \E j \in JobId : TakesOut(j) \/ Frees(j)
  \/ SameOwners /\ \E j \in JobId, ask \in Ask : Created(j, ask)
  \/ SameOwners /\ NotCreated

LEMMA StepEffect ==
  ASSUME TypeOK, TableInv, WorkerInv, CallbackInv, CallInv, [Next]_vars
  PROVE  Effect
<1> USE JobIdFacts, ItemFacts
<1>0. ASSUME UNCHANGED <<callPc, callJob, workPc, workItem, cbPc, cbJob>> PROVE SameOwners
  BY <1>0 DEF SameOwners, NoNewOwner, BeingFreed
<1>1. ASSUME NEW a \in Agents, NEW ask \in Ask, Schedule(a, ask) PROVE Effect
  <2>1. SameOwners
    BY <1>0, <1>1 DEF Schedule, callVars, workVars, cbVars
  <2> QED
    BY <1>1, <2>1, ScheduleStep DEF Effect
<1>2. ASSUME NEW a \in Agents, NEW ask \in Ask, ScheduleFails(a, ask) PROVE Effect
  <2>1. SameOwners
    BY <1>0, <1>2 DEF ScheduleFails, callVars, workVars, cbVars
  <2> QED
    BY <1>2, <2>1, ScheduleFailsStep DEF Effect
<1>3. ASSUME NEW a \in Agents, NEW j \in JobId, Cancel(a, j) PROVE Effect
  <2>1. CASE Active(j)
    <3>1. TakesOut(j)
      BY <1>3, <2>1 DEF Cancel, CanCall, TakesOut, timeVars, cbVars, workVars
    <3> QED
      BY <3>1 DEF Effect
  <2>2. CASE ~Active(j)
    BY <1>0, <1>3, <2>2 DEF Cancel, Effect, timeVars, cbVars, workVars
  <2> QED
    BY <2>1, <2>2
<1>4. ASSUME NEW a \in Agents, CancelStop(a) PROVE Effect
  <2>1. callPc[a] = "stop" /\ callJob[a] \in JobId /\ StopTimer(callJob[a])
    BY <1>4 DEF CancelStop, CallInv, TypeOK
  <2>2. /\ callPc'[a] # "stop"
        /\ \A b \in Agents \ {a} : UNCHANGED <<callPc[b], callJob[b]>>
        /\ UNCHANGED <<workPc, workItem, cbPc, cbJob, jobs, asked>>
    BY <1>4 DEF CancelStop, Returns, TypeOK, workVars, cbVars
  <2>3. NoNewOwner
    BY <2>2 DEF NoNewOwner
  <2>4. Frees(callJob[a])
    BY <2>1, <2>2, <2>3 DEF Frees
  <2> QED
    BY <2>1, <2>4 DEF Effect
<1>5. ASSUME NEW a \in Agents, CancelFence(a) PROVE Effect
  <2>1. /\ callPc[a] = "fence" /\ callPc'[a] # "stop"
        /\ \A b \in Agents \ {a} : UNCHANGED <<callPc[b], callJob[b]>>
        /\ UNCHANGED <<workPc, workItem, cbPc, cbJob, jobs, asked, timers, armed>>
    BY <1>5 DEF CancelFence, Returns, TypeOK, timeVars, workVars, cbVars
  <2>2. NoNewOwner
    BY <2>1 DEF NoNewOwner
  <2>3. SameOwners
    BY <2>1, <2>2 DEF SameOwners, BeingFreed
  <2> QED
    BY <2>1, <2>3 DEF Effect
<1>a. ASSUME UNCHANGED <<callPc, callJob, workPc, workItem>>, cbPc # "free", cbPc' # "free"
      PROVE  SameOwners
  BY <1>a DEF SameOwners, NoNewOwner, BeingFreed
<1>6. ASSUME NEW j \in JobId, TimerFires(j) PROVE Effect
  <2>1. SameOwners
    BY <1>6, <1>a DEF TimerFires, callVars, workVars
  <2>2. j \in armed /\ armed' \in {armed, armed \ {j}} /\ UNCHANGED <<jobs, asked, timers>>
    BY <1>6 DEF TimerFires
  <2> QED
    BY <2>1, <2>2 DEF Effect
<1>7. ASSUME CallbackLookup PROVE Effect
  <2>1. SameOwners
    BY <1>7, <1>a DEF CallbackLookup, CallbackDone, callVars, workVars
  <2> QED
    BY <1>7, <2>1 DEF Effect, CallbackLookup, timeVars
<1>8. ASSUME CallbackSend PROVE Effect
  <2>1. SameOwners
    BY <1>8, <1>a DEF CallbackSend, CallbackDone, callVars, workVars
  <2> QED
    BY <1>8, <2>1 DEF Effect, CallbackSend, timeVars
<1>9. ASSUME CallbackClean PROVE Effect
  <2>0. cbJob \in JobId
    BY <1>9 DEF CallbackClean, CallbackInv, TypeOK
  <2>1. CASE Active(cbJob)
    <3>1. TakesOut(cbJob)
      BY <1>9, <2>1 DEF CallbackClean, TakesOut, timeVars, callVars, workVars
    <3> QED
      BY <2>0, <3>1 DEF Effect
  <2>2. CASE ~Active(cbJob)
    <3>1. SameOwners
      BY <1>9, <1>a, <2>2 DEF CallbackClean, CallbackDone, callVars, workVars
    <3> QED
      BY <1>9, <2>2, <3>1 DEF Effect, CallbackClean, timeVars
  <2> QED
    BY <2>1, <2>2
<1>10. ASSUME CallbackFree PROVE Effect
  <2>0. cbJob \in JobId
    BY <1>10 DEF CallbackFree, CallbackInv, TypeOK
  <2>1. NoNewOwner
    BY <1>10 DEF NoNewOwner, CallbackFree, CallbackDone, callVars, workVars
  <2>2. Frees(cbJob)
    BY <1>10, <2>1 DEF Frees, CallbackFree, CallbackDone, callVars, workVars
  <2> QED
    BY <2>0, <2>2 DEF Effect
<1>b. ASSUME NEW t \in Tiers, workPc[t] # "free", workPc'[t] # "free",
             \A u \in Tiers \ {t} : UNCHANGED <<workPc[u], workItem[u]>>,
             UNCHANGED <<callPc, callJob, cbPc, cbJob>>
      PROVE  SameOwners
  BY <1>b DEF SameOwners, NoNewOwner, BeingFreed
<1>11. ASSUME NEW t \in Tiers, WorkerReceive(t) PROVE Effect
  <2>1. workPc[t] # "free" /\ workPc'[t] # "free"
          /\ \A u \in Tiers \ {t} : UNCHANGED <<workPc[u], workItem[u]>>
    BY <1>11 DEF WorkerReceive, TypeOK
  <2>2. SameOwners
    BY <1>11, <1>b, <2>1 DEF WorkerReceive, callVars, cbVars
  <2> QED
    BY <1>11, <2>2 DEF Effect, WorkerReceive, timeVars
<1>12. ASSUME NEW t \in Tiers, WorkerCheck(t) PROVE Effect
  <2>1. workPc[t] # "free" /\ workPc'[t] # "free"
          /\ \A u \in Tiers \ {t} : UNCHANGED <<workPc[u], workItem[u]>>
    BY <1>12 DEF WorkerCheck, WorkerIdle, TypeOK
  <2>2. SameOwners
    BY <1>12, <1>b, <2>1 DEF WorkerCheck, callVars, cbVars
  <2> QED
    BY <1>12, <2>2 DEF Effect, WorkerCheck, timeVars
<1>13. ASSUME NEW t \in Tiers, WorkerReturn(t) PROVE Effect
  <2>0. workItem[t].job \in JobId
    BY <1>13 DEF WorkerReturn, WorkerInv, TypeOK
  <2>1. CASE workItem[t].once /\ Active(workItem[t].job)
    <3>1. TakesOut(workItem[t].job)
      BY <1>13, <2>1 DEF WorkerReturn, TakesOut, timeVars, callVars, cbVars
    <3> QED
      BY <2>0, <3>1 DEF Effect
  <2>2. CASE ~(workItem[t].once /\ Active(workItem[t].job))
    <3>1. workPc[t] # "free" /\ workPc'[t] # "free"
            /\ \A u \in Tiers \ {t} : UNCHANGED <<workPc[u], workItem[u]>>
      BY <1>13, <2>2 DEF WorkerReturn, WorkerIdle, TypeOK
    <3>2. SameOwners
      BY <1>13, <1>b, <3>1 DEF WorkerReturn, callVars, cbVars
    <3> QED
      BY <1>13, <2>2, <3>2 DEF Effect, WorkerReturn, timeVars
  <2> QED
    BY <2>1, <2>2
<1>14. ASSUME NEW t \in Tiers, WorkerFree(t) PROVE Effect
  <2>0. workItem[t].job \in JobId
    BY <1>14 DEF WorkerFree, WorkerInv, TypeOK
  <2>1. workPc[t] = "free" /\ workPc'[t] # "free"
          /\ \A u \in Tiers \ {t} : UNCHANGED <<workPc[u], workItem[u]>>
    BY <1>14 DEF WorkerFree, WorkerIdle, TypeOK
  <2>2. UNCHANGED <<callPc, callJob, cbPc, cbJob, jobs, asked>> /\ StopTimer(workItem[t].job)
    BY <1>14 DEF WorkerFree, callVars, cbVars
  <2>3. NoNewOwner
    BY <2>1, <2>2 DEF NoNewOwner
  <2>4. Frees(workItem[t].job)
    BY <2>1, <2>2, <2>3 DEF Frees
  <2> QED
    BY <2>0, <2>4 DEF Effect
<1>15. CASE UNCHANGED vars
  BY <1>0, <1>15 DEF Effect, vars
<1> QED
  BY <1>1, <1>2, <1>3, <1>4, <1>5, <1>6, <1>7, <1>8, <1>9, <1>10, <1>11, <1>12, <1>13, <1>14,
     <1>15 DEF Next, InCancel, Callback, Worker

LEMMA StepOneOwner ==
  ASSUME TypeOK, WorkerInv, CallbackInv, CallInv, OneOwner, Effect
  PROVE  OneOwner'
<1> USE JobIdFacts, ItemFacts
<1>1. CASE NoNewOwner
  BY <1>1 DEF NoNewOwner, OneOwner
<1>2. ASSUME NEW j \in JobId, TakesOut(j) PROVE OneOwner'
  <2>0. ~BeingFreed(j)
    BY <1>2, ActiveIsUnowned DEF TakesOut
  <2>1. ASSUME NEW a \in Agents,
               callPc' = [callPc EXCEPT ![a] = "stop"],
               callJob' = [callJob EXCEPT ![a] = j],
               UNCHANGED <<workPc, workItem, cbPc, cbJob>>
        PROVE  OneOwner'
    BY <2>0, <2>1 DEF OneOwner, BeingFreed, TypeOK
  <2>2. ASSUME NEW t \in Tiers,
               workPc' = [workPc EXCEPT ![t] = "free"], workItem[t].job = j,
               UNCHANGED <<workItem, callPc, callJob, cbPc, cbJob>>
        PROVE  OneOwner'
    BY <2>0, <2>2 DEF OneOwner, BeingFreed, TypeOK
  <2>3. ASSUME cbPc' = "free", cbJob = j,
               UNCHANGED <<cbJob, workPc, workItem, callPc, callJob>>
        PROVE  OneOwner'
    BY <2>0, <2>3 DEF OneOwner, BeingFreed
  <2> QED
    BY <1>2, <2>1, <2>2, <2>3 DEF TakesOut
<1> QED
  BY <1>1, <1>2 DEF Effect, SameOwners, Frees

LEMMA StepTimersAreOwned ==
  ASSUME TypeOK, TableInv, WorkerInv, CallbackInv, CallInv, OneOwner, TimersAreOwned, Effect
  PROVE  TimersAreOwned'
<1> USE JobIdFacts, ItemFacts
<1>0. ASSUME SameOwners, NEW j \in JobId PROVE BeingFreed(j)' <=> BeingFreed(j)
  BY <1>0 DEF SameOwners, NoNewOwner, BeingFreed
<1>1. CASE SameOwners /\ UNCHANGED <<jobs, asked, timers, armed>>
  BY <1>0, <1>1 DEF TimersAreOwned, Active
<1>2. CASE SameOwners /\ \E j \in armed : /\ UNCHANGED <<jobs, asked, timers>>
                                          /\ armed' \in {armed, armed \ {j}}
  BY <1>0, <1>2 DEF TimersAreOwned, Active
<1>3. ASSUME NEW j \in JobId, TakesOut(j) PROVE TimersAreOwned'
  <2>1. jobs \in JobTable /\ Active(j) /\ Detach(j) /\ UNCHANGED <<timers, armed>>
    BY <1>3 DEF TakesOut, TypeOK, JobTable
  <2>2. \A k \in JobId : Active(k)' <=> Active(k) /\ k # j
    BY <2>1, DetachEffect
  <2>3. ~BeingFreed(j)
    BY <2>1, ActiveIsUnowned
  <2>4. ASSUME NEW k \in JobId PROVE BeingFreed(k)' <=> BeingFreed(k) \/ k = j
    <3>1. ASSUME NEW a \in Agents,
                 callPc' = [callPc EXCEPT ![a] = "stop"],
                 callJob' = [callJob EXCEPT ![a] = j],
                 UNCHANGED <<workPc, workItem, cbPc, cbJob>>,
                 callPc[a] # "stop"
          PROVE  BeingFreed(k)' <=> BeingFreed(k) \/ k = j
      BY <3>1 DEF BeingFreed, TypeOK
    <3>2. ASSUME NEW t \in Tiers,
                 workPc' = [workPc EXCEPT ![t] = "free"], workItem[t].job = j,
                 UNCHANGED <<workItem, callPc, callJob, cbPc, cbJob>>
          PROVE  BeingFreed(k)' <=> BeingFreed(k) \/ k = j
      BY <2>3, <3>2 DEF BeingFreed, TypeOK
    <3>3. ASSUME cbPc' = "free", cbJob = j,
                 UNCHANGED <<cbJob, workPc, workItem, callPc, callJob>>
          PROVE  BeingFreed(k)' <=> BeingFreed(k) \/ k = j
      BY <2>3, <3>3 DEF BeingFreed
    <3> QED
      BY <1>3, <3>1, <3>2, <3>3 DEF TakesOut
  <2> QED
    BY <2>1, <2>2, <2>3, <2>4 DEF TimersAreOwned
<1>4. ASSUME NEW j \in JobId, Frees(j) PROVE TimersAreOwned'
  <2>1. /\ timers' = timers \ {j} /\ armed' = armed \ {j}
        /\ \A k \in JobId : Active(k)' <=> Active(k)
    BY <1>4 DEF Frees, StopTimer, Active
  <2>2. BeingFreed(j) /\ ~BeingFreed(j)'
    BY <1>4 DEF Frees, NoNewOwner, BeingFreed, OneOwner, WorkerInv, ItemOK
  <2>3. ASSUME NEW k \in JobId, k # j PROVE BeingFreed(k)' <=> BeingFreed(k)
    BY <1>4, <2>3 DEF Frees, NoNewOwner, BeingFreed
  <2> QED
    BY <2>1, <2>2, <2>3 DEF TimersAreOwned
<1>5. ASSUME SameOwners, NEW j \in JobId, NEW ask \in Ask, Created(j, ask) PROVE TimersAreOwned'
  <2>1. ~BeingFreed(j)
    BY <1>5 DEF Created, BeingFreed, CallInv, WorkerInv, CallbackInv, ItemOK
  <2> QED
    BY <1>0, <1>5, <2>1 DEF TimersAreOwned, Created
<1>6. CASE SameOwners /\ NotCreated
  BY <1>0, <1>6 DEF TimersAreOwned, NotCreated
<1> QED
  BY <1>1, <1>2, <1>3, <1>4, <1>5, <1>6 DEF Effect

LEMMA RunningFacts ==
  ASSUME TypeOK, WorkerInv, NEW j \in JobId
  PROVE  /\ j \in RunningJobs => Issued(j) /\ running[asked[j].tier] = j /\ asked[j].tier \in Tiers
         /\ asked[j].tier \in Tiers /\ running[asked[j].tier] = j => j \in RunningJobs
<1> USE JobIdFacts, ItemFacts
<1>1. ASSUME NEW t \in Tiers, running[t] = j PROVE Issued(j) /\ asked[j].tier = t
  BY <1>1 DEF WorkerInv, ItemOK
<1> QED
  BY <1>1 DEF RunningJobs

LEMMA NewAnswer ==
  ASSUME NEW a \in Agents, NEW j \in JobId, NEW status \in {"Success", "NotFound"},
         Answer(a, j, status)
  PROVE  /\ \A r \in answers' : r \in answers \/ (r.job = j /\ r.by = a /\ r.status = status)
         /\ \E r \in answers' : r.job = j
         /\ answers \subseteq answers'
<1>1. PICK new : new = [job |-> j, by |-> a, status |-> status]
  OBVIOUS
<1>2. new.job = j /\ new.by = a /\ new.status = status
  BY <1>1
<1>3. answers' = answers \cup {new}
  BY <1>1 DEF Answer
<1> QED
  BY <1>2, <1>3

AnswerOK(r) ==
  /\ r.job \in JobId
  /\ Issued(r.job)
  /\ r.status = "Success" =>
       /\ ~Active(r.job)
       /\ r.by # asked[r.job].tier => r.job \notin RunningJobs

\* Only a job in the table starts to run.
LEMMA StepRunning ==
  ASSUME TypeOK, WorkerInv, [Next]_vars, NEW j \in JobId, j \in RunningJobs'
  PROVE  j \in RunningJobs \/ Active(j)
<1> USE JobIdFacts, ItemFacts
<1>1. PICK u \in Tiers : running'[u] = j
  BY DEF RunningJobs
<1>2. CASE UNCHANGED workVars
  BY <1>1, <1>2 DEF workVars, RunningJobs
<1>3. ASSUME NEW t \in Tiers, WorkerCheck(t) PROVE j \in RunningJobs \/ Active(j)
  BY <1>1, <1>3 DEF WorkerCheck, RunningJobs, TypeOK
<1>4. ASSUME NEW t \in Tiers, WorkerReceive(t) \/ WorkerFree(t) PROVE UNCHANGED running
  BY <1>4 DEF WorkerReceive, WorkerFree
<1>5. ASSUME NEW t \in Tiers, WorkerReturn(t) PROVE j \in RunningJobs
  BY <1>1, <1>5 DEF WorkerReturn, RunningJobs, TypeOK
<1> QED
  BY <1>1, <1>2, <1>3, <1>4, <1>5, Touches DEF Working, Worker, RunningJobs

LEMMA StepAnswerInv ==
  ASSUME TypeOK, WorkerInv, CallInv, AnswerInv, Stable, [Next]_vars
  PROVE  AnswerInv'
<1> USE JobIdFacts
<1>0. \A r \in answers : AnswerOK(r) /\ r.by \in Agents /\ asked[r.job].tier \in Tiers
  BY DEF AnswerInv, AnswerOK, TypeOK, Issued, Ask
<1>1. ASSUME NEW r, AnswerOK(r) PROVE AnswerOK(r)'
  <2>1. PICK j \in JobId : j = r.job
    BY <1>1 DEF AnswerOK
  <2>2. Issued(j)' /\ asked'[j] = asked[j] /\ (Active(j)' => Active(j))
    BY <1>1, <2>1 DEF AnswerOK, Stable
  <2>3. j \in RunningJobs' => j \in RunningJobs \/ Active(j)
    BY StepRunning
  <2> QED
    BY <1>1, <2>1, <2>2, <2>3 DEF AnswerOK
<1>2. ASSUME \A r \in answers' : r \in answers \/ AnswerOK(r)' PROVE AnswerInv'
  BY <1>0, <1>1, <1>2 DEF AnswerInv, AnswerOK
<1>3. ASSUME NEW a \in Agents, NEW j \in JobId, Cancel(a, j) PROVE AnswerInv'
  <2>1. CASE Active(j)
    BY <1>2, <1>3, <2>1 DEF Cancel
  <2>2. CASE ~Active(j)
    <3>1. Answer(a, j, "NotFound") /\ Issued(j)
      BY <1>3, <2>2 DEF Cancel, Issued
    <3>2. Issued(j)'
      BY <3>1 DEF Stable
    <3>3. \A r \in answers' : r \in answers \/ (r.job = j /\ r.status = "NotFound")
      BY <3>1, NewAnswer
    <3>4. \A r \in answers' : r \in answers \/ AnswerOK(r)'
      BY <3>2, <3>3 DEF AnswerOK, Issued
    <3> QED
      BY <1>2, <3>4
  <2> QED
    BY <2>1, <2>2
<1>4. ASSUME NEW a \in Agents, NEW j \in JobId, callPc[a] # "idle", callJob[a] = j, Returns(a),
             UNCHANGED <<asked, running, jobs>>,
             callTier[a] # a => j \notin RunningJobs
      PROVE  AnswerInv'
  <2>1. Issued(j) /\ ~Active(j) /\ callTier[a] = asked[j].tier
    BY <1>4 DEF CallInv
  <2>2. \A r \in answers' : r \in answers \/ (r.job = j /\ r.by = a /\ r.status = "Success")
    BY <1>4, NewAnswer DEF Returns
  <2>3. Issued(j)' /\ ~Active(j)' /\ asked'[j] = asked[j] /\ RunningJobs' = RunningJobs
    BY <1>4, <2>1 DEF Issued, Active, RunningJobs
  <2>4. \A r \in answers' : r \in answers \/ AnswerOK(r)'
    BY <1>4, <2>1, <2>2, <2>3 DEF AnswerOK, Issued, Active
  <2> QED
    BY <1>2, <2>4
<1>5. ASSUME NEW a \in Agents, CancelStop(a) PROVE AnswerInv'
  <2>1. PICK j \in JobId : j = callJob[a]
    BY <1>5 DEF CancelStop, CallInv, TypeOK
  <2>2. UNCHANGED <<asked, running, jobs>> /\ callPc[a] # "idle"
    BY <1>5 DEF CancelStop, workVars
  <2>3. CASE callTier[a] = a
    BY <1>4, <1>5, <2>1, <2>2, <2>3 DEF CancelStop
  <2>4. CASE callTier[a] # a
    BY <1>2, <1>5, <2>4 DEF CancelStop
  <2> QED
    BY <2>3, <2>4
<1>6. ASSUME NEW a \in Agents, CancelFence(a) PROVE AnswerInv'
  <2>1. PICK j \in JobId : j = callJob[a]
    BY <1>6 DEF CancelFence, CallInv, TypeOK
  <2>2. UNCHANGED <<asked, running, jobs>> /\ callPc[a] # "idle" /\ Returns(a)
    BY <1>6 DEF CancelFence, workVars
  <2>3. callTier[a] = asked[j].tier /\ running[callTier[a]] # j
    BY <1>6, <2>1 DEF CancelFence, CallInv
  <2>4. j \notin RunningJobs
    BY <2>3, RunningFacts
  <2> QED
    BY <1>4, <2>1, <2>2, <2>4
<1>7. CASE UNCHANGED callVars
  BY <1>2, <1>7 DEF callVars
<1> QED
  BY <1>3, <1>5, <1>6, <1>7, Touches DEF Cancelling, InCancel

LEMMA StepOnlyOwnHandleCancels ==
  ASSUME TypeOK, TableInv, WorkerInv, CallbackInv, CallInv, OnlyOwnHandleCancels, Stable, [Next]_vars
  PROVE  OnlyOwnHandleCancels'
<1> USE JobIdFacts
<1> SUFFICES ASSUME NEW j \in JobId, Issued(j)', asked'[j].periodic,
                    \A r \in answers' : r.job # j, \A a \in Agents : callJob'[a] # j
             PROVE  Active(j)'
  BY DEF OnlyOwnHandleCancels, Issued
<1>1. answers \subseteq answers'
  <2>1. ASSUME NEW a \in Agents, NEW k \in JobId, Cancel(a, k) PROVE answers \subseteq answers'
    BY <2>1 DEF Cancel, Answer
  <2>2. ASSUME NEW a \in Agents, CancelStop(a) \/ CancelFence(a) PROVE answers \subseteq answers'
    BY <2>2 DEF CancelStop, CancelFence, Returns, Answer
  <2> QED
    BY <2>1, <2>2, Touches DEF Cancelling, InCancel, callVars
<1>2. \A r \in answers : r.job # j
  BY <1>1
\* A call about j stays, or leaves an answer about j.
<1>3. \A a \in Agents : callJob[a] # j
  <2>1. ASSUME NEW a \in Agents, NEW k \in JobId, Cancel(a, k), NEW b \in Agents, callJob[b] = j
        PROVE  FALSE
    BY <2>1 DEF Cancel, CanCall, CallInv, TypeOK
  <2>2. ASSUME NEW a \in Agents, Returns(a), callJob[a] \in JobId, NEW b \in Agents, callJob[b] = j
        PROVE  FALSE
    <3>1. CASE b = a
      BY <2>2, <3>1, NewAnswer DEF Returns
    <3>2. CASE b # a
      BY <2>2, <3>2 DEF Returns, TypeOK
    <3> QED
      BY <3>1, <3>2
  <2>3. ASSUME NEW a \in Agents, CancelStop(a), NEW b \in Agents, callJob[b] = j
        PROVE  FALSE
    <3>1. callJob[a] \in JobId
      BY <2>3 DEF CancelStop, CallInv, TypeOK
    <3> QED
      BY <2>2, <2>3, <3>1 DEF CancelStop
  <2>4. ASSUME NEW a \in Agents, CancelFence(a), NEW b \in Agents, callJob[b] = j
        PROVE  FALSE
    <3>1. callJob[a] \in JobId
      BY <2>4 DEF CancelFence, CallInv, TypeOK
    <3> QED
      BY <2>2, <2>4, <3>1 DEF CancelFence
  <2>5. ASSUME UNCHANGED callVars, NEW b \in Agents, callJob[b] = j PROVE FALSE
    BY <2>5 DEF callVars
  <2> QED
    BY <2>1, <2>3, <2>4, <2>5, Touches DEF Cancelling, InCancel
<1>4. ASSUME NEW k \in JobId, Active(k), Detach(k), k # j, UNCHANGED asked PROVE Active(j)'
  <2>1. jobs \in JobTable
    BY DEF TypeOK, JobTable
  <2>2. Active(j)
    BY <1>2, <1>3, <1>4 DEF OnlyOwnHandleCancels, Issued
  <2> QED
    BY <1>4, <2>1, <2>2, DetachEffect
<1>5. CASE UNCHANGED <<jobs, asked>>
  BY <1>2, <1>3, <1>5 DEF OnlyOwnHandleCancels, Issued, Active
<1>6. ASSUME NEW a \in Agents, NEW ask \in Ask, Schedule(a, ask) PROVE Active(j)'
  <2>1. PICK k \in JobId : Created(k, ask)
    BY <1>6, ScheduleStep
  <2>2. CASE j = k
    BY <2>1, <2>2 DEF Created
  <2>3. CASE j # k
    <3>1. asked'[j] = asked[j]
      BY <2>1, <2>3 DEF Created, TypeOK
    <3>2. Active(j)
      BY <1>2, <1>3, <3>1 DEF OnlyOwnHandleCancels, Issued
    <3> QED
      BY <2>1, <3>2 DEF Created
  <2> QED
    BY <2>2, <2>3
<1>7. ASSUME NEW a \in Agents, NEW ask \in Ask, ScheduleFails(a, ask) PROVE Active(j)'
  <2>1. NotCreated
    BY <1>7, ScheduleFailsStep
  <2>2. Active(j)
    BY <1>2, <1>3, <2>1 DEF OnlyOwnHandleCancels, Issued, NotCreated
  <2> QED
    BY <2>1, <2>2 DEF NotCreated
<1>8. ASSUME CallbackClean PROVE Active(j)'
  <2>1. CASE Active(cbJob)
    <3>1. cbJob \in JobId /\ Detach(cbJob) /\ UNCHANGED asked /\ ~asked[cbJob].periodic
      BY <1>8, <2>1 DEF CallbackClean, CallbackInv, TypeOK
    <3>2. cbJob # j
      BY <3>1
    <3> QED
      BY <1>4, <2>1, <3>1, <3>2
  <2>2. CASE ~Active(cbJob)
    BY <1>5, <1>8, <2>2 DEF CallbackClean
  <2> QED
    BY <2>1, <2>2
<1>9. ASSUME NEW t \in Tiers, WorkerReturn(t) PROVE Active(j)'
  <2>1. CASE workItem[t].once /\ Active(workItem[t].job)
    <3>1. /\ workItem[t].job \in JobId /\ Detach(workItem[t].job) /\ UNCHANGED asked
          /\ ~asked[workItem[t].job].periodic
      BY <1>9, <2>1, ItemFacts DEF WorkerReturn, WorkerInv, ItemOK, TypeOK
    <3>2. workItem[t].job # j
      BY <3>1
    <3> QED
      BY <1>4, <2>1, <3>1, <3>2
  <2>2. CASE ~(workItem[t].once /\ Active(workItem[t].job))
    BY <1>5, <1>9, <2>2 DEF WorkerReturn
  <2> QED
    BY <2>1, <2>2
<1>10. ASSUME NEW a \in Agents, NEW k \in JobId, Cancel(a, k) PROVE Active(j)'
  <2>1. CASE Active(k)
    <3>1. callJob'[a] = k
      BY <1>10, <2>1 DEF Cancel, TypeOK
    <3>2. k # j
      BY <3>1
    <3> QED
      BY <1>4, <1>10, <2>1, <3>2 DEF Cancel
  <2>2. CASE ~Active(k)
    BY <1>5, <1>10, <2>2 DEF Cancel
  <2> QED
    BY <2>1, <2>2
<1> QED
  BY <1>5, <1>6, <1>7, <1>8, <1>9, <1>10, Touches DEF Scheduling

LEMMA InitInv == Init => Inv
<1> SUFFICES ASSUME Init PROVE Inv
  OBVIOUS
<1>1. TypeOK
  BY InitTypeOK
<1>2. \A j \in JobId : ~Issued(j) /\ ~Active(j)
  BY JobIdFacts DEF Init, Issued, Active
<1>3. \A j \in JobId : ~BeingFreed(j)
  BY DEF Init, BeingFreed
<1>4. TableInv /\ TimersAreOwned
  BY <1>2, <1>3 DEF TableInv, TimersAreOwned, Init
<1>5. QueueInv /\ WorkerInv /\ CallbackInv /\ CallInv /\ OneOwner
  BY DEF QueueInv, WorkerInv, CallbackInv, CallInv, OneOwner, Init
<1>6. AnswerInv /\ OnlyOwnHandleCancels
  BY <1>2 DEF AnswerInv, OnlyOwnHandleCancels, Init, Issued
<1> QED
  BY <1>1, <1>4, <1>5, <1>6 DEF Inv

LEMMA StepInv == Inv /\ [Next]_vars => Inv'
<1> SUFFICES ASSUME Inv, [Next]_vars PROVE Inv'
  OBVIOUS
<1>1. Stable /\ Effect
  BY StepStable, StepEffect DEF Inv
<1>2. TypeOK'
  BY StepTypeOK DEF Inv
<1>3. TableInv' /\ QueueInv' /\ WorkerInv' /\ CallbackInv' /\ CallInv'
  BY <1>1, StepTableInv, StepQueueInv, StepWorkerInv, StepCallbackInv, StepCallInv DEF Inv
<1>4. OneOwner' /\ TimersAreOwned'
  BY <1>1, StepOneOwner, StepTimersAreOwned DEF Inv
<1>5. AnswerInv' /\ OnlyOwnHandleCancels'
  BY <1>1, StepAnswerInv, StepOnlyOwnHandleCancels DEF Inv
<1> QED
  BY <1>2, <1>3, <1>4, <1>5 DEF Inv

\* The inductive invariant holds of every behaviour.
THEOREM SchedulerInvariant == Spec => []Inv
  BY InitInv, StepInv, PTL DEF Spec

\* The variables keep their types and the worker queues their bound.
THEOREM SchedulerTypes == Spec => []TypeOK
<1>1. Inv => TypeOK
  BY DEF Inv
<1> QED
  BY <1>1, SchedulerInvariant, PTL

\* esp_timers are neither leaked nor deleted twice, whoever releases the job:
\* cancel(), the worker after a one-shot, or the timer task on a full queue.
THEOREM TimersNeverLeak == Spec => []TimersAreOwned
<1>1. Inv => TimersAreOwned
  BY DEF Inv
<1> QED
  BY <1>1, SchedulerInvariant, PTL

\* Stale handles of a reused slot are harmless.
THEOREM StaleHandlesAreHarmless == Spec => []OnlyOwnHandleCancels
<1>1. Inv => OnlyOwnHandleCancels
  BY DEF Inv
<1> QED
  BY <1>1, SchedulerInvariant, PTL

\* After a fenced cancel() the callback never runs: ctx may be freed.
THEOREM FenceHolds == Spec => []CancelledIsQuiet
<1>1. Inv => CancelledIsQuiet
  <2> SUFFICES ASSUME Inv, NEW j \in Confirmed PROVE j \notin RunningJobs
    BY DEF CancelledIsQuiet
  <2>1. PICK r \in answers : r.job = j /\ r.status = "Success" /\ r.by # asked[j].tier
    BY DEF Confirmed
  <2> QED
    BY <2>1 DEF Inv, AnswerInv
<1> QED
  BY <1>1, SchedulerInvariant, PTL

-----------------------------------------------------------------------------
(* The refinement of JobContract.                                            *)

Stages == <<[j \in JobId |-> Stage(j)], RunningJobs, Confirmed>>

SameStage(k) == Stage(k)' = Stage(k)

LEMMA StageStays ==
  ASSUME NEW k \in JobId, asked'[k] = asked[k], Active(k)' <=> Active(k),
         k \in RunningJobs' <=> k \in RunningJobs
  PROVE  SameStage(k)
  BY DEF SameStage, Stage

LEMMA NothingHappens ==
  ASSUME \A k \in JobId : SameStage(k), UNCHANGED <<RunningJobs, Confirmed>>
  PROVE  UNCHANGED Stages
  BY DEF SameStage, Stages

\* The life of one job changes and that of no other.
LEMMA LifeMoves ==
  ASSUME NEW j \in JobId, NEW to, Stage(j)' = to, \A k \in JobId : k # j => SameStage(k)
  PROVE  [k \in JobId |-> Stage(k)]' = [[k \in JobId |-> Stage(k)] EXCEPT ![j] = to]
  BY DEF SameStage

LEMMA ConfirmedStays ==
  ASSUME AnswerInv, Stable, TypeOK,
         \A r \in answers' : r \in answers \/ r.status # "Success" \/ r.by = asked'[r.job].tier,
         answers \subseteq answers'
  PROVE  UNCHANGED Confirmed
<1> SUFFICES ASSUME NEW j \in JobId PROVE j \in Confirmed' <=> j \in Confirmed
  BY DEF Confirmed
<1>1. ASSUME NEW r \in answers, r.job = j PROVE asked'[j] = asked[j]
  BY <1>1 DEF AnswerInv, Stable
<1> QED
  BY <1>1 DEF Confirmed

\* The steps that change which jobs run or are confirmed.
LEMMA RunningStays ==
  ASSUME UNCHANGED running
  PROVE  UNCHANGED RunningJobs
  BY DEF RunningJobs

LEMMA DetachKills ==
  ASSUME Inv, Stable, NEW j \in JobId, Detaches(j), UNCHANGED <<running, answers>>
  PROVE  Contract!Next
<1>1. jobs \in JobTable /\ Active(j) /\ Detach(j) /\ UNCHANGED asked
  BY DEF Detaches, Inv, TypeOK, JobTable
<1>2. \A k \in JobId : Active(k)' <=> Active(k) /\ k # j
  BY <1>1, DetachEffect
<1>3. Issued(j)
  BY <1>1 DEF Inv, TableInv
<1>4. UNCHANGED RunningJobs /\ UNCHANGED Confirmed
  BY <1>1 DEF RunningJobs, Confirmed
<1>5. Stage(j)' = "dead" /\ Stage(j) \in {"live", "last"}
  BY <1>1, <1>2, <1>3 DEF Stage, Issued
<1>6. \A k \in JobId : k # j => SameStage(k)
  BY <1>1, <1>2, <1>4, StageStays
<1>7. Contract!Kill(j)
  BY <1>4, <1>5, <1>6, LifeMoves DEF Contract!Kill
<1> QED
  BY <1>7 DEF Contract!Next

LEMMA TableStands ==
  ASSUME UNCHANGED <<jobs, asked, running>>
  PROVE  \A k \in JobId : SameStage(k)
  BY StageStays DEF Active, RunningJobs

LEMMA CancelReturning ==
  ASSUME Inv, Stable, NEW a \in Agents, callPc[a] # "idle", Returns(a),
         UNCHANGED <<jobs, asked, running>>,
         callTier[a] # a => running[callTier[a]] # callJob[a]
  PROVE  [Contract!Next]_Stages
<1> USE JobIdFacts DEF Inv
<1>1. PICK j \in JobId : j = callJob[a]
  BY DEF CallInv, TypeOK
<1>2. Issued(j) /\ ~Active(j) /\ callTier[a] = asked[j].tier /\ Answer(a, j, "Success")
  BY <1>1 DEF CallInv, Returns
<1>3. /\ \A r \in answers' : r \in answers \/ (r.job = j /\ r.by = a /\ r.status = "Success")
      /\ answers \subseteq answers'
  BY <1>2, NewAnswer
<1>4. (\A k \in JobId : SameStage(k)) /\ UNCHANGED RunningJobs
  BY TableStands, RunningStays
<1>5. CASE callTier[a] = a
  BY <1>2, <1>3, <1>4, <1>5, ConfirmedStays, NothingHappens
<1>6. CASE callTier[a] # a
  <2>1. j \notin RunningJobs
    BY <1>1, <1>2, <1>6, RunningFacts
  <2>2. Stage(j) = "dead"
    BY <1>2 DEF Stage, Issued
  <2>3. Confirmed' = Confirmed \cup {j}
    <3>1. PICK new \in answers' : new.job = j /\ new.by = a /\ new.status = "Success"
      <4>1. PICK new : new = [job |-> j, by |-> a, status |-> "Success"]
        OBVIOUS
      <4> QED
        BY <1>2, <4>1 DEF Answer
    <3>2. asked[j].tier # a
      BY <1>2, <1>6
    <3> QED
      BY <1>3, <3>1, <3>2 DEF Confirmed
  <2>4. Contract!Confirm(j)
    BY <1>4, <2>1, <2>2, <2>3 DEF Contract!Confirm, SameStage
  <2> QED
    BY <2>4 DEF Contract!Next
<1> QED
  BY <1>5, <1>6

LEMMA WorkerBegins ==
  ASSUME Inv, Stable, NEW t \in Tiers, WorkerCheck(t)
  PROVE  [Contract!Next]_Stages
<1> USE JobIdFacts, ItemFacts DEF Inv
<1>1. workItem[t] \in Item /\ ItemOK(workItem[t], t) /\ running[t] = NoJob
  BY DEF TypeOK, WorkerInv, WorkerCheck
<1>2. PICK j \in JobId : j = workItem[t].job
  BY <1>1
<1>3. UNCHANGED <<jobs, asked, answers>>
  BY DEF WorkerCheck, callVars
<1>4. UNCHANGED Confirmed
  BY <1>3 DEF Confirmed
<1>5. CASE ~Active(j)
  <2>1. UNCHANGED running
    BY <1>2, <1>5 DEF WorkerCheck
  <2> QED
    BY <1>3, <1>4, <2>1, TableStands, RunningStays, NothingHappens
<1>6. CASE Active(j)
  <2>1. running' = [running EXCEPT ![t] = j]
    BY <1>2, <1>6 DEF WorkerCheck
  <2>2. j \notin RunningJobs
    BY <1>1, <1>2, RunningFacts DEF ItemOK
  <2>3. RunningJobs' = RunningJobs \cup {j}
    BY <1>1, <2>1 DEF RunningJobs, TypeOK
  <2>4. Stage(j) = "live"
    BY <1>1, <1>2, <1>6, <2>2 DEF Stage, ItemOK, Issued
  <2>5. \A k \in JobId : k # j => SameStage(k)
    BY <1>3, <2>3, StageStays DEF Active
  <2>6. Stage(j)' \in {"live", "last"}
    BY <1>3, <1>6, <1>1, <1>2 DEF Stage, Active, ItemOK, Issued
  <2>7. [k \in JobId |-> Stage(k)]' = [[k \in JobId |-> Stage(k)] EXCEPT ![j] = Stage(j)']
    BY <2>5, LifeMoves
  <2>8. Contract!Begin(j)
    <3>1. CASE Stage(j)' = "last"
      BY <1>4, <2>2, <2>3, <2>4, <2>7, <3>1 DEF Contract!Begin
    <3>2. CASE Stage(j)' = "live"
      <4>1. \A k \in JobId : SameStage(k)
        BY <2>4, <2>5, <3>2 DEF SameStage
      <4>2. UNCHANGED [k \in JobId |-> Stage(k)]
        BY <4>1 DEF SameStage
      <4> QED
        BY <1>4, <2>2, <2>3, <2>4, <4>2 DEF Contract!Begin
    <3> QED
      BY <2>6, <3>1, <3>2
  <2> QED
    BY <2>8 DEF Contract!Next
<1> QED
  BY <1>5, <1>6

LEMMA WorkerEnds ==
  ASSUME Inv, Stable, NEW t \in Tiers, WorkerReturn(t)
  PROVE  Contract!Next
<1> USE JobIdFacts, ItemFacts DEF Inv
<1>1. workItem[t] \in Item /\ ItemOK(workItem[t], t)
  BY DEF TypeOK, WorkerInv, WorkerReturn
<1>2. PICK j \in JobId : j = workItem[t].job
  BY <1>1
<1>3. running[t] = j /\ running' = [running EXCEPT ![t] = NoJob] /\ UNCHANGED <<asked, answers>>
  BY <1>2 DEF WorkerReturn, WorkerInv, callVars
<1>4. UNCHANGED Confirmed
  BY <1>3 DEF Confirmed
<1>5. Issued(j) /\ asked[j].tier = t
  BY <1>1, <1>2 DEF ItemOK
<1>6. j \in RunningJobs /\ RunningJobs' = RunningJobs \ {j}
  <2>1. \A u \in Tiers : running[u] = j => u = t
    BY <1>5 DEF WorkerInv, ItemOK
  <2> QED
    BY <1>3, <2>1 DEF RunningJobs, TypeOK
<1>7. \A k \in JobId : k # j => (Active(k)' <=> Active(k))
  <2>1. CASE Detach(j) /\ Active(j)
    BY <2>1, DetachEffect DEF TypeOK, JobTable
  <2>2. CASE UNCHANGED jobs
    BY <2>2 DEF Active
  <2> QED
    BY <1>2, <2>1, <2>2 DEF WorkerReturn
<1>8. \A k \in JobId : k # j => SameStage(k)
  BY <1>3, <1>6, <1>7, StageStays
<1>9. Stage(j)' = IF Stage(j) = "last" THEN "dead" ELSE Stage(j)
  <2>1. CASE ~Active(j)
    <3>1. ~Active(j)'
      BY <1>5, <2>1 DEF Stable
    <3> QED
      BY <1>3, <1>5, <2>1, <3>1 DEF Stage, Issued
  <2>2. CASE Active(j) /\ workItem[t].once
    <3>1. Detach(j)
      BY <1>2, <2>2 DEF WorkerReturn
    <3>2. ~Active(j)'
      BY <2>2, <3>1, DetachEffect DEF TypeOK, JobTable
    <3>3. Stage(j) = "last"
      BY <1>1, <1>2, <1>5, <1>6, <2>2 DEF Stage, Issued, ItemOK
    <3> QED
      BY <1>3, <1>5, <3>2, <3>3 DEF Stage, Issued
  <2>3. CASE Active(j) /\ ~workItem[t].once
    <3>1. UNCHANGED jobs
      BY <2>3 DEF WorkerReturn
    <3>2. asked[j].periodic
      BY <1>1, <1>2, <2>3 DEF ItemOK
    <3> QED
      BY <1>3, <1>5, <2>3, <3>1, <3>2 DEF Stage, Issued, Active
  <2> QED
    BY <2>1, <2>2, <2>3
<1>10. PICK to : to = IF Stage(j) = "last" THEN "dead" ELSE Stage(j)
  OBVIOUS
<1>11. [k \in JobId |-> Stage(k)]' = [[k \in JobId |-> Stage(k)] EXCEPT ![j] = to]
  BY <1>8, <1>9, <1>10, LifeMoves
<1>12. Contract!End(j)
  BY <1>4, <1>6, <1>10, <1>11 DEF Contract!End
<1> QED
  BY <1>12 DEF Contract!Next

LEMMA ScheduleCreates ==
  ASSUME Inv, Stable, NEW a \in Agents, NEW ask \in Ask, Schedule(a, ask)
  PROVE  Contract!Next
<1> USE JobIdFacts DEF Inv
<1>1. PICK j \in JobId : Created(j, ask)
  BY ScheduleStep
<1>2. UNCHANGED <<running, answers>>
  BY DEF Schedule, workVars, callVars
<1>3. UNCHANGED RunningJobs /\ UNCHANGED Confirmed
  BY <1>2, RunningStays, ConfirmedStays
<1>4. j \notin RunningJobs
  BY <1>1, RunningFacts DEF Created
<1>5. \A k \in JobId : k # j => asked'[k] = asked[k] /\ (Active(k)' <=> Active(k))
  BY <1>1 DEF Created, TypeOK
<1>6. \A k \in JobId : k # j => SameStage(k)
  BY <1>3, <1>5, StageStays
<1>7. Stage(j) = "unborn"
  BY <1>1 DEF Created, Stage, Issued
<1>8. Stage(j)' = "live"
  BY <1>1, <1>3, <1>4 DEF Created, Stage, TypeOK
<1>9. Contract!Create(j)
  BY <1>3, <1>6, <1>7, <1>8, LifeMoves DEF Contract!Create
<1> QED
  BY <1>9 DEF Contract!Next

LEMMA StepImplements == Inv /\ [Next]_vars => [Contract!Next]_Stages
<1> SUFFICES ASSUME Inv, [Next]_vars PROVE [Contract!Next]_Stages
  OBVIOUS
<1>0. Stable
  BY StepStable DEF Inv
<1> USE JobIdFacts
<1>1. ASSUME UNCHANGED <<jobs, asked, running, answers>> PROVE UNCHANGED Stages
  <2>1. UNCHANGED RunningJobs /\ UNCHANGED Confirmed
    BY <1>1 DEF RunningJobs, Confirmed
  <2> QED
    BY <1>1, <2>1, TableStands, NothingHappens
<1>2. ASSUME NEW a \in Agents, NEW ask \in Ask, Schedule(a, ask) PROVE Contract!Next
  BY <1>0, <1>2, ScheduleCreates
<1>3. ASSUME NEW a \in Agents, NEW ask \in Ask, ScheduleFails(a, ask) PROVE UNCHANGED Stages
  <2>1. NotCreated
    BY <1>3, ScheduleFailsStep DEF Inv
  <2>2. UNCHANGED RunningJobs /\ UNCHANGED Confirmed
    BY <1>3 DEF ScheduleFails, workVars, callVars, RunningJobs, Confirmed
  <2>3. \A k \in JobId : SameStage(k)
    BY <2>1, <2>2, StageStays DEF NotCreated
  <2> QED
    BY <2>2, <2>3, NothingHappens
<1>4. ASSUME NEW a \in Agents, NEW j \in JobId, Cancel(a, j) PROVE [Contract!Next]_Stages
  <2>1. CASE Active(j)
    <3>1. Detaches(j) /\ UNCHANGED <<running, answers>>
      BY <1>4, <2>1 DEF Cancel, Detaches, workVars
    <3> QED
      BY <1>0, <3>1, DetachKills
  <2>2. CASE ~Active(j)
    <3>1. UNCHANGED <<jobs, asked, running>> /\ Answer(a, j, "NotFound")
      BY <1>4, <2>2 DEF Cancel, workVars
    <3>2. UNCHANGED Confirmed
      <4>1. /\ \A r \in answers' : r \in answers \/ r.status # "Success"
            /\ answers \subseteq answers'
        BY <3>1, NewAnswer
      <4> QED
        BY <1>0, <4>1, ConfirmedStays DEF Inv
    <3> QED
      BY <3>1, <3>2, TableStands, RunningStays, NothingHappens
  <2> QED
    BY <2>1, <2>2
<1>5. ASSUME NEW a \in Agents, CancelStop(a) PROVE [Contract!Next]_Stages
  <2>1. UNCHANGED <<jobs, asked, running>> /\ callPc[a] # "idle"
    BY <1>5 DEF CancelStop, workVars
  <2>2. CASE callTier[a] = a
    BY <1>0, <1>5, <2>1, <2>2, CancelReturning DEF CancelStop
  <2>3. CASE callTier[a] # a
    BY <1>1, <1>5, <2>1, <2>3 DEF CancelStop
  <2> QED
    BY <2>2, <2>3
<1>6. ASSUME NEW a \in Agents, CancelFence(a) PROVE [Contract!Next]_Stages
  BY <1>0, <1>6, CancelReturning DEF CancelFence, workVars
<1>7. ASSUME CallbackClean PROVE [Contract!Next]_Stages
  <2>1. cbJob \in JobId /\ UNCHANGED <<running, answers, asked>>
    BY <1>7 DEF CallbackClean, Inv, CallbackInv, TypeOK, workVars, callVars
  <2>2. CASE Active(cbJob)
    <3>1. Detaches(cbJob)
      BY <1>7, <2>1, <2>2 DEF CallbackClean, Detaches
    <3> QED
      BY <1>0, <2>1, <3>1, DetachKills
  <2>3. CASE ~Active(cbJob)
    BY <1>1, <1>7, <2>1, <2>3 DEF CallbackClean
  <2> QED
    BY <2>2, <2>3
<1>8. ASSUME NEW t \in Tiers, WorkerCheck(t) PROVE [Contract!Next]_Stages
  BY <1>0, <1>8, WorkerBegins
<1>9. ASSUME NEW t \in Tiers, WorkerReturn(t) PROVE [Contract!Next]_Stages
  BY <1>0, <1>9, WorkerEnds
<1>10. ASSUME \/ \E j \in JobId : TimerFires(j)
              \/ CallbackLookup \/ CallbackSend \/ CallbackFree
              \/ \E t \in Tiers : WorkerReceive(t) \/ WorkerFree(t)
              \/ UNCHANGED vars
       PROVE  UNCHANGED Stages
  <2>1. UNCHANGED <<jobs, asked, running, answers>>
    BY <1>10 DEF TimerFires, CallbackLookup, CallbackSend, CallbackFree, WorkerReceive, WorkerFree,
       vars, workVars, callVars
  <2> QED
    BY <1>1, <2>1
<1> QED
  BY <1>2, <1>3, <1>4, <1>5, <1>6, <1>7, <1>8, <1>9, <1>10
  DEF Next, InCancel, Callback, Worker

\* The scheduler implements JobContract: no run of a cancelled or released job
\* begins, no job runs twice at a time, a one-shot runs once, and a job
\* reported cancelled is quiet.
THEOREM SchedulerImplementsContract == Spec => Implements
<1>1. Init => Contract!Init
  <2> SUFFICES ASSUME Init PROVE Contract!Init
    OBVIOUS
  <2>1. RunningJobs = {} /\ Confirmed = {}
    BY JobIdFacts DEF Init, RunningJobs, Confirmed
  <2>2. \A j \in JobId : Stage(j) = "unborn"
    BY DEF Init, Stage
  <2> QED
    BY <2>1, <2>2 DEF Contract!Init
<1> QED
  BY <1>1, SchedulerInvariant, StepImplements, PTL DEF Spec, Contract!Spec, Implements, Stages,
     Contract!vars
=============================================================================
