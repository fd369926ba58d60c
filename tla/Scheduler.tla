----------------------------- MODULE Scheduler -----------------------------
(***************************************************************************)
(* The kernel scheduler on the target: a static job table under mutex_, an *)
(* esp_timer per job, one timer task that runs every timer callback, and   *)
(* per tier a bounded queue and one worker task that runs the jobs.        *)
(*                                                                         *)
(* What a task does between two operations on shared state is one step: a  *)
(* critical section under mutex_, a queue operation, the stop and delete   *)
(* of a timer no table entry refers to any more, the start and the end of  *)
(* a job function.  Job functions may call the scheduler themselves.       *)
(* A job is named by its slot and generation, as in JobHandle.             *)
(***************************************************************************)
EXTENDS Naturals, Sequences, FiniteSets

CONSTANTS Clients,      \* tasks that use the scheduler and are not its workers
          Tiers,        \* the values of Priority
          CallingTiers, \* the tiers whose job functions call the scheduler
          NumJobs,      \* kMaxJobs
          QueueDepth,   \* kWorkerQueueDepth
          MaxGen,       \* bound: jobs made in one slot (below 2^16, the width)
          MaxSchedule,  \* bound: jobs made in all
          NoJob         \* not a job (kNoSlot)

Slots  == 1 .. NumJobs
JobId  == Slots \X (1 .. MaxGen)
Ask    == [tier : Tiers, periodic : BOOLEAN]
Item   == [job : JobId, once : BOOLEAN]
Agents == Clients \cup Tiers

ASSUME SchedulerAssumption ==
  /\ Clients \cap Tiers = {}
  /\ Tiers # {}
  /\ CallingTiers \subseteq Tiers
  /\ NumJobs \in Nat
  /\ QueueDepth \in Nat
  /\ MaxGen \in Nat
  /\ NoJob \notin JobId /\ NoJob \notin Item /\ NoJob \notin Ask

VARIABLES
  jobs,      \* jobs_: active, generation, priority and periodic of each slot
  asked,     \* history: what each job was scheduled as
  timers,    \* the esp_timers that exist, named by the job they were made for
  armed,     \* those that will fire
  cbPc,      \* where the timer task stands in timerCallback()
  cbJob,     \* the slot and generation packed in its arg
  cbOnce,    \* item.release_after_run, copied from the job
  queues,    \* tier_queues_
  workPc,    \* where each worker stands in workerTaskEntry()
  workItem,  \* the item it received
  running,   \* running_slot_ and running_generation_
  callPc,    \* where each agent stands in cancel()
  callJob,   \* the handle it gave
  callTier,  \* the tier it read
  answers    \* history: what cancel() returned about which job

vars == <<jobs, asked, timers, armed, cbPc, cbJob, cbOnce, queues, workPc, workItem,
          running, callPc, callJob, callTier, answers>>

cbVars   == <<cbPc, cbJob, cbOnce>>
workVars == <<workPc, workItem, running>>
callVars == <<callPc, callJob, callTier, answers>>
timeVars == <<timers, armed>>

Active(j) == jobs[j[1]].active /\ jobs[j[1]].gen = j[2]

\* An agent may call the scheduler: a worker does so from a job function.
CanCall(a) ==
  /\ callPc[a] = "idle"
  /\ a \in Clients \/ (a \in CallingTiers /\ workPc[a] = "run")

Init ==
  /\ jobs = [s \in Slots |-> [active |-> FALSE, gen |-> 0,
                              tier |-> CHOOSE t \in Tiers : TRUE, periodic |-> FALSE]]
  /\ asked = [j \in JobId |-> NoJob]
  /\ timers = {} /\ armed = {}
  /\ cbPc = "idle" /\ cbJob = NoJob /\ cbOnce = FALSE
  /\ queues = [t \in Tiers |-> <<>>]
  /\ workPc = [t \in Tiers |-> "wait"]
  /\ workItem = [t \in Tiers |-> NoJob]
  /\ running = [t \in Tiers |-> NoJob]
  /\ callPc = [a \in Agents |-> "idle"]
  /\ callJob = [a \in Agents |-> NoJob]
  /\ callTier = [a \in Agents |-> NoJob]
  /\ answers = {}

-----------------------------------------------------------------------------
(* detachTimerLocked() and stopTimer()                                       *)

Detach(j) == jobs' = [jobs EXCEPT ![j[1]].active = FALSE]

StopTimer(j) ==
  /\ timers' = timers \ {j}
  /\ armed' = armed \ {j}

-----------------------------------------------------------------------------
(* schedule(), for every() and once(): the whole body holds mutex_.          *)

FreeSlot(s) ==
  /\ ~jobs[s].active
  /\ \A r \in Slots : r < s => jobs[r].active
  /\ jobs[s].gen < MaxGen
  /\ Cardinality({j \in JobId : j[2] <= jobs[j[1]].gen}) < MaxSchedule

Schedule(a, ask) ==
  /\ CanCall(a)
  /\ \E s \in Slots :
       LET j == <<s, jobs[s].gen + 1>> IN
       /\ FreeSlot(s)
       /\ jobs' = [jobs EXCEPT ![s] = [active |-> TRUE, gen |-> @.gen + 1,
                                       tier |-> ask.tier, periodic |-> ask.periodic]]
       /\ asked' = [asked EXCEPT ![j] = ask]
       /\ timers' = timers \cup {j}
       /\ armed' = armed \cup {j}
  /\ UNCHANGED <<cbVars, queues, workVars, callVars>>

\* esp_timer_create() or the start fails: the slot stays free, and its
\* generation has moved on.
ScheduleFails(a, ask) ==
  /\ CanCall(a)
  /\ \E s \in Slots :
       /\ FreeSlot(s)
       /\ jobs' = [jobs EXCEPT ![s] = [active |-> FALSE, gen |-> @.gen + 1,
                                       tier |-> ask.tier, periodic |-> ask.periodic]]
  /\ UNCHANGED <<asked, timeVars, cbVars, queues, workVars, callVars>>

-----------------------------------------------------------------------------
(* cancel()                                                                  *)

Answer(a, j, status) ==
  answers' = answers \cup {[job |-> j, by |-> a, status |-> status]}

\* Fault variant: the generation of the handle is not compared.
CancelAnyGeneration(a, j) ==
  /\ CanCall(a)
  /\ asked[j] # NoJob
  /\ jobs[j[1]].active
  /\ Detach(j)
  /\ callPc' = [callPc EXCEPT ![a] = "stop"]
  /\ callJob' = [callJob EXCEPT ![a] = j]
  /\ callTier' = [callTier EXCEPT ![a] = jobs[j[1]].tier]
  /\ UNCHANGED <<answers, asked, timeVars, cbVars, queues, workVars>>

\* The first critical section.  Any handle ever returned may be given.
Cancel(a, j) ==
  /\ CanCall(a)
  /\ asked[j] # NoJob
  /\ \/ /\ Active(j)
        /\ Detach(j)
        /\ callPc' = [callPc EXCEPT ![a] = "stop"]
        /\ callJob' = [callJob EXCEPT ![a] = j]
        /\ callTier' = [callTier EXCEPT ![a] = jobs[j[1]].tier]
        /\ UNCHANGED answers
     \/ /\ ~Active(j)
        /\ Answer(a, j, "NotFound")
        /\ UNCHANGED <<jobs, callPc, callJob, callTier>>
  /\ UNCHANGED <<asked, timeVars, cbVars, queues, workVars>>

Returns(a) ==
  /\ callPc' = [callPc EXCEPT ![a] = "idle"]
  /\ callJob' = [callJob EXCEPT ![a] = NoJob]
  /\ callTier' = [callTier EXCEPT ![a] = NoJob]
  /\ Answer(a, callJob[a], "Success")

\* Fault variant: a worker waits for itself too.
CancelStopAlwaysFences(a) ==
  /\ callPc[a] = "stop"
  /\ StopTimer(callJob[a])
  /\ callPc' = [callPc EXCEPT ![a] = "fence"]
  /\ UNCHANGED <<jobs, asked, cbVars, queues, workVars, callJob, callTier, answers>>

\* After the lock: stop the timer; a worker that cancels a job of its own
\* tier returns at once, anyone else goes on to the fence.
CancelStop(a) ==
  /\ callPc[a] = "stop"
  /\ StopTimer(callJob[a])
  /\ \/ /\ callTier[a] = a
        /\ Returns(a)
     \/ /\ callTier[a] # a
        /\ callPc' = [callPc EXCEPT ![a] = "fence"]
        /\ UNCHANGED <<callJob, callTier, answers>>
  /\ UNCHANGED <<jobs, asked, cbVars, queues, workVars>>

\* Fault variant: the fence looks at the wrong tiers.
CancelFenceWrongTier(a) ==
  /\ callPc[a] = "fence"
  /\ \A t \in Tiers \ {callTier[a]} : running[t] # callJob[a]
  /\ Returns(a)
  /\ UNCHANGED <<jobs, asked, timeVars, cbVars, queues, workVars>>

\* The poll that ends the fence; a poll that finds the job running changes
\* nothing.
CancelFence(a) ==
  /\ callPc[a] = "fence"
  /\ running[callTier[a]] # callJob[a]
  /\ Returns(a)
  /\ UNCHANGED <<jobs, asked, timeVars, cbVars, queues, workVars>>

-----------------------------------------------------------------------------
(* timerCallback(), on the timer task                                        *)

TimerFires(j) ==
  /\ cbPc = "idle"
  /\ j \in armed
  /\ armed' = IF asked[j].periodic THEN armed ELSE armed \ {j}
  /\ cbPc' = "fired"
  /\ cbJob' = j
  /\ UNCHANGED <<jobs, asked, timers, cbOnce, queues, workVars, callVars>>

CallbackDone == cbPc' = "idle" /\ cbJob' = NoJob /\ cbOnce' = FALSE

CallbackLookup ==
  /\ cbPc = "fired"
  /\ \/ /\ Active(cbJob)
        /\ cbOnce' = ~jobs[cbJob[1]].periodic
        /\ cbPc' = "send"
        /\ UNCHANGED cbJob
     \/ ~Active(cbJob) /\ CallbackDone
  /\ UNCHANGED <<jobs, asked, timeVars, queues, workVars, callVars>>

\* Fault variant: the queue takes one item too many.
CallbackSendPastFull ==
  /\ cbPc = "send"
  /\ LET t == asked[cbJob].tier IN
     /\ Len(queues[t]) <= QueueDepth
     /\ queues' = [queues EXCEPT ![t] = Append(@, [job |-> cbJob, once |-> cbOnce])]
  /\ CallbackDone
  /\ UNCHANGED <<jobs, asked, timeVars, workVars, callVars>>

\* Fault variant: a one-shot that is skipped keeps its slot.
CallbackSendForgets ==
  /\ cbPc = "send"
  /\ LET t == asked[cbJob].tier IN
     queues' = IF Len(queues[t]) < QueueDepth
               THEN [queues EXCEPT ![t] = Append(@, [job |-> cbJob, once |-> cbOnce])]
               ELSE queues
  /\ CallbackDone
  /\ UNCHANGED <<jobs, asked, timeVars, workVars, callVars>>

\* Outside the lock.  A full queue skips this run; for a one-shot the slot
\* is released, as no worker will do it.
CallbackSend ==
  /\ cbPc = "send"
  /\ LET t == asked[cbJob].tier IN
     \/ /\ Len(queues[t]) < QueueDepth
        /\ queues' = [queues EXCEPT ![t] = Append(@, [job |-> cbJob, once |-> cbOnce])]
        /\ CallbackDone
     \/ /\ Len(queues[t]) >= QueueDepth
        /\ IF cbOnce THEN cbPc' = "clean" /\ UNCHANGED <<cbJob, cbOnce>> ELSE CallbackDone
        /\ UNCHANGED queues
  /\ UNCHANGED <<jobs, asked, timeVars, workVars, callVars>>

\* Fault variant: the skipped one-shot leaves the table, its timer stays.
CallbackCleanKeepsTimer ==
  /\ cbPc = "clean"
  /\ jobs' = IF Active(cbJob) THEN [jobs EXCEPT ![cbJob[1]].active = FALSE] ELSE jobs
  /\ CallbackDone
  /\ UNCHANGED <<asked, timeVars, queues, workVars, callVars>>

CallbackClean ==
  /\ cbPc = "clean"
  /\ \/ /\ Active(cbJob)
        /\ Detach(cbJob)
        /\ cbPc' = "free"
        /\ UNCHANGED <<cbJob, cbOnce>>
     \/ /\ ~Active(cbJob)
        /\ CallbackDone
        /\ UNCHANGED jobs
  /\ UNCHANGED <<asked, timeVars, queues, workVars, callVars>>

CallbackFree ==
  /\ cbPc = "free"
  /\ StopTimer(cbJob)
  /\ CallbackDone
  /\ UNCHANGED <<jobs, asked, queues, workVars, callVars>>

-----------------------------------------------------------------------------
(* workerTaskEntry(), one worker per tier                                    *)

WorkerReceive(t) ==
  /\ workPc[t] = "wait"
  /\ queues[t] # <<>>
  /\ workItem' = [workItem EXCEPT ![t] = Head(queues[t])]
  /\ queues' = [queues EXCEPT ![t] = Tail(@)]
  /\ workPc' = [workPc EXCEPT ![t] = "check"]
  /\ UNCHANGED <<jobs, asked, timeVars, cbVars, running, callVars>>

WorkerIdle(t) ==
  /\ workPc' = [workPc EXCEPT ![t] = "wait"]
  /\ workItem' = [workItem EXCEPT ![t] = NoJob]

\* Fault variant: the job is not looked up again.
WorkerCheckNothing(t) ==
  /\ workPc[t] = "check"
  /\ running' = [running EXCEPT ![t] = workItem[t].job]
  /\ workPc' = [workPc EXCEPT ![t] = "run"]
  /\ UNCHANGED <<workItem, jobs, asked, timeVars, cbVars, queues, callVars>>

\* Under mutex_: a job cancelled since its item was queued is skipped, a
\* valid one is marked running before the lock is released.
WorkerCheck(t) ==
  /\ workPc[t] = "check"
  /\ LET j == workItem[t].job IN
     \/ /\ Active(j)
        /\ running' = [running EXCEPT ![t] = j]
        /\ workPc' = [workPc EXCEPT ![t] = "run"]
        /\ UNCHANGED workItem
     \/ ~Active(j) /\ WorkerIdle(t) /\ UNCHANGED running
  /\ UNCHANGED <<jobs, asked, timeVars, cbVars, queues, callVars>>

\* The job function returns (any call it made has returned); under mutex_ the
\* mark is cleared and a one-shot that is still in the table is released.
WorkerReturn(t) ==
  /\ workPc[t] = "run"
  /\ callPc[t] = "idle"
  /\ running' = [running EXCEPT ![t] = NoJob]
  /\ LET j == workItem[t].job IN
     \/ /\ workItem[t].once /\ Active(j)
        /\ Detach(j)
        /\ workPc' = [workPc EXCEPT ![t] = "free"]
        /\ UNCHANGED workItem
     \/ ~(workItem[t].once /\ Active(j)) /\ WorkerIdle(t) /\ UNCHANGED jobs
  /\ UNCHANGED <<asked, timeVars, cbVars, queues, callVars>>

WorkerFree(t) ==
  /\ workPc[t] = "free"
  /\ StopTimer(workItem[t].job)
  /\ WorkerIdle(t)
  /\ UNCHANGED <<jobs, asked, cbVars, queues, running, callVars>>

-----------------------------------------------------------------------------
Callback == CallbackLookup \/ CallbackSend \/ CallbackClean \/ CallbackFree

Worker(t) == WorkerReceive(t) \/ WorkerCheck(t) \/ WorkerReturn(t) \/ WorkerFree(t)

InCancel(a) == CancelStop(a) \/ CancelFence(a)

Next ==
  \/ \E a \in Agents, ask \in Ask : Schedule(a, ask) \/ ScheduleFails(a, ask)
  \/ \E a \in Agents, j \in JobId : Cancel(a, j)
  \/ \E a \in Agents : InCancel(a)
  \/ \E j \in JobId : TimerFires(j)
  \/ Callback
  \/ \E t \in Tiers : Worker(t)

Spec == Init /\ [][Next]_vars

\* Every task is run by FreeRTOS until it blocks; job functions return ("call-
\* backs must not busy-loop"); the timer service serves expired timers in the
\* order they expire, so none waits for ever.  Nobody has to schedule or cancel.
Fairness ==
  /\ WF_vars(Callback)
  /\ \A t \in Tiers : WF_vars(Worker(t))
  /\ \A a \in Agents : WF_vars(InCancel(a))
  /\ \A j \in JobId : SF_vars(TimerFires(j))

FairSpec == Spec /\ Fairness

-----------------------------------------------------------------------------
(* The abstract state.                                                       *)

RunningJobs == {j \in JobId : \E t \in Tiers : running[t] = j}

Stage(j) ==
  IF asked[j] = NoJob THEN "unborn"
  ELSE IF ~Active(j) THEN "dead"
  ELSE IF j \in RunningJobs /\ ~asked[j].periodic THEN "last"
  ELSE "live"

\* cancel() reported success to someone who is not the job's own worker.
Confirmed ==
  {j \in JobId : \E r \in answers : r.job = j /\ r.status = "Success" /\ r.by # asked[j].tier}

Contract == INSTANCE JobContract
              WITH Job <- JobId, life <- [j \in JobId |-> Stage(j)],
                   active <- RunningJobs, quiet <- Confirmed

-----------------------------------------------------------------------------
(* Properties.                                                               *)

TypeOK ==
  /\ jobs \in [Slots -> [active : BOOLEAN, gen : 0 .. MaxGen, tier : Tiers, periodic : BOOLEAN]]
  /\ asked \in [JobId -> Ask \cup {NoJob}]
  /\ timers \subseteq JobId /\ armed \subseteq JobId
  /\ cbPc \in {"idle", "fired", "send", "clean", "free"}
  /\ cbJob \in JobId \cup {NoJob}
  /\ cbOnce \in BOOLEAN
  /\ queues \in [Tiers -> Seq(Item)] /\ \A t \in Tiers : Len(queues[t]) <= QueueDepth
  /\ workPc \in [Tiers -> {"wait", "check", "run", "free"}]
  /\ workItem \in [Tiers -> Item \cup {NoJob}]
  /\ running \in [Tiers -> JobId \cup {NoJob}]
  /\ callPc \in [Agents -> {"idle", "stop", "fence"}]
  /\ callJob \in [Agents -> JobId \cup {NoJob}]
  /\ callTier \in [Agents -> Tiers \cup {NoJob}]
  /\ answers \subseteq [job : JobId, by : Agents, status : {"Success", "NotFound"}]

\* Somebody will stop and delete the timer of j.
BeingFreed(j) ==
  \/ \E a \in Agents : callPc[a] = "stop" /\ callJob[a] = j
  \/ \E t \in Tiers : workPc[t] = "free" /\ workItem[t].job = j
  \/ cbPc = "free" /\ cbJob = j

\* Timers are neither leaked nor deleted twice: a timer exists exactly while
\* its job is in the table or one task has taken it out to delete it.
TimersAreOwned ==
  /\ \A j \in JobId : j \in timers <=> Active(j) \/ BeingFreed(j)
  /\ \A j \in JobId : ~(Active(j) /\ BeingFreed(j))
  /\ armed \subseteq timers

\* A stale handle, of a slot reused since, harms nobody: a periodic job stays
\* scheduled until cancel() is called with its own handle.
OnlyOwnHandleCancels ==
  \A j \in JobId :
    (/\ asked[j] # NoJob /\ asked[j].periodic
     /\ \A r \in answers : r.job # j
     /\ \A a \in Agents : callJob[a] # j)
      => Active(j)

\* The fence: once cancel() has reported success to anyone but the job's own
\* worker, the job's callback is not running, now or ever: its ctx may be freed.
CancelledIsQuiet == Confirmed \cap RunningJobs = {}

\* The scheduler implements its contract: no run of a cancelled or released
\* job begins, no job runs twice at a time, a one-shot runs once, and after a
\* successful cancel() the callback is not running.
Implements == Contract!Spec

\* "The job slot is released automatically after it fires": a one-shot leaves
\* the table, also when its tier's queue was full.
OneShotsAreReleased ==
  \A j \in JobId : (Active(j) /\ ~asked[j].periodic) ~> ~Active(j)

\* cancel() returns, when only the jobs of one tier call it.
CancelReturns == \A a \in Agents : callPc[a] # "idle" ~> callPc[a] = "idle"
=============================================================================
