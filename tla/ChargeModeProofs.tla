------------------------- MODULE ChargeModeProofs -------------------------
(***************************************************************************)
(* Proofs about ChargeMode for any callers, retries and bounds.            *)
(*                                                                         *)
(* The inductive invariant has five parts besides the types.  The radio's: *)
(* who will bring it back, of the calls that are under way, when it is not *)
(* as normal operation needs it.  The link's: the event queue tells the    *)
(* service of every connection that ended.  The calls': what each has done *)
(* when it is at a step, as long as no two calls have overlapped.  The     *)
(* sampler's, likewise.  And a count, which shows that there is a number   *)
(* left for every job.                                                     *)
(***************************************************************************)
EXTENDS ChargeMode, FiniteSetTheorems, SequenceTheorems, TLAPS

Is(t, o, s) == op[t] = o /\ step[t] \in s

\* The types, but for the numbers of the jobs.
Flags == {charge, modulesUp, overlapped, crossed, provisioning, stopped, connected, showCharge} \subseteq BOOLEAN

CallTypes ==
  /\ op \in [Callers -> Calls \cup {"none"}]
  /\ step \in [Callers -> 0 .. 8]
  /\ \A t \in Callers : step[t] # 0 => op[t] \in Calls /\ (op[t] = "reconnect" => step[t] <= 4)
  /\ calls \in 0 .. MaxCalls /\ pending \in 0 .. MaxCalls

WifiTypes ==
  /\ retry \in 0 .. MaxRetries
  /\ radio \in {"off", "sta", "ap"} /\ link \in {"none", "trying", "up"}
  /\ link # "none" => radio = "sta"
  /\ events \in Seq({"start", "ip", "lost"}) /\ Len(events) <= MaxEvents
  /\ handler \in {"idle", "provision", "ap"}

Types == Flags /\ CallTypes /\ WifiTypes

JobTypes ==
  /\ jobs \subseteq (1 .. MaxCalls + 2) \X Intervals
  /\ sampleJob \in 0 .. MaxCalls + 2

\* A call of enterChargeMode() that will set the mode, past the stop of the radio.
Entering == \E t \in Callers : Is(t, "enter", 3 .. 8)

\* The portal is open before its access point comes up.  A radio that is stopped
\* or off is so for charge mode, for a call that enters it, or until a call that is
\* under way starts it again.
RadioIsOwned ==
  /\ ~provisioning => radio # "ap" /\ handler # "ap"
  /\ ~provisioning /\ stopped =>
       charge \/ Entering \/ \E t \in Callers : Is(t, "exit", {3})
  /\ ~provisioning /\ radio # "sta" =>
       charge \/ Entering \/ \E t \in Callers : Is(t, "exit", {3, 4}) \/ Is(t, "reconnect", {4})

\* While the link is not up, the loss of every connection the service knows of, or
\* will hear of, is still to be handled.
LossIsReported ==
  ~provisioning /\ link # "up" =>
    /\ connected => \E j \in 1 .. Len(events) : events[j] = "lost"
    /\ \A i \in 1 .. Len(events) : events[i] = "ip" =>
         \E j \in 1 .. Len(events) : i < j /\ events[j] = "lost"

Resting == \A t \in Callers : step[t] = 0

\* What a call has done when it is at a step, if no calls have overlapped.
HasDone(t) ==
  /\ Is(t, "enter", 1 .. 8) => ~charge
  /\ Is(t, "enter", 2 .. 8) => ~modulesUp
  /\ Is(t, "enter", 3 .. 8) => stopped \/ provisioning
  /\ Is(t, "enter", 4 .. 8) => radio = "off" \/ provisioning
  /\ Is(t, "enter", {8})    => showCharge
  /\ Is(t, "exit", 3 .. 8)  => ~charge
  /\ Is(t, "reconnect", 1 .. 4) => ~charge

Dark ==
  /\ ~modulesUp /\ showCharge
  /\ (stopped /\ radio = "off") \/ provisioning

CallsInTurn ==
  ~overlapped =>
    /\ \A t, u \in Callers : step[t] # 0 /\ step[u] # 0 => t = u
    /\ \A t \in Callers : HasDone(t)
    /\ Resting /\ charge => Dark

\* What it has done to the sampling job.
JobsRun(mode) == \A j \in jobs : j[2] = mode

HasSampled(t) ==
  /\ Is(t, "enter", {5, 6}) \/ Is(t, "exit", {7, 8}) => jobs = {}
  /\ Is(t, "enter", {7, 8}) => JobsRun(kChargeSampleMs)
  /\ Is(t, "reconnect", 1 .. 4) => JobsRun(kNormalSampleMs)

SamplerInTurn ==
  ~overlapped =>
    /\ \A j \in jobs : j[1] = sampleJob
    /\ \A t \in Callers : HasSampled(t)
    /\ Resting => JobsRun(IF charge THEN kChargeSampleMs ELSE kNormalSampleMs)

\* The calls that have still to make a job.
Renewing == {t \in Callers : Is(t, "enter", 1 .. 6) \/ Is(t, "exit", 1 .. 8)}

\* There are no more jobs, made or to be made, than calls and the first one.
JobsAreCounted ==
  \E N \in SUBSET (1 .. MaxCalls + 2) :
    /\ \A j \in jobs : j[1] \in N
    /\ IsFiniteSet(N) /\ IsFiniteSet(Renewing)
    /\ Cardinality(N) + Cardinality(Renewing) <= calls + 1

Inv ==
  /\ Types /\ JobTypes /\ JobsAreCounted
  /\ RadioIsOwned /\ LossIsReported /\ CallsInTurn /\ SamplerInTurn

LEMMA TypeParts == Types /\ JobTypes => TypeOK
  BY DEF Types, Flags, CallTypes, WifiTypes, JobTypes, TypeOK

-----------------------------------------------------------------------------
(* The calls' steps.                                                         *)

LEMMA PathFacts ==
  /\ Len(Path["enter"]) = 8
  /\ Path["enter"][1] = "stopAll"   /\ Path["enter"][2] = "stopRadio"
  /\ Path["enter"][3] = "wifiStop"  /\ Path["enter"][4] = "cancelJob"
  /\ Path["enter"][5] = "forgetJob" /\ Path["enter"][6] = "newJob"
  /\ Path["enter"][7] = "show"      /\ Path["enter"][8] = "setMode"
  /\ Len(Path["exit"]) = 8
  /\ Path["exit"][1] = "show"      /\ Path["exit"][2] = "setMode"
  /\ Path["exit"][3] = "resume"    /\ Path["exit"][4] = "wifiStart"
  /\ Path["exit"][5] = "startAll"  /\ Path["exit"][6] = "cancelJob"
  /\ Path["exit"][7] = "forgetJob" /\ Path["exit"][8] = "newJob"
  /\ Len(Path["reconnect"]) = 4
  /\ Path["reconnect"][1] = "clearRetry" /\ Path["reconnect"][2] = "disconnect"
  /\ Path["reconnect"][3] = "wifiStop"   /\ Path["reconnect"][4] = "wifiStart"
<1>1. /\ Path["enter"] = <<"stopAll", "stopRadio", "wifiStop">> \o Resample \o <<"show", "setMode">>
      /\ Path["exit"] = <<"show", "setMode", "resume", "wifiStart", "startAll">> \o Resample
      /\ Path["reconnect"] = Reconnection
  BY DEF Path, Calls
<1> QED
  BY <1>1 DEF Resample, Reconnection

\* Where each of the steps is.
LEMMA Places ==
  ASSUME CallTypes, NEW t \in Callers, NEW s, At(t, s)
  PROVE  /\ step[t] # 0 /\ op[t] \in Calls
         /\ s = "stopAll"    => Is(t, "enter", {1})
         /\ s = "stopRadio"  => Is(t, "enter", {2})
         /\ s = "wifiStop"   => Is(t, "enter", {3}) \/ Is(t, "reconnect", {3})
         /\ s = "cancelJob"  => Is(t, "enter", {4}) \/ Is(t, "exit", {6})
         /\ s = "forgetJob"  => Is(t, "enter", {5}) \/ Is(t, "exit", {7})
         /\ s = "newJob"     => Is(t, "enter", {6}) \/ Is(t, "exit", {8})
         /\ s = "show"       => Is(t, "enter", {7}) \/ Is(t, "exit", {1})
         /\ s = "setMode"    => Is(t, "enter", {8}) \/ Is(t, "exit", {2})
         /\ s = "resume"     => Is(t, "exit", {3})
         /\ s = "wifiStart"  => Is(t, "exit", {4}) \/ Is(t, "reconnect", {4})
         /\ s = "startAll"   => Is(t, "exit", {5})
         /\ s = "clearRetry" => Is(t, "reconnect", {1})
         /\ s = "disconnect" => Is(t, "reconnect", {2})
<1>1. /\ step[t] # 0 /\ op[t] \in Calls /\ Path[op[t]][step[t]] = s
      /\ step[t] \in 1 .. 8 /\ (op[t] = "reconnect" => step[t] \in 1 .. 4)
  BY DEF At, CallTypes
<1>0. step[t] \in {1, 2, 3, 4, 5, 6, 7, 8}
  BY <1>1
<1>2. CASE op[t] = "enter"
  BY <1>0, <1>1, <1>2, PathFacts DEF Is
<1>3. CASE op[t] = "exit"
  BY <1>0, <1>1, <1>3, PathFacts DEF Is
<1>4. CASE op[t] = "reconnect"
  BY <1>0, <1>1, <1>4, PathFacts DEF Is
<1> QED
  BY <1>1, <1>2, <1>3, <1>4 DEF Calls

LEMMA AdvanceEffect ==
  ASSUME CallTypes, NEW t \in Callers, NEW n \in {1, 2}, step[t] # 0, Advance(t, n)
  PROVE  /\ CallTypes' /\ UNCHANGED <<calls, overlapped, crossed, pending>>
         /\ \A u \in Callers \ {t} : op'[u] = op[u] /\ step'[u] = step[u]
         /\ LET last == IF op[t] = "reconnect" THEN 4 ELSE 8 IN
            /\ step[t] + n > last  => step'[t] = 0
            /\ step[t] + n <= last => op'[t] = op[t] /\ step'[t] = step[t] + n
<1> DEFINE last == IF op[t] = "reconnect" THEN 4 ELSE 8
<1>1. op[t] \in Calls /\ step[t] \in 1 .. last
  BY DEF CallTypes
<1>2. Len(Path[op[t]]) = last
  BY <1>1, PathFacts DEF Calls
<1>3. CASE step[t] + n > last
  <2>1. /\ op' = [op EXCEPT ![t] = "none"] /\ step' = [step EXCEPT ![t] = 0]
        /\ UNCHANGED <<calls, overlapped, crossed, pending>>
    BY <1>2, <1>3 DEF Advance
  <2> QED
    BY <1>3, <2>1 DEF CallTypes
<1>4. CASE ~(step[t] + n > last)
  <2>1. /\ step' = [step EXCEPT ![t] = step[t] + n] /\ UNCHANGED op
        /\ UNCHANGED <<calls, overlapped, crossed, pending>>
    BY <1>2, <1>4 DEF Advance
  <2>2. step[t] + n \in 1 .. 8 /\ step[t] + n <= last
    BY <1>1, <1>4
  <2> QED
    BY <1>1, <1>4, <2>1, <2>2 DEF CallTypes
<1> QED
  BY <1>3, <1>4

LEMMA RequestEffect ==
  ASSUME Types, NEW t \in Callers, Press(t) \/ Request(t) \/ ReconnectRequest(t) \/ RunJob(t)
  PROVE  /\ Types' /\ UNCHANGED <<modeVars, wifiVars, jobVars, showCharge>>
         /\ \/ UNCHANGED <<op, step, calls, overlapped, crossed>>
            \/ \E o \in Calls : Begin(t, o)
<1> USE ChargeAssumption
<1>1. UNCHANGED <<modeVars, wifiVars, jobVars, showCharge>>
  BY DEF Press, Request, ReconnectRequest, RunJob, Begin
<1>2. pending' \in 0 .. MaxCalls
  BY DEF Press, Request, ReconnectRequest, RunJob, Types, CallTypes
<1>3. \/ UNCHANGED <<op, step, calls, overlapped, crossed>>
      \/ \E o \in Calls : Begin(t, o)
  BY DEF Press, Request, ReconnectRequest, RunJob, Calls
<1>4. WifiTypes'
  BY <1>1 DEF Types, WifiTypes, wifiVars, flagVars, driverVars
<1>5. CallTypes' /\ overlapped' \in BOOLEAN /\ crossed' \in BOOLEAN
  <2>1. CASE UNCHANGED <<op, step, calls, overlapped, crossed>>
    BY <1>2, <2>1 DEF Types, Flags, CallTypes
  <2>2. ASSUME NEW o \in Calls, Begin(t, o)
        PROVE  CallTypes' /\ overlapped' \in BOOLEAN /\ crossed' \in BOOLEAN
    BY <1>2, <2>2 DEF Begin, Types, Flags, CallTypes
  <2> QED
    BY <1>3, <2>1, <2>2
<1>6. Flags'
  BY <1>1, <1>5 DEF Types, Flags, modeVars, wifiVars, flagVars
<1> QED
  BY <1>1, <1>3, <1>4, <1>5, <1>6 DEF Types

-----------------------------------------------------------------------------
(* Types.                                                                    *)

Events == {"start", "ip", "lost"}

\* What the driver posts, and what the handler takes.
LEMMA PostEffect ==
  ASSUME WifiTypes, NEW e \in Events, Post(e)
  PROVE  /\ events' \in Seq(Events) /\ Len(events') <= MaxEvents
         /\ Len(events') = Len(events) + 1 /\ Len(events) \in Nat
         /\ events'[Len(events) + 1] = e
         /\ \A i \in 1 .. Len(events) : events'[i] = events[i]
<1>1. events \in Seq(Events) /\ events' = Append(events, e) /\ Len(events) < MaxEvents
  BY DEF Post, WifiTypes, Events
<1>2. Len(events) \in Nat
  BY <1>1
<1>3. /\ events' \in Seq(Events) /\ Len(events') = Len(events) + 1
      /\ events'[Len(events) + 1] = e
      /\ \A i \in 1 .. Len(events) : events'[i] = events[i]
  BY <1>1
<1> QED
  BY <1>1, <1>2, <1>3, ChargeAssumption

LEMMA HandleEffect ==
  ASSUME WifiTypes, NEW e, Handle(e)
  PROVE  /\ events' \in Seq(Events) /\ Len(events') <= MaxEvents
         /\ Len(events) = Len(events') + 1 /\ Len(events') \in Nat
         /\ events[1] = e
         /\ \A i \in 1 .. Len(events') : events'[i] = events[i + 1]
<1>1. events \in Seq(Events) /\ events # <<>> /\ Head(events) = e /\ events' = Tail(events)
  BY DEF Handle, WifiTypes, Events
<1>2. Len(events) \in Nat \ {0}
  BY <1>1, EmptySeq
<1>3. /\ events' \in Seq(Events) /\ Len(events') = Len(events) - 1
      /\ \A i \in 1 .. Len(events') : events'[i] = events[i + 1]
  BY <1>1, HeadTailProperties
<1>4. events[1] = e
  BY <1>1, <1>2
<1>5. Len(events) <= MaxEvents
  BY DEF WifiTypes
<1> QED
  BY <1>2, <1>3, <1>4, <1>5, ChargeAssumption

LEMMA WifiStepTypes ==
  ASSUME Types, WifiEvent \/ Answer
  PROVE  Types'
<1> USE ChargeAssumption
<1>1. WifiTypes /\ Flags /\ CallTypes
  BY DEF Types
<1>2. UNCHANGED <<charge, modulesUp, callVars, stopped, showCharge>>
  BY DEF WifiEvent, Answer, StaStart, GotIp, Disconnected, StartProvisioning, StartAp, LinkUp,
         LinkLost, Handle, flagVars, modeVars
<1>3. CallTypes'
  BY <1>1, <1>2 DEF CallTypes, callVars
<1>4. provisioning' \in BOOLEAN /\ connected' \in BOOLEAN
  BY <1>1 DEF WifiEvent, Answer, StaStart, GotIp, Disconnected, StartProvisioning, StartAp,
              LinkUp, LinkLost, Handle, flagVars, Flags
<1>5. Flags'
  BY <1>1, <1>2, <1>4 DEF Flags, callVars
<1>6. /\ radio' \in {"off", "sta", "ap"} /\ link' \in {"none", "trying", "up"}
      /\ link' # "none" => radio' = "sta"
      /\ handler' \in {"idle", "provision", "ap"}
  <2>1. CASE StaStart \/ GotIp \/ Disconnected
    BY <1>1, <2>1 DEF StaStart, GotIp, Disconnected, Handle, Connect, WifiTypes
  <2>2. CASE StartProvisioning \/ StartAp \/ LinkUp \/ LinkLost
    BY <1>1, <2>2 DEF StartProvisioning, StartAp, LinkUp, LinkLost, driverVars, WifiTypes
  <2> QED
    BY <2>1, <2>2 DEF WifiEvent, Answer
<1>7. retry' \in 0 .. MaxRetries
  BY <1>1 DEF WifiEvent, Answer, StaStart, GotIp, Disconnected, StartProvisioning, StartAp,
              LinkUp, LinkLost, flagVars, WifiTypes
<1>8. events' \in Seq(Events) /\ Len(events') <= MaxEvents
  <2>1. CASE StaStart \/ GotIp \/ Disconnected
    BY <1>1, <2>1, HandleEffect DEF StaStart, GotIp, Disconnected
  <2>2. CASE LinkUp \/ LinkLost
    BY <1>1, <2>2, PostEffect DEF LinkUp, LinkLost, Events
  <2>3. CASE StartProvisioning \/ StartAp
    BY <1>1, <2>3 DEF StartProvisioning, StartAp, driverVars, WifiTypes, Events
  <2> QED
    BY <2>1, <2>2, <2>3 DEF WifiEvent, Answer
<1> QED
  BY <1>3, <1>5, <1>6, <1>7, <1>8 DEF Types, WifiTypes, Events

LEMMA ProceedTypes ==
  ASSUME Types, NEW t \in Callers, Proceed(t)
  PROVE  Types'
<1> USE ChargeAssumption
<1>1. WifiTypes /\ Flags /\ CallTypes
  BY DEF Types
<1>2. step[t] # 0 /\ (Advance(t, 1) \/ Advance(t, 2))
  BY DEF Proceed, SwitchModules, SetMode, StopRadio, Resume, SwitchRadio, ClearRetry, HangUp,
         CancelJob, ForgetJob, NewJob, Show, At
<1>3. CallTypes' /\ UNCHANGED <<overlapped, crossed>>
  BY <1>1, <1>2, AdvanceEffect
<1>4. /\ charge' \in BOOLEAN /\ modulesUp' \in BOOLEAN /\ provisioning' \in BOOLEAN
      /\ stopped' \in BOOLEAN /\ connected' \in BOOLEAN /\ showCharge' \in BOOLEAN
  BY <1>1 DEF Proceed, SwitchModules, SetMode, StopRadio, Resume, SwitchRadio, ClearRetry, HangUp,
              CancelJob, ForgetJob, NewJob, Show, modeVars, wifiVars, flagVars, Flags
<1>5. Flags'
  BY <1>1, <1>3, <1>4 DEF Flags
<1>6. WifiTypes'
  <2>1. CASE SwitchModules(t) \/ SetMode(t) \/ CancelJob(t) \/ ForgetJob(t) \/ NewJob(t) \/ Show(t)
    BY <1>1, <2>1 DEF SwitchModules, SetMode, CancelJob, ForgetJob, NewJob, Show, wifiVars,
                      flagVars, driverVars, WifiTypes
  <2>2. CASE StopRadio(t) \/ Resume(t) \/ ClearRetry(t)
    BY <1>1, <2>2 DEF StopRadio, Resume, ClearRetry, flagVars, driverVars, WifiTypes
  <2>3. CASE SwitchRadio(t) \/ HangUp(t)
    <3>1. DriverStop \/ DriverStart \/ Disconnect
      BY <2>3 DEF SwitchRadio, HangUp
    <3>2. UNCHANGED <<retry, handler>>
      BY <2>3 DEF SwitchRadio, HangUp, flagVars
    <3>3. Post("lost") \/ Post("start") \/ UNCHANGED events
      BY <3>1 DEF DriverStop, DriverStart, Disconnect
    <3>4. events' \in Seq(Events) /\ Len(events') <= MaxEvents
      BY <1>1, <3>3, PostEffect DEF Events, WifiTypes
    <3>5. /\ radio' \in {"off", "sta", "ap"} /\ link' \in {"none", "trying", "up"}
          /\ link' # "none" => radio' = "sta"
      BY <1>1, <3>1 DEF DriverStop, DriverStart, Disconnect, WifiTypes
    <3> QED
      BY <1>1, <3>2, <3>4, <3>5 DEF WifiTypes, Events
  <2> QED
    BY <2>1, <2>2, <2>3 DEF Proceed
<1> QED
  BY <1>3, <1>5, <1>6 DEF Types

LEMMA InitTypes == Init => Types /\ JobTypes
<1> SUFFICES ASSUME Init PROVE Flags /\ CallTypes /\ WifiTypes /\ JobTypes
  BY DEF Types
<1> USE ChargeAssumption
<1>a. Flags
  BY DEF Init, Flags
<1>b. /\ op \in [Callers -> Calls \cup {"none"}] /\ step \in [Callers -> 0 .. 8]
      /\ \A t \in Callers : step[t] = 0
  BY DEF Init
<1>c. calls \in 0 .. MaxCalls /\ pending \in 0 .. MaxCalls
  BY DEF Init
<1>1. Flags /\ CallTypes
  BY <1>a, <1>b, <1>c DEF CallTypes
<1>2. events = <<"start">>
  BY DEF Init
<1>3. events \in Seq(Events) /\ Len(events) = 1
  BY <1>2 DEF Events
<1>4. WifiTypes
  BY <1>3 DEF Init, WifiTypes, Events
<1>5. JobTypes
  BY DEF Init, JobTypes, Intervals
<1> QED
  BY <1>1, <1>4, <1>5

LEMMA StepTypes == Types /\ [Next]_vars => Types'
<1> SUFFICES ASSUME Types, [Next]_vars PROVE Types'
  OBVIOUS
<1>1. CASE UNCHANGED vars
  BY <1>1 DEF vars, modeVars, callVars, wifiVars, flagVars, driverVars, Types, Flags, CallTypes,
              WifiTypes
<1> QED
  BY <1>1, RequestEffect, ProceedTypes, WifiStepTypes DEF Next

-----------------------------------------------------------------------------
(* The radio comes back: a radio that is not as normal operation needs it    *)
(* has a call that will start it, or charge mode, to answer for it.          *)

\* A task begins a call, or does not: the others are where they were.
LEMMA BeginEffect ==
  ASSUME Types, NEW t \in Callers, NEW o \in Calls, Begin(t, o)
  PROVE  /\ step[t] = 0 /\ step'[t] = 1 /\ op'[t] = o /\ Admits(o)
         /\ \A u \in Callers \ {t} : op'[u] = op[u] /\ step'[u] = step[u]
         /\ calls' = calls + 1
         /\ ~overlapped' => ~overlapped /\ \A u \in Callers : step[u] = 0
  BY DEF Begin, Types, CallTypes, Flags

LEMMA RadioKept ==
  ASSUME RadioIsOwned, NEW t \in Callers, UNCHANGED <<charge, provisioning, stopped, radio, handler>>,
         \A u \in Callers \ {t} : op'[u] = op[u] /\ step'[u] = step[u],
         Is(t, "enter", 3 .. 8) => Is(t, "enter", 3 .. 8)',
         ~Is(t, "exit", {3, 4}), ~Is(t, "reconnect", {4})
  PROVE  RadioIsOwned'
<1>1. Entering => Entering'
  BY DEF Entering, Is
<1>2. (\E u \in Callers : Is(u, "exit", {3})) => (\E u \in Callers : Is(u, "exit", {3}))'
  BY DEF Is
<1>3. (\E u \in Callers : Is(u, "exit", {3, 4}) \/ Is(u, "reconnect", {4}))
        => (\E u \in Callers : Is(u, "exit", {3, 4}) \/ Is(u, "reconnect", {4}))'
  BY DEF Is
<1> QED
  BY <1>1, <1>2, <1>3 DEF RadioIsOwned

LEMMA RadioRequest ==
  ASSUME Types, RadioIsOwned, NEW t \in Callers,
         Press(t) \/ Request(t) \/ ReconnectRequest(t) \/ RunJob(t)
  PROVE  RadioIsOwned'
<1>1. UNCHANGED <<charge, provisioning, stopped, radio, handler>>
  BY RequestEffect DEF modeVars, wifiVars, flagVars, driverVars
<1>2. CASE UNCHANGED <<op, step, calls, overlapped, crossed>>
  BY <1>1, <1>2 DEF RadioIsOwned, Entering, Is
<1>3. ASSUME NEW o \in Calls, Begin(t, o) PROVE RadioIsOwned'
  <2>1. ~Is(t, "enter", 3 .. 8) /\ ~Is(t, "exit", {3, 4}) /\ ~Is(t, "reconnect", {4})
    BY <1>3, BeginEffect DEF Is
  <2> QED
    BY <1>1, <1>3, <2>1, BeginEffect, RadioKept
<1> QED
  BY <1>2, <1>3, RequestEffect

LEMMA RadioWifi ==
  ASSUME RadioIsOwned, WifiEvent \/ Answer
  PROVE  RadioIsOwned'
<1>1. UNCHANGED <<op, step, charge, stopped>>
  BY DEF WifiEvent, Answer, StaStart, GotIp, Disconnected, StartProvisioning, StartAp, LinkUp,
         LinkLost, Handle, flagVars, modeVars, callVars
<1>2. \/ UNCHANGED <<provisioning, radio>> /\ (handler' # "ap" \/ UNCHANGED handler)
      \/ provisioning'
  BY DEF WifiEvent, Answer, StaStart, GotIp, Disconnected, StartProvisioning, StartAp, LinkUp,
         LinkLost, Handle, flagVars, RadioIsOwned
<1> QED
  BY <1>1, <1>2 DEF RadioIsOwned, Entering, Is

LEMMA RadioProceed ==
  ASSUME Types, RadioIsOwned, NEW t \in Callers, Proceed(t)
  PROVE  RadioIsOwned'
<1>1. CallTypes
  BY DEF Types
<1>2. step[t] # 0 /\ (Advance(t, 1) \/ Advance(t, 2))
  BY DEF Proceed, SwitchModules, SetMode, StopRadio, Resume, SwitchRadio, ClearRetry, HangUp,
         CancelJob, ForgetJob, NewJob, Show, At
<1>3. \A u \in Callers \ {t} : op'[u] = op[u] /\ step'[u] = step[u]
  BY <1>1, <1>2, AdvanceEffect
<1>4. CASE SwitchModules(t) \/ CancelJob(t) \/ ForgetJob(t) \/ NewJob(t) \/ Show(t)
           \/ ClearRetry(t) \/ HangUp(t)
  <2>1. UNCHANGED <<charge, provisioning, stopped, radio, handler>>
    BY <1>4 DEF SwitchModules, CancelJob, ForgetJob, NewJob, Show, ClearRetry, HangUp, Disconnect,
                modeVars, wifiVars, flagVars, driverVars
  <2>2. \/ At(t, "stopAll") \/ At(t, "startAll") \/ At(t, "clearRetry") \/ At(t, "disconnect")
        \/ At(t, "cancelJob") \/ (Advance(t, 1) /\ (At(t, "forgetJob") \/ At(t, "newJob") \/ At(t, "show")))
    BY <1>4 DEF SwitchModules, CancelJob, ForgetJob, NewJob, Show, ClearRetry, HangUp
  <2>3. ~Is(t, "exit", {3, 4}) /\ ~Is(t, "reconnect", {4})
    BY <1>1, <2>2, Places DEF Is
  <2>4. ASSUME Is(t, "enter", 3 .. 8) PROVE Is(t, "enter", 3 .. 8)'
    <3>1. Is(t, "enter", {4}) \/ (Advance(t, 1) /\ Is(t, "enter", {5, 6, 7}))
      BY <1>1, <2>2, <2>4, Places DEF Is
    <3> QED
      BY <1>1, <1>2, <3>1, AdvanceEffect DEF Is
  <2> QED
    BY <1>3, <2>1, <2>3, <2>4, RadioKept
<1>5. CASE SetMode(t)
  <2>1. charge' = (op[t] = "enter") /\ UNCHANGED <<provisioning, stopped, radio, handler>>
    BY <1>5 DEF SetMode, wifiVars, flagVars, driverVars
  <2>2. Is(t, "enter", {8}) \/ (Is(t, "exit", {2}) /\ Is(t, "exit", {3})')
    <3>1. Is(t, "enter", {8}) \/ Is(t, "exit", {2})
      BY <1>1, <1>5, Places DEF SetMode
    <3>2. Advance(t, 1)
      BY <1>5 DEF SetMode
    <3> QED
      BY <1>1, <1>2, <3>1, <3>2, AdvanceEffect DEF Is
  <2>3. CASE Is(t, "enter", {8})
    BY <2>1, <2>3 DEF RadioIsOwned, Is
  <2>4. CASE Is(t, "exit", {3})'
    <3>1. Is(t, "exit", {3, 4})'
      BY <2>4 DEF Is
    <3> QED
      BY <2>1, <2>4, <3>1 DEF RadioIsOwned
  <2> QED
    BY <2>2, <2>3, <2>4
<1>6. CASE StopRadio(t)
  <2>1. UNCHANGED <<charge, provisioning, radio, handler>>
    BY <1>6 DEF StopRadio, modeVars, flagVars, driverVars
  <2>2. CASE provisioning
    BY <2>1, <2>2 DEF RadioIsOwned
  <2>3. CASE ~provisioning
    <3>1. Advance(t, 1) /\ Is(t, "enter", {2})
      BY <1>1, <1>6, <2>3, Places DEF StopRadio
    <3>2. Entering'
      BY <1>1, <3>1, <1>2, AdvanceEffect DEF Entering, Is
    <3> QED
      BY <2>1, <3>2 DEF RadioIsOwned
  <2> QED
    BY <2>2, <2>3
<1>7. CASE Resume(t)
  <2>1. UNCHANGED <<charge, provisioning, radio, handler>>
    BY <1>7 DEF Resume, modeVars, flagVars, driverVars
  <2>2. CASE provisioning
    BY <2>1, <2>2 DEF RadioIsOwned
  <2>3. CASE ~provisioning
    <3>1. Advance(t, 1) /\ Is(t, "exit", {3}) /\ stopped' = FALSE
      BY <1>1, <1>7, <2>3, Places DEF Resume
    <3>2. Is(t, "exit", {3, 4})'
      BY <1>1, <3>1, <1>2, AdvanceEffect DEF Is
    <3> QED
      BY <2>1, <3>1, <3>2 DEF RadioIsOwned
  <2> QED
    BY <2>2, <2>3
<1>8. CASE SwitchRadio(t)
  <2>1. Advance(t, 1) /\ UNCHANGED <<charge, provisioning, stopped, handler>>
    BY <1>8 DEF SwitchRadio, modeVars, flagVars
  <2>2. Entering /\ ~Is(t, "enter", {3}) => Entering'
    <3>1. ~Is(t, "enter", {1, 2, 4, 5, 6, 7, 8})
      BY <1>1, <1>8, Places DEF SwitchRadio, Is
    <3> QED
      BY <1>1, <1>3, <3>1 DEF Entering, Is, CallTypes
  <2>3. (\E u \in Callers : Is(u, "exit", {3})) => (\E u \in Callers : Is(u, "exit", {3}))'
    <3>1. ~Is(t, "exit", {3})
      BY <1>1, <1>8, Places DEF SwitchRadio, Is
    <3> QED
      BY <1>3, <3>1 DEF Is
  <2>4. CASE At(t, "wifiStop") /\ DriverStop
    <3>1. (Is(t, "enter", {3}) /\ Entering') \/ (Is(t, "reconnect", {3}) /\ Is(t, "reconnect", {4})')
      <4>1. Is(t, "enter", {3}) \/ Is(t, "reconnect", {3})
        BY <1>1, <2>4, Places
      <4> QED
        BY <1>1, <1>2, <2>1, <4>1, AdvanceEffect DEF Entering, Is
    <3>2. radio' = "off"
      BY <2>4 DEF DriverStop
    <3>3. CASE Entering'
      BY <2>1, <3>2, <3>3 DEF RadioIsOwned
    <3>4. CASE Is(t, "reconnect", {3}) /\ Is(t, "reconnect", {4})'
      <4>1. ~Is(t, "enter", {3})
        BY <3>4 DEF Is
      <4> QED
        BY <2>1, <2>2, <2>3, <3>2, <3>4, <4>1 DEF RadioIsOwned
    <3> QED
      BY <3>1, <3>3, <3>4
  <2>5. CASE At(t, "wifiStart") /\ DriverStart
    <3>1. radio' = "sta"
      BY <2>5 DEF DriverStart
    <3>2. ~Is(t, "enter", {3})
      BY <1>1, <2>5, Places DEF Is
    <3> QED
      BY <2>1, <2>2, <2>3, <3>1, <3>2 DEF RadioIsOwned
  <2> QED
    BY <1>8, <2>4, <2>5 DEF SwitchRadio
<1> QED
  BY <1>4, <1>5, <1>6, <1>7, <1>8 DEF Proceed

LEMMA StepRadio == Types /\ RadioIsOwned /\ [Next]_vars => RadioIsOwned'
<1> SUFFICES ASSUME Types, RadioIsOwned, [Next]_vars PROVE RadioIsOwned'
  OBVIOUS
<1>1. CASE UNCHANGED vars
  BY <1>1 DEF vars, modeVars, callVars, wifiVars, flagVars, driverVars, RadioIsOwned, Entering, Is
<1> QED
  BY <1>1, RadioRequest, RadioProceed, RadioWifi DEF Next

-----------------------------------------------------------------------------
(* The loss of every connection is reported.                                 *)

LEMMA LossPosted ==
  ASSUME WifiTypes, Post("lost")
  PROVE  LossIsReported'
<1>1. /\ Len(events) \in Nat /\ Len(events') = Len(events) + 1
      /\ events'[Len(events) + 1] = "lost"
  BY PostEffect DEF Events
<1>2. Len(events) + 1 \in 1 .. Len(events')
  BY <1>1
<1>3. ASSUME NEW i \in 1 .. Len(events'), events'[i] = "ip"
      PROVE  i < Len(events) + 1
  BY <1>1, <1>3
<1> QED
  BY <1>1, <1>2, <1>3 DEF LossIsReported

\* A step that makes no connection known, and hears of none.
LEMMA LossKept ==
  ASSUME WifiTypes, LossIsReported, UNCHANGED provisioning, connected' => connected,
         link' # "up" => link # "up", Post("start") \/ UNCHANGED events
  PROVE  LossIsReported'
<1>1. CASE UNCHANGED events
  BY <1>1 DEF LossIsReported
<1>2. CASE Post("start")
  <2>1. /\ Len(events) \in Nat /\ Len(events') = Len(events) + 1
        /\ events'[Len(events) + 1] = "start"
        /\ \A i \in 1 .. Len(events) : events'[i] = events[i]
    BY <1>2, PostEffect DEF Events
  <2>2. SUFFICES ASSUME ~provisioning, link # "up"
                 PROVE  /\ connected => \E j \in 1 .. Len(events') : events'[j] = "lost"
                        /\ \A i \in 1 .. Len(events') : events'[i] = "ip" =>
                             \E j \in 1 .. Len(events') : i < j /\ events'[j] = "lost"
    BY DEF LossIsReported
  <2>3. \A j \in 1 .. Len(events) : j \in 1 .. Len(events')
    BY <2>1
  <2>4. connected => \E j \in 1 .. Len(events') : events'[j] = "lost"
    BY <2>1, <2>2, <2>3 DEF LossIsReported
  <2>5. ASSUME NEW i \in 1 .. Len(events'), events'[i] = "ip"
        PROVE  \E j \in 1 .. Len(events') : i < j /\ events'[j] = "lost"
    <3>1. i \in 1 .. Len(events) /\ events[i] = "ip"
      BY <2>1, <2>5
    <3> QED
      BY <2>1, <2>2, <2>3, <3>1 DEF LossIsReported
  <2> QED
    BY <2>4, <2>5
<1> QED
  BY <1>1, <1>2

LEMMA LossWifi ==
  ASSUME Types, RadioIsOwned, LossIsReported, WifiEvent \/ Answer
  PROVE  LossIsReported'
<1>1. WifiTypes
  BY DEF Types
<1>2. CASE LinkUp
  BY <1>2 DEF LinkUp, LossIsReported
<1>3. CASE LinkLost
  BY <1>1, <1>3, LossPosted DEF LinkLost
<1>4. CASE StartProvisioning
  BY <1>4 DEF StartProvisioning, LossIsReported
<1>5. CASE StartAp
  BY <1>5 DEF StartAp, flagVars, RadioIsOwned, LossIsReported
<1>6. ASSUME NEW e, Handle(e), link' # "up" => link # "up",
             connected' => e = "ip" \/ (e = "start" /\ connected)
      PROVE  LossIsReported'
  <2>1. /\ Len(events) = Len(events') + 1 /\ Len(events') \in Nat /\ events[1] = e
        /\ \A i \in 1 .. Len(events') : events'[i] = events[i + 1]
    BY <1>1, <1>6, HandleEffect
  <2>2. UNCHANGED provisioning
    BY <1>6 DEF Handle
  <2>3. SUFFICES ASSUME ~provisioning, link # "up"
                 PROVE  /\ connected' => \E j \in 1 .. Len(events') : events'[j] = "lost"
                        /\ \A i \in 1 .. Len(events') : events'[i] = "ip" =>
                             \E j \in 1 .. Len(events') : i < j /\ events'[j] = "lost"
    BY <1>6, <2>2 DEF LossIsReported
  <2>4. ASSUME NEW j \in 1 .. Len(events), j > 1
        PROVE  j - 1 \in 1 .. Len(events') /\ events'[j - 1] = events[j]
    BY <2>1, <2>4
  <2>5. ASSUME connected' PROVE \E j \in 1 .. Len(events') : events'[j] = "lost"
    <3>1. PICK j \in 1 .. Len(events) : j > 1 /\ events[j] = "lost"
      <4>1. CASE e = "ip"
        <5>1. 1 \in 1 .. Len(events)
          BY <2>1
        <5> QED
          BY <2>1, <2>3, <4>1, <5>1 DEF LossIsReported
      <4>2. CASE e = "start" /\ connected
        <5>1. PICK j \in 1 .. Len(events) : events[j] = "lost"
          BY <2>3, <4>2 DEF LossIsReported
        <5>2. j # 1
          BY <2>1, <4>2, <5>1
        <5> QED
          BY <2>1, <5>1, <5>2
      <4> QED
        BY <1>6, <2>5, <4>1, <4>2
    <3> QED
      BY <2>4, <3>1
  <2>6. ASSUME NEW i \in 1 .. Len(events'), events'[i] = "ip"
        PROVE  \E j \in 1 .. Len(events') : i < j /\ events'[j] = "lost"
    <3>1. i + 1 \in 1 .. Len(events) /\ events[i + 1] = "ip"
      BY <2>1, <2>6
    <3>2. PICK j \in 1 .. Len(events) : i + 1 < j /\ events[j] = "lost"
      BY <2>3, <3>1 DEF LossIsReported
    <3>3. j > 1 /\ i < j - 1
      BY <3>2
    <3> QED
      BY <2>4, <3>2, <3>3
  <2> QED
    BY <2>5, <2>6
<1>7. CASE StaStart
  BY <1>6, <1>7 DEF StaStart, Connect
<1>8. CASE GotIp
  BY <1>6, <1>8 DEF GotIp
<1>9. CASE Disconnected
  BY <1>6, <1>9 DEF Disconnected, Connect
<1> QED
  BY <1>2, <1>3, <1>4, <1>5, <1>7, <1>8, <1>9 DEF WifiEvent, Answer

LEMMA StepLoss == Types /\ RadioIsOwned /\ LossIsReported /\ [Next]_vars => LossIsReported'
<1> SUFFICES ASSUME Types, RadioIsOwned, LossIsReported, [Next]_vars PROVE LossIsReported'
  OBVIOUS
<1>0. WifiTypes
  BY DEF Types
<1>1. ASSUME UNCHANGED wifiVars PROVE LossIsReported'
  BY <1>1 DEF wifiVars, flagVars, driverVars, LossIsReported
<1>2. ASSUME NEW t \in Callers, Proceed(t) PROVE LossIsReported'
  <2>1. CASE SwitchModules(t) \/ SetMode(t) \/ CancelJob(t) \/ ForgetJob(t) \/ NewJob(t) \/ Show(t)
    BY <2>1, <1>1 DEF SwitchModules, SetMode, CancelJob, ForgetJob, NewJob, Show
  <2>2. CASE StopRadio(t) \/ Resume(t) \/ ClearRetry(t)
    BY <2>2, <1>0, LossKept DEF StopRadio, Resume, ClearRetry, flagVars, driverVars
  <2>3. CASE SwitchRadio(t) \/ HangUp(t)
    <3>1. UNCHANGED <<provisioning, connected>> /\ (DriverStop \/ DriverStart \/ Disconnect)
      BY <2>3 DEF SwitchRadio, HangUp, flagVars
    <3>2. CASE Post("lost")
      BY <1>0, <3>2, LossPosted
    <3>3. CASE ~Post("lost")
      <4>1. (link' # "up" => link # "up") /\ (Post("start") \/ UNCHANGED events)
        BY <1>0, <3>1, <3>3 DEF DriverStop, DriverStart, Disconnect, WifiTypes
      <4> QED
        BY <1>0, <3>1, <4>1, LossKept
    <3> QED
      BY <3>2, <3>3
  <2> QED
    BY <1>2, <2>1, <2>2, <2>3 DEF Proceed
<1>3. CASE UNCHANGED vars
  BY <1>1, <1>3 DEF vars
<1> QED
  BY <1>1, <1>2, <1>3, RequestEffect, LossWifi DEF Next

-----------------------------------------------------------------------------
(* There is a number left for every job.                                     *)

LEMMA OneMore ==
  ASSUME NEW S, NEW x, IsFiniteSet(S)
  PROVE  IsFiniteSet(S \cup {x}) /\ Cardinality(S \cup {x}) <= Cardinality(S) + 1
<1>1. Cardinality(S) \in Nat
  BY FS_CardinalityType
<1>2. /\ IsFiniteSet(S \cup {x})
      /\ Cardinality(S \cup {x}) = IF x \in S THEN Cardinality(S) ELSE Cardinality(S) + 1
  BY FS_AddElement
<1> QED
  BY <1>1, <1>2

\* A set of fewer numbers than there are leaves one out.
LEMMA NumberLeft ==
  ASSUME NEW N \in SUBSET (1 .. MaxCalls + 2), IsFiniteSet(N), Cardinality(N) <= MaxCalls,
         NEW known
  PROVE  \E k \in 1 .. MaxCalls + 2 : k # known /\ k \notin N
<1> USE ChargeAssumption
<1>1. Cardinality(1 .. MaxCalls + 2) = MaxCalls + 2 /\ IsFiniteSet(1 .. MaxCalls + 2)
  BY FS_Interval
<1>2. IsFiniteSet(N \cup {known}) /\ Cardinality(N \cup {known}) <= MaxCalls + 1
  <2>1. /\ Cardinality(N) \in Nat /\ IsFiniteSet(N \cup {known})
        /\ Cardinality(N \cup {known}) <= Cardinality(N) + 1
    BY FS_CardinalityType, OneMore
  <2>2. Cardinality(N \cup {known}) \in Nat
    BY <2>1, FS_CardinalityType
  <2> QED
    BY <2>1, <2>2
<1>3. ASSUME 1 .. MaxCalls + 2 \subseteq N \cup {known} PROVE FALSE
  <2>1. Cardinality(1 .. MaxCalls + 2) <= Cardinality(N \cup {known})
    BY <1>2, <1>3, FS_Subset
  <2>2. Cardinality(N \cup {known}) \in Nat
    BY <1>2, FS_CardinalityType
  <2> QED
    BY <1>1, <1>2, <2>1, <2>2
<1> QED
  BY <1>3

LEMMA CountKept ==
  ASSUME JobsAreCounted, Renewing' \subseteq Renewing, jobs' \subseteq jobs, UNCHANGED calls,
         calls \in Nat
  PROVE  JobsAreCounted'
<1>1. PICK N \in SUBSET (1 .. MaxCalls + 2) :
        /\ \A j \in jobs : j[1] \in N
        /\ IsFiniteSet(N) /\ IsFiniteSet(Renewing)
        /\ Cardinality(N) + Cardinality(Renewing) <= calls + 1
  BY DEF JobsAreCounted
<1>2. IsFiniteSet(Renewing') /\ Cardinality(Renewing') <= Cardinality(Renewing)
  BY <1>1, FS_Subset
<1>3. Cardinality(N) \in Nat /\ Cardinality(Renewing) \in Nat /\ Cardinality(Renewing') \in Nat
  BY <1>1, <1>2, FS_CardinalityType
<1>4. Cardinality(N) + Cardinality(Renewing') <= calls + 1
  BY <1>1, <1>2, <1>3
<1>5. \A j \in jobs' : j[1] \in N
  BY <1>1
<1> QED
  BY <1>1, <1>2, <1>4, <1>5 DEF JobsAreCounted

LEMMA CountRequest ==
  ASSUME Types, JobsAreCounted, NEW t \in Callers,
         Press(t) \/ Request(t) \/ ReconnectRequest(t) \/ RunJob(t)
  PROVE  JobsAreCounted'
<1>1. UNCHANGED jobs /\ calls \in Nat
  BY RequestEffect, ChargeAssumption DEF jobVars, Types, CallTypes
<1>2. CASE UNCHANGED <<op, step, calls, overlapped, crossed>>
  BY <1>1, <1>2, CountKept DEF Renewing, Is
<1>3. ASSUME NEW o \in Calls, Begin(t, o) PROVE JobsAreCounted'
  <2>1. PICK N \in SUBSET (1 .. MaxCalls + 2) :
          /\ \A j \in jobs : j[1] \in N
          /\ IsFiniteSet(N) /\ IsFiniteSet(Renewing)
          /\ Cardinality(N) + Cardinality(Renewing) <= calls + 1
    BY DEF JobsAreCounted
  <2>2. Renewing' \in SUBSET (Renewing \cup {t})
    BY <1>3, BeginEffect DEF Renewing, Is
  <2>3. IsFiniteSet(Renewing \cup {t}) /\ Cardinality(Renewing \cup {t}) <= Cardinality(Renewing) + 1
    BY <2>1, OneMore
  <2>4. IsFiniteSet(Renewing') /\ Cardinality(Renewing') <= Cardinality(Renewing \cup {t})
    BY <2>2, <2>3, FS_Subset
  <2>5. /\ Cardinality(N) \in Nat /\ Cardinality(Renewing) \in Nat
        /\ Cardinality(Renewing \cup {t}) \in Nat /\ Cardinality(Renewing') \in Nat
    BY <2>1, <2>3, <2>4, FS_CardinalityType
  <2>6. Cardinality(N) + Cardinality(Renewing') <= (calls + 1) + 1
    BY <1>1, <2>1, <2>3, <2>4, <2>5
  <2>7. calls' = calls + 1
    BY <1>3, BeginEffect
  <2> QED
    BY <1>1, <2>1, <2>4, <2>6, <2>7 DEF JobsAreCounted
<1> QED
  BY <1>2, <1>3, RequestEffect

\* A step of a call takes nobody into Renewing, and the making of a job takes
\* its caller out.
LEMMA RenewingShrinks ==
  ASSUME Types, NEW t \in Callers, Proceed(t)
  PROVE  /\ Renewing' \subseteq Renewing /\ UNCHANGED calls
         /\ NewJob(t) => t \in Renewing /\ t \notin Renewing'
<1>1. CallTypes
  BY DEF Types
<1>2. step[t] # 0 /\ (Advance(t, 1) \/ Advance(t, 2))
  BY DEF Proceed, SwitchModules, SetMode, StopRadio, Resume, SwitchRadio, ClearRetry, HangUp,
         CancelJob, ForgetJob, NewJob, Show, At
<1>3. UNCHANGED calls /\ \A u \in Callers \ {t} : op'[u] = op[u] /\ step'[u] = step[u]
  BY <1>1, <1>2, AdvanceEffect
<1>4. t \in Renewing' => t \in Renewing
  <2>1. step[t] \in 1 .. 8 /\ op[t] \in Calls
    BY <1>1, <1>2 DEF CallTypes
  <2>2. step'[t] = 0 \/ (op'[t] = op[t] /\ step'[t] \in {step[t] + 1, step[t] + 2})
    BY <1>1, <1>2, <2>1, AdvanceEffect
  <2> QED
    BY <2>1, <2>2 DEF Renewing, Is
<1>5. ASSUME NewJob(t) PROVE t \in Renewing /\ t \notin Renewing'
  <2>1. Advance(t, 1) /\ (Is(t, "enter", {6}) \/ Is(t, "exit", {8}))
    BY <1>1, <1>5, Places DEF NewJob
  <2>2. (Is(t, "enter", {6}) /\ Is(t, "enter", {7})') \/ (Is(t, "exit", {8}) /\ step'[t] = 0)
    BY <1>1, <1>2, <2>1, AdvanceEffect DEF Is
  <2> QED
    BY <2>2 DEF Renewing, Is
<1> QED
  BY <1>3, <1>4, <1>5 DEF Renewing, Is

LEMMA CountNewJob ==
  ASSUME Types, JobTypes, JobsAreCounted, NEW t \in Callers, NewJob(t)
  PROVE  JobTypes' /\ JobsAreCounted'
<1> USE ChargeAssumption
<1>1. PICK N \in SUBSET (1 .. MaxCalls + 2) :
        /\ \A j \in jobs : j[1] \in N
        /\ IsFiniteSet(N) /\ IsFiniteSet(Renewing)
        /\ Cardinality(N) + Cardinality(Renewing) <= calls + 1
  BY DEF JobsAreCounted
<1>2. t \in Renewing /\ UNCHANGED calls /\ Renewing' \in SUBSET (Renewing \ {t})
  BY RenewingShrinks DEF Proceed
<1>3. IsFiniteSet(Renewing \ {t}) /\ Cardinality(Renewing \ {t}) = Cardinality(Renewing) - 1
  BY <1>1, <1>2, FS_RemoveElement
<1>4. IsFiniteSet(Renewing') /\ Cardinality(Renewing') <= Cardinality(Renewing) - 1
  BY <1>2, <1>3, FS_Subset
<1>5. /\ Cardinality(N) \in Nat /\ Cardinality(Renewing) \in Nat /\ Cardinality(Renewing') \in Nat
      /\ calls \in 0 .. MaxCalls
  BY <1>1, <1>4, FS_CardinalityType DEF Types, CallTypes
<1>6. Cardinality(N) <= MaxCalls /\ (Cardinality(N) + 1) + Cardinality(Renewing') <= calls + 1
  BY <1>1, <1>4, <1>5
<1>7. CASE UNCHANGED jobVars
  <2>1. Cardinality(N) + Cardinality(Renewing') <= calls' + 1
    BY <1>2, <1>5, <1>6
  <2> QED
    BY <1>1, <1>4, <1>7, <2>1 DEF jobVars, JobTypes, JobsAreCounted
<1>8. CASE ~(UNCHANGED jobVars)
  <2> DEFINE n == CHOOSE k \in 1 .. MaxCalls + 2 : k # sampleJob /\ \A j \in jobs : j[1] # k
  <2>1. \E k \in 1 .. MaxCalls + 2 : k # sampleJob /\ \A j \in jobs : j[1] # k
    <3>1. PICK k \in 1 .. MaxCalls + 2 : k # sampleJob /\ k \notin N
      BY <1>1, <1>6, NumberLeft
    <3> QED
      BY <1>1, <3>1
  <2>2. n \in 1 .. MaxCalls + 2
    BY <2>1
  <2>3. PICK mode \in Intervals : jobs' = jobs \cup {<<n, mode>>} /\ sampleJob' = n
    BY <1>8 DEF NewJob, Intervals
  <2> HIDE DEF n
  <2>4. JobTypes'
    BY <2>2, <2>3 DEF JobTypes
  <2>5. IsFiniteSet(N \cup {n}) /\ Cardinality(N \cup {n}) <= Cardinality(N) + 1
    BY <1>1, OneMore
  <2>6. Cardinality(N \cup {n}) \in Nat
    BY <2>5, FS_CardinalityType
  <2>7. Cardinality(N \cup {n}) + Cardinality(Renewing') <= calls' + 1
    BY <1>2, <1>5, <1>6, <2>5, <2>6
  <2>8. \A j \in jobs' : j[1] \in N \cup {n}
    BY <1>1, <2>3
  <2> QED
    BY <1>4, <2>2, <2>4, <2>5, <2>7, <2>8 DEF JobsAreCounted
<1> QED
  BY <1>7, <1>8

LEMMA StepCount ==
  Types /\ JobTypes /\ JobsAreCounted /\ [Next]_vars => JobTypes' /\ JobsAreCounted'
<1> SUFFICES ASSUME Types, JobTypes, JobsAreCounted, [Next]_vars PROVE JobTypes' /\ JobsAreCounted'
  OBVIOUS
<1>0. calls \in Nat
  BY ChargeAssumption DEF Types, CallTypes
<1>1. ASSUME NEW t \in Callers, Press(t) \/ Request(t) \/ ReconnectRequest(t) \/ RunJob(t)
      PROVE  JobTypes' /\ JobsAreCounted'
  BY <1>1, CountRequest, RequestEffect DEF jobVars, JobTypes
<1>2. ASSUME NEW t \in Callers, Proceed(t), ~NewJob(t) PROVE JobTypes' /\ JobsAreCounted'
  <2>1. jobs' \subseteq jobs /\ sampleJob' \in {0, sampleJob}
    BY <1>2 DEF Proceed, SwitchModules, SetMode, StopRadio, Resume, SwitchRadio, ClearRetry, HangUp,
                CancelJob, ForgetJob, Show, jobVars
  <2>2. JobTypes'
    BY <2>1, ChargeAssumption DEF JobTypes
  <2> QED
    BY <1>0, <1>2, <2>1, <2>2, RenewingShrinks, CountKept
<1>3. CASE WifiEvent \/ Answer \/ UNCHANGED vars
  <2>1. UNCHANGED <<op, step, calls, jobs, sampleJob>>
    BY <1>3 DEF WifiEvent, Answer, StaStart, GotIp, Disconnected, StartProvisioning, StartAp,
                LinkUp, LinkLost, Handle, callVars, jobVars, vars
  <2> QED
    BY <1>0, <2>1, CountKept DEF JobTypes, Renewing, Is
<1> QED
  BY <1>1, <1>2, <1>3, CountNewJob DEF Next

-----------------------------------------------------------------------------
(* Calls that do not overlap.                                                *)

\* A step of the only call there is: where it goes.
LEMMA OnlyCall ==
  ASSUME Types, CallsInTurn, ~overlapped', NEW t \in Callers, Proceed(t)
  PROVE  /\ ~overlapped /\ HasDone(t) /\ step[t] # 0
         /\ \A u \in Callers \ {t} : step[u] = 0 /\ step'[u] = 0
         /\ Resting' <=> step'[t] = 0
         /\ ~Resting
<1>1. CallTypes
  BY DEF Types
<1>2. step[t] # 0 /\ (Advance(t, 1) \/ Advance(t, 2))
  BY DEF Proceed, SwitchModules, SetMode, StopRadio, Resume, SwitchRadio, ClearRetry, HangUp,
         CancelJob, ForgetJob, NewJob, Show, At
<1>3. UNCHANGED overlapped /\ \A u \in Callers \ {t} : op'[u] = op[u] /\ step'[u] = step[u]
  BY <1>1, <1>2, AdvanceEffect
<1> QED
  BY <1>2, <1>3 DEF CallsInTurn, Resting

\* Where a step takes the call.
LEMMA NextPlace ==
  ASSUME Types, NEW t \in Callers, NEW o, NEW k \in 1 .. 8, NEW n \in {1, 2},
         Is(t, o, {k}), Advance(t, n)
  PROVE  LET last == IF o = "reconnect" THEN 4 ELSE 8 IN
         IF k + n > last THEN step'[t] = 0 ELSE Is(t, o, {k + n})'
<1>1. CallTypes /\ step[t] = k /\ op[t] = o /\ step[t] # 0
  BY DEF Types, Is
<1>2. LET last == IF o = "reconnect" THEN 4 ELSE 8 IN
      /\ k + n > last  => step'[t] = 0
      /\ k + n <= last => op'[t] = o /\ step'[t] = k + n
  BY <1>1, AdvanceEffect
<1> QED
  BY <1>2 DEF Is

LEMMA TurnRequest ==
  ASSUME Types, CallsInTurn, ~overlapped', NEW t \in Callers,
         Press(t) \/ Request(t) \/ ReconnectRequest(t) \/ RunJob(t)
  PROVE  CallsInTurn'
<1>1. UNCHANGED <<charge, modulesUp, provisioning, stopped, radio, showCharge>>
  BY RequestEffect DEF modeVars, wifiVars, flagVars, driverVars
<1>2. CASE UNCHANGED <<op, step, calls, overlapped, crossed>>
  BY <1>1, <1>2 DEF CallsInTurn, HasDone, Dark, Resting, Is
<1>3. ASSUME NEW o \in Calls, Begin(t, o) PROVE CallsInTurn'
  <2>1. /\ step'[t] = 1 /\ op'[t] = o /\ Admits(o) /\ ~overlapped /\ Resting
        /\ \A u \in Callers \ {t} : step'[u] = 0
    BY <1>3, BeginEffect DEF Resting
  <2>2. o \in {"enter", "reconnect"} => ~charge
    BY <2>1 DEF Admits, CallsInTurn, Dark
  <2>3. \A u \in Callers : HasDone(u)'
    BY <1>1, <2>1, <2>2 DEF HasDone, Is
  <2> QED
    BY <2>1, <2>3 DEF CallsInTurn, Resting
<1> QED
  BY <1>2, <1>3, RequestEffect

LEMMA TurnWifi ==
  ASSUME RadioIsOwned, CallsInTurn, WifiEvent \/ Answer
  PROVE  CallsInTurn'
<1>1. UNCHANGED <<op, step, overlapped, charge, modulesUp, stopped, showCharge>>
  BY DEF WifiEvent, Answer, StaStart, GotIp, Disconnected, StartProvisioning, StartAp, LinkUp,
         LinkLost, Handle, flagVars, modeVars, callVars
<1>2. UNCHANGED <<provisioning, radio>> \/ provisioning'
  BY DEF WifiEvent, Answer, StaStart, GotIp, Disconnected, StartProvisioning, StartAp, LinkUp,
         LinkLost, Handle, flagVars, RadioIsOwned
<1>3. (\A t \in Callers : HasDone(t)) => (\A t \in Callers : HasDone(t)')
  BY <1>1, <1>2 DEF HasDone, Is
<1>4. Dark => Dark'
  BY <1>1, <1>2 DEF Dark
<1> QED
  BY <1>1, <1>3, <1>4 DEF CallsInTurn, Resting

LEMMA TurnProceed ==
  ASSUME Types, CallsInTurn, ~overlapped', NEW t \in Callers, Proceed(t)
  PROVE  CallsInTurn'
<1>1. CallTypes
  BY DEF Types
<1>2. ~overlapped /\ HasDone(t) /\ (Resting' <=> step'[t] = 0)
  BY OnlyCall
<1>3. SUFFICES HasDone(t)' /\ (step'[t] = 0 /\ charge' => Dark')
  <2>1. \A u \in Callers \ {t} : step'[u] = 0
    BY OnlyCall
  <2>2. ASSUME NEW u \in Callers \ {t} PROVE HasDone(u)'
    BY <2>1 DEF HasDone, Is
  <2> QED
    BY <1>2, <2>1, <2>2 DEF CallsInTurn
<1>4. CASE SwitchModules(t)
  <2>1. Advance(t, 1) /\ UNCHANGED <<charge, provisioning, stopped, radio, showCharge>>
    BY <1>4 DEF SwitchModules, wifiVars, flagVars, driverVars
  <2>2. CASE At(t, "stopAll") /\ modulesUp' = FALSE
    <3>1. Is(t, "enter", {1}) /\ Is(t, "enter", {2})'
      BY <1>1, <2>1, <2>2, Places, NextPlace
    <3> QED
      BY <1>2, <2>1, <2>2, <3>1 DEF HasDone, Is
  <2>3. CASE At(t, "startAll")
    <3>1. Is(t, "exit", {5}) /\ Is(t, "exit", {6})'
      BY <1>1, <2>1, <2>3, Places, NextPlace
    <3> QED
      BY <1>2, <2>1, <3>1 DEF HasDone, Is
  <2> QED
    BY <1>4, <2>2, <2>3 DEF SwitchModules
<1>5. CASE SetMode(t)
  <2>1. /\ Advance(t, 1) /\ charge' = (op[t] = "enter")
        /\ UNCHANGED <<modulesUp, provisioning, stopped, radio, showCharge>>
    BY <1>5 DEF SetMode, wifiVars, flagVars, driverVars
  <2>2. CASE Is(t, "enter", {8})
    <3>1. step'[t] = 0
      BY <2>1, <2>2, NextPlace
    <3> QED
      BY <1>2, <2>1, <2>2, <3>1 DEF HasDone, Is, Dark
  <2>3. CASE Is(t, "exit", {2})
    <3>1. Is(t, "exit", {3})'
      BY <2>1, <2>3, NextPlace
    <3> QED
      BY <2>1, <2>3, <3>1 DEF HasDone, Is
  <2> QED
    BY <1>1, <1>5, <2>2, <2>3, Places DEF SetMode
<1>6. CASE StopRadio(t)
  <2>1. Is(t, "enter", {2}) /\ UNCHANGED <<charge, modulesUp, provisioning, radio, showCharge>>
    BY <1>1, <1>6, Places DEF StopRadio, modeVars, flagVars, driverVars
  <2>2. CASE provisioning /\ Advance(t, 2)
    <3>1. Is(t, "enter", {4})'
      BY <2>1, <2>2, NextPlace
    <3> QED
      BY <1>2, <2>1, <2>2, <3>1 DEF HasDone, Is
  <2>3. CASE Advance(t, 1) /\ stopped' = TRUE
    <3>1. Is(t, "enter", {3})'
      BY <2>1, <2>3, NextPlace
    <3> QED
      BY <1>2, <2>1, <2>3, <3>1 DEF HasDone, Is
  <2> QED
    BY <1>6, <2>2, <2>3 DEF StopRadio
<1>7. CASE Resume(t)
  <2>1. Is(t, "exit", {3}) /\ UNCHANGED charge /\ (Advance(t, 1) \/ Advance(t, 2))
    BY <1>1, <1>7, Places DEF Resume, modeVars
  <2>2. Is(t, "exit", {4})' \/ Is(t, "exit", {5})'
    BY <2>1, NextPlace
  <2> QED
    BY <1>2, <2>1, <2>2 DEF HasDone, Is
<1>8. CASE SwitchRadio(t)
  <2>1. Advance(t, 1) /\ UNCHANGED <<charge, modulesUp, provisioning, stopped, showCharge>>
    BY <1>8 DEF SwitchRadio, modeVars, flagVars
  <2>2. CASE Is(t, "enter", {3})
    <3>1. Is(t, "enter", {4})'
      BY <2>1, <2>2, NextPlace
    <3>2. radio' = "off"
      <4>1. ~At(t, "wifiStart")
        BY <1>1, <2>2, Places DEF Is
      <4> QED
        BY <1>8, <4>1 DEF SwitchRadio, DriverStop
    <3> QED
      BY <1>2, <2>1, <2>2, <3>1, <3>2 DEF HasDone, Is
  <2>3. CASE Is(t, "exit", {4})
    <3>1. Is(t, "exit", {5})'
      BY <2>1, <2>3, NextPlace
    <3> QED
      BY <1>2, <2>1, <2>3, <3>1 DEF HasDone, Is
  <2>4. CASE Is(t, "reconnect", {3, 4})
    <3>1. Is(t, "reconnect", {4})' \/ step'[t] = 0
      <4>1. Is(t, "reconnect", {3}) \/ Is(t, "reconnect", {4})
        BY <2>4 DEF Is
      <4> QED
        BY <2>1, <4>1, NextPlace
    <3> QED
      BY <1>2, <2>1, <2>4, <3>1 DEF HasDone, Is
  <2> QED
    BY <1>1, <1>8, <2>2, <2>3, <2>4, Places DEF SwitchRadio, Is
<1>9. CASE ClearRetry(t) \/ HangUp(t)
  <2>1. Advance(t, 1) /\ UNCHANGED charge /\ (Is(t, "reconnect", {1}) \/ Is(t, "reconnect", {2}))
    BY <1>1, <1>9, Places DEF ClearRetry, HangUp, modeVars
  <2>2. Is(t, "reconnect", {2})' \/ Is(t, "reconnect", {3})'
    BY <2>1, NextPlace
  <2> QED
    BY <1>2, <2>1, <2>2 DEF HasDone, Is
<1>10. CASE CancelJob(t) \/ ForgetJob(t) \/ NewJob(t)
  <2>1. UNCHANGED <<charge, modulesUp, provisioning, stopped, radio, showCharge>>
    BY <1>10 DEF CancelJob, ForgetJob, NewJob, modeVars, wifiVars, flagVars, driverVars
  <2>2. \/ Is(t, "enter", {4, 5, 6}) /\ Is(t, "enter", {5, 6, 7})'
        \/ Is(t, "exit", {6, 7, 8}) /\ (Is(t, "exit", {7, 8})' \/ step'[t] = 0)
    <3>1. CASE CancelJob(t)
      <4>1. (Is(t, "enter", {4}) \/ Is(t, "exit", {6})) /\ (Advance(t, 1) \/ Advance(t, 2))
        BY <1>1, <3>1, Places DEF CancelJob
      <4> QED
        BY <4>1, NextPlace DEF Is
    <3>2. CASE ForgetJob(t)
      <4>1. (Is(t, "enter", {5}) \/ Is(t, "exit", {7})) /\ Advance(t, 1)
        BY <1>1, <3>2, Places DEF ForgetJob
      <4> QED
        BY <4>1, NextPlace DEF Is
    <3>3. CASE NewJob(t)
      <4>1. (Is(t, "enter", {6}) \/ Is(t, "exit", {8})) /\ Advance(t, 1)
        BY <1>1, <3>3, Places DEF NewJob
      <4> QED
        BY <4>1, NextPlace DEF Is
    <3> QED
      BY <1>10, <3>1, <3>2, <3>3
  <2> QED
    BY <1>2, <2>1, <2>2 DEF HasDone, Is
<1>11. CASE Show(t)
  <2>1. /\ Advance(t, 1) /\ showCharge' = (op[t] = "enter")
        /\ UNCHANGED <<charge, modulesUp, provisioning, stopped, radio>>
    BY <1>11 DEF Show, modeVars, wifiVars, flagVars, driverVars
  <2>2. CASE Is(t, "enter", {7})
    <3>1. Is(t, "enter", {8})'
      BY <2>1, <2>2, NextPlace
    <3>2. showCharge'
      BY <2>1, <2>2 DEF Is
    <3>3. ~charge /\ ~modulesUp /\ (stopped \/ provisioning) /\ (radio = "off" \/ provisioning)
      BY <1>2, <2>2 DEF HasDone, Is
    <3> QED
      BY <2>1, <3>1, <3>2, <3>3 DEF HasDone, Is
  <2>3. CASE Is(t, "exit", {1})
    <3>1. Is(t, "exit", {2})'
      BY <2>1, <2>3, NextPlace
    <3> QED
      BY <3>1 DEF HasDone, Is
  <2> QED
    BY <1>1, <1>11, <2>2, <2>3, Places DEF Show
<1> QED
  BY <1>4, <1>5, <1>6, <1>7, <1>8, <1>9, <1>10, <1>11 DEF Proceed

LEMMA StepTurn == Types /\ RadioIsOwned /\ CallsInTurn /\ [Next]_vars => CallsInTurn'
<1> SUFFICES ASSUME Types, RadioIsOwned, CallsInTurn, [Next]_vars PROVE CallsInTurn'
  OBVIOUS
<1>1. CASE overlapped'
  BY <1>1 DEF CallsInTurn
<1>2. CASE UNCHANGED vars
  BY <1>2 DEF vars, modeVars, callVars, wifiVars, flagVars, driverVars, CallsInTurn, HasDone, Dark,
              Resting, Is
<1> QED
  BY <1>1, <1>2, TurnRequest, TurnWifi, TurnProceed DEF Next

LEMMA SamplerRequest ==
  ASSUME Types, CallsInTurn, SamplerInTurn, ~overlapped', NEW t \in Callers,
         Press(t) \/ Request(t) \/ ReconnectRequest(t) \/ RunJob(t)
  PROVE  SamplerInTurn'
<1>1. UNCHANGED <<charge, jobs, sampleJob>>
  BY RequestEffect DEF modeVars, jobVars
<1>2. CASE UNCHANGED <<op, step, calls, overlapped, crossed>>
  BY <1>1, <1>2 DEF SamplerInTurn, HasSampled, JobsRun, Resting, Is
<1>3. ASSUME NEW o \in Calls, Begin(t, o) PROVE SamplerInTurn'
  <2>1. /\ step'[t] = 1 /\ op'[t] = o /\ Admits(o) /\ ~overlapped /\ Resting
        /\ \A u \in Callers \ {t} : step'[u] = 0
    BY <1>3, BeginEffect DEF Resting
  <2>2. o = "reconnect" => ~charge
    BY <2>1 DEF Admits, CallsInTurn, Dark
  <2>3. o = "reconnect" => JobsRun(kNormalSampleMs)
    BY <2>1, <2>2 DEF SamplerInTurn
  <2>4. \A u \in Callers : HasSampled(u)'
    BY <1>1, <2>1, <2>3 DEF HasSampled, JobsRun, Is
  <2> QED
    BY <1>1, <2>1, <2>4 DEF SamplerInTurn, Resting
<1> QED
  BY <1>2, <1>3, RequestEffect

\* A step that leaves the jobs alone.
LEMMA SamplerKept ==
  ASSUME Types, CallsInTurn, SamplerInTurn, ~overlapped', NEW t \in Callers, Proceed(t),
         UNCHANGED jobVars, HasSampled(t)',
         step'[t] = 0 => JobsRun(IF charge' THEN kChargeSampleMs ELSE kNormalSampleMs)
  PROVE  SamplerInTurn'
<1>1. ~overlapped /\ (Resting' <=> step'[t] = 0) /\ \A u \in Callers \ {t} : step'[u] = 0
  BY OnlyCall
<1>2. UNCHANGED <<jobs, sampleJob>>
  BY DEF jobVars
<1>3. ASSUME NEW u \in Callers \ {t} PROVE HasSampled(u)'
  BY <1>1 DEF HasSampled, Is
<1> QED
  BY <1>1, <1>2, <1>3 DEF SamplerInTurn, JobsRun

LEMMA SamplerProceed ==
  ASSUME Types, JobTypes, CallsInTurn, SamplerInTurn, ~overlapped', NEW t \in Callers, Proceed(t)
  PROVE  SamplerInTurn'
<1>1. CallTypes
  BY DEF Types
<1>2. /\ ~overlapped /\ HasDone(t) /\ (Resting' <=> step'[t] = 0)
      /\ \A u \in Callers \ {t} : step'[u] = 0
  BY OnlyCall
<1>3. HasSampled(t) /\ \A j \in jobs : j[1] = sampleJob
  BY <1>2 DEF SamplerInTurn
<1>4. ASSUME NEW u \in Callers \ {t} PROVE HasSampled(u)'
  BY <1>2 DEF HasSampled, Is
<1>5. CASE SwitchModules(t) \/ StopRadio(t) \/ Resume(t)
  <2>1. UNCHANGED jobVars
    BY <1>5 DEF SwitchModules, StopRadio, Resume
  <2>2. /\ Advance(t, 1) \/ Advance(t, 2)
        /\ \/ Is(t, "enter", {1}) /\ Advance(t, 1)
           \/ Is(t, "enter", {2}) \/ Is(t, "exit", {3})
           \/ Is(t, "exit", {5}) /\ Advance(t, 1)
    BY <1>1, <1>5, Places DEF SwitchModules, StopRadio, Resume
  <2>3. Is(t, "enter", {2, 3, 4})' \/ Is(t, "exit", {4, 5, 6})'
    BY <2>2, NextPlace DEF Is
  <2> QED
    BY <2>1, <2>3, SamplerKept DEF HasSampled, Is
<1>6. CASE SetMode(t)
  <2>1. UNCHANGED jobVars /\ Advance(t, 1) /\ charge' = (op[t] = "enter")
    BY <1>6 DEF SetMode
  <2>2. CASE Is(t, "enter", {8})
    <3>1. step'[t] = 0
      BY <2>1, <2>2, NextPlace
    <3>2. charge'
      BY <2>1, <2>2 DEF Is
    <3>3. JobsRun(kChargeSampleMs)
      BY <1>3, <2>2 DEF HasSampled, Is
    <3>4. JobsRun(IF charge' THEN kChargeSampleMs ELSE kNormalSampleMs)
      BY <3>2, <3>3
    <3> QED
      BY <2>1, <3>1, <3>4, SamplerKept DEF HasSampled, Is
  <2>3. CASE Is(t, "exit", {2})
    <3>1. Is(t, "exit", {3})'
      BY <2>1, <2>3, NextPlace
    <3> QED
      BY <2>1, <3>1, SamplerKept DEF HasSampled, Is
  <2> QED
    BY <1>1, <1>6, <2>2, <2>3, Places DEF SetMode
<1>7. CASE SwitchRadio(t) \/ ClearRetry(t) \/ HangUp(t)
  <2>1. UNCHANGED jobVars /\ UNCHANGED charge /\ Advance(t, 1)
    BY <1>7 DEF SwitchRadio, ClearRetry, HangUp, modeVars
  <2>2. \/ Is(t, "enter", {3}) \/ Is(t, "exit", {4})
        \/ Is(t, "reconnect", {1}) \/ Is(t, "reconnect", {2})
        \/ Is(t, "reconnect", {3}) \/ Is(t, "reconnect", {4})
    BY <1>1, <1>7, Places DEF SwitchRadio, ClearRetry, HangUp
  <2>3. CASE Is(t, "enter", {3}) \/ Is(t, "exit", {4})
    <3>1. Is(t, "enter", {4})' \/ Is(t, "exit", {5})'
      BY <2>1, <2>3, NextPlace
    <3> QED
      BY <2>1, <3>1, SamplerKept DEF HasSampled, Is
  <2>4. CASE Is(t, "reconnect", 1 .. 4)
    <3>1. ~charge /\ JobsRun(kNormalSampleMs)
      BY <1>2, <1>3, <2>4 DEF HasDone, HasSampled
    <3>2. Is(t, "reconnect", {2, 3, 4})' \/ step'[t] = 0
      BY <2>1, <2>2, <2>4, NextPlace DEF Is
    <3>3. JobsRun(kNormalSampleMs)'
      BY <2>1, <3>1 DEF JobsRun, jobVars
    <3> QED
      BY <2>1, <3>1, <3>2, <3>3, SamplerKept DEF HasSampled, Is
  <2> QED
    BY <2>2, <2>3, <2>4 DEF Is
<1>8. CASE Show(t)
  <2>1. UNCHANGED jobVars /\ Advance(t, 1)
    BY <1>8 DEF Show
  <2>2. CASE Is(t, "enter", {7})
    <3>1. Is(t, "enter", {8})' /\ JobsRun(kChargeSampleMs)
      BY <1>3, <2>1, <2>2, NextPlace DEF HasSampled, Is
    <3>2. JobsRun(kChargeSampleMs)'
      BY <2>1, <3>1 DEF JobsRun, jobVars
    <3> QED
      BY <2>1, <3>1, <3>2, SamplerKept DEF HasSampled, Is
  <2>3. CASE Is(t, "exit", {1})
    <3>1. Is(t, "exit", {2})'
      BY <2>1, <2>3, NextPlace
    <3> QED
      BY <2>1, <3>1, SamplerKept DEF HasSampled, Is
  <2> QED
    BY <1>1, <1>8, <2>2, <2>3, Places DEF Show
<1>9. CASE CancelJob(t) \/ ForgetJob(t)
  <2>1. /\ Is(t, "enter", {4}) \/ Is(t, "exit", {6}) \/ Is(t, "enter", {5}) \/ Is(t, "exit", {7})
        /\ Advance(t, 1) \/ (CancelJob(t) /\ Advance(t, 2))
    BY <1>1, <1>9, Places DEF CancelJob, ForgetJob
  <2>2. CancelJob(t) => Is(t, "enter", {4}) \/ Is(t, "exit", {6})
    BY <1>1, Places DEF CancelJob
  <2>3. Is(t, "enter", {5, 6})' \/ Is(t, "exit", {7, 8})'
    BY <2>1, <2>2, NextPlace DEF Is
  <2>4. jobs' = {}
    <3>1. CASE CancelJob(t)
      BY <1>3, <3>1 DEF CancelJob, JobTypes
    <3>2. CASE ForgetJob(t)
      <4>1. Is(t, "enter", {5}) \/ Is(t, "exit", {7})
        BY <1>1, <3>2, Places DEF ForgetJob
      <4> QED
        BY <1>3, <3>2, <4>1 DEF ForgetJob, HasSampled, Is
    <3> QED
      BY <1>9, <3>1, <3>2
  <2> QED
    BY <1>2, <1>4, <2>3, <2>4 DEF SamplerInTurn, HasSampled, JobsRun, Is
<1>10. CASE NewJob(t)
  <2>1. /\ Advance(t, 1) /\ UNCHANGED charge
        /\ (Is(t, "enter", {6}) /\ Is(t, "enter", {7})') \/ (Is(t, "exit", {8}) /\ step'[t] = 0)
    <3>1. Advance(t, 1) /\ UNCHANGED charge /\ (Is(t, "enter", {6}) \/ Is(t, "exit", {8}))
      BY <1>1, <1>10, Places DEF NewJob, modeVars
    <3> QED
      BY <3>1, NextPlace
  <2>2. jobs = {}
    BY <1>3, <2>1 DEF HasSampled, Is
  <2>3. \/ jobs' = {}
        \/ \E n : jobs' = {<<n, IF op[t] = "enter" THEN kChargeSampleMs ELSE kNormalSampleMs>>} /\ sampleJob' = n
    BY <1>10, <2>2 DEF NewJob, jobVars
  <2>4. \A j \in jobs' : j[1] = sampleJob' /\ j[2] = IF op[t] = "enter" THEN kChargeSampleMs ELSE kNormalSampleMs
    BY <2>3
  <2>5. CASE Is(t, "enter", {6}) /\ Is(t, "enter", {7})'
    BY <1>2, <1>4, <2>4, <2>5 DEF SamplerInTurn, HasSampled, JobsRun, Is
  <2>6. CASE Is(t, "exit", {8}) /\ step'[t] = 0
    <3>1. ~charge'
      BY <1>2, <2>1, <2>6 DEF HasDone, Is
    <3>2. JobsRun(kNormalSampleMs)'
      BY <2>4, <2>6 DEF JobsRun, Is
    <3> QED
      BY <1>4, <2>4, <2>6, <3>1, <3>2 DEF SamplerInTurn, HasSampled, Is
  <2> QED
    BY <2>1, <2>5, <2>6
<1> QED
  BY <1>5, <1>6, <1>7, <1>8, <1>9, <1>10 DEF Proceed

LEMMA StepSampler ==
  Types /\ JobTypes /\ CallsInTurn /\ SamplerInTurn /\ [Next]_vars => SamplerInTurn'
<1> SUFFICES ASSUME Types, JobTypes, CallsInTurn, SamplerInTurn, [Next]_vars PROVE SamplerInTurn'
  OBVIOUS
<1>1. CASE overlapped'
  BY <1>1 DEF SamplerInTurn
<1>2. CASE WifiEvent \/ Answer \/ UNCHANGED vars
  <2>1. UNCHANGED <<op, step, overlapped, charge, jobs, sampleJob>>
    BY <1>2 DEF WifiEvent, Answer, StaStart, GotIp, Disconnected, StartProvisioning, StartAp,
                LinkUp, LinkLost, Handle, callVars, jobVars, modeVars, vars
  <2> QED
    BY <2>1 DEF SamplerInTurn, HasSampled, JobsRun, Resting, Is
<1> QED
  BY <1>1, <1>2, SamplerRequest, SamplerProceed DEF Next

-----------------------------------------------------------------------------
(* The theorems.                                                             *)

LEMMA InitInv == Init => Inv
<1> SUFFICES ASSUME Init PROVE Inv
  OBVIOUS
<1> USE ChargeAssumption
<1>1. Types /\ JobTypes
  BY InitTypes
<1>2. \A t \in Callers : step[t] = 0
  BY DEF Init
<1>3. JobsAreCounted
  <2>1. Renewing = {}
    BY <1>2 DEF Renewing, Is
  <2>2. IsFiniteSet({1}) /\ Cardinality({1}) = 1 /\ IsFiniteSet({}) /\ Cardinality({}) = 0
    BY FS_Singleton, FS_EmptySet
  <2>3. {1} \in SUBSET (1 .. MaxCalls + 2) /\ \A j \in jobs : j[1] \in {1}
    BY DEF Init
  <2>4. calls = 0
    BY DEF Init
  <2>5. Cardinality({1}) + Cardinality(Renewing) <= calls + 1
    BY <2>1, <2>2, <2>4
  <2> QED
    BY <2>1, <2>2, <2>3, <2>5 DEF JobsAreCounted
<1>4. RadioIsOwned
  BY DEF Init, RadioIsOwned
<1>5. LossIsReported
  <2>1. events = <<"start">> /\ connected = FALSE
    BY DEF Init
  <2>2. \A i \in 1 .. Len(events) : events[i] = "start"
    BY <2>1
  <2> QED
    BY <2>1, <2>2 DEF LossIsReported
<1>6. CallsInTurn
  BY <1>2 DEF Init, CallsInTurn, HasDone, Is
<1>7. SamplerInTurn
  <2>1. ~charge /\ jobs = {<<1, kNormalSampleMs>>} /\ sampleJob = 1
    BY DEF Init
  <2>2. \A j \in jobs : j[1] = sampleJob
    BY <2>1
  <2>3. JobsRun(kNormalSampleMs)
    BY <2>1 DEF JobsRun
  <2>4. \A t \in Callers : HasSampled(t)
    BY <1>2 DEF HasSampled, Is
  <2> QED
    BY <2>1, <2>2, <2>3, <2>4 DEF SamplerInTurn
<1> QED
  BY <1>1, <1>3, <1>4, <1>5, <1>6, <1>7 DEF Inv

\* The inductive invariant: the types, who answers for the radio, what the event
\* queue tells of the link, what each call has done, and how many jobs there are.
THEOREM ChargeInvariant == Spec => []Inv
<1>1. Init => Inv
  BY InitInv
<1>2. Inv /\ [Next]_vars => Inv'
  BY StepTypes, StepCount, StepRadio, StepLoss, StepTurn, StepSampler DEF Inv
<1> QED
  BY <1>1, <1>2, PTL DEF Spec

\* The state keeps its types: the retries stay within kMaxRetries, the link is
\* only ever up on a station, and there is a number for every job.
THEOREM ChargeTypes == Spec => []TypeOK
<1>1. Inv => TypeOK
  BY TypeParts DEF Inv
<1> QED
  BY <1>1, ChargeInvariant, PTL

\* However calls that enter, leave and reconnect overlap, and whatever the driver
\* reports meanwhile, the radio is on once charge mode is over and all is quiet.
THEOREM RadioComesBack == Spec => []NormalHasRadio
<1>1. Inv => NormalHasRadio
  <2>1. ASSUME Inv, \A t \in Callers : step[t] = 0
        PROVE  ~Entering /\ \A t \in Callers : ~Is(t, "exit", {3, 4}) /\ ~Is(t, "reconnect", {4})
                                              /\ ~Is(t, "exit", {3})
    BY <2>1 DEF Entering, Is
  <2> QED
    BY <2>1 DEF Inv, RadioIsOwned, NormalHasRadio, Quiet
<1> QED
  BY <1>1, ChargeInvariant, PTL

\* In charge mode, entered by calls that did not overlap, the modules are down and
\* the radio is dark: the connection that was up when it stopped is not left standing.
THEOREM ChargeModeIsDark == Spec => []ChargeIsDark
<1>1. Inv => ChargeIsDark
  <2> SUFFICES ASSUME Inv, Quiet, charge, ~overlapped
               PROVE  ~modulesUp /\ showCharge /\ ((radio = "off" /\ ~connected) \/ provisioning)
    BY DEF ChargeIsDark
  <2>1. Dark
    BY DEF Inv, Quiet, CallsInTurn, Resting
  <2>2. Len(events) = 0
    BY DEF Quiet
  <2>3. ASSUME ~provisioning PROVE ~connected
    <3>1. link # "up"
      BY <2>1, <2>3 DEF Dark, Inv, Types, WifiTypes
    <3>2. 1 .. Len(events) = {}
      BY <2>2
    <3> QED
      BY <2>3, <3>1, <3>2 DEF Inv, LossIsReported
  <2> QED
    BY <2>1, <2>3 DEF Dark
<1> QED
  BY <1>1, ChargeInvariant, PTL

\* While calls do not overlap the battery is sampled by at most one job, the one
\* that is known, at the interval of the mode.
THEOREM OneSamplerRuns == Spec => []OneSampler
<1>1. Inv => OneSampler
  BY DEF Inv, SamplerInTurn, OneSampler, Quiet, Resting, JobsRun
<1> QED
  BY <1>1, ChargeInvariant, PTL
=============================================================================
