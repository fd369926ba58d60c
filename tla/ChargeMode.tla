---------------------------- MODULE ChargeMode ----------------------------
(***************************************************************************)
(* Charge mode: PowerModeService and what it switches, the Wi-Fi radio     *)
(* with its event handler, the battery sampling job and the display's mode.*)
(* None of it has a lock.  enterChargeMode() and exitChargeMode() run on   *)
(* whichever task calls them (the boot button's, the HTTP server's, a      *)
(* scheduler worker) and interleave with each other, with reconnectSta()   *)
(* on the HTTP server's task and with the Wi-Fi event task.                *)
(*                                                                         *)
(* The application modules are up or down as a whole (ModuleManager has    *)
(* them in detail), Wi-Fi credentials are configured, and the driver's     *)
(* calls succeed.                                                          *)
(***************************************************************************)
EXTENDS Naturals, Sequences, FiniteSets

CONSTANTS Callers,     \* the tasks that enter and leave charge mode
          MaxRetries,  \* kMaxRetries
          MaxCalls,    \* bound: calls made in a behaviour
          MaxEvents    \* bound: Wi-Fi events waiting

ASSUME ChargeAssumption ==
  /\ MaxRetries \in Nat
  /\ MaxCalls \in Nat
  /\ MaxEvents \in Nat \ {0}

VARIABLES
  charge,        \* charge_mode_
  modulesUp,     \* the application modules run
  op, step,      \* the call of each task, and where it is in it (0: nowhere)
  calls,         \* history: how many calls began
  overlapped,    \* history: a call began while another was in progress
  crossed,       \* history: a reconnection and another call were in progress together
  pending,       \* enterChargeModeJob jobs that are still to run
  provisioning,  \* provisioning_
  stopped,       \* radio_stopped_
  connected,     \* sta_connected_
  retry,         \* retry_count_
  radio,         \* the driver: off, sta or ap
  link,          \* the driver: none, trying or up
  events,        \* Wi-Fi events the driver posted, oldest first
  handler,       \* the event handler: idle, or on its way to the portal
  jobs,          \* periodic sampling jobs that exist: <<number, interval>>
  sampleJob,     \* sample_job_, 0 when invalid
  showCharge     \* charge_mode_ of the display

modeVars   == <<charge, modulesUp>>
callVars   == <<op, step, calls, overlapped, crossed, pending>>
flagVars   == <<provisioning, stopped, connected, retry>>
driverVars == <<radio, link, events>>
wifiVars   == <<flagVars, driverVars, handler>>
jobVars    == <<jobs, sampleJob>>
vars == <<modeVars, callVars, wifiVars, jobVars, showCharge>>

\* The sampling intervals of the two modes, in ms.
kNormalSampleMs == 30000
kChargeSampleMs == 5000
Intervals == {kNormalSampleMs, kChargeSampleMs}

Init ==
  /\ charge = FALSE /\ modulesUp = TRUE
  /\ op = [t \in Callers |-> "none"] /\ step = [t \in Callers |-> 0]
  /\ calls = 0 /\ overlapped = FALSE /\ crossed = FALSE /\ pending = 0
  /\ provisioning = FALSE /\ stopped = FALSE /\ connected = FALSE /\ retry = 0
  /\ radio = "sta" /\ link = "none" /\ events = <<"start">> /\ handler = "idle"
  /\ jobs = {<<1, kNormalSampleMs>>} /\ sampleJob = 1
  /\ showCharge = FALSE

-----------------------------------------------------------------------------
(* The calls, as the steps they take in order.                               *)

Resample == <<"cancelJob", "forgetJob", "newJob">>

\* reconnectSta(), past its check.
Reconnection == <<"clearRetry", "disconnect", "wifiStop", "wifiStart">>

Calls == {"enter", "exit", "reconnect"}

\* A fault: exitChargeMode() clears charge_mode_ last.
PathModeLast ==
  [o \in Calls |->
     CASE o = "enter" -> <<"stopAll", "stopRadio", "wifiStop">> \o Resample \o <<"show", "setMode">>
       [] o = "exit" -> <<"show", "resume", "wifiStart", "startAll">> \o Resample \o <<"setMode">>
       [] o = "reconnect" -> Reconnection]

Path ==
  [o \in Calls |->
     CASE o = "enter" -> <<"stopAll", "stopRadio", "wifiStop">> \o Resample \o <<"show", "setMode">>
       [] o = "exit" -> <<"show", "setMode", "resume", "wifiStart", "startAll">> \o Resample
       [] o = "reconnect" -> Reconnection]

\* The first check of each call.
Admits(o) ==
  CASE o = "enter" -> ~charge /\ ~provisioning
    [] o = "exit" -> charge
    [] o = "reconnect" -> ~provisioning /\ ~stopped

At(t, s) == step[t] # 0 /\ Path[op[t]][step[t]] = s

\* n steps on, out of the call after the last.
Advance(t, n) ==
  /\ IF step[t] + n > Len(Path[op[t]])
     THEN op' = [op EXCEPT ![t] = "none"] /\ step' = [step EXCEPT ![t] = 0]
     ELSE step' = [step EXCEPT ![t] = @ + n] /\ UNCHANGED op
  /\ UNCHANGED <<calls, overlapped, crossed, pending>>

\* The first checks let the call through.
Begin(t, o) ==
  /\ step[t] = 0 /\ calls < MaxCalls
  /\ Admits(o)
  /\ op' = [op EXCEPT ![t] = o]
  /\ step' = [step EXCEPT ![t] = 1]
  /\ calls' = calls + 1
  /\ overlapped' = (overlapped \/ \E u \in Callers : step[u] # 0)
  /\ crossed' = (crossed \/ \E u \in Callers : step[u] # 0 /\ "reconnect" \in {o, op[u]})
  /\ UNCHANGED <<modeVars, wifiVars, jobVars, showCharge>>

\* The boot button: a long press enters, a short one leaves.
Press(t) == t = "button" /\ (\E o \in {"enter", "exit"} : Begin(t, o)) /\ UNCHANGED pending

\* The REST request: leaving is done inline; entering is left to a job, and is
\* done inline when the job table is full.
Request(t) ==
  /\ t = "httpd"
  /\ \/ Begin(t, "exit") /\ UNCHANGED pending
     \/ ~provisioning /\ Begin(t, "enter") /\ UNCHANGED pending
     \/ /\ step[t] = 0 /\ ~provisioning /\ calls + pending < MaxCalls
        /\ pending' = pending + 1
        /\ UNCHANGED <<op, step, calls, overlapped, crossed, modeVars, wifiVars, jobVars, showCharge>>

\* The request for a new connection.
ReconnectRequest(t) == t = "httpd" /\ Begin(t, "reconnect") /\ UNCHANGED pending

\* The job: when enterChargeMode() returns at once nothing changes but the job.
RunJob(t) ==
  /\ t = "worker" /\ step[t] = 0 /\ pending > 0
  /\ pending' = pending - 1
  /\ \/ Begin(t, "enter")
     \/ /\ charge \/ provisioning
        /\ UNCHANGED <<op, step, calls, overlapped, crossed, modeVars, wifiVars, jobVars, showCharge>>

-----------------------------------------------------------------------------
(* The Wi-Fi driver, external: it posts events for the event task, and       *)
(* answers each attempt to connect.                                          *)

Post(e) == Len(events) < MaxEvents /\ events' = Append(events, e)

LinkUp ==
  /\ link = "trying" /\ link' = "up" /\ Post("ip")
  /\ UNCHANGED <<radio, modeVars, callVars, flagVars, handler, jobVars, showCharge>>

LinkLost ==
  /\ link # "none" /\ link' = "none" /\ Post("lost")
  /\ UNCHANGED <<radio, modeVars, callVars, flagVars, handler, jobVars, showCharge>>

\* esp_wifi_disconnect(): reported as well.
Disconnect ==
  /\ link' = "none" /\ UNCHANGED radio
  /\ \/ link # "none" /\ Post("lost")
     \/ link = "none" /\ UNCHANGED events

\* esp_wifi_stop(): the disconnection of a link that was up is reported.
DriverStop ==
  /\ radio' = "off" /\ link' = "none"
  /\ \/ link # "none" /\ Post("lost")
     \/ link # "up" /\ UNCHANGED events

\* esp_wifi_set_mode(STA) and esp_wifi_start().
DriverStart ==
  /\ radio' = "sta"
  /\ \/ radio # "sta" /\ link' = "none" /\ Post("start")
     \/ radio = "sta" /\ UNCHANGED <<link, events>>

\* esp_wifi_connect(): an error, and nothing else, unless a station runs.
Connect == link' = IF radio = "sta" /\ link = "none" THEN "trying" ELSE link

-----------------------------------------------------------------------------
(* WifiService's event handlers, on the event task.                          *)

Handle(e) ==
  /\ handler = "idle" /\ events # <<>> /\ Head(events) = e
  /\ events' = Tail(events)
  /\ UNCHANGED <<provisioning, stopped, radio, modeVars, callVars, jobVars, showCharge>>

StaStart == Handle("start") /\ Connect /\ UNCHANGED <<connected, retry, handler>>

GotIp ==
  /\ Handle("ip")
  /\ retry' = 0 /\ connected' = TRUE
  /\ UNCHANGED <<link, handler>>

\* A fault: one retry too many.
DisconnectedOneMore ==
  /\ Handle("lost")
  /\ connected' = FALSE
  /\ \/ (provisioning \/ stopped) /\ UNCHANGED <<retry, link, handler>>
     \/ /\ ~(provisioning \/ stopped)
        /\ \/ retry <= MaxRetries /\ retry' = retry + 1 /\ Connect /\ UNCHANGED handler
           \/ retry > MaxRetries /\ handler' = "provision" /\ UNCHANGED <<retry, link>>

\* A fault: a disconnection while the radio is stopped is not recorded.
DisconnectedEarlyBreak ==
  /\ Handle("lost")
  /\ \/ (provisioning \/ stopped) /\ UNCHANGED <<connected, retry, link, handler>>
     \/ /\ ~(provisioning \/ stopped) /\ connected' = FALSE
        /\ \/ retry < MaxRetries /\ retry' = retry + 1 /\ Connect /\ UNCHANGED handler
           \/ retry >= MaxRetries /\ handler' = "provision" /\ UNCHANGED <<retry, link>>

Disconnected ==
  /\ Handle("lost")
  /\ connected' = FALSE
  /\ \/ (provisioning \/ stopped) /\ UNCHANGED <<retry, link, handler>>
     \/ /\ ~(provisioning \/ stopped)
        /\ \/ retry < MaxRetries /\ retry' = retry + 1 /\ Connect /\ UNCHANGED handler
           \/ retry >= MaxRetries /\ handler' = "provision" /\ UNCHANGED <<retry, link>>

\* startProvisioning(), which the handler had decided on.
StartProvisioning ==
  /\ handler = "provision"
  /\ provisioning' = TRUE
  /\ handler' = "ap"
  /\ UNCHANGED <<stopped, connected, retry, driverVars, modeVars, callVars, jobVars, showCharge>>

StartAp ==
  /\ handler = "ap"
  /\ radio' = "ap" /\ link' = "none"
  /\ handler' = "idle"
  /\ UNCHANGED <<events, flagVars, modeVars, callVars, jobVars, showCharge>>

WifiEvent == StaStart \/ GotIp \/ Disconnected \/ StartProvisioning \/ StartAp
Answer    == LinkUp \/ LinkLost

-----------------------------------------------------------------------------
(* The steps of a call.                                                      *)

SwitchModules(t) ==
  /\ \/ At(t, "stopAll")  /\ modulesUp' = FALSE
     \/ At(t, "startAll") /\ modulesUp' = TRUE
  /\ Advance(t, 1)
  /\ UNCHANGED <<charge, wifiVars, jobVars, showCharge>>

SetMode(t) ==
  /\ At(t, "setMode")
  /\ charge' = (op[t] = "enter")
  /\ Advance(t, 1)
  /\ UNCHANGED <<modulesUp, wifiVars, jobVars, showCharge>>

\* stopRadio() up to esp_wifi_stop(); the portal's radio is not stopped.
StopRadio(t) ==
  /\ At(t, "stopRadio")
  /\ \/ provisioning /\ Advance(t, 2) /\ UNCHANGED flagVars
     \/ /\ ~provisioning /\ Advance(t, 1)
        /\ stopped' = TRUE /\ connected' = FALSE
        /\ UNCHANGED <<provisioning, retry>>
  /\ UNCHANGED <<modeVars, driverVars, handler, jobVars, showCharge>>

\* A fault: the radio is started again but still marked as stopped.
ResumeStillStopped(t) ==
  /\ At(t, "resume")
  /\ \/ provisioning /\ Advance(t, 2) /\ UNCHANGED flagVars
     \/ /\ ~provisioning /\ Advance(t, 1)
        /\ retry' = 0
        /\ UNCHANGED <<provisioning, connected, stopped>>
  /\ UNCHANGED <<modeVars, driverVars, handler, jobVars, showCharge>>

\* resumeSta() up to startSta().
Resume(t) ==
  /\ At(t, "resume")
  /\ \/ provisioning /\ Advance(t, 2) /\ UNCHANGED flagVars
     \/ /\ ~provisioning /\ Advance(t, 1)
        /\ stopped' = FALSE /\ retry' = 0
        /\ UNCHANGED <<provisioning, connected>>
  /\ UNCHANGED <<modeVars, driverVars, handler, jobVars, showCharge>>

SwitchRadio(t) ==
  /\ \/ At(t, "wifiStop")  /\ DriverStop
     \/ At(t, "wifiStart") /\ DriverStart
  /\ Advance(t, 1)
  /\ UNCHANGED <<modeVars, flagVars, handler, jobVars, showCharge>>

ClearRetry(t) ==
  /\ At(t, "clearRetry")
  /\ retry' = 0
  /\ Advance(t, 1)
  /\ UNCHANGED <<provisioning, stopped, connected, driverVars, modeVars, handler, jobVars, showCharge>>

HangUp(t) ==
  /\ At(t, "disconnect")
  /\ Disconnect
  /\ Advance(t, 1)
  /\ UNCHANGED <<modeVars, flagVars, handler, jobVars, showCharge>>

\* A fault: the job that is known is not cancelled.
CancelJobNever(t) ==
  /\ At(t, "cancelJob")
  /\ Advance(t, 2)
  /\ UNCHANGED <<jobs, sampleJob, modeVars, wifiVars, showCharge>>

\* setSampleInterval(): cancel the job that is known, forget it, make another.
CancelJob(t) ==
  /\ At(t, "cancelJob")
  /\ \/ sampleJob # 0 /\ jobs' = {j \in jobs : j[1] # sampleJob} /\ Advance(t, 1)
     \/ sampleJob = 0 /\ UNCHANGED jobs /\ Advance(t, 2)
  /\ UNCHANGED <<sampleJob, modeVars, wifiVars, showCharge>>

ForgetJob(t) ==
  /\ At(t, "forgetJob")
  /\ sampleJob' = 0
  /\ Advance(t, 1)
  /\ UNCHANGED <<jobs, modeVars, wifiVars, showCharge>>

\* The number of a job nobody holds; the job table may be full.
NewJob(t) ==
  /\ At(t, "newJob")
  /\ \/ LET n == CHOOSE k \in 1 .. MaxCalls + 2 : k # sampleJob /\ \A j \in jobs : j[1] # k
        IN  jobs' = jobs \cup {<<n, IF op[t] = "enter" THEN kChargeSampleMs ELSE kNormalSampleMs>>}
            /\ sampleJob' = n
     \/ UNCHANGED jobVars
  /\ Advance(t, 1)
  /\ UNCHANGED <<modeVars, wifiVars, showCharge>>

\* setChargeMode() of the display.
Show(t) ==
  /\ At(t, "show")
  /\ showCharge' = (op[t] = "enter")
  /\ Advance(t, 1)
  /\ UNCHANGED <<modeVars, wifiVars, jobVars>>

Proceed(t) ==
  \/ SwitchModules(t) \/ SetMode(t)
  \/ StopRadio(t) \/ Resume(t) \/ SwitchRadio(t) \/ ClearRetry(t) \/ HangUp(t)
  \/ CancelJob(t) \/ ForgetJob(t) \/ NewJob(t)
  \/ Show(t)

Next ==
  \/ \E t \in Callers : Press(t) \/ Request(t) \/ ReconnectRequest(t) \/ RunJob(t) \/ Proceed(t)
  \/ WifiEvent \/ Answer

Spec == Init /\ [][Next]_vars

\* Tasks are scheduled, events are handled, and the driver answers each attempt.
Fairness ==
  /\ \A t \in Callers : WF_vars(Proceed(t))
  /\ WF_vars(WifiEvent) /\ WF_vars(Answer)

FairSpec == Spec /\ Fairness

-----------------------------------------------------------------------------
(* Properties.                                                               *)

TypeOK ==
  /\ {charge, modulesUp, overlapped, crossed, provisioning, stopped, connected, showCharge} \subseteq BOOLEAN
  /\ op \in [Callers -> Calls \cup {"none"}]
  /\ step \in [Callers -> 0 .. 8]
  /\ calls \in 0 .. MaxCalls /\ pending \in 0 .. MaxCalls
  /\ retry \in 0 .. MaxRetries
  /\ radio \in {"off", "sta", "ap"} /\ link \in {"none", "trying", "up"}
  /\ link # "none" => radio = "sta"
  /\ events \in Seq({"start", "ip", "lost"}) /\ Len(events) <= MaxEvents
  /\ handler \in {"idle", "provision", "ap"}
  /\ jobs \subseteq (1 .. MaxCalls + 2) \X Intervals
  /\ sampleJob \in 0 .. MaxCalls + 2

\* No call is in progress and every Wi-Fi event has been handled.
Quiet == (\A t \in Callers : step[t] = 0) /\ events = <<>> /\ handler = "idle"

\* However the calls overlap, the radio is back when charge mode is over, unless
\* the provisioning portal has it.
NormalHasRadio == Quiet /\ ~charge /\ ~provisioning => ~stopped /\ radio = "sta"

\* In charge mode, entered by calls that did not overlap, the modules are down
\* and the radio is dark, unless the portal came up first: what its handlers had
\* in hand when the radio was stopped changes nothing.
ChargeIsDark ==
  Quiet /\ charge /\ ~overlapped =>
    /\ ~modulesUp /\ showCharge
    /\ (radio = "off" /\ ~connected) \/ provisioning

\* While calls do not overlap there is at most one sampling job, the one that
\* is known, and with no call in progress its interval is the one the code has for
\* the mode (which of the two is the longer, SamplesSlower asks).
OneSampler ==
  ~overlapped =>
    /\ \A j \in jobs : j[1] = sampleJob
    /\ Quiet => \A j \in jobs : j[2] = IF charge THEN kChargeSampleMs ELSE kNormalSampleMs

\* What power_mode_service.hpp says, entering charge mode "slows battery sampling to
\* a charge-friendly interval": once calls that did not overlap have entered it, the
\* battery is sampled less often than at boot.  The interval is a sixth of it.
SamplesSlower ==
  Quiet /\ charge /\ ~overlapped => \A j \in jobs : j[2] > kNormalSampleMs

\* Nobody is left without a network: outside charge mode the station connects,
\* or its retries run out and the portal opens.  That is so however calls overlap,
\* unless one of them is a reconnection.
NeverStranded == ~charge ~> (connected \/ provisioning \/ charge \/ crossed)

\* What power_mode_service.hpp says, "Exit restores normal operation", and normal is
\* to have a network or the portal: with a reconnection under way when charge mode was
\* entered, the radio is started again, and leaving charge mode starts it once more to
\* no effect.
ExitReconnects == ~charge ~> (connected \/ provisioning \/ charge)
=============================================================================
