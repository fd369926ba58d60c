----------------------------- MODULE RadioScan -----------------------------
(***************************************************************************)
(* The on-demand radio scans: BleService, which starts the NimBLE host for *)
(* one scan and stops it again, and Ieee802154Service, which sweeps the    *)
(* channels with short energy detections.  A scan blocks the task that     *)
(* asks for it, the HTTP server's for a request or a scheduler worker for  *)
(* the tick of a module; an atomic flag admits one scan of each kind.      *)
(*                                                                         *)
(* Callbacks reach the scan through s_active.  Those of NimBLE run on its  *)
(* host task and may be preempted between a check and the use of what was  *)
(* checked; the energy callback is an interrupt, one step on the single    *)
(* core.  The host and the radio are external: a discovery may not end, a  *)
(* detection may be answered late or never, and every call may fail, the   *)
(* one that sets the channel without anybody looking at its result.        *)
(***************************************************************************)
EXTENDS Naturals

CONSTANTS Tasks,     \* the tasks that scan: the HTTP server and the worker
          Channels,  \* how many channels a survey sweeps
          Samples,   \* kEnergySamples
          NoTask

ASSUME ScanAssumption ==
  /\ Channels \in Nat \ {0} /\ Samples \in Nat \ {0}
  /\ {"httpd", "worker"} \subseteq Tasks /\ NoTask \notin Tasks

VARIABLES
  at,        \* where each task is in its scan
  flag,      \* scanning_ of each service
  active,    \* s_active of each service is set
  sem,       \* done_sem_ and energy_sem_: gone, empty or given
  out,       \* out_ of BleService: the task whose buffer it points to
  host,      \* the NimBLE host: down, up, synced or in discovery
  cb,        \* the callback the host task is in
  unstopped, \* history: nimble_port_stop() has failed
  channel,   \* the survey: its channel and the sample on it
  sample,
  tuned,     \* the radio: the channel it is on
  untuned,   \* history: the channels of this survey it could not be set to
  result,    \* energy_result_: where it was measured, 0 for -128
  detecting, \* the radio: the channel of the detection under way, 0 for none
  peak,      \* the channels whose energies went into each record
  late       \* history: an answer came after the result was cleared for the next

bleVars    == <<out, host, cb, unstopped>>
radioVars  == <<result, detecting, late>>
tunerVars  == <<tuned, untuned>>
surveyVars == <<channel, sample, peak, tunerVars, radioVars>>
scanVars == <<at, flag, active, sem, bleVars, surveyVars>>

Services == {"ble", "survey"}
Sweep    == 1 .. Channels

ScanInit ==
  /\ at = [t \in Tasks |-> "idle"]
  /\ flag = [s \in Services |-> FALSE] /\ active = [s \in Services |-> FALSE]
  /\ sem = [s \in Services |-> "gone"]
  /\ out = NoTask /\ host = "down" /\ cb = "none" /\ unstopped = FALSE
  /\ channel = 1 /\ sample = 1 /\ result = 0 /\ detecting = 0
  /\ tuned \in Sweep /\ untuned = {}
  /\ peak = [c \in Sweep |-> {}] /\ late = FALSE

Go(t, from, to) == at[t] = from /\ at' = [at EXCEPT ![t] = to]

SetSem(s, v) == sem' = [sem EXCEPT ![s] = v]
Give(s)      == IF sem[s] = "gone" THEN UNCHANGED sem ELSE SetSem(s, "given")

\* The flag goes back when a scan ends, and on each path it fails on.
Lower(s) == flag' = [flag EXCEPT ![s] = FALSE]

\* compare_exchange of scanning_: a second scan is refused, and nothing changes.
Admit(t, s, there) ==
  /\ Go(t, "idle", there)
  /\ ~flag[s] /\ flag' = [flag EXCEPT ![s] = TRUE]
  /\ UNCHANGED <<active, sem>>

-----------------------------------------------------------------------------
(* BleService::scan().                                                       *)

BleBegin(t) ==
  /\ Admit(t, "ble", "bleSem")
  /\ out' = t
  /\ UNCHANGED <<host, cb, unstopped, surveyVars>>

BleRequest == BleBegin("httpd")     \* the REST handler
BleTick    == BleBegin("worker")    \* the module's job

\* The semaphore is created, or there is no memory for it.
BleSem(t) ==
  /\ \/ Go(t, "bleSem", "bleInit") /\ SetSem("ble", "empty") /\ UNCHANGED flag
     \/ Go(t, "bleSem", "idle") /\ Lower("ble") /\ UNCHANGED sem
  /\ UNCHANGED <<active, bleVars, surveyVars>>

\* A fault: the flag stays up when nimble_port_init() fails.
BleInitLeaks(t) ==
  /\ \/ /\ Go(t, "bleInit", "bleWait")
        /\ active' = [active EXCEPT !["ble"] = TRUE]
        /\ host' = IF host = "down" THEN "up" ELSE host
        /\ UNCHANGED <<sem, flag>>
     \/ /\ Go(t, "bleInit", "idle")
        /\ SetSem("ble", "gone")
        /\ UNCHANGED <<active, host, flag>>
  /\ UNCHANGED <<out, cb, unstopped, surveyVars>>

\* nimble_port_init(), and the host's task when it succeeds; a host that could
\* not be stopped is still there.
BleInit(t) ==
  /\ \/ /\ Go(t, "bleInit", "bleWait")
        /\ active' = [active EXCEPT !["ble"] = TRUE]
        /\ host' = IF host = "down" THEN "up" ELSE host
        /\ UNCHANGED <<sem, flag>>
     \/ /\ Go(t, "bleInit", "idle")
        /\ SetSem("ble", "gone") /\ Lower("ble")
        /\ UNCHANGED <<active, host>>
  /\ UNCHANGED <<out, cb, unstopped, surveyVars>>

\* The semaphore is taken, or the wait times out.
BleWait(t) ==
  /\ Go(t, "bleWait", "bleStop")
  /\ SetSem("ble", "empty")
  /\ UNCHANGED <<flag, active, bleVars, surveyVars>>

\* A fault: the host's task is not waited for.
BleStopNoWait(t) ==
  /\ Go(t, "bleStop", "bleEnd")
  /\ \/ host' = "down" /\ UNCHANGED unstopped
     \/ unstopped' = TRUE /\ UNCHANGED host
  /\ UNCHANGED <<flag, active, sem, out, cb, surveyVars>>

\* nimble_port_stop() returns when the host's task has left its callbacks; when
\* it fails, the scan goes on as if it had not.
BleStop(t) ==
  /\ Go(t, "bleStop", "bleEnd")
  /\ \/ cb = "none" /\ host' = "down" /\ UNCHANGED unstopped
     \/ unstopped' = TRUE /\ UNCHANGED host
  /\ UNCHANGED <<flag, active, sem, out, cb, surveyVars>>

BleEnd(t) ==
  /\ Go(t, "bleEnd", "idle")
  /\ active' = [active EXCEPT !["ble"] = FALSE]
  /\ SetSem("ble", "gone") /\ Lower("ble")
  /\ out' = NoTask
  /\ UNCHANGED <<host, cb, unstopped, surveyVars>>

-----------------------------------------------------------------------------
(* The NimBLE host's task and its callbacks.                                 *)

HostOnly == UNCHANGED <<at, flag, active, out, unstopped, surveyVars>>

\* A callback begins; without an active scan it returns at once.
CbBegin(h, kind, after) ==
  /\ cb = "none" /\ host = h
  /\ host' = after
  /\ cb' = IF active["ble"] THEN kind ELSE "none"
  /\ UNCHANGED sem /\ HostOnly

OnSync   == CbBegin("up", "sync", "synced")
Advert   == CbBegin("disc", "advert", "disc")
Complete == CbBegin("disc", "complete", "synced")

\* onSync() starts the discovery, or fails and wakes the scan itself.
SyncStarts ==
  /\ cb = "sync"
  /\ \/ host' = "disc" /\ cb' = "none"
     \/ cb' = "complete" /\ UNCHANGED host
  /\ UNCHANGED sem /\ HostOnly

\* The tests of done_sem_ and out_, ahead of their use.
CbCheck ==
  /\ \/ cb = "complete" /\ cb' = IF sem["ble"] = "gone" THEN "none" ELSE "give"
     \/ cb = "advert" /\ cb' = IF out = NoTask THEN "none" ELSE "record"
  /\ UNCHANGED <<host, sem>> /\ HostOnly

CbUse ==
  /\ \/ cb = "give" /\ Give("ble")
     \/ cb = "record" /\ UNCHANGED sem     \* recordAdvert() into out_
  /\ cb' = "none"
  /\ UNCHANGED host /\ HostOnly

HostTask == OnSync \/ Advert \/ Complete \/ SyncStarts \/ CbCheck \/ CbUse

-----------------------------------------------------------------------------
(* Ieee802154Service::scan().                                                *)

SurveyBegin(t) ==
  /\ Admit(t, "survey", "surveySem")
  /\ UNCHANGED <<bleVars, surveyVars>>

SurveyRequest == SurveyBegin("httpd")
SurveyTick    == SurveyBegin("worker")

SurveySem(t) ==
  /\ \/ Go(t, "surveySem", "enable") /\ SetSem("survey", "empty") /\ UNCHANGED flag
     \/ Go(t, "surveySem", "idle") /\ Lower("survey") /\ UNCHANGED sem
  /\ UNCHANGED <<active, bleVars, surveyVars>>

\* esp_ieee802154_set_channel(): when it fails the radio stays where it was, and the
\* survey goes on.
SetChannel(c, missed) ==
  \/ tuned' = c /\ untuned' = missed
  \/ UNCHANGED tuned /\ untuned' = missed \cup {c}

\* esp_ieee802154_enable(), and the first channel.
Enable(t) ==
  /\ \/ /\ Go(t, "enable", "reset")
        /\ active' = [active EXCEPT !["survey"] = TRUE]
        /\ channel' = 1 /\ sample' = 1 /\ late' = FALSE
        /\ peak' = [c \in Sweep |-> {}]
        /\ SetChannel(1, {})
        /\ UNCHANGED <<sem, flag>>
     \/ /\ Go(t, "enable", "idle")
        /\ SetSem("survey", "gone") /\ Lower("survey")
        /\ UNCHANGED <<active, channel, sample, late, peak, tunerVars>>
  /\ UNCHANGED <<result, detecting, bleVars>>

\* A fault: the result of the sample before is not cleared.
ResetNothing(t) ==
  /\ Go(t, "reset", "detect")
  /\ UNCHANGED <<flag, active, sem, bleVars, surveyVars>>

ResetResult(t) ==
  /\ Go(t, "reset", "detect")
  /\ result' = 0
  /\ UNCHANGED <<flag, active, sem, bleVars, channel, sample, tunerVars, detecting, peak, late>>

\* The next sample of this channel, the next channel, or the end.
NextSample(t, from) ==
  \/ /\ sample < Samples
     /\ Go(t, from, "reset")
     /\ sample' = sample + 1 /\ UNCHANGED <<channel, tunerVars>>
  \/ /\ sample = Samples /\ channel < Channels
     /\ Go(t, from, "reset")
     /\ sample' = 1 /\ channel' = channel + 1
     /\ SetChannel(channel + 1, untuned)
  \/ /\ sample = Samples /\ channel = Channels
     /\ Go(t, from, "surveyEnd")
     /\ UNCHANGED <<channel, sample, tunerVars>>

\* esp_ieee802154_energy_detect() on the channel the radio is on; it drops a detection
\* still under way, and when it fails the sample is left out.
Detect(t) ==
  /\ \/ Go(t, "detect", "take") /\ detecting' = tuned /\ UNCHANGED <<channel, sample, tunerVars>>
     \/ NextSample(t, "detect") /\ UNCHANGED detecting
  /\ UNCHANGED <<flag, active, sem, bleVars, result, peak, late>>

\* The semaphore was given: the result counts for the channel that was to be set.
Taken(t) ==
  /\ at[t] = "take" /\ sem["survey"] = "given"
  /\ SetSem("survey", "empty")
  /\ peak' = [peak EXCEPT ![channel] = IF result = 0 THEN @ ELSE @ \cup {result}]
  /\ NextSample(t, "take")
  /\ UNCHANGED <<flag, active, bleVars, result, detecting, late>>

TimedOut(t) ==
  /\ at[t] = "take" /\ sem["survey"] = "empty"
  /\ NextSample(t, "take")
  /\ UNCHANGED <<flag, active, sem, bleVars, peak, radioVars>>

\* s_active is cleared before the radio is disabled, which drops a detection.
SurveyEnd(t) ==
  /\ Go(t, "surveyEnd", "idle")
  /\ active' = [active EXCEPT !["survey"] = FALSE]
  /\ detecting' = 0
  /\ SetSem("survey", "gone") /\ Lower("survey")
  /\ UNCHANGED <<bleVars, channel, sample, tunerVars, result, peak, late>>

\* onEnergyDone(), in an interrupt.  An answer after its timeout is too late to be
\* told from the next one's when the result was already cleared for that.
EnergyDone ==
  /\ detecting # 0
  /\ detecting' = 0
  /\ IF active["survey"]
     THEN /\ result' = detecting /\ Give("survey")
          /\ late' = (late \/ \E t \in Tasks : at[t] = "detect")
     ELSE UNCHANGED <<result, sem, late>>
  /\ UNCHANGED <<at, flag, active, bleVars, channel, sample, tunerVars, peak>>

Proceed(t) ==
  \/ BleSem(t) \/ BleInit(t) \/ BleWait(t) \/ BleStop(t) \/ BleEnd(t)
  \/ SurveySem(t) \/ Enable(t) \/ ResetResult(t) \/ Detect(t)
  \/ Taken(t) \/ TimedOut(t) \/ SurveyEnd(t)

ScanNext ==
  \/ BleRequest \/ BleTick \/ SurveyRequest \/ SurveyTick
  \/ \E t \in Tasks : Proceed(t)
  \/ HostTask \/ EnergyDone

ScanSpec == ScanInit /\ [][ScanNext]_scanVars

-----------------------------------------------------------------------------
(* Properties.                                                               *)

InBle    == {"bleSem", "bleInit", "bleWait", "bleStop", "bleEnd"}
InSurvey == {"surveySem", "enable", "reset", "detect", "take", "surveyEnd"}

ScanTypeOK ==
  /\ at \in [Tasks -> {"idle"} \cup InBle \cup InSurvey]
  /\ flag \in [Services -> BOOLEAN] /\ active \in [Services -> BOOLEAN]
  /\ sem \in [Services -> {"gone", "empty", "given"}]
  /\ out \in Tasks \cup {NoTask}
  /\ host \in {"down", "up", "synced", "disc"}
  /\ cb \in {"none", "sync", "advert", "complete", "give", "record"}
  /\ unstopped \in BOOLEAN /\ late \in BOOLEAN
  /\ channel \in Sweep /\ sample \in 1 .. Samples
  /\ tuned \in Sweep /\ untuned \subseteq Sweep
  /\ result \in 0 .. Channels /\ detecting \in 0 .. Channels
  /\ peak \in [Sweep -> SUBSET Sweep]

\* A service is busy while exactly one task scans with it and free afterwards,
\* whatever failed on the way: no second scan joins, and none is refused for ever.
BusyWhileScanning ==
  /\ \A t \in Tasks : at[t] \in InBle => flag["ble"]
  /\ \A t \in Tasks : at[t] \in InSurvey => flag["survey"]
  /\ flag["ble"] => \E t \in Tasks : at[t] \in InBle /\ \A u \in Tasks \ {t} : at[u] \notin InBle
  /\ flag["survey"] =>
       \E t \in Tasks : at[t] \in InSurvey /\ \A u \in Tasks \ {t} : at[u] \notin InSurvey

\* A callback that has tested the semaphore or the buffer finds it when it uses
\* it, however late it runs, unless the host could not be stopped.
CallbacksAreSafe ==
  ~unstopped => /\ cb = "give" => sem["ble"] # "gone"
                /\ cb = "record" => out # NoTask /\ at[out] \in InBle

\* An energy in a channel's record was measured on that channel, also when answers
\* come after their timeouts and leave the semaphore given to the sample after.  Two
\* records are set aside: one of a channel the radio could not be set to, which holds
\* the energies of the channel it stayed on, and one of a survey in which an answer fell
\* between the clearing of the result and the start of the next detection.
EnergyIsOwn ==
  ~late => \A c \in Sweep \ untuned : peak[c] \subseteq {c}
=============================================================================
