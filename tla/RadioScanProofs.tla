------------------------- MODULE RadioScanProofs -------------------------
(***************************************************************************)
(* Proofs about RadioScan for any number of tasks, channels and samples.   *)
(*                                                                         *)
(* A callback is safe because the host is up only between the start of a   *)
(* scan's host and its stop, where the semaphore is there and out_ is the  *)
(* scanning task's; a record is right because the radio is on its channel  *)
(* unless it could not be set to it, the result is empty when a detection  *)
(* starts, and until it is taken only that detection fills it.             *)
(***************************************************************************)
EXTENDS RadioScan, TLAPS

InHost == {"bleWait", "bleStop"}
HasSem == {"bleInit", "bleWait", "bleStop", "bleEnd"}

ScanHasSem  == \A t \in Tasks : at[t] \in HasSem => sem["ble"] # "gone"
ScanHasOut  == \A t \in Tasks : at[t] \in InBle => out = t
HostInScan  ==
  ~unstopped => /\ cb # "none" => host # "down"
                /\ host # "down" => \E t \in Tasks : at[t] \in InHost

TunerIsOwn == channel \in untuned \/ tuned = channel

ResultIsOwn ==
  /\ \A t \in Tasks : at[t] \in {"reset", "detect", "take"} => TunerIsOwn
  /\ ~late => \A t \in Tasks :
       /\ at[t] = "detect" => result = 0
       /\ at[t] = "take" => result \in {0, tuned} /\ detecting \in {0, tuned}

Places == {"idle"} \cup InBle \cup InSurvey

Busy(s, places) ==
  /\ \A t \in Tasks : at[t] \in places => flag[s]
  /\ flag[s] => \E t \in Tasks : at[t] \in places /\ \A u \in Tasks \ {t} : at[u] \notin places

\* The state's types by whom they belong to; together they are ScanTypeOK.
BleTypes ==
  /\ out \in Tasks \cup {NoTask}
  /\ host \in {"down", "up", "synced", "disc"}
  /\ cb \in {"none", "sync", "advert", "complete", "give", "record"}
  /\ unstopped \in BOOLEAN

SurveyTypes ==
  /\ late \in BOOLEAN
  /\ channel \in Sweep /\ sample \in 1 .. Samples
  /\ tuned \in Sweep /\ untuned \subseteq Sweep
  /\ result \in 0 .. Channels /\ detecting \in 0 .. Channels
  /\ peak \in [Sweep -> SUBSET Sweep]

SharedTypes ==
  /\ at \in [Tasks -> Places]
  /\ flag \in [Services -> BOOLEAN] /\ active \in [Services -> BOOLEAN]
  /\ sem \in [Services -> {"gone", "empty", "given"}]

Inv ==
  /\ SharedTypes /\ BleTypes /\ SurveyTypes
  /\ Busy("ble", InBle) /\ Busy("survey", InSurvey)
  /\ ScanHasSem /\ ScanHasOut /\ HostInScan
  /\ ResultIsOwn /\ EnergyIsOwn

LEMMA BusyParts == BusyWhileScanning <=> Busy("ble", InBle) /\ Busy("survey", InSurvey)
  BY DEF BusyWhileScanning, Busy

\* A step of one task that goes in with the flag going up, out with the flag going
\* down, or neither.
LEMMA BusyStep ==
  ASSUME NEW t \in Tasks, NEW s \in Services, NEW places, Busy(s, places),
         \A u \in Tasks \ {t} : at'[u] = at[u],
         \/ (at[t] \in places <=> at'[t] \in places) /\ flag'[s] = flag[s]
         \/ at[t] \in places /\ at'[t] \notin places /\ ~flag'[s]
         \/ at[t] \notin places /\ at'[t] \in places /\ ~flag[s] /\ flag'[s]
  PROVE  Busy(s, places)'
  BY DEF Busy

LEMMA OnlyOneIn ==
  ASSUME NEW s \in Services, NEW places, Busy(s, places),
         NEW t \in Tasks, at[t] \in places
  PROVE  \A u \in Tasks \ {t} : at[u] \notin places
  BY DEF Busy

Moves(t) == at' \in [Tasks -> Places] /\ \A u \in Tasks \ {t} : at'[u] = at[u]

LEMMA GoEffect ==
  ASSUME ScanTypeOK, NEW t \in Tasks, NEW from, NEW to \in Places, Go(t, from, to)
  PROVE  Moves(t) /\ at[t] = from /\ at'[t] = to
  BY DEF ScanTypeOK, Go, Moves, Places

LEMMA SemEffect ==
  ASSUME ScanTypeOK, NEW s \in Services, NEW v \in {"gone", "empty", "given"}, SetSem(s, v)
  PROVE  /\ sem' \in [Services -> {"gone", "empty", "given"}]
         /\ sem'[s] = v
         /\ \A r \in Services \ {s} : sem'[r] = sem[r]
  BY DEF ScanTypeOK, SetSem

LEMMA FlagEffect ==
  ASSUME ScanTypeOK, NEW s \in Services, NEW b \in BOOLEAN, flag' = [flag EXCEPT ![s] = b]
  PROVE  /\ flag' \in [Services -> BOOLEAN]
         /\ flag'[s] = b
         /\ \A r \in Services \ {s} : flag'[r] = flag[r]
  BY DEF ScanTypeOK

LEMMA LowerEffect ==
  ASSUME ScanTypeOK, NEW s \in Services, Lower(s)
  PROVE  /\ flag' \in [Services -> BOOLEAN]
         /\ ~flag'[s]
         /\ \A r \in Services \ {s} : flag'[r] = flag[r]
  BY DEF ScanTypeOK, Lower

LEMMA ActiveEffect ==
  ASSUME ScanTypeOK, NEW s \in Services,
         active' = [active EXCEPT ![s] = TRUE] \/ active' = [active EXCEPT ![s] = FALSE]
  PROVE  active' \in [Services -> BOOLEAN]
  BY DEF ScanTypeOK

LEMMA TypeParts == ScanTypeOK <=> SharedTypes /\ BleTypes /\ SurveyTypes
  BY DEF ScanTypeOK, SharedTypes, BleTypes, SurveyTypes, Places

LEMMA InitInv == ScanInit => Inv
<1> SUFFICES ASSUME ScanInit PROVE Inv
  OBVIOUS
<1>1. SharedTypes /\ BleTypes
  BY DEF ScanInit, SharedTypes, BleTypes, Places
<1>a. SurveyTypes
  <2>1. 1 \in Sweep /\ 1 \in 1 .. Samples /\ 0 \in 0 .. Channels
    BY ScanAssumption DEF Sweep
  <2> QED
    BY <2>1 DEF ScanInit, SurveyTypes
<1>2. \A t \in Tasks : at[t] = "idle"
  BY DEF ScanInit
<1>3. Busy("ble", InBle) /\ Busy("survey", InSurvey)
  BY <1>2 DEF ScanInit, Busy, InBle, InSurvey, Services
<1>4. ScanHasSem /\ ScanHasOut /\ HostInScan
  BY <1>2 DEF ScanInit, ScanHasSem, ScanHasOut, HostInScan, HasSem, InBle
<1>5. ResultIsOwn /\ EnergyIsOwn
  BY <1>2 DEF ScanInit, ResultIsOwn, EnergyIsOwn
<1> QED
  BY <1>1, <1>a, <1>3, <1>4, <1>5 DEF Inv

LEMMA InvParts ==
  Inv => /\ ScanTypeOK /\ SharedTypes /\ BleTypes /\ SurveyTypes
         /\ Busy("ble", InBle) /\ Busy("survey", InSurvey)
         /\ ScanHasSem /\ ScanHasOut /\ HostInScan /\ ResultIsOwn /\ EnergyIsOwn
  BY TypeParts DEF Inv

-----------------------------------------------------------------------------
(* A step of a BLE scan disturbs nothing of a survey, and the other way      *)
(* round.                                                                    *)

InBleOrIdle(p) == p \in InBle \cup {"idle"}
InSurveyOrIdle(p) == p \in InSurvey \cup {"idle"}

LEMMA BleStepLeavesSurvey ==
  ASSUME Inv, NEW t \in Tasks, Moves(t), InBleOrIdle(at[t]), InBleOrIdle(at'[t]),
         SharedTypes', BleTypes', Busy("ble", InBle)', ScanHasSem', ScanHasOut', HostInScan',
         flag'["survey"] = flag["survey"], UNCHANGED surveyVars
  PROVE  Inv'
<1> USE InvParts
<1>1. at[t] \notin InSurvey /\ at'[t] \notin InSurvey
  BY DEF InBleOrIdle, InBle, InSurvey
<1>2. Busy("survey", InSurvey)'
  BY <1>1, BusyStep DEF Moves, Services
<1>3. SurveyTypes'
  BY DEF SurveyTypes, surveyVars, tunerVars, radioVars, Sweep
<1>4. ResultIsOwn' /\ EnergyIsOwn'
  BY <1>1 DEF Moves, ResultIsOwn, TunerIsOwn, EnergyIsOwn, surveyVars, tunerVars, radioVars, InSurvey
<1> QED
  BY <1>2, <1>3, <1>4 DEF Inv

LEMMA SurveyStepLeavesBle ==
  ASSUME Inv, NEW t \in Tasks, Moves(t), InSurveyOrIdle(at[t]), InSurveyOrIdle(at'[t]),
         SharedTypes', SurveyTypes', Busy("survey", InSurvey)', ResultIsOwn', EnergyIsOwn',
         flag'["ble"] = flag["ble"], sem'["ble"] = sem["ble"], UNCHANGED bleVars
  PROVE  Inv'
<1> USE InvParts
<1>1. at[t] \notin InBle /\ at'[t] \notin InBle
  BY DEF InSurveyOrIdle, InBle, InSurvey
<1>2. Busy("ble", InBle)'
  BY <1>1, BusyStep DEF Moves, Services
<1>3. BleTypes'
  BY DEF BleTypes, bleVars
<1>4. \A u \in Tasks : at'[u] \in InBle => at'[u] = at[u]
  BY <1>1 DEF Moves
<1>5. ScanHasSem' /\ ScanHasOut'
  BY <1>4 DEF ScanHasSem, ScanHasOut, bleVars, HasSem, InBle
<1>6. \A u \in Tasks : at[u] \in InBle => at'[u] = at[u]
  BY <1>1 DEF Moves
<1>7. HostInScan'
  BY <1>6 DEF HostInScan, bleVars, InHost, InBle
<1> QED
  BY <1>2, <1>3, <1>5, <1>7 DEF Inv

LEMMA StepBle ==
  ASSUME Inv, NEW t \in Tasks,
         BleBegin(t) \/ BleSem(t) \/ BleInit(t) \/ BleWait(t) \/ BleStop(t) \/ BleEnd(t)
  PROVE  Inv'
<1> USE InvParts DEF InBleOrIdle
<1>0. SharedTypes /\ BleTypes /\ SurveyTypes /\ "ble" \in Services /\ "survey" \in Services
  BY DEF Services
<1>1. CASE BleBegin(t)
  <2>1. /\ at[t] = "idle" /\ at'[t] = "bleSem" /\ Moves(t)
        /\ ~flag["ble"] /\ flag'["ble"] /\ flag'["survey"] = flag["survey"]
        /\ flag' \in [Services -> BOOLEAN]
        /\ out' = t
        /\ UNCHANGED <<active, sem, host, cb, unstopped, surveyVars>>
    BY <1>0, <1>1, GoEffect, FlagEffect DEF BleBegin, Admit, Places, InBle, SharedTypes
  <2>2. \A u \in Tasks : at[u] \notin InBle
    BY <2>1 DEF Busy
  <2>3. Busy("ble", InBle)'
    BY <2>1, <1>0, BusyStep DEF Moves, InBle
  <2>4. ScanHasSem' /\ ScanHasOut' /\ HostInScan'
    BY <2>1, <2>2 DEF ScanHasSem, ScanHasOut, HostInScan, Moves, HasSem, InHost, InBle
  <2>5. SharedTypes' /\ BleTypes'
    BY <2>1, <1>0 DEF SharedTypes, BleTypes, Moves
  <2> QED
    BY <2>1, <2>3, <2>4, <2>5, BleStepLeavesSurvey DEF InBle
<1>2. CASE BleSem(t)
  <2>1. /\ at[t] = "bleSem" /\ at'[t] \in {"bleInit", "idle"} /\ Moves(t)
        /\ flag' \in [Services -> BOOLEAN] /\ flag'["survey"] = flag["survey"]
        /\ sem' \in [Services -> {"gone", "empty", "given"}]
        /\ at'[t] = "bleInit" => flag'["ble"] = flag["ble"] /\ sem'["ble"] = "empty"
        /\ at'[t] = "idle" => ~flag'["ble"] /\ sem'["ble"] = sem["ble"]
        /\ UNCHANGED <<active, out, host, cb, unstopped, surveyVars>>
    <3>1. CASE Go(t, "bleSem", "bleInit") /\ SetSem("ble", "empty") /\ UNCHANGED flag
      BY <3>1, <1>0, <1>2, GoEffect, SemEffect
         DEF BleSem, bleVars, Places, InBle, SharedTypes
    <3>2. CASE Go(t, "bleSem", "idle") /\ Lower("ble") /\ UNCHANGED sem
      BY <3>2, <1>0, <1>2, GoEffect, LowerEffect
         DEF BleSem, bleVars, Places, InBle, SharedTypes
    <3> QED
      BY <3>1, <3>2, <1>2 DEF BleSem
  <2>2. \A u \in Tasks \ {t} : at[u] \notin InBle
    BY <2>1, <1>0, OnlyOneIn DEF InBle
  <2>3. Busy("ble", InBle)'
    BY <2>1, <1>0, BusyStep DEF Moves, InBle
  <2>4. ScanHasSem' /\ ScanHasOut' /\ HostInScan'
    BY <2>1, <2>2 DEF ScanHasSem, ScanHasOut, HostInScan, Moves, HasSem, InHost, InBle
  <2>5. SharedTypes' /\ BleTypes'
    BY <2>1, <1>0 DEF SharedTypes, BleTypes, Moves
  <2> QED
    BY <2>1, <2>3, <2>4, <2>5, BleStepLeavesSurvey DEF InBle
<1>3. CASE BleInit(t)
  <2>1. /\ at[t] = "bleInit" /\ at'[t] \in {"bleWait", "idle"} /\ Moves(t)
        /\ flag' \in [Services -> BOOLEAN] /\ flag'["survey"] = flag["survey"]
        /\ sem' \in [Services -> {"gone", "empty", "given"}]
        /\ active' \in [Services -> BOOLEAN]
        /\ at'[t] = "bleWait" => /\ flag'["ble"] = flag["ble"] /\ sem'["ble"] = sem["ble"]
                                 /\ host' \in {"up", host} \ {"down"}
        /\ at'[t] = "idle" => ~flag'["ble"] /\ host' = host
        /\ UNCHANGED <<out, cb, unstopped, surveyVars>>
    <3>1. CASE /\ Go(t, "bleInit", "bleWait")
               /\ active' = [active EXCEPT !["ble"] = TRUE]
               /\ host' = IF host = "down" THEN "up" ELSE host
               /\ UNCHANGED <<sem, flag>>
      BY <3>1, <1>0, <1>3, GoEffect, ActiveEffect DEF BleInit, Places, InBle, SharedTypes
    <3>2. CASE /\ Go(t, "bleInit", "idle")
               /\ SetSem("ble", "gone") /\ Lower("ble")
               /\ UNCHANGED <<active, host>>
      BY <3>2, <1>0, <1>3, GoEffect, SemEffect, LowerEffect
         DEF BleInit, Places, InBle, SharedTypes
    <3> QED
      BY <3>1, <3>2, <1>3 DEF BleInit
  <2>2. \A u \in Tasks \ {t} : at[u] \notin InBle
    BY <2>1, <1>0, OnlyOneIn DEF InBle
  <2>3. Busy("ble", InBle)'
    BY <2>1, <1>0, BusyStep DEF Moves, InBle
  <2>4. ScanHasSem' /\ ScanHasOut' /\ HostInScan'
    BY <2>1, <2>2 DEF ScanHasSem, ScanHasOut, HostInScan, Moves, HasSem, InHost, InBle
  <2>5. SharedTypes' /\ BleTypes'
    BY <2>1, <1>0 DEF SharedTypes, BleTypes, Moves
  <2> QED
    BY <2>1, <2>3, <2>4, <2>5, BleStepLeavesSurvey DEF InBle
<1>4. CASE BleWait(t)
  <2>1. /\ at[t] = "bleWait" /\ at'[t] = "bleStop" /\ Moves(t)
        /\ sem' \in [Services -> {"gone", "empty", "given"}] /\ sem'["ble"] = "empty"
        /\ UNCHANGED <<flag, active, out, host, cb, unstopped, surveyVars>>
    BY <1>0, <1>4, GoEffect, SemEffect DEF BleWait, bleVars, Places, InBle
  <2>3. Busy("ble", InBle)'
    BY <2>1, <1>0, BusyStep DEF Moves, InBle
  <2>4. ScanHasSem' /\ ScanHasOut' /\ HostInScan'
    BY <2>1 DEF ScanHasSem, ScanHasOut, HostInScan, Moves, HasSem, InHost, InBle
  <2>5. SharedTypes' /\ BleTypes'
    BY <2>1, <1>0 DEF SharedTypes, BleTypes, Moves
  <2> QED
    BY <2>1, <2>3, <2>4, <2>5, BleStepLeavesSurvey DEF InBle
<1>5. CASE BleStop(t)
  <2>1. /\ at[t] = "bleStop" /\ at'[t] = "bleEnd" /\ Moves(t)
        /\ \/ cb = "none" /\ host' = "down" /\ unstopped' = unstopped
           \/ unstopped' = TRUE /\ host' = host
        /\ UNCHANGED <<flag, active, sem, out, cb, surveyVars>>
    BY <1>0, <1>5, GoEffect DEF BleStop, Places, InBle
  <2>3. Busy("ble", InBle)'
    BY <2>1, <1>0, BusyStep DEF Moves, InBle
  <2>4. ScanHasSem' /\ ScanHasOut' /\ HostInScan'
    BY <2>1 DEF ScanHasSem, ScanHasOut, HostInScan, Moves, HasSem, InHost, InBle
  <2>5. SharedTypes' /\ BleTypes'
    BY <2>1, <1>0 DEF SharedTypes, BleTypes, Moves
  <2> QED
    BY <2>1, <2>3, <2>4, <2>5, BleStepLeavesSurvey DEF InBle
<1>6. CASE BleEnd(t)
  <2>1. /\ at[t] = "bleEnd" /\ at'[t] = "idle" /\ Moves(t)
        /\ flag' \in [Services -> BOOLEAN] /\ flag'["survey"] = flag["survey"]
        /\ ~flag'["ble"]
        /\ sem' \in [Services -> {"gone", "empty", "given"}]
        /\ active' \in [Services -> BOOLEAN]
        /\ out' = NoTask
        /\ UNCHANGED <<host, cb, unstopped, surveyVars>>
    <3>1. active' \in [Services -> BOOLEAN]
      BY <1>0, <1>6, ActiveEffect DEF BleEnd
    <3> QED
      BY <3>1, <1>0, <1>6, GoEffect, SemEffect, LowerEffect DEF BleEnd, Places, InBle
  <2>2. \A u \in Tasks \ {t} : at[u] \notin InBle
    BY <2>1, <1>0, OnlyOneIn DEF InBle
  <2>3. Busy("ble", InBle)'
    BY <2>1, <1>0, BusyStep DEF Moves, InBle
  <2>4. ScanHasSem' /\ ScanHasOut' /\ HostInScan'
    BY <2>1, <2>2 DEF ScanHasSem, ScanHasOut, HostInScan, Moves, HasSem, InHost, InBle
  <2>5. SharedTypes' /\ BleTypes'
    BY <2>1, <1>0 DEF SharedTypes, BleTypes, Moves
  <2> QED
    BY <2>1, <2>3, <2>4, <2>5, BleStepLeavesSurvey DEF InBle
<1> QED
  BY <1>1, <1>2, <1>3, <1>4, <1>5, <1>6

\* After a sample the survey goes on to the next sample, the next channel or its end.
LEMMA NextSampleEffect ==
  ASSUME ScanTypeOK, NEW t \in Tasks, NEW from, NextSample(t, from)
  PROVE  /\ Moves(t) /\ at[t] = from /\ at'[t] \in {"reset", "surveyEnd"}
         /\ channel' \in Sweep /\ sample' \in 1 .. Samples
         /\ tuned' \in Sweep /\ untuned' \subseteq Sweep /\ untuned \subseteq untuned'
         /\ ResultIsOwn /\ at[t] \in {"reset", "detect", "take"} => TunerIsOwn'
<1> USE ScanAssumption
<1>0. /\ channel \in Sweep /\ sample \in 1 .. Samples
      /\ tuned \in Sweep /\ untuned \subseteq Sweep
      /\ "reset" \in Places /\ "surveyEnd" \in Places
  BY DEF ScanTypeOK, Places, InSurvey
<1>1. CASE /\ sample < Samples /\ Go(t, from, "reset")
           /\ sample' = sample + 1 /\ UNCHANGED <<channel, tunerVars>>
  <2>1. Moves(t) /\ at[t] = from /\ at'[t] = "reset"
    BY <1>0, <1>1, GoEffect
  <2>2. channel' = channel /\ tuned' = tuned /\ untuned' = untuned /\ sample' \in 1 .. Samples
    BY <1>0, <1>1 DEF tunerVars
  <2> QED
    BY <1>0, <2>1, <2>2 DEF ResultIsOwn, TunerIsOwn
<1>2. CASE /\ sample = Samples /\ channel < Channels /\ Go(t, from, "reset")
           /\ sample' = 1 /\ channel' = channel + 1 /\ SetChannel(channel + 1, untuned)
  <2>1. Moves(t) /\ at[t] = from /\ at'[t] = "reset"
    BY <1>0, <1>2, GoEffect
  <2>2. channel' \in Sweep /\ sample' \in 1 .. Samples
    BY <1>0, <1>2 DEF Sweep
  <2>3. \/ tuned' = channel' /\ untuned' = untuned
        \/ tuned' = tuned /\ untuned' = untuned \cup {channel'}
    BY <1>2 DEF SetChannel
  <2> QED
    BY <1>0, <2>1, <2>2, <2>3 DEF TunerIsOwn
<1>3. CASE /\ sample = Samples /\ channel = Channels /\ Go(t, from, "surveyEnd")
           /\ UNCHANGED <<channel, sample, tunerVars>>
  <2>1. Moves(t) /\ at[t] = from /\ at'[t] = "surveyEnd"
    BY <1>0, <1>3, GoEffect
  <2>2. channel' = channel /\ tuned' = tuned /\ untuned' = untuned /\ sample' \in 1 .. Samples
    BY <1>0, <1>3 DEF tunerVars
  <2> QED
    BY <1>0, <2>1, <2>2 DEF ResultIsOwn, TunerIsOwn
<1> QED
  BY <1>1, <1>2, <1>3 DEF NextSample

\* A step of the survey to a place where nothing is known of the result.
LEMMA ResultForgotten ==
  ASSUME Inv, NEW t \in Tasks, Moves(t), at[t] \in InSurvey,
         at'[t] \notin {"detect", "take"}, at'[t] = "reset" => TunerIsOwn'
  PROVE  ResultIsOwn'
<1> USE InvParts
<1>1. \A u \in Tasks \ {t} : at[u] \notin InSurvey
  BY OnlyOneIn DEF Services
<1>2. \A u \in Tasks : at'[u] \notin {"detect", "take"}
  BY <1>1 DEF Moves, InSurvey
<1>3. ASSUME NEW u \in Tasks, at'[u] \in {"reset", "detect", "take"} PROVE TunerIsOwn'
  <2>1. u = t /\ at'[u] = "reset"
    BY <1>1, <1>2, <1>3 DEF Moves, InSurvey
  <2> QED
    BY <2>1
<1> QED
  BY <1>2, <1>3 DEF ResultIsOwn

LEMMA StepSurvey ==
  ASSUME Inv, NEW t \in Tasks,
         \/ SurveyBegin(t) \/ SurveySem(t) \/ Enable(t) \/ ResetResult(t) \/ Detect(t)
         \/ Taken(t) \/ TimedOut(t) \/ SurveyEnd(t)
  PROVE  Inv'
<1> USE InvParts DEF InSurveyOrIdle
<1>0. "ble" \in Services /\ "survey" \in Services
  BY DEF Services
<1>1. CASE SurveyBegin(t)
  <2>1. /\ at[t] = "idle" /\ at'[t] = "surveySem" /\ Moves(t)
        /\ ~flag["survey"] /\ flag'["survey"] /\ flag'["ble"] = flag["ble"]
        /\ flag' \in [Services -> BOOLEAN]
        /\ UNCHANGED <<active, sem, bleVars, surveyVars>>
    BY <1>0, <1>1, GoEffect, FlagEffect DEF SurveyBegin, Admit, Places, InSurvey, SharedTypes
  <2>2. Busy("survey", InSurvey)'
    BY <2>1, <1>0, BusyStep DEF Moves, InSurvey
  <2>3. SharedTypes' /\ SurveyTypes'
    BY <2>1 DEF SharedTypes, SurveyTypes, Moves, surveyVars, tunerVars, radioVars
  <2>4. ResultIsOwn' /\ EnergyIsOwn'
    BY <2>1 DEF Moves, ResultIsOwn, TunerIsOwn, EnergyIsOwn, surveyVars, tunerVars, radioVars
  <2> QED
    BY <2>1, <2>2, <2>3, <2>4, SurveyStepLeavesBle DEF InSurvey
<1>2. CASE SurveySem(t)
  <2>1. /\ at[t] = "surveySem" /\ at'[t] \in {"enable", "idle"} /\ Moves(t)
        /\ flag' \in [Services -> BOOLEAN] /\ flag'["ble"] = flag["ble"]
        /\ sem' \in [Services -> {"gone", "empty", "given"}] /\ sem'["ble"] = sem["ble"]
        /\ at'[t] = "enable" => flag'["survey"] = flag["survey"]
        /\ at'[t] = "idle" => ~flag'["survey"]
        /\ UNCHANGED <<active, bleVars, surveyVars>>
    <3>1. CASE Go(t, "surveySem", "enable") /\ SetSem("survey", "empty") /\ UNCHANGED flag
      BY <3>1, <1>0, <1>2, GoEffect, SemEffect DEF SurveySem, Places, InSurvey, SharedTypes
    <3>2. CASE Go(t, "surveySem", "idle") /\ Lower("survey") /\ UNCHANGED sem
      BY <3>2, <1>0, <1>2, GoEffect, LowerEffect DEF SurveySem, Places, InSurvey, SharedTypes
    <3> QED
      BY <3>1, <3>2, <1>2 DEF SurveySem
  <2>2. Busy("survey", InSurvey)'
    BY <2>1, <1>0, BusyStep DEF Moves, InSurvey
  <2>3. SharedTypes' /\ SurveyTypes'
    BY <2>1 DEF SharedTypes, SurveyTypes, Moves, surveyVars, tunerVars, radioVars
  <2>4. ResultIsOwn' /\ EnergyIsOwn'
    BY <2>1 DEF Moves, ResultIsOwn, TunerIsOwn, EnergyIsOwn, surveyVars, tunerVars, radioVars
  <2> QED
    BY <2>1, <2>2, <2>3, <2>4, SurveyStepLeavesBle DEF InSurvey
<1>3. CASE Enable(t)
  <2>1. CASE /\ Go(t, "enable", "reset")
             /\ active' = [active EXCEPT !["survey"] = TRUE]
             /\ channel' = 1 /\ sample' = 1 /\ late' = FALSE
             /\ peak' = [c \in Sweep |-> {}]
             /\ SetChannel(1, {})
             /\ UNCHANGED <<sem, flag>>
    <3>1. at[t] = "enable" /\ at'[t] = "reset" /\ Moves(t) /\ active' \in [Services -> BOOLEAN]
      BY <2>1, <1>0, GoEffect, ActiveEffect DEF Places, InSurvey
    <3>2. UNCHANGED <<result, detecting, bleVars>>
      BY <1>3 DEF Enable
    <3>3. Busy("survey", InSurvey)'
      BY <2>1, <3>1, <1>0, BusyStep DEF Moves, InSurvey
    <3>4. SharedTypes'
      BY <2>1, <3>1 DEF SharedTypes, Moves
    <3>5. 1 \in Sweep /\ 1 \in 1 .. Samples
      BY ScanAssumption DEF Sweep
    <3>a. /\ tuned' \in Sweep /\ untuned' \subseteq Sweep
          /\ channel' \in untuned' \/ tuned' = channel'
      BY <2>1, <3>5 DEF SetChannel, SurveyTypes
    <3>6. SurveyTypes'
      BY <2>1, <3>2, <3>5, <3>a DEF SurveyTypes
    <3>7. ResultIsOwn' /\ EnergyIsOwn'
      BY <2>1, <3>1, <3>a, ResultForgotten DEF EnergyIsOwn, InSurvey, TunerIsOwn
    <3> QED
      BY <2>1, <3>1, <3>2, <3>3, <3>4, <3>6, <3>7, SurveyStepLeavesBle DEF InSurvey
  <2>2. CASE /\ Go(t, "enable", "idle")
             /\ SetSem("survey", "gone") /\ Lower("survey")
             /\ UNCHANGED <<active, channel, sample, late, peak, tunerVars>>
    <3>1. /\ at[t] = "enable" /\ at'[t] = "idle" /\ Moves(t)
          /\ flag' \in [Services -> BOOLEAN] /\ flag'["ble"] = flag["ble"] /\ ~flag'["survey"]
          /\ sem' \in [Services -> {"gone", "empty", "given"}] /\ sem'["ble"] = sem["ble"]
      BY <2>2, <1>0, GoEffect, SemEffect, LowerEffect DEF Places, InSurvey
    <3>2. UNCHANGED <<result, detecting, bleVars>>
      BY <1>3 DEF Enable
    <3>3. Busy("survey", InSurvey)'
      BY <3>1, <1>0, BusyStep DEF Moves, InSurvey
    <3>4. SharedTypes' /\ SurveyTypes'
      BY <2>2, <3>1, <3>2 DEF SharedTypes, SurveyTypes, Moves, tunerVars
    <3>5. ResultIsOwn' /\ EnergyIsOwn'
      BY <2>2, <3>1, ResultForgotten DEF EnergyIsOwn, InSurvey, tunerVars
    <3> QED
      BY <3>1, <3>2, <3>3, <3>4, <3>5, SurveyStepLeavesBle DEF InSurvey
  <2> QED
    BY <2>1, <2>2, <1>3 DEF Enable
<1>4. CASE ResetResult(t)
  <2>1. /\ at[t] = "reset" /\ at'[t] = "detect" /\ Moves(t)
        /\ result' = 0
        /\ UNCHANGED <<flag, active, sem, bleVars, channel, sample, tuned, untuned, detecting,
                       peak, late>>
    BY <1>4, GoEffect DEF ResetResult, Places, InSurvey, tunerVars
  <2>2. Busy("survey", InSurvey)'
    BY <2>1, <1>0, BusyStep DEF Moves, InSurvey
  <2>3. SharedTypes' /\ SurveyTypes'
    BY <2>1, ScanAssumption DEF SharedTypes, SurveyTypes, Moves
  <2>4. \A u \in Tasks \ {t} : at[u] \notin InSurvey
    BY <2>1, <1>0, OnlyOneIn DEF InSurvey
  <2>5. ResultIsOwn' /\ EnergyIsOwn'
    BY <2>1, <2>4 DEF Moves, ResultIsOwn, TunerIsOwn, EnergyIsOwn, InSurvey
  <2> QED
    BY <2>1, <2>2, <2>3, <2>5, SurveyStepLeavesBle DEF InSurvey
<1>5. CASE Detect(t)
  <2>0. UNCHANGED <<flag, active, sem, bleVars, result, peak, late>>
    BY <1>5 DEF Detect
  <2>1. CASE Go(t, "detect", "take") /\ detecting' = tuned /\ UNCHANGED <<channel, sample, tunerVars>>
    <3>1. at[t] = "detect" /\ at'[t] = "take" /\ Moves(t)
      BY <2>1, GoEffect DEF Places, InSurvey
    <3>2. Busy("survey", InSurvey)'
      BY <2>0, <3>1, <1>0, BusyStep DEF Moves, InSurvey
    <3>3. SharedTypes'
      BY <2>0, <3>1 DEF SharedTypes, Moves
    <3>4. SurveyTypes'
      BY <2>0, <2>1, ScanAssumption DEF SurveyTypes, Sweep, tunerVars
    <3>5. \A u \in Tasks \ {t} : at[u] \notin InSurvey
      BY <3>1, <1>0, OnlyOneIn DEF InSurvey
    <3>6. ResultIsOwn' /\ EnergyIsOwn'
      BY <2>0, <2>1, <3>1, <3>5 DEF Moves, ResultIsOwn, TunerIsOwn, EnergyIsOwn, InSurvey, tunerVars
    <3> QED
      BY <2>0, <3>1, <3>2, <3>3, <3>4, <3>6, SurveyStepLeavesBle DEF InSurvey
  <2>2. CASE NextSample(t, "detect") /\ UNCHANGED detecting
    <3>1. /\ at[t] = "detect" /\ at'[t] \in {"reset", "surveyEnd"} /\ Moves(t)
          /\ channel' \in Sweep /\ sample' \in 1 .. Samples
          /\ tuned' \in Sweep /\ untuned' \subseteq Sweep /\ untuned \subseteq untuned'
          /\ TunerIsOwn'
      BY <2>2, NextSampleEffect
    <3>2. Busy("survey", InSurvey)'
      BY <2>0, <3>1, <1>0, BusyStep DEF Moves, InSurvey
    <3>3. SharedTypes' /\ SurveyTypes'
      BY <2>0, <2>2, <3>1 DEF SharedTypes, SurveyTypes, Moves
    <3>4. ResultIsOwn' /\ EnergyIsOwn'
      BY <2>0, <3>1, ResultForgotten DEF EnergyIsOwn, InSurvey
    <3> QED
      BY <2>0, <3>1, <3>2, <3>3, <3>4, SurveyStepLeavesBle DEF InSurvey
  <2> QED
    BY <2>1, <2>2, <1>5 DEF Detect
<1>6. CASE Taken(t)
  <2>1. /\ at[t] = "take" /\ at'[t] \in {"reset", "surveyEnd"} /\ Moves(t)
        /\ channel' \in Sweep /\ sample' \in 1 .. Samples
        /\ tuned' \in Sweep /\ untuned' \subseteq Sweep /\ untuned \subseteq untuned'
        /\ TunerIsOwn'
    BY <1>6, NextSampleEffect DEF Taken
  <2>2. sem' \in [Services -> {"gone", "empty", "given"}] /\ sem'["ble"] = sem["ble"]
    BY <1>0, <1>6, SemEffect DEF Taken
  <2>3. /\ peak' = [peak EXCEPT ![channel] = IF result = 0 THEN @ ELSE @ \cup {result}]
        /\ UNCHANGED <<flag, active, bleVars, result, detecting, late>>
    BY <1>6 DEF Taken
  <2>4. Busy("survey", InSurvey)'
    BY <2>1, <2>3, <1>0, BusyStep DEF Moves, InSurvey
  <2>5. peak' \in [Sweep -> SUBSET Sweep]
    BY <2>3 DEF SurveyTypes, Sweep
  <2>6. SharedTypes' /\ SurveyTypes'
    BY <2>1, <2>2, <2>3, <2>5 DEF SharedTypes, SurveyTypes, Moves
  <2>7. EnergyIsOwn'
    <3> SUFFICES ASSUME ~late, NEW c \in Sweep \ untuned' PROVE peak'[c] \subseteq {c}
      BY <2>3 DEF EnergyIsOwn
    <3>1. /\ c \notin untuned /\ peak[c] \subseteq {c}
          /\ result \in {0, tuned}
          /\ channel \in untuned \/ tuned = channel
      BY <2>1 DEF EnergyIsOwn, ResultIsOwn, TunerIsOwn
    <3>2. peak'[c] = peak[c] \/ (c = channel /\ result # 0 /\ peak'[c] = peak[c] \cup {result})
      BY <2>3 DEF SurveyTypes
    <3> QED
      BY <3>1, <3>2
  <2>8. ResultIsOwn'
    BY <2>1, ResultForgotten DEF InSurvey
  <2> QED
    BY <2>1, <2>2, <2>3, <2>4, <2>6, <2>7, <2>8, SurveyStepLeavesBle DEF InSurvey
<1>7. CASE TimedOut(t)
  <2>1. /\ at[t] = "take" /\ at'[t] \in {"reset", "surveyEnd"} /\ Moves(t)
        /\ channel' \in Sweep /\ sample' \in 1 .. Samples
        /\ tuned' \in Sweep /\ untuned' \subseteq Sweep /\ untuned \subseteq untuned'
        /\ TunerIsOwn'
        /\ UNCHANGED <<flag, active, sem, bleVars, peak, radioVars>>
    BY <1>7, NextSampleEffect DEF TimedOut
  <2>2. Busy("survey", InSurvey)'
    BY <2>1, <1>0, BusyStep DEF Moves, InSurvey
  <2>3. SharedTypes' /\ SurveyTypes'
    BY <2>1 DEF SharedTypes, SurveyTypes, Moves, radioVars
  <2>4. ResultIsOwn' /\ EnergyIsOwn'
    BY <2>1, ResultForgotten DEF EnergyIsOwn, radioVars, InSurvey
  <2> QED
    BY <2>1, <2>2, <2>3, <2>4, SurveyStepLeavesBle DEF InSurvey
<1>8. CASE SurveyEnd(t)
  <2>1. /\ at[t] = "surveyEnd" /\ at'[t] = "idle" /\ Moves(t)
        /\ flag' \in [Services -> BOOLEAN] /\ flag'["ble"] = flag["ble"] /\ ~flag'["survey"]
        /\ sem' \in [Services -> {"gone", "empty", "given"}] /\ sem'["ble"] = sem["ble"]
    BY <1>0, <1>8, GoEffect, SemEffect, LowerEffect DEF SurveyEnd, Places, InSurvey
  <2>2. /\ active' \in [Services -> BOOLEAN] /\ detecting' = 0
        /\ UNCHANGED <<bleVars, channel, sample, tuned, untuned, result, peak, late>>
    BY <1>0, <1>8, ActiveEffect DEF SurveyEnd, tunerVars
  <2>3. Busy("survey", InSurvey)'
    BY <2>1, <1>0, BusyStep DEF Moves, InSurvey
  <2>4. SharedTypes' /\ SurveyTypes'
    BY <2>1, <2>2, ScanAssumption DEF SharedTypes, SurveyTypes, Moves
  <2>5. ResultIsOwn' /\ EnergyIsOwn'
    BY <2>1, <2>2, ResultForgotten DEF EnergyIsOwn, InSurvey
  <2> QED
    BY <2>1, <2>2, <2>3, <2>4, <2>5, SurveyStepLeavesBle DEF InSurvey
<1> QED
  BY <1>1, <1>2, <1>3, <1>4, <1>5, <1>6, <1>7, <1>8

-----------------------------------------------------------------------------
(* The callbacks.                                                            *)

LEMMA GiveEffect ==
  ASSUME ScanTypeOK, NEW s \in Services, Give(s)
  PROVE  /\ sem' \in [Services -> {"gone", "empty", "given"}]
         /\ \A r \in Services : sem[r] # "gone" => sem'[r] # "gone"
         /\ \A r \in Services \ {s} : sem'[r] = sem[r]
<1>1. CASE UNCHANGED sem
  BY <1>1 DEF ScanTypeOK
<1>2. CASE SetSem(s, "given")
  BY <1>2, SemEffect
<1> QED
  BY <1>1, <1>2 DEF Give

LEMMA StepHost ==
  ASSUME Inv, HostTask
  PROVE  Inv'
<1> USE InvParts
<1>1. UNCHANGED <<at, flag, active, out, unstopped, surveyVars>>
  BY DEF HostTask, OnSync, Advert, Complete, CbBegin, SyncStarts, CbCheck, CbUse, HostOnly
<1>2. /\ sem' \in [Services -> {"gone", "empty", "given"}]
      /\ sem["ble"] # "gone" => sem'["ble"] # "gone"
  <2>1. CASE CbUse
    BY <2>1, GiveEffect DEF CbUse, SharedTypes, Services
  <2>2. CASE ~CbUse
    BY <2>2 DEF HostTask, OnSync, Advert, Complete, CbBegin, SyncStarts, CbCheck, SharedTypes
  <2> QED
    BY <2>1, <2>2
<1>3. /\ host' \in {"down", "up", "synced", "disc"}
      /\ cb' \in {"none", "sync", "advert", "complete", "give", "record"}
      /\ ~unstopped => /\ cb' # "none" => host' # "down"
                       /\ host' # "down" => host # "down"
  <2>1. CASE OnSync \/ Advert \/ Complete
    BY <2>1 DEF OnSync, Advert, Complete, CbBegin
  <2>2. CASE SyncStarts
    BY <2>2 DEF SyncStarts, BleTypes, HostInScan
  <2>3. CASE CbCheck
    BY <2>3 DEF CbCheck, BleTypes, HostInScan
  <2>4. CASE CbUse
    BY <2>4 DEF CbUse, BleTypes
  <2> QED
    BY <2>1, <2>2, <2>3, <2>4 DEF HostTask
<1>4. SharedTypes' /\ BleTypes' /\ SurveyTypes'
  BY <1>1, <1>2, <1>3 DEF SharedTypes, BleTypes, SurveyTypes, surveyVars, tunerVars, radioVars
<1>5. Busy("ble", InBle)' /\ Busy("survey", InSurvey)'
  BY <1>1 DEF Busy
<1>6. ScanHasSem' /\ ScanHasOut' /\ HostInScan'
  BY <1>1, <1>2, <1>3 DEF ScanHasSem, ScanHasOut, HostInScan
<1>7. ResultIsOwn' /\ EnergyIsOwn'
  BY <1>1 DEF ResultIsOwn, TunerIsOwn, EnergyIsOwn, surveyVars, tunerVars, radioVars
<1> QED
  BY <1>4, <1>5, <1>6, <1>7 DEF Inv

LEMMA StepEnergyDone ==
  ASSUME Inv, EnergyDone
  PROVE  Inv'
<1> USE InvParts
<1>1. /\ detecting # 0 /\ detecting' = 0
      /\ UNCHANGED <<at, flag, active, bleVars, channel, sample, tuned, untuned, peak>>
  BY DEF EnergyDone, tunerVars
<1>2. \/ result' = result /\ sem' = sem /\ late' = late
      \/ /\ result' = detecting /\ Give("survey")
         /\ late' = (late \/ \E t \in Tasks : at[t] = "detect")
  BY DEF EnergyDone
<1>3. sem' \in [Services -> {"gone", "empty", "given"}] /\ sem'["ble"] = sem["ble"]
  BY <1>2, GiveEffect DEF Services, SharedTypes
<1>4. SharedTypes' /\ BleTypes'
  BY <1>1, <1>3 DEF SharedTypes, BleTypes, bleVars
<1>5. SurveyTypes'
  <2>1. result' \in 0 .. Channels /\ detecting' \in 0 .. Channels
    BY <1>1, <1>2, ScanAssumption DEF SurveyTypes
  <2>2. late' \in BOOLEAN
    BY <1>2 DEF SurveyTypes
  <2> QED
    BY <2>1, <2>2, <1>1 DEF SurveyTypes
<1>6. Busy("ble", InBle)' /\ Busy("survey", InSurvey)'
  BY <1>1 DEF Busy
<1>7. ScanHasSem' /\ ScanHasOut' /\ HostInScan'
  BY <1>1, <1>3 DEF ScanHasSem, ScanHasOut, HostInScan, bleVars
<1>8. ~late' => ~late
  BY <1>2
<1>9. ResultIsOwn'
  BY <1>1, <1>2, <1>8 DEF ResultIsOwn, TunerIsOwn
<1>10. EnergyIsOwn'
  BY <1>1, <1>8 DEF EnergyIsOwn
<1> QED
  BY <1>4, <1>5, <1>6, <1>7, <1>9, <1>10 DEF Inv

LEMMA StepInv == Inv /\ [ScanNext]_scanVars => Inv'
<1>1. ASSUME Inv, UNCHANGED scanVars PROVE Inv'
  BY <1>1 DEF Inv, scanVars, bleVars, surveyVars, tunerVars, radioVars, SharedTypes, BleTypes, SurveyTypes, Busy,
              ScanHasSem, ScanHasOut, HostInScan, ResultIsOwn, TunerIsOwn, EnergyIsOwn
<1>2. ASSUME Inv, BleRequest \/ BleTick \/ SurveyRequest \/ SurveyTick PROVE Inv'
  BY <1>2, StepBle, StepSurvey, ScanAssumption
     DEF BleRequest, BleTick, SurveyRequest, SurveyTick
<1>3. ASSUME Inv, NEW t \in Tasks, Proceed(t) PROVE Inv'
  BY <1>3, StepBle, StepSurvey DEF Proceed
<1> QED
  BY <1>1, <1>2, <1>3, StepHost, StepEnergyDone DEF ScanNext

\* The inductive invariant of the two scans and of the callbacks that reach them.
THEOREM ScanInvariant == ScanSpec => []Inv
  BY InitInv, StepInv, PTL DEF ScanSpec

\* The state of the scans keeps its types, and the survey its sweep.
THEOREM ScanTypes == ScanSpec => []ScanTypeOK
<1>1. Inv => ScanTypeOK
  BY InvParts
<1> QED
  BY <1>1, ScanInvariant, PTL

\* A service is busy while exactly one task scans with it and free afterwards,
\* whatever failed on the way.
THEOREM OneScanAtATime == ScanSpec => []BusyWhileScanning
<1>1. Inv => BusyWhileScanning
  BY InvParts, BusyParts
<1> QED
  BY <1>1, ScanInvariant, PTL

\* A callback that has tested the semaphore or the buffer finds it when it uses it,
\* however late it runs, unless the host could not be stopped.
THEOREM CallbacksFindTheirScan == ScanSpec => []CallbacksAreSafe
<1>1. ASSUME Inv, ~unstopped, cb \in {"give", "record"}
      PROVE  sem["ble"] # "gone" /\ out # NoTask /\ at[out] \in InBle
  <2>1. PICK t \in Tasks : at[t] \in InHost
    BY <1>1 DEF Inv, HostInScan
  <2>2. at[t] \in HasSem /\ at[t] \in InBle
    BY <2>1 DEF InHost, HasSem, InBle
  <2> QED
    BY <1>1, <2>2, ScanAssumption DEF Inv, ScanHasSem, ScanHasOut
<1>2. Inv => CallbacksAreSafe
  BY <1>1 DEF CallbacksAreSafe
<1> QED
  BY <1>2, ScanInvariant, PTL

\* An energy in a channel's record was measured on that channel, also when answers
\* come after their timeouts, unless the radio could not be set to the channel.
THEOREM EnergiesAreOwn == ScanSpec => []EnergyIsOwn
<1>1. Inv => EnergyIsOwn
  BY DEF Inv
<1> QED
  BY <1>1, ScanInvariant, PTL
=============================================================================
