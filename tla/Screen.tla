------------------------------- MODULE Screen -------------------------------
(***************************************************************************)
(* DisplayService: one panel, drawn by three kinds of task.  The event     *)
(* bus's dispatcher writes the status it shows, field by field and without *)
(* the lock, and draws; PowerModeService's callers set the mode and draw;  *)
(* app_main() plays the splash, subscribes, writes the hostname into the   *)
(* status without the lock as well, and draws the first status screen.     *)
(* Each chooses its screen by the mode it sees before it waits for the     *)
(* lock, and reads the status while it holds it.                           *)
(*                                                                         *)
(* A status is one of a few values, and "torn" while one of its two        *)
(* writers is between its fields.  What is drawn from it, pixel by pixel,  *)
(* is left out; a flush over I2C may fail and then leaves the panel        *)
(* spoiled until the next one.                                             *)
(***************************************************************************)
EXTENDS Naturals

CONSTANTS Callers,     \* the tasks that change the power mode
          Values,      \* what the status may be
          MaxFailures, \* bound: flushes that fail
          Nobody

ASSUME ScreenAssumption ==
  /\ MaxFailures \in Nat
  /\ Callers \cap {"dispatcher", "boot"} = {} /\ "torn" \notin Values
  /\ Nobody \notin Callers \cup {"dispatcher", "boot"}

VARIABLES
  charge,       \* charge_mode_
  subscribed,   \* how many of its subscriptions start() has made
  statusActive, \* status_active_
  status,       \* status_
  coming,       \* what the status is when it has been written
  where,        \* where each task is
  chosen,       \* the screen each task is about to draw
  holder,       \* who holds mutex_
  buffer,       \* the frame in the driver's buffer
  panel,        \* the frame on the panel
  failures

screenVars ==
  <<charge, subscribed, statusActive, status, coming, where, chosen, holder, buffer, panel, failures>>

Painters == Callers \cup {"dispatcher", "boot"}
Screens  == {"status", "charge"}
Frame(screen, value) == [screen |-> screen, value |-> value]
Blank   == Frame("splash", "none")
Spoiled == Frame("spoiled", "none")

\* start() subscribes to four kinds of event.
Subscriptions == 4

\* The screen of a mode.
For(mode) == IF mode THEN "charge" ELSE "status"

\* init() has found the panel; or it has not, and playSplash() and start() do nothing.
ScreenInit ==
  /\ charge = FALSE /\ subscribed = 0 /\ statusActive = FALSE
  /\ status \in Values /\ coming = status
  /\ \E present \in BOOLEAN :
       where = [t \in Painters |-> IF t = "boot" /\ present THEN "splash" ELSE "idle"]
  /\ chosen = [t \in Painters |-> "status"]
  /\ holder = Nobody /\ buffer = Blank /\ panel = Blank
  /\ failures = 0

Goes(t, from, to) == where[t] = from /\ where' = [where EXCEPT ![t] = to]

-----------------------------------------------------------------------------
(* renderStatus() and renderChargeScreen().                                  *)

DrawingOnly == UNCHANGED <<charge, subscribed, statusActive, status, coming>>

\* The screen was chosen: whoever draws before start() is done returns.
Chooses(t, from, screen) ==
  /\ Goes(t, from, IF statusActive THEN "lock" ELSE "idle")
  /\ chosen' = [chosen EXCEPT ![t] = IF statusActive THEN screen ELSE @]
  /\ UNCHANGED <<holder, buffer, panel, failures>> /\ DrawingOnly

Lock(t) ==
  /\ holder = Nobody /\ holder' = t
  /\ Goes(t, "lock", "draw")
  /\ UNCHANGED <<chosen, buffer, panel, failures>> /\ DrawingOnly

Draw(t) ==
  /\ Goes(t, "draw", "flush")
  /\ buffer' = Frame(chosen[t], status)
  /\ chosen' = [chosen EXCEPT ![t] = "status"]
  /\ UNCHANGED <<holder, panel, failures>> /\ DrawingOnly

\* The panel's contents after a flush, which may fail.
Flushes ==
  \/ panel' = buffer /\ UNCHANGED failures
  \/ failures < MaxFailures /\ failures' = failures + 1 /\ panel' = Spoiled

Flush(t) ==
  /\ Goes(t, "flush", "idle")
  /\ holder' = Nobody
  /\ Flushes
  /\ UNCHANGED <<chosen, buffer>> /\ DrawingOnly

Render(t) == Lock(t) \/ Draw(t) \/ Flush(t)

-----------------------------------------------------------------------------
(* The tasks.                                                                *)

\* A writer of the status begins, to make it v; what changes nothing leaves it whole.
Writes(v) ==
  /\ coming' = v
  /\ status' = IF v = status THEN status ELSE "torn"

\* A writer ends: the status is whole again, unless the other one is still writing.  What
\* both write is the hostname of the configuration.
Wrote(other, writing) ==
  status' = IF where[other] = writing THEN status ELSE coming

\* onEvent(), for whatever has been subscribed to so far.
OnEvent(v) ==
  /\ subscribed > 0
  /\ Goes("dispatcher", "idle", "update")
  /\ Writes(v)
  /\ UNCHANGED <<charge, subscribed, statusActive, chosen, holder, buffer, panel, failures>>

\* A fault: the event is not drawn.
UpdateDrawsNothing ==
  /\ Goes("dispatcher", "update", "idle")
  /\ Wrote("boot", "hostname")
  /\ UNCHANGED <<charge, subscribed, statusActive, coming, chosen, holder, buffer, panel, failures>>

Update ==
  /\ Goes("dispatcher", "update", "choose")
  /\ Wrote("boot", "hostname")
  /\ UNCHANGED <<charge, subscribed, statusActive, coming, chosen, holder, buffer, panel, failures>>

\* A fault: the event's handler forgets the mode.
EventChoosesStatus == Chooses("dispatcher", "choose", "status")

EventChooses == Chooses("dispatcher", "choose", For(charge))

\* setChargeMode() sets the mode and draws the screen of what is the mode then.
SetChargeMode(c, mode) ==
  /\ Goes(c, "idle", "choose")
  /\ charge' = mode
  /\ UNCHANGED <<subscribed, statusActive, status, coming, chosen, holder, buffer, panel, failures>>

CallerChooses(c) == Chooses(c, "choose", For(charge))

\* playSplash(), to the end.
PlaySplash ==
  /\ Goes("boot", "splash", "subscribe")
  /\ buffer' = Blank
  /\ panel' \in {Blank, Spoiled}
  /\ UNCHANGED <<charge, subscribed, statusActive, status, coming, chosen, holder, failures>>

\* start() makes its subscriptions one by one; when there is no room for one it
\* returns, and the ones it made stay.
Subscribe ==
  /\ \/ /\ Goes("boot", "subscribe", IF subscribed + 1 < Subscriptions THEN "subscribe" ELSE "activate")
        /\ subscribed' = subscribed + 1
     \/ /\ Goes("boot", "subscribe", "idle")
        /\ UNCHANGED subscribed
  /\ UNCHANGED <<charge, statusActive, status, coming, chosen, holder, buffer, panel, failures>>

\* status_active_ is set, and updateHostname() begins to write into the status.
Activate(v) ==
  /\ Goes("boot", "activate", "hostname")
  /\ statusActive' = TRUE
  /\ Writes(v)
  /\ UNCHANGED <<charge, subscribed, chosen, holder, buffer, panel, failures>>

UpdateHostname ==
  /\ Goes("boot", "hostname", "choose")
  /\ Wrote("dispatcher", "update")
  /\ UNCHANGED <<charge, subscribed, statusActive, coming, chosen, holder, buffer, panel, failures>>

\* The screen start() draws is the status, whatever the mode.
BootChooses == Chooses("boot", "choose", "status")

Event == \E v \in Values : OnEvent(v)
Start ==
  PlaySplash \/ Subscribe \/ (\E v \in Values : Activate(v)) \/ UpdateHostname \/ BootChooses

ScreenNext ==
  \/ Event \/ Update \/ EventChooses
  \/ \E c \in Callers : \/ \E mode \in BOOLEAN : SetChargeMode(c, mode)
                        \/ CallerChooses(c)
  \/ Start
  \/ \E t \in Painters : Render(t)

\* Once all is subscribed the battery is sampled again and again, and each sample is an
\* event; no task stops in the middle of a call, and whoever waits for the mutex gets it.
Fairness ==
  /\ WF_screenVars(statusActive /\ Event) /\ WF_screenVars(Update)
  /\ WF_screenVars(EventChooses) /\ WF_screenVars(Start)
  /\ \A c \in Callers : WF_screenVars(CallerChooses(c))
  /\ \A t \in Painters : SF_screenVars(Lock(t)) /\ WF_screenVars(Draw(t)) /\ WF_screenVars(Flush(t))

ScreenSpec == ScreenInit /\ [][ScreenNext]_screenVars /\ Fairness

-----------------------------------------------------------------------------
(* Properties.                                                               *)

Frames == {Blank, Spoiled} \cup [screen : Screens, value : Values \cup {"torn"}]

ScreenTypeOK ==
  /\ charge \in BOOLEAN /\ subscribed \in 0 .. Subscriptions /\ statusActive \in BOOLEAN
  /\ status \in Values \cup {"torn"} /\ coming \in Values
  /\ where \in [Painters -> {"idle", "splash", "subscribe", "activate", "hostname", "update",
                             "choose", "lock", "draw", "flush"}]
  /\ chosen \in [Painters -> Screens]
  /\ holder \in Painters \cup {Nobody}
  /\ buffer \in Frames /\ panel \in Frames
  /\ failures \in 0 .. MaxFailures

\* When nobody is drawing or about to, the panel shows the status as the last event
\* left it, not one that another task read before, and no mixture of two, unless the
\* last flush failed.
PanelIsCurrent ==
  (statusActive /\ \A t \in Painters : where[t] = "idle") =>
    panel = Spoiled \/ (panel.value = status /\ status # "torn")

\* A screen chosen by a mode that has changed since, or a spoiled one, does not stay: once
\* start() has succeeded and the mode is settled, for good, the panel comes to show the
\* mode's screen and keeps showing it.
ScreenCatchesUp ==
  <>[]statusActive /\ <>[][FALSE]_charge => <>[](panel.screen = For(charge))
=============================================================================
