--------------------------- MODULE MCPeripherals ---------------------------
(***************************************************************************)
(* The four components at the edge of the system.  They share no state     *)
(* here, and one run checks them: a behaviour is one of a component, which *)
(* its first state chooses, while the others stay where they begin.        *)
(*                                                                         *)
(* Gpio: three clients over one pin anybody may have and one critical pin: *)
(* enough for a forced claim, a stale holder and a third that takes the    *)
(* pin when it becomes free.                                               *)
(* RadioScan: the HTTP server and a worker, two channels of two samples:   *)
(* an answer can be late for the next sample and for the next channel, the *)
(* radio can stay on the channel before, and a second scan of either kind  *)
(* can follow the first.                                                   *)
(* Screen: the button's task and the HTTP server change the mode while     *)
(* app_main() starts the display and the dispatcher writes one of two      *)
(* values; one flush fails.                                                *)
(* WebUi: the sockets of MCWebUi; the dispatcher broadcasts, and the HTTP  *)
(* server's task when it logs.  It really may stop: every task that it     *)
(* blocks is one that waits for ever, so only here is a step that changes  *)
(* nothing.                                                                *)
(***************************************************************************)
EXTENDS Gpio, RadioScan, Screen, MCWebUi

CONSTANTS i2c_bus, gpio_blink, other, led, boot, none

VARIABLE component   \* whose behaviour it is

edgeVars == <<component, vars, scanVars, screenVars, webUiVars>>

PeripheralsInit ==
  /\ component \in {"gpio", "scan", "screen", "webui"}
  /\ Init /\ ScanInit /\ ScreenInit /\ WebUiInit
  /\ component # "scan" => tuned = 1
  /\ component # "screen" => where["boot"] = "idle" /\ status = "one"

PeripheralsNext ==
  /\ UNCHANGED component
  /\ \/ component = "gpio" /\ Next /\ UNCHANGED <<scanVars, screenVars, webUiVars>>
     \/ component = "scan" /\ ScanNext /\ UNCHANGED <<vars, screenVars, webUiVars>>
     \/ component = "screen" /\ ScreenNext /\ UNCHANGED <<vars, scanVars, webUiVars>>
     \/ /\ component = "webui" /\ (WebUiNext \/ UNCHANGED webUiVars)
        /\ UNCHANGED <<vars, scanVars, screenVars>>

\* None of Screen's fair actions can be taken where it begins without a panel, so its
\* fairness asks nothing of the other components.
Peripherals == PeripheralsInit /\ [][PeripheralsNext]_edgeVars /\ Fairness
=============================================================================
