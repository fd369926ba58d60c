-------------------------------- MODULE Boot --------------------------------
(***************************************************************************)
(* From power-on to a confirmed image: app_main() brings the services up   *)
(* one after the other and goes on when one fails; the bootloader tries a  *)
(* new image once and returns to the other one unless OtaService confirms  *)
(* it at the end of app_main(); the HTTP server, up half way through,      *)
(* takes firmware, restarts and credentials meanwhile, and the provisioning *)
(* portal rearranges its routes.                                           *)
(*                                                                         *)
(* A service's start is its outcome: it fails when a service it needs is   *)
(* not there, or for a reason of its own (no memory, no device).  Routes   *)
(* stand for the groups registered together.  An image is good, or loops:  *)
(* it restarts somewhere before the end of app_main().  A failure that     *)
(* aborts (ESP_ERROR_CHECK, kernel init) counts as a crash, like a power   *)
(* loss.  The bootloader, the partition calls and the route table of the   *)
(* HTTP server are external, as ESP-IDF documents them with                *)
(* CONFIG_BOOTLOADER_APP_ROLLBACK_ENABLE.                                  *)
(***************************************************************************)
EXTENDS Naturals, FiniteSets, SequencesExt

CONSTANTS MaxFaults,   \* bound: services that fail for a reason of their own, in a boot
          MaxCrashes,  \* bound: power losses and aborts
          MaxRequests  \* bound: requests that restart or update the device

ASSUME BootAssumption == MaxFaults \in Nat /\ MaxCrashes \in Nat /\ MaxRequests \in Nat

VARIABLES
  at,           \* app_main(): the step it is at, in BootOrder
  up,           \* the steps that succeeded in this boot
  faults,       \* the steps that failed for a reason of their own
  routes,       \* the HTTP server's route table, in its order of matching
  provisioning, \* provisioning_: the portal was opened
  creds,        \* WiFi credentials are stored
  running,      \* the slot of the running image
  selected,     \* otadata: the slot the bootloader tries
  state,        \* otadata: the state of the image in each slot
  image,        \* what is in each slot
  inProgress,   \* OtaService::in_progress_
  upload,       \* how far the upload handler has come
  reboot,       \* a restart is scheduled
  lost,         \* history: an upload's restart could not be scheduled
  crashes, requests

bootVars == <<at, up, faults>>
netVars  == <<routes, provisioning, creds>>
slotVars == <<running, selected, state, image>>
otaVars  == <<inProgress, upload, lost>>
vars == <<bootVars, netVars, slotVars, otaVars, reboot, crashes, requests>>

Slots    == {"ota_0", "ota_1"}
Other(s) == CHOOSE t \in Slots : t # s

\* A fault: the image is confirmed before anything is up.
BootOrderConfirmsFirst ==
  <<"confirm", "storage", "config", "gpio", "i2c", "pins", "panel", "wifi", "rest",
    "network", "time", "modules", "power", "routes", "ota", "webui", "battery", "wifi start",
    "modules start", "power start", "display", "sampling", "ready">>

\* A fault: WiFi, and with it perhaps the portal, starts before the API is registered.
BootOrderWifiFirst ==
  <<"storage", "config", "gpio", "i2c", "pins", "panel", "wifi", "rest", "network", "time",
    "modules", "power", "wifi start", "routes", "ota", "webui", "battery",
    "modules start", "power start", "display", "sampling", "ready", "confirm">>

\* app_main().
BootOrder ==
  <<"storage", "config", "gpio", "i2c", "pins", "panel", "wifi", "rest", "network", "time",
    "modules", "power", "routes", "ota", "webui", "battery", "wifi start",
    "modules start", "power start", "display", "sampling", "ready", "confirm">>

Steps  == Range(BootOrder)
Booted == at > Len(BootOrder)

Init ==
  /\ at = 1 /\ up = {} /\ faults = {}
  /\ routes = <<>> /\ provisioning = FALSE /\ creds \in BOOLEAN
  /\ running = "ota_0" /\ selected = "ota_0"
  /\ state = [s \in Slots |-> "none"]
  /\ image = [s \in Slots |-> IF s = "ota_0" THEN "good" ELSE "partial"]
  /\ inProgress = FALSE /\ upload = "no" /\ lost = FALSE
  /\ reboot = FALSE
  /\ crashes = 0 /\ requests = 0

-----------------------------------------------------------------------------
(* The route table.                                                          *)

Gets == {"api", "dashboard", "ws", "setup", "any"}

\* The server answers with the first route that matches, and refuses a route that
\* one in the table matches already: "any" is the portal's /*, and the dashboard
\* and the setup form are both at /.
Matches(t, r) == t = r \/ {t, r} = {"dashboard", "setup"} \/ (t = "any" /\ r \in Gets)

\* registerRoute(), registerWebSocket(): as far as the first that is refused.
Register(table, new) ==
  LET taken == {i \in DOMAIN new : \E t \in Range(table) : Matches(t, new[i])}
      n     == IF taken = {} THEN Len(new) ELSE (CHOOSE i \in taken : \A j \in taken : i <= j) - 1
  IN  table \o SubSeq(new, 1, n)

Registers(table, new) == Register(table, new) = table \o new

\* unregisterRoute(GET, "/"): the first route at that path itself.
Unregister(table) == RemoveFirstMatch(table, LAMBDA t : t \in {"dashboard", "setup"})

\* The portal's routes, in place of the dashboard's page.
PortalRoutes == <<"provision", "setup", "any">>

-----------------------------------------------------------------------------
(* app_main(), one service after the other.                                  *)

\* check(): the outcome is noted and the next step is next.
Step(s, ok) ==
  /\ at <= Len(BootOrder) /\ BootOrder[at] = s
  /\ at' = at + 1
  /\ up' = IF ok THEN up \cup {s} ELSE up

Elsewhere == UNCHANGED <<slotVars, otaVars, reboot, crashes, requests>>

Faults(s) ==
  /\ Cardinality(faults) < MaxFaults
  /\ Step(s, FALSE)
  /\ faults' = faults \cup {s}
  /\ UNCHANGED netVars /\ Elsewhere

\* A service that keeps nothing the others here look at.
Comes(s, needs) ==
  \/ /\ Step(s, needs \subseteq up)
     /\ UNCHANGED <<faults, netVars>> /\ Elsewhere
  \/ Faults(s)

\* A service that registers routes once it is there.
Serves(s, needs, new) ==
  \/ /\ Step(s, needs \subseteq up /\ Registers(routes, new))
     /\ routes' = IF needs \subseteq up THEN Register(routes, new) ELSE routes
     /\ UNCHANGED <<faults, provisioning, creds>> /\ Elsewhere
  \/ Faults(s)

StorageInit  == Comes("storage", {})
ConfigInit   == Comes("config", {"storage"})
GpioInit     == Comes("gpio", {})
I2cInit      == Comes("i2c", {})
PinsReserve  == Comes("pins", {"gpio"})
PanelInit    == Comes("panel", {"i2c"})
WifiInit     == Comes("wifi", {})
RestInit     == Comes("rest", {})
NetworkInit  == Comes("network", {})
TimeInit     == Comes("time", {})
ModulesInit  == Comes("modules", {})
PowerInit    == Comes("power", {})
ApiRoutes    == Serves("routes", {"rest"}, <<"api">>)
OtaInit      == Serves("ota", {"rest"}, <<"upload">>)
WebUiInit    == Serves("webui", {"rest"}, <<"dashboard", "ws">>)
BatteryInit  == Comes("battery", {})
ModulesStart == Comes("modules start", {})
PowerStart   == Comes("power start", {"power"})
DisplayStart == Comes("display", {})
BatteryStart == Comes("sampling", {"battery"})

\* startProvisioning(): without the server only the access point is there.
OpensPortal ==
  /\ ~provisioning /\ provisioning' = TRUE
  /\ routes' = IF "rest" \in up THEN Register(Unregister(routes), PortalRoutes) ELSE routes
  /\ UNCHANGED creds

\* start(): the portal, or the station when it finds credentials.
WifiStart ==
  \/ /\ "wifi" \in up
     /\ IF creds /\ "config" \in up
        THEN Step("wifi start", TRUE) /\ UNCHANGED netVars
        ELSE Step("wifi start", "rest" \in up) /\ OpensPortal
     /\ UNCHANGED faults /\ Elsewhere
  \/ "wifi" \notin up /\ Comes("wifi start", {"wifi"})
  \/ Faults("wifi start")

\* Kernel::start(), which an image that loops does not reach.
KernelStart == image[running] = "good" /\ Comes("ready", {})

\* confirmHealthy(), whatever the steps before it returned: the image is confirmed, or
\* its state cannot be read, needs no change or cannot be changed.
ConfirmHealthy ==
  /\ Step("confirm", TRUE)
  /\ \/ /\ state[running] = "pending"
        /\ state' = [state EXCEPT ![running] = "valid"]
     \/ UNCHANGED state
  /\ UNCHANGED <<faults, netVars, running, selected, image, otaVars, reboot, crashes, requests>>

BootStep ==
  \/ StorageInit \/ ConfigInit \/ GpioInit \/ I2cInit \/ PinsReserve \/ PanelInit
  \/ WifiInit \/ RestInit \/ NetworkInit \/ TimeInit \/ ModulesInit \/ PowerInit
  \/ ApiRoutes \/ OtaInit \/ WebUiInit \/ BatteryInit \/ WifiStart \/ ModulesStart
  \/ PowerStart \/ DisplayStart \/ BatteryStart \/ KernelStart \/ ConfirmHealthy

\* The station gave up: the portal is opened by the event task.
GivesUp ==
  /\ {"wifi", "wifi start"} \subseteq up
  /\ OpensPortal
  /\ UNCHANGED bootVars /\ Elsewhere

-----------------------------------------------------------------------------
(* Restarts and the bootloader.                                              *)

\* What the bootloader makes of otadata: a new image is tried once, one that was
\* tried and not confirmed is given up.
Tried ==
  [state EXCEPT ![selected] = CASE @ = "new" -> "pending"
                                [] @ = "pending" -> "aborted"
                                [] OTHER -> @]

Bootable(s) == image[s] # "partial" /\ Tried[s] # "aborted"

Boots ==
  /\ state' = Tried
  /\ selected' = IF Bootable(selected) THEN selected ELSE Other(selected)
  /\ running' = selected'
  /\ at' = 1 /\ up' = {} /\ faults' = {}
  /\ routes' = <<>> /\ provisioning' = FALSE
  /\ inProgress' = FALSE /\ upload' = "no" /\ lost' = FALSE
  /\ reboot' = FALSE
  /\ UNCHANGED <<creds, image, requests>>

Crash    == crashes < MaxCrashes /\ crashes' = crashes + 1 /\ Boots
Loops    == image[running] = "loops" /\ ~Booted /\ Boots /\ UNCHANGED crashes
Restarts == reboot /\ Boots /\ UNCHANGED crashes

-----------------------------------------------------------------------------
(* Requests.  The server handles one at a time: none while an upload runs.   *)

Asked(route) ==
  /\ upload = "no"
  /\ \E t \in Range(routes) : t = route
  /\ requests < MaxRequests /\ requests' = requests + 1

\* The reboot and the factory reset; the restart may not be scheduled.
Reboot ==
  /\ Asked("api")
  /\ reboot' \in {reboot, TRUE}
  /\ creds' \in {creds, FALSE}
  /\ UNCHANGED <<bootVars, routes, provisioning, slotVars, otaVars, crashes>>

\* portalPostHandler(): the credentials are stored, or nothing is.
Provision ==
  /\ Asked("provision")
  /\ \/ "config" \in up /\ creds' = TRUE /\ reboot' \in {reboot, TRUE}
     \/ UNCHANGED <<creds, reboot>>
  /\ UNCHANGED <<bootVars, routes, provisioning, slotVars, otaVars, crashes>>

OtaOnly == UNCHANGED <<bootVars, netVars, running, crashes>>

\* A fault: a second upload is not refused.
UploadBeginAnyway ==
  /\ Asked("upload")
  /\ state[running] # "pending"
  /\ inProgress' = TRUE /\ upload' = "writing"
  /\ image' = [image EXCEPT ![Other(running)] = "partial"]
  /\ UNCHANGED <<selected, state, lost, reboot>> /\ OtaOnly

\* uploadHandler(), to the erased partition: esp_ota_begin() refuses while the
\* running image waits to be confirmed, and then nothing has changed.
UploadBegin ==
  /\ Asked("upload")
  /\ ~inProgress
  /\ state[running] # "pending"
  /\ inProgress' = TRUE /\ upload' = "writing"
  /\ image' = [image EXCEPT ![Other(running)] = "partial"]
  /\ UNCHANGED <<selected, state, lost, reboot>> /\ OtaOnly

\* A fault: the flag stays up after a failed upload.
UploadFailsBusy ==
  /\ upload \in {"writing", "written"} /\ upload' = "no"
  /\ UNCHANGED <<inProgress, selected, state, image, lost, reboot, requests>> /\ OtaOnly

\* No memory, a timeout, a failed write, an invalid image, a failed selection.
UploadFails ==
  /\ upload \in {"writing", "written"} /\ upload' = "no"
  /\ inProgress' = FALSE
  /\ UNCHANGED <<selected, state, image, lost, reboot, requests>> /\ OtaOnly

\* esp_ota_end(): the image is complete, which says nothing of what it does.
UploadEnd ==
  /\ upload = "writing" /\ upload' = "written"
  /\ \E kind \in {"good", "loops"} : image' = [image EXCEPT ![Other(running)] = kind]
  /\ UNCHANGED <<inProgress, selected, state, lost, reboot, requests>> /\ OtaOnly

\* esp_ota_set_boot_partition().
SetBoot ==
  /\ upload = "written" /\ upload' = "selected"
  /\ selected' = Other(running)
  /\ state' = [state EXCEPT ![Other(running)] = "new"]
  /\ UNCHANGED <<inProgress, image, lost, reboot, requests>> /\ OtaOnly

\* once(): what it returns is ignored.
ScheduleRestart ==
  /\ upload = "selected" /\ upload' = "no"
  /\ \/ reboot' = TRUE /\ UNCHANGED lost
     \/ lost' = TRUE /\ UNCHANGED reboot
  /\ UNCHANGED <<inProgress, selected, state, image, requests>> /\ OtaOnly

Next ==
  \/ BootStep \/ GivesUp
  \/ Crash \/ Loops \/ Restarts
  \/ Reboot \/ Provision
  \/ UploadBegin \/ UploadFails \/ UploadEnd \/ SetBoot \/ ScheduleRestart

Fairness == WF_vars(BootStep) /\ WF_vars(Loops)

Spec == Init /\ [][Next]_vars /\ Fairness

-----------------------------------------------------------------------------
(* Properties.                                                               *)

TypeOK ==
  /\ at \in 1 .. Len(BootOrder) + 1
  /\ up \subseteq Steps /\ faults \subseteq Steps \ up
  /\ routes \in Seq({"api", "upload", "dashboard", "ws", "provision", "setup", "any"})
  /\ provisioning \in BOOLEAN /\ creds \in BOOLEAN
  /\ running \in Slots /\ selected \in Slots
  /\ state \in [Slots -> {"none", "new", "pending", "valid", "aborted"}]
  /\ image \in [Slots -> {"good", "loops", "partial"}]
  /\ upload \in {"no", "writing", "written", "selected"}
  /\ inProgress \in BOOLEAN /\ reboot \in BOOLEAN /\ lost \in BOOLEAN

\* The bootloader never has only images to try that were not tried before: the slot
\* it will take is complete, and one slot keeps an image that once came to the end of
\* its boot (or was flashed by wire), through uploads, crashes, restarts and rollbacks.
ProvenImageKept ==
  /\ image[selected] # "partial"
  /\ \E s \in Slots : image[s] = "good" /\ state[s] \in {"none", "valid"}

\* in_progress_ is up only while an upload runs or the restart that ends it is due:
\* updates are not refused for ever, unless the scheduler had no room for the restart.
BusyWhileUpdating ==
  /\ upload # "no" => inProgress
  /\ inProgress => upload # "no" \/ reboot \/ lost

\* Whether or not the portal is open, and however boot and portal interleave, what
\* registered its routes without a fault answers for them: the portal's /* neither
\* keeps the API, the upload and the socket out of the table nor comes before them.
RoutesAnswer ==
  \A p \in {<<"routes", "api">>, <<"ota", "upload">>, <<"webui", "ws">>} :
    Booted /\ {"rest", p[1]} \cap faults = {} =>
      \E i \in DOMAIN routes :
        routes[i] = p[2] /\ \A j \in 1 .. i - 1 : ~Matches(routes[j], p[2])

\* Whatever is uploaded, and whatever fails, the device comes to the end of its boot
\* again and again: an image that loops is given up for one that does not.
ComesUp == []<>Booted
=============================================================================
