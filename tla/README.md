# GallusOS in TLA+

This directory holds a verification development for GallusOS, the modular
firmware for the ESP32-C5 whose sources are under `src/`: TLA+ modules
translated from the C++ code, TLC configurations that check them on small
instances, and TLAPS proofs of the central properties for every instance.
`PROJECT.json` maps every modelled definition to the lines it translates and
lists the runs, the mutants that each property catches, the findings, the
hazards of the code, and the theorems.

The modules follow the code's control: every check, early return, order of
effects and failure path. They abstract its data: an event is its topic and the
publication it came from, a job is its slot and generation, a configuration
file is the set of keys a load finds in it. Time is abstracted everywhere: an
armed timer may fire at any moment, a button may be pressed at any moment, and
a delay is a place where other tasks run.

## 1. Inventory

GallusOS is one firmware image over FreeRTOS and ESP-IDF on a single core.
`main/main.cpp` builds the object graph once; after that several tasks call into
the same objects:

| task | runs |
|---|---|
| `gallus_events` | the bus dispatcher, every event handler, among them the display's and the dashboard's |
| 4 tier workers | the scheduler's jobs, one tier each |
| esp_timer task | `Scheduler::timerCallback` |
| HTTP server | every REST handler, the websocket handler and its send worker, the firmware upload, the portal's form |
| event loop task | Wi-Fi and IP event handlers |
| `gallus_btn` | the boot button, charge mode |
| NimBLE host | the callbacks of a BLE scan, while one runs |
| 802.15.4 interrupt | the end of an energy detection |
| boot | `app_main`, until it returns |

Every task that ends a log line also runs the dashboard's log hook.

Components, their state, what they do, and what makes them correct:

| component | state | operations and interactions | hard part | correct when |
|---|---|---|---|---|
| **EventBus** (`gallus_kernel/src/event_bus.cpp`) | a bounded queue, a drop counter, 32 subscription slots with generations | `publish` (send, else discard the oldest and send again), `publishFromIsr`, `subscribe`, `unsubscribe`, the dispatcher | three queue operations per publish with no lock around them; handlers invoked from a snapshot | no loss uncounted, no event twice or out of its publisher's order, stale handles harmless, at most one late call, accepted events reach their subscribers |
| **Scheduler** (`scheduler.cpp`) | 32 job slots, one esp_timer each, 4 worker queues, what each worker runs | `every`, `once`, `cancel`, timer callback, workers | three parties release a job (canceller, worker, timer task), each outside the lock; `cancel` must fence a run in progress | no timer leaked or deleted twice, no run of a cancelled job, `cancel` returns only when the callback is quiet, one-shots free their slot |
| **ModuleManager** (`gallus_sdk/src/module_manager.cpp`) | an entry per module: state, instance; the persisted enable flags | `start`, `stop`, `enable`, `disable`, `startAll`, `stopAll`, boot | no lock, three calling tasks, flag writes that fail, restarts | no job on a deleted instance, disabled modules stay down, instances keep init/start/stop/destroy order |
| **ConfigService**, **StorageService** | one JSON file per namespace, a mutex | set, erase, `resetAll`; publishes `ConfigChanged` | read-modify-write, failed and cut writes, a size limit that only reads know | no update lost, mutex handed back, what was reported saved can be loaded |
| **RestService** | `token_`, the route table | reloads the token on an event and after a PUT; routes come and go with modules and the portal | a cached copy, refreshed by a bus that may lose the event | the token enforced is the token stored |
| **PowerModeService**, **WifiService**, **BatteryService**, **DisplayService** | the mode, the radio's flags and retry count, the sampling job, the screen's mode | enter and leave charge mode; reconnect; Wi-Fi event handlers; provisioning portal; drawing | no lock but the display's, three tasks that call and one that handles the events those calls cause | the radio comes back, charge mode is dark, one sampler, nobody stranded without network or portal, the panel shows what is true |
| **GpioService** | owner and state of each pin | request, reserve, claim, release; read and write | reads without the lock, driver reset after it, forced claims | who was given a pin keeps it, a pin is as its holder left it |
| **OtaService**, boot | upload in progress, the slots and the states of their images, the route table | `app_main()`'s order, upload, restart, `confirmHealthy` | services that fail on the way, a portal that opens at any moment, a crash between two steps, a restart that cannot be scheduled | a bad image rolls back, one proven image remains, updates are not refused for ever, routes answer |
| **WebUiService** | up to 4 WebSocket clients, the work queued with the server, the log line being built | broadcast of events and log lines | logging from inside its own lock; sockets that go unseen and numbers that come back | the table matches the sockets, a broadcast reaches each client once, no task waits for itself |
| **BleService**, **Ieee802154Service** | the scanning flag, the semaphore, parked pointers, the result of a detection | scan with callbacks from a host task or an interrupt | a completion after its timeout, a failure on each path, a result that is thrown away | the flag comes back, a callback finds what it tested, a sample's result is its own |
| **others** (I2C, time, network, diagnostics, drivers, log) | little | bus I/O, counters | none that interleaves | |
| **host build** (`host/shim`, `host/mock`) | threads for FreeRTOS and esp_timer | runs the kernel on a PC | the timer shim joins a thread under its lock | no deadlock against the scheduler's mutex, no thread on a freed timer |

The hazards, at their lines and with the properties that cover them, are in
`PROJECT.json` under `hazards`.

## 2. Modules

| module | models | abstract specification | proofs |
|---|---|---|---|
| `EventBus` | the kernel event bus | `BusContract` | `EventBusProofs` |
| `Scheduler` | the kernel scheduler | `JobContract` | `SchedulerProofs` |
| `ModuleManager` | the module lifecycle, with failing flag writes and restarts | `ModuleLifecycle` | `ModuleManagerProofs` |
| `ChargeMode` | charge mode over Wi-Fi, battery sampling and display mode: a composition of four services | | `ChargeModeProofs` |
| `Config` | configuration, its files, and the REST token cached from it: a composition of three services | | `ConfigProofs` |
| `Boot` | `app_main()`'s order, firmware upload, the bootloader, confirmation and rollback, the portal's routes: a composition of all that starts at boot | | `BootProofs` |
| `Gpio` | the table of pins and the driver behind it | | `PeripheralProofs` |
| `RadioScan` | the BLE scan and the 802.15.4 energy survey | | `RadioScanProofs` |
| `WebUi` | the dashboard's websocket clients, broadcasts and the log hook | | `PeripheralProofs` |
| `Screen` | the panel, its lock, the mode and the status | | `PeripheralProofs` |

Each `MC...` module extends its component and names the model values of its
configurations. `MCPeripherals` extends the last four, which share no state, and
checks them in one run: a behaviour is one of a single component, chosen by its first
state, while the others stay where they begin.

**EventBus.** `publish()` is three queue operations and each is a step:
`PublishSend`, `PublishEvict`, `PublishRetry`. FreeRTOS queue operations are
atomic, so other publishers, interrupts and the dispatcher run between them and
never inside one. A critical section under `subs_mutex_` neither blocks nor
calls out, so it is one step (`Subscribe`, `Unsubscribe`, `Snapshot`). The
dispatcher is `Receive`, `Snapshot`, one `Invoke` per handler, `Finish`. Any
task may subscribe or unsubscribe at any time, and that covers a handler that
does. The history variables `held` and `calls` record which handles are out and
which invocations were made. Where a publication is now (`Life`) is read off the
state, and this is the refinement mapping to `BusContract`, in which a
publication is offered, accepted or lost, and delivered once, in its publisher's
order. A lost one never comes back.

**Scheduler.** A job is named by slot and generation, and so is its timer,
because the timer's argument packs both. `Schedule` is the whole of `schedule()`,
which holds `mutex_` throughout. `cancel()` is `Cancel` (the critical section),
`CancelStop` (stop and delete the timer, after the lock) and `CancelFence` (the
poll that finds the job not running). A poll that finds it running changes
nothing and is not a step. The timer task is `TimerFires`, `CallbackLookup`,
`CallbackSend` and, for a one-shot that meets a full queue, `CallbackClean` and
`CallbackFree`. A worker is `WorkerReceive`, `WorkerCheck`, the job function
(during which `workPc` is `run` and the worker may itself call the scheduler),
`WorkerReturn`, `WorkerFree`. `JobContract` knows only whether a job is live,
running and reported quiet.

**ModuleManager.** Calls are steps at the points where they leave the manager:
the instance's `start()` and `stop()`, and the writes of the enable flag through
`ConfigService`. A write may fail and leave the old file, or a cut file that reads
as the default, enabled; and the failure may go unseen, as `writeFile()` ignores the
result of `fclose()`: the manager then goes on as if the flag were written
(`PersistDisabled`, `PersistEnabled`). The config API writes the same namespace
(`ConfigWrites`). A restart may come anywhere and keeps only the flags. The history
variable `down` holds the modules that were turned off, by a `disable()` that answered
ok or by their flag at boot, and leaves out those whose flag has been on since and those
for which an `enable()` answered ok.
An instance is named by its module and a serial number, so that a job on a
deleted instance can be told from a job on its successor. The modules are those
of the repository: no `initialize()` or `stop()` fails, no routes are registered,
`start()` makes at most one periodic job whose context is the instance.

**ChargeMode.** `enterChargeMode()` and `exitChargeMode()` are sequences of
steps (`Path`), one per effect on a service, taken by whichever task made the
call: the button's, the HTTP server's, or the worker that runs the delayed job.
The Wi-Fi driver is external: it posts events into the event loop's queue and
answers connection attempts with a link or a disconnection, and
`esp_wifi_stop()` itself causes a disconnection event that is handled later.
The handlers are modelled with the retry count and the switch to the portal.
`reconnectSta()`, which the HTTP server's task runs after new credentials were
stored, is a third call (`Reconnection`), and the history variable `crossed`
records that one was under way together with another call. The application
modules are up or down as a whole here. The two sampling intervals are the numbers of
`power_mode_service.cpp`, in milliseconds.

**Config.** A set loads the document, changes one key and saves it under the
mutex (`LoadDoc`, `Save`), and publishes outside it (`Publish`). A PUT is a
sequence of sets that stops at the first failure and otherwise reloads the
token. `resetAll()` lists the files before it takes the mutex. A save can fail
visibly or, as the result of `fclose()` is ignored, invisibly, and leave the old
or a cut file. A document of more than `MaxKeys` keys stands for one longer than
`kMaxFileBytes`: it is saved, and does not load. `Deliver` and `EventReloads` are
`RestService::onConfigChanged`. The history variable `lapse` records the first
of four kinds of trouble since the token was last read (a cut file, a document too
long, a lost event, a factory reset), so that a property can say under which
conditions it holds.

**Boot.** `BootOrder` is the order of `app_main()`, and each service's start is
an action that succeeds, fails because a service it needs is not there (`Comes`,
`Serves`), or fails for a reason of its own (`Faults`); `check()` goes on in each
case. The HTTP server answers from the moment its routes are in the table, so
requests for a restart, a factory reset, credentials or an upload come while
boot is still under way, and so does the station's decision to open the portal
(`GivesUp`). The upload handler is `UploadBegin` to `ScheduleRestart`, with a
failure possible at each step. The bootloader (`Tried`, `Boots`), the partition
calls and the server's matching of routes are external: they follow ESP-IDF's
documented behaviour with rollback enabled. An image is good, or loops before
the end of `app_main()`; a crash may come anywhere. `lost` records an upload
whose restart found no room in the scheduler. `ConfirmHealthy` may also fail to read or
to write the state of the image, which then stays to be confirmed.

**Gpio.** `Allocate` is `requestPin()`, `reserve()` and `claim()`, which share
their critical section. `Release` is the critical section of `releasePin()`,
`DriverResets` the reset that follows without the lock; `Access` is the unlocked
check of `configure()` and `write()`, `DriverAccesses` the driver call that
follows it. A client is a module or a service with a name of its own that makes
its calls in turn. The driver keeps, of each pin, who configured or wrote it
last. `contested` records pins that were taken by force or that changed hands
between another client's check and its driver call.

**RadioScan.** The steps of `BleService::scan()` and `Ieee802154Service::scan()`,
each with its failure path, run on the HTTP server's task and on a worker. The
NimBLE host is a task of its own whose callbacks test the semaphore and the
buffer (`CbCheck`) and use them later (`CbUse`); `nimble_port_stop()` returns
when that task has left its callbacks, or fails (`unstopped`). The energy
callback is an interrupt and one step (`EnergyDone`). It may come after the
sample's timeout: `late` records that it fell between the clearing of the result
and the next detection. The result of `esp_ieee802154_set_channel()` is thrown away:
the radio is on the channel `tuned`, where it stays when the call fails, and a
detection measures there; `untuned` records the channels it could not be set to.

**WebUi.** `broadcast()` is `LockClients`, one `QueueWork` per client,
`UnlockClients`; it runs on the dispatcher for an event and on any task that ends
a log line. The HTTP server's one task handles websocket frames, adds and removes
clients and sends the queued frames. `addClient()` and `removeClient()` call
nothing under the mutex and are one step. The server's sockets are external: they
close with or without a call of the handler, and their numbers come back. `gone` and
`unheard` record sockets that vanished while listed and websockets without a place
in the table, `served` the clients each task has come past in its loop. When the
server refuses a piece of work it says so in the log, and the task comes back to
`LockClients` with the mutex still its own (`Refused`).

**Screen.** A drawing is the choice of the screen by the mode, the lock, the
frame in the driver's buffer, and the flush. The choice comes before the lock;
the status is written by the dispatcher without it and read by whoever draws
with it, so that a frame may be "torn" between two values. A flush may fail and
leaves the panel spoiled. `init()` finds the panel or not; without one the splash and
`start()` do nothing. With one, `app_main()` plays the splash, makes its four
subscriptions, each of which may find no room (`start()` then returns, and those it made
stay), writes the hostname into the status without the lock as well
(`Activate`, `UpdateHostname`), and draws the first status screen while events and
calls already come. `display_service.hpp:24-26` says that "All panel access is
funnelled through a single worker task", with handlers that only update cached
state; the code has no such task, and neither has the model: the dispatcher, the callers
that switch the mode and `app_main()` all draw, one at a time under the lock.

## 3. Runs

Passing runs:

| run | shows | bounds, and why they are enough |
|---|---|---|
| `EventBus` | no loss goes uncounted; a handle works for its owner and nobody else; at most one late call; the bus implements its contract; accepted events are heard | A queue of two, a task and an interrupt that publish twice each: the queue is full at a publication, the interrupt takes the room the task made, and an event is evicted while another is in the dispatcher's hand. Two subscriptions in two slots, side by side or one after the other in one slot, so that handles go stale. |
| `Scheduler` | timers are owned; stale handles are harmless; the fence holds; the contract is implemented; one-shots are released; `cancel()` returns | One client, two tiers, of which the jobs of one call the scheduler: cancel from outside, from the own tier and from another tier. One slot used twice, so handles, timer arguments and queued items go stale; a worker queue of one, so it is full when the second job is due. |
| `ModuleManager` | no job outlives its instance; a module turned off stays down as long as its flag is off; instances keep their lifecycle | Two modules compete for one job slot; up to three instances of each, which allows a failed start, a replacement and a restart in one behaviour. Flags may be written, lost or left unwritten at any step. One caller: with more the promises do not hold, which is what `ModuleRace` shows. |
| `ChargeMode` | after any overlap the radio is back; entered by itself, charge mode is dark; sampling does not pile up; the station never gives up without the portal | Three callers and three calls: two that enter can overlap with one that leaves, or a reconnection with both. One retry, so a lost link both reconnects and opens the portal. Two events waiting: a stale one and a new one. |
| `Config` | no update lost; mutex handed back; enforced token is stored token | Two tasks on one namespace of two keys, which is what a lost update needs; PUTs of both keys that fail half way or overtake each other; a bus of one event, which loses events. |
| `Boot` | an image to fall back to, and one the bootloader can take, always exist; updates are not refused for ever; what registered its routes answers; the device comes to the end of its boot again and again | One service fails by itself in each boot, with those that need it; one crash; three requests: an upload, another one or a restart in the middle of it, a rollback. |
| `Peripherals` | of four components, each by itself. Pins: who was given a pin for itself keeps it; a pin is as its holder left it. Radios: the scanning flag is up exactly while one task scans; callbacks find what they tested; energies belong to their channel. Panel: at rest it shows the last status; once the mode is settled it comes to show its screen for good. Dashboard: the client table lists the open websockets, none twice; a broadcast comes to each client once. | Pins: three clients, one pin for all and one critical: a forced claim, the client that lost the pin and does not know it, and a third that takes it when it is free. Radios: two tasks for each; two channels of two samples: an answer can be late for the next sample and for the next channel, the radio can stay behind, and a second scan can follow. Panel: two callers, the dispatcher and boot; two values and one failed flush: a choice made before the mode changed can be drawn last, a frame can be torn. Dashboard: the dispatcher and the server, which broadcasts when it logs; three sockets for a table of two and a queue of two: both fill up, a number comes back while it is listed, and a client can go while a broadcast is in its loop. |

Runs that show the code to differ from what the repository says of it; each is a
finding in `PROJECT.json`, with the quoted line:

| run | what happens |
|---|---|
| `ModuleRace` | Two tasks start one module at the same time, its first job handle is overwritten, and the module is later stopped with that job still running. |
| `ChargeReconnect` | A reconnection passes its check before charge mode is entered and starts the radio after `stopRadio()`. Leaving charge mode starts it again to no effect, no start event is posted, and nobody connects. |
| `SampleInterval` | Entering charge mode samples the battery every 5 seconds instead of every 30; the header says that charge mode slows sampling. |
| `TokenReset` | A factory reset removes the stored token and publishes nothing; the old token is enforced until the restart. The comment at the subscription names factory reset among the writes it follows at once. |
| `WebUiBlocks` | The server refuses the work of a broadcast and logs that; the line comes back through the log hook to `broadcast()`, and the dispatcher waits for the mutex it holds, for ever. The header says that no framework task ever blocks there. |

Some promises hold only with an exception, which the passing property names
instead of leaving it out of the model:

- The drop counter never misses a loss, but may exceed the losses, when the
  dispatcher drains the queue between the failed send and the discard
  (`EveryLossIsCounted`).
- The fence of `cancel()` is for the task whose call succeeded. A second task that
  cancels the same job gets `NotFound` at once, while the callback may still run
  (`CancelledIsQuiet`).
- `enable()` after a `disable()` that failed to write its flag reports success
  without making an instance; `DisabledStaysDown` and `KeepsLifecycle` hold anyway.
- A flag write that fails in `fclose()` is reported as done: a `disable()` that answered
  ok may be undone by the next boot, and an `enable()` that answered ok makes an instance
  whose flag is still off on disk. `DisabledStaysDown` is about the modules whose flag
  is off and stays off, until an `enable()` for them answers ok.
- When the portal opens between `stopRadio()`'s check and `esp_wifi_stop()`, its
  radio is off and leaving charge mode does not bring it back (`NormalHasRadio` and
  `ChargeIsDark` except provisioning).
- Overlapping calls may leave modules, screen and sampling in disagreement with
  the mode (`ChargeIsDark` and `OneSampler` are for calls that do not overlap).
- Battery sampling has the interval the code has for the mode (`OneSampler`), which in
  charge mode is the shorter one: `SampleInterval` is the finding.
- The enforced token may be old after a lost event, until it is next read, and after a
  factory reset until the restart that follows, which `TokenReset` reports; a namespace
  longer than the load buffer is saved with success and does not load (`TokenInSync`,
  `KeepsWrites`).
- An upload whose restart cannot be scheduled leaves updates refused until the next
  restart (`BusyWhileUpdating`). An image is confirmed although services failed
  on the way, and `ComesUp` and `ProvenImageKept` count it as proven.
- A forced claim, or a pin that changes hands between a check and a driver call,
  can leave the pin as a former holder configured it (`NobodyElsesPin`).
- When the server refuses a frame's work, the task that broadcasts never comes back:
  no passing property is about the mutex being given back, and `WebUiBlocks` reports it.
  The dashboard's table keeps a socket that went unseen until a send to it fails
  (`TableMatchesSockets`).
- An energy answer that falls between the clearing of the result and the next
  detection is taken for that one's, and the record of a channel the radio could not be
  set to holds the energies of another channel, since nobody looks at the result of
  `esp_ieee802154_set_channel()` (`EnergyIsOwn`).

`Peripherals` is checked for deadlock: pins, scans and panel never come to rest. The
dashboard does, behind a refused work; so a step that changes nothing is allowed there,
and there alone. In the other runs (`CHECK_DEADLOCK FALSE`) the bounds on publications,
jobs, instances, calls and requests end behaviours, and a system in which nobody
publishes, schedules or calls is at rest. That no `cancel()` hangs is what
`CancelReturns` says instead. The behaviours of `Peripherals` have no symmetry reduction:
the run checks a liveness property.

### Fairness

- `EventBus`: the dispatcher and a publisher inside `publish()` go on. Both are
  ready tasks that block on nothing but the queue; FreeRTOS runs them. Nobody has
  to publish, subscribe or unsubscribe.
- `Scheduler`: workers, the timer callback and a call in progress go on; job
  functions return, as `scheduler.hpp` demands ("callbacks must not busy-loop").
  An armed timer fires, with strong fairness, because the timer task takes
  expired timers in the order in which they expire, and so none waits behind
  the others for ever. Nobody has to schedule or cancel.
- `ChargeMode`: a call in progress goes on, waiting Wi-Fi events are handled, and
  the driver answers each attempt to connect. Nobody has to press or request.
- `Boot`: `app_main()` goes on, and an image that loops does restart. Nobody has to
  send a request, and crashes are bounded, as a device without power never comes up.
- `Screen`: once `start()` has subscribed, the battery is sampled again and again and each
  sample is an event (`BatteryChanged` goes out with every reading; this presumes that the
  sampling job was scheduled and goes on, without which a screen that was drawn by a mode
  since changed would stay); no task stops in the middle of
  a call; and whoever waits for the mutex gets it, with strong fairness, because a
  FreeRTOS mutex goes to its waiters by priority and then in their order, and those
  who draw block between two drawings. In `Peripherals` it asks nothing of the other
  components: they come with a display without a panel, none of whose fair actions is
  ever enabled.
- `ModuleManager`, `Config`, `Gpio`, `RadioScan` and `WebUi` are checked for safety
  only.

## 4. Proofs

Eight modules hold proofs, checked by TLAPS for all values of the constants that
satisfy the assumptions of their component:

| module | theorems | of what |
|---|---|---|
| `EventBusProofs` | `BusOrder`, `HandlesAreSafe`, `OneLateCall`, `LossesAreCounted`, `BusImplementsContract` | all safety properties of the run, and the refinement |
| `SchedulerProofs` | `SchedulerTypes`, `TimersNeverLeak`, `StaleHandlesAreHarmless`, `FenceHolds`, `SchedulerImplementsContract` | all safety properties of the run, and the refinement |
| `ModuleManagerProofs` | `ManagerTypes`, `NoJobOutlivesItsModule`, `DisableIsFinal`, `StopUndoesStartInTurns`, `LifecycleIsKept` | all properties of the run, the refinement, and what `ModuleRace` violates; all but the first for calls that take turns |
| `ChargeModeProofs` | `ChargeTypes`, `RadioComesBack`, `ChargeModeIsDark`, `OneSamplerRuns` | all safety properties of the run |
| `ConfigProofs` | `ConfigTypes`, `MutexIsHandedBack`, `TokenIsInSync`, `NoUpdateIsLost` | all properties of the run |
| `BootProofs` | `ProvenImageStays`, `UpdatesAreNotShutOut`, `RoutesGetAnswered` | all safety properties of the run |
| `PeripheralProofs` | of `Gpio`: `GpioTypes`, `CriticalPinsStay`, `AllocatedPinsStay`, `PinsAreTheirHolders` | its properties in the run `Peripherals`, and critical pins |
| | of `Screen`: `ScreenTypes`, `PanelShowsStatus` | its safety property in the run, and types |
| | of `WebUi`: `WebUiTypes`, `TableIsTrue`, `EachClientIsServedOnce` | its properties in the run, and types |
| `RadioScanProofs` | `ScanTypes`, `OneScanAtATime`, `CallbacksFindTheirScan`, `EnergiesAreOwn` | its properties in the run `Peripherals`, and types |

The assumptions (`BusAssumption`, `SchedulerAssumption`, ...) say that the bounds are
natural numbers, that interrupts are publishers, that clients are not workers, that
critical pins are pins, that the namespace and the key of the token exist, that
the two tasks that scan are tasks, and that sentinels are no events, jobs, values,
clients, sockets or tasks. The number of slots, queue depths, publishers, tiers, tasks, clients,
pins, sockets, modules, namespaces, keys, channels, faults, crashes, requests and calls are
arbitrary. Each module also proves its inductive invariant by itself (`BusOrder`,
`SchedulerInvariant`, ...), and TLC found each of them to hold on the run's
instance before it was proved.

**The bus.** `BusOrder` proves `TypeOK /\ OrderInv`. `TypeOK` is inductive; the
refinement is not. It needs to know that a publication is in one place at a time
and that publications of one publisher stand in the order of its calls all the
way from the publisher (`OfferOrder`) through the queue (`QueueOrder`) and the
dispatcher's hand (`DispatchOrder`) to the delivered ones (`DeliveredOrder`).
With that, each step of the bus moves at most one publication from one stage to
the next, or, on eviction, the oldest to lost, which gives
`BusImplementsContract`. `HandlesAreSafe` is inductive given types.
`OneLateCall` is strengthened by `LateInv`: a subscription that is gone stays
gone, so no later snapshot contains it, and it has left the current snapshot
with its first late call.

`LossesAreCounted` counts: the lost publications are a finite set of at most
`dropped` members (`LossInv`). The proof of the refinement shows that a step loses
at most one publication, and `NoLoss` that a step which counts no drop loses none.

**The scheduler.** `SchedulerInvariant` proves `Inv`, which says for each task in
the middle of a call what it knows: a queued item and a worker's item name a
job that was made (`QueueInv`, `WorkerInv`), the timer task's job was made and
its copy of "one-shot" is right (`CallbackInv`), a canceller's job is out of the
table and its tier is the job's (`CallInv`), at most one task is about to delete a
job's timer (`OneOwner`), and a job that was answered for is out of the table
(`AnswerInv`). The `FenceHolds` argument: after `Cancel` the job is inactive for
good, since generations only grow, so no `WorkerCheck` marks it running again; and
`CancelFence` sees that it is not running now. `SchedulerImplementsContract` maps
each step to one of `JobContract` or to a stutter.

**The module manager.** The manager has no lock, and `ModuleRace` shows what two
callers do to it. Its theorems, but for the types, therefore assume `[]TakeTurns`:
no two calls are in the manager in the same state of the behaviour. Every behaviour of
one caller satisfies that, and it leaves every failed write and every restart in
the middle of a call. Under it the state of an entry and what its instance has
been through agree (`StateFits`), but for the module a call has just started or
stopped and not yet written down (`Passing`); what a call knows of its module at each
place (`Knows`) closes that gap, and `OldAreGone` says that of all instances made
only the entry's is alive. `StopUndoesStartInTurns` is the sentence of
`module.hpp` that the run refutes, proved for calls that take turns: what the finding
needs is the overlap, and nothing less. `DisableIsFinal` rests on two facts: of the calls
only `enable()` makes an instance, and it does so only past a write that answered ok, where
the module has left `down` (the last line of `Knows`); and a write that fails can take
modules out of `down` but puts none in.

**Charge mode.** `ChargeInvariant` has five parts besides the types.
`RadioIsOwned`: a radio that is stopped or off has a reason, charge mode itself or a call
under way that will set the mode or start the radio again; with no call left,
normal mode has its radio. It holds for calls that overlap in any way.
`LossIsReported`: as long as the link is not up, the end of every connection the
service believes in is an event that waits, behind every "ip" that waits; an
empty queue thus means a service that knows. `CallsInTurn` and `SamplerInTurn`
say what a call has done when it is at a step, while no two have overlapped; which
of the two intervals is the longer plays no part in it.
`JobsAreCounted` bounds the numbers of jobs by the calls that began, so that `Next` is
never stopped by the model's own bound on them.

**Configuration.** Who is between a load and its save, or removes files, holds the
mutex (`MutexHasHolder`), and so what it loaded is what is still stored
(`LoadedIsStored`), also when a save of another task fails or cuts the file. From
that no update is lost. For the token, `NewsArrives`: while nothing went wrong since
the token was last read, a stored token that differs from the enforced one has its news under way, as a write about
to be published, an event that waits, or a reload that is due.

**Boot.** `Outcomes`: what is behind `app_main()` came up or failed, and where the
server is there it failed for a reason of its own. `TableInOrder` and
`Registered`: no route is twice in the table, each is there no sooner than its
service, and the portal's `/*` is last, because the portal opens behind all
registrations. So every path of the API, the upload and the socket is matched
before `/*`. `Fallback`: the slot the bootloader tries is proven, or complete with a
proven one beside it. `RunningImage` and `Updating`: only an image that ran to the
end of `app_main()` is confirmed, the bootloader's choice differs from the running
slot only after an upload, and that upload keeps `in_progress_` up. The route
table is a sequence of which `Unregister` removes the first match, as
`httpd_unregister_uri_handler()` does.

**GPIO.** `configure()` and `write()` act on a check made without the lock. The invariant
says that whoever holds a pin that never changed hands under a call nor by force is its
owner (`HolderOwns`), and so is whoever is past the check (`AccessorOwns`); with
`AllocatedStays` and the driver's side, `NobodyElsesPin` is inductive.
`CriticalStays` says that no path, forced claim included, gives a critical pin away.

**The radios.** The flag is up while exactly one task is inside a scan (`Busy`), on
every failure path. Unless the host could not be stopped, it is up only between
its start and its stop in a scan (`HostInScan`), where the semaphore is there and
`out_` is the scanning task's (`ScanHasSem`, `ScanHasOut`): so a callback finds what it
tested. The radio is on the survey's channel unless it could not be set to it (`TunerIsOwn`). A
result is empty when a detection starts, and until it is taken only that detection fills
it, unless an answer was late (`ResultIsOwn`).

**The panel.** The lock is the drawing task's. While the display is active, a status the
panel does not show is still to be read: the dispatcher has not chosen its screen,
boot, which writes the status too, has not drawn, or some task waits for the lock or holds it before its drawing
(`WillDraw`); or else the frame that is being flushed shows it (`IsShown`).

**The dashboard.** `Listed` is what the lemmas about `Append` and `Without` say
`addClient()` and `removeClient()` make of it; that `Without` takes out one socket
needs the table to have no duplicates, and that there are none needs `addClient()` to
look first. `ServerHasSocket` says that the socket being added is open. A
broadcast comes to each client once because its loop and the table's writers exclude
each other: who is in its loop holds the mutex (`LoopHoldsMutex`), so the server's task
does not change the table, and what the loop has come past is the table's beginning.

`PeripheralProofs` treats three components that share no state; `RadioScan`, `Screen` and
`WebUi` name their initial states, steps and specifications after themselves, so that one
module can extend all of them with `Gpio`, as `MCPeripherals` does.

Only model-checked: liveness (`SubscribersHear`, `OneShotsAreReleased`,
`CancelReturns`, `NeverStranded`, `ComesUp`, `ScreenCatchesUp`), which is out of
the prover's reach. Every other property of a passing run is a theorem.

## 5. What is not modelled

- The 16-bit wrap of generations: the models bound generations below the width.
  A wrap needs a handle kept over 65536 reuses of one slot.
- Mutual cancellation across two tiers, which hangs both workers: `CancelReturns`
  is checked with one calling tier, and `CallingTiers` says so.
- The host build. Its shim of `esp_timer_stop()` joins a timer's thread with
  `g_mutex` held, the callback in the thread waits for the scheduler's `mutex_`, and
  `schedule()` takes `g_mutex` under `mutex_`: with one caller at a time, as in
  `host/main.cpp`, no circle closes; a `cancel()` at the same time as a
  `schedule()` would close it.
- `initialize()`, `stop()` or `registerRoutes()` that fail: no module of the
  repository has them.
- `WifiService::scan()`: a second scan may clear the driver's results of the first
  between its two reads of them. The portal's DNS responder, which keeps no state.
- The other tasks' reads of `token_` while it is copied, which span no step of the
  model.
- `resetAll()` over more than `ListMax` files: it is in the model (`List`), but the
  repository promises nothing about the files that are left.
- The bound of the route table (`kMaxRoutes`) and the reuse of its slots.
- How a log line is put together of its parts (`log_line_`), and the cut of long
  lines; what frames, pages and JSON answers say; what is drawn, pixel by pixel.
- The boot counter, progress events of an upload, `recordFrame()` (the 802.15.4
  radio is never put into receive), the measurements of the battery.
- What `PROJECT.json` lists as not modelled, with the reason.

## 6. Plan

1. What the module manager keeps of its promises when calls overlap, beyond its types.
2. `WifiService::scan()`, and the route table under modules that come and go.

Abstract specifications still worth stating: one owner per pin, an energy sample
belongs to its channel.
