CONSTANTS
  i2c_bus = i2c_bus
  gpio_blink = gpio_blink
  other = other
  led = led
  boot = boot
  Clients = {i2c_bus, gpio_blink, other}
  Pins = {led, boot}
  Critical = {boot}
  NoOne = NoOne
  none = none
  Tasks = {"httpd", "worker"}
  Channels = 2
  Samples = 2
  NoTask = none
  Values = {"one", "two"}
  Callers = {"button", "httpd"}
  MaxFailures = 1
  Nobody = "nobody"
  f1 = f1
  f2 = f2
  f3 = f3
  nobody = nobody
  Others = {"dispatcher"}
  Fds = {f1, f2, f3}
  MaxClients = 2
  MaxWorks = 2
  None = nobody
SPECIFICATION Peripherals
INVARIANTS
  TypeOK
  AllocatedStays
  NobodyElsesPin
  BusyWhileScanning
  CallbacksAreSafe
  EnergyIsOwn
  PanelIsCurrent
  TableMatchesSockets
  EachClientOnce
PROPERTIES
  ScreenCatchesUp
