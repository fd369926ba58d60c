------------------------------- MODULE Gpio -------------------------------
(***************************************************************************)
(* GpioService: the table of pin states and owners, and the driver that    *)
(* configures the pins behind it.  The table changes under the service's   *)
(* mutex; configure(), write() and read() look at it without the mutex,    *)
(* ask only whether the pin has an owner, not who it is, and call the      *)
(* driver afterwards; releasePin() resets the pin in the driver after it   *)
(* gave the mutex back.                                                    *)
(*                                                                         *)
(* A client is a piece of code that makes its calls one after the other,   *)
(* as the module gpio_blink does: its start() requests the pin, configures *)
(* it and gives it back when that fails, its job writes, its stop()        *)
(* releases after the job's fence.  It makes calls only about pins it took *)
(* and did not release; the service does not tell it when a forced claim   *)
(* took a pin away.  The driver keeps of a pin who configured or wrote it  *)
(* last; read() and snapshot() change nothing.                             *)
(***************************************************************************)
EXTENDS FiniteSets

CONSTANTS Clients,   \* what calls the service; each has a name of its own
          Pins,      \* the pins of the board
          Critical,  \* hal::board::kCriticalPins
          NoOne      \* no owner; in the driver, the power-on state

ASSUME GpioAssumption == Critical \subseteq Pins /\ NoOne \notin Clients

VARIABLES
  entries,   \* the state and the owner of each pin
  driver,    \* who configured or wrote each pin last, since its reset
  held,      \* the pins each client took and has not released, by how it took them
  call,      \* what each client is about to do in the driver, past the check
  contested  \* history: pins that were taken by force, or changed hands under a call

vars == <<entries, driver, held, call, contested>>

Idle == [op |-> "none", pin |-> NoOne]
Free == [state |-> "Free", owner |-> NoOne]

\* init()
Init ==
  /\ entries = [p \in Pins |-> IF p \in Critical THEN [state |-> "Critical", owner |-> NoOne]
                               ELSE Free]
  /\ driver = [p \in Pins |-> NoOne]
  /\ held = [c \in Clients |-> [p \in Pins |-> "no"]]
  /\ call = [c \in Clients |-> Idle]
  /\ contested = {}

AtRest(c) == call[c] = Idle
Has(c, p) == held[c][p] # "no"

\* A driver call on the pin that some client but c has passed the check for.
UnderWay(c, p) == \E d \in Clients \ {c} : call[d].pin = p

-----------------------------------------------------------------------------
(* The table.                                                                *)

\* Fault variants: a forced claim that takes an allocated pin, and one that
\* takes a critical one.
GrantsAllocated(state, force) ==
  state \in {"Free"} \cup IF force THEN {"Reserved", "Allocated"} ELSE {}
GrantsCritical(state, force) ==
  state \in {"Free"} \cup IF force THEN {"Reserved", "Critical"} ELSE {}

\* allocate(): who may have a pin that is in this state.
Grants(state, force) == state \in {"Free"} \cup IF force THEN {"Reserved"} ELSE {}

\* requestPin(), reserve() and claim(): a refused call changes nothing.
Allocate(c, p, target, force) ==
  /\ AtRest(c)
  /\ target = "Reserved" => ~force
  /\ Grants(entries[p].state, force)
  /\ entries' = [entries EXCEPT ![p] = [state |-> target, owner |-> c]]
  /\ held' = [held EXCEPT ![c][p] = target]
  /\ contested' = IF entries[p].state = "Reserved" \/ UnderWay(c, p)
                  THEN contested \cup {p} ELSE contested
  /\ UNCHANGED <<driver, call>>

\* releasePin() as far as it holds the mutex.  Whoever is not the owner is
\* refused, and learns that the pin is no longer its own.
Release(c, p) ==
  /\ AtRest(c) /\ Has(c, p)
  /\ held' = [held EXCEPT ![c][p] = "no"]
  /\ \/ /\ entries[p].state \in {"Allocated", "Reserved"} /\ entries[p].owner = c
        /\ entries' = [entries EXCEPT ![p] = Free]
        /\ call' = [call EXCEPT ![c] = [op |-> "reset", pin |-> p]]
        /\ contested' = IF UnderWay(c, p) THEN contested \cup {p} ELSE contested
     \/ /\ entries[p].state \notin {"Allocated", "Reserved"} \/ entries[p].owner # c
        /\ UNCHANGED <<entries, call, contested>>
  /\ UNCHANGED driver

-----------------------------------------------------------------------------
(* The driver.                                                               *)

\* accessible()
Accessible(p) == entries[p].state \in {"Allocated", "Reserved"}

\* configure() and write() up to their call of the driver.
Access(c, p) ==
  /\ AtRest(c) /\ Has(c, p)
  /\ Accessible(p)
  /\ call' = [call EXCEPT ![c] = [op |-> "access", pin |-> p]]
  /\ UNCHANGED <<entries, driver, held, contested>>

\* GpioDriver::configure() or write().  It may fail, and start() of gpio_blink
\* then gives the pin back.
DriverAccesses(c) ==
  /\ call[c].op = "access"
  /\ \/ driver' = [driver EXCEPT ![call[c].pin] = c]
     \/ UNCHANGED driver
  /\ call' = [call EXCEPT ![c] = Idle]
  /\ UNCHANGED <<entries, held, contested>>

\* A fault: releasePin() forgets the driver.
DriverResetsNothing(c) ==
  /\ call[c].op = "reset"
  /\ call' = [call EXCEPT ![c] = Idle]
  /\ UNCHANGED <<entries, driver, held, contested>>

\* GpioDriver::reset(), the end of releasePin().
DriverResets(c) ==
  /\ call[c].op = "reset"
  /\ driver' = [driver EXCEPT ![call[c].pin] = NoOne]
  /\ call' = [call EXCEPT ![c] = Idle]
  /\ UNCHANGED <<entries, held, contested>>

Next ==
  \E c \in Clients :
    \/ \E p \in Pins :
         \/ \E target \in {"Allocated", "Reserved"}, force \in BOOLEAN :
              Allocate(c, p, target, force)
         \/ Release(c, p)
         \/ Access(c, p)
    \/ DriverAccesses(c)
    \/ DriverResets(c)

Spec == Init /\ [][Next]_vars

-----------------------------------------------------------------------------
(* Properties.                                                               *)

States == {"Free", "Allocated", "Reserved", "Critical"}

TypeOK ==
  /\ entries \in [Pins -> [state : States, owner : Clients \cup {NoOne}]]
  /\ \A p \in Pins : entries[p].owner \in Clients <=> Accessible(p)
  /\ driver \in [Pins -> Clients \cup {NoOne}]
  /\ held \in [Clients -> [Pins -> {"no", "Allocated", "Reserved"}]]
  /\ \A c \in Clients :
       \/ call[c] = Idle
       \/ call[c].op \in {"access", "reset"} /\ call[c].pin \in Pins \ Critical
  /\ contested \subseteq Pins

\* A client that was given a pin for itself keeps it until it releases it: neither
\* a forced claim nor the release of a client that lost the pin takes it away.
AllocatedStays ==
  \A c \in Clients, p \in Pins :
    held[c][p] = "Allocated" => entries[p] = [state |-> "Allocated", owner |-> c]

\* What gpio_service.hpp says: "Release a pin held by owner and reset it to power-on
\* state", and a pin is reached only by who holds it: a pin that was never taken by
\* force and did not change hands under a call is as its holder left it, and as
\* power-on left it when nobody holds it.
NobodyElsesPin ==
  \A p \in Pins \ contested :
    \/ driver[p] = NoOne
    \/ driver[p] = entries[p].owner
    \/ \E c \in Clients : call[c] = [op |-> "reset", pin |-> p] /\ driver[p] = c
=============================================================================
