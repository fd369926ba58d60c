-------------------------- MODULE PeripheralProofs --------------------------
(***************************************************************************)
(* Proofs about Gpio, Screen and WebUi, the components at the edge of the  *)
(* device: its pins, its panel and its dashboard.  They share no state,    *)
(* and each theorem is about the specification of its own component, for   *)
(* all values of that component's constants.                               *)
(*                                                                         *)
(* The pins: what configure() and write() rely on without looking is that  *)
(* who holds a pin that never changed hands is its owner.  The panel: a    *)
(* status that is not shown is still to be read by a task that will draw.  *)
(* The dashboard: the socket of a client that is being added is open, and  *)
(* removeClient() takes exactly one socket out of the table; and the table *)
(* stays as it is while a task that holds the mutex loops over it.         *)
(***************************************************************************)
EXTENDS Gpio, Screen, WebUi, SequenceTheorems, TLAPS

-----------------------------------------------------------------------------
(* The pins.  The inductive invariant says it for the clients that hold a    *)
(* pin and for the driver calls that are past the check, and that no         *)
(* critical pin ever leaves its state.                                       *)


PinEntry == [state : States, owner : Clients \cup {NoOne}]
PinCalls == [op : {"none", "access", "reset"}, pin : Pins \cup {NoOne}]

PinCallTypes == call \in [Clients -> PinCalls]

\* A critical pin is nobody's, whatever a client asks for and however.
CriticalStays == \A p \in Critical : entries[p] = [state |-> "Critical", owner |-> NoOne]

HolderOwns ==
  \A c \in Clients, p \in Pins \ contested : Has(c, p) => entries[p].owner = c

AccessorOwns ==
  \A c \in Clients :
    call[c].op = "access" /\ call[c].pin \notin contested => entries[call[c].pin].owner = c

PinInv ==
  /\ TypeOK /\ PinCallTypes /\ CriticalStays /\ AllocatedStays
  /\ HolderOwns /\ AccessorOwns /\ NobodyElsesPin

LEMMA CallFacts ==
  /\ Idle \in PinCalls /\ Idle.op = "none"
  /\ \A p \in Pins : /\ [op |-> "access", pin |-> p] \in PinCalls
                     /\ [op |-> "reset", pin |-> p] \in PinCalls
  /\ \A x \in PinCalls : x = Idle \/ x.op # "none" \/ x.pin # NoOne
  BY DEF PinCalls, Idle

LEMMA EntryFacts ==
  /\ Free \in PinEntry /\ Free.state = "Free" /\ Free.owner = NoOne
  /\ \A s \in States, c \in Clients :
       /\ [state |-> s, owner |-> c] \in PinEntry
       /\ [state |-> s, owner |-> c].state = s /\ [state |-> s, owner |-> c].owner = c
  BY DEF PinEntry, Free, States

LEMMA PinInit == Init => PinInv
<1> SUFFICES ASSUME Init PROVE PinInv
  OBVIOUS
<1> USE GpioAssumption, CallFacts, EntryFacts
<1>1. entries \in [Pins -> PinEntry]
  BY DEF Init, PinEntry, States
<1>2. \A p \in Pins : entries[p].owner = NoOne /\ ~Accessible(p)
  BY DEF Init, Free, Accessible
<1>3. CriticalStays
  BY DEF Init, CriticalStays
<1>4. TypeOK
  BY <1>1, <1>2 DEF Init, TypeOK, PinEntry
<1>5. PinCallTypes /\ AllocatedStays /\ HolderOwns /\ AccessorOwns /\ NobodyElsesPin
  BY DEF Init, PinCallTypes, AllocatedStays, HolderOwns, AccessorOwns, NobodyElsesPin, Has, Idle
<1> QED
  BY <1>3, <1>4, <1>5 DEF PinInv

\* What allocate() does when it grants a pin.
LEMMA StepAllocate ==
  ASSUME PinInv, NEW c \in Clients, NEW p \in Pins,
         NEW target \in {"Allocated", "Reserved"}, NEW force \in BOOLEAN,
         Allocate(c, p, target, force)
  PROVE  PinInv'
<1> USE GpioAssumption, CallFacts, EntryFacts
<1> DEFINE new == [state |-> target, owner |-> c]
<1>0. /\ TypeOK /\ PinCallTypes /\ CriticalStays /\ AllocatedStays
      /\ HolderOwns /\ AccessorOwns /\ NobodyElsesPin
  BY DEF PinInv
<1>1. /\ entries[p].state \in {"Free", "Reserved"}
      /\ call[c] = Idle
      /\ entries' = [entries EXCEPT ![p] = new]
      /\ held' = [held EXCEPT ![c][p] = target]
      /\ contested \subseteq contested'
      /\ contested' \subseteq contested \cup {p}
      /\ p \notin contested' => entries[p].state = "Free" /\ ~UnderWay(c, p)
      /\ UNCHANGED <<driver, call>>
  BY DEF Allocate, Grants, AtRest
<1>2. /\ new \in PinEntry /\ new.owner = c /\ new.state = target
      /\ target \in {"Allocated", "Reserved"}
  BY DEF States
<1>3. entries \in [Pins -> PinEntry] /\ held \in [Clients -> [Pins -> {"no", "Allocated", "Reserved"}]]
  BY <1>0 DEF TypeOK, PinEntry
<1>4. /\ entries' \in [Pins -> PinEntry] /\ entries'[p] = new
      /\ \A q \in Pins \ {p} : entries'[q] = entries[q]
  BY <1>1, <1>2, <1>3
<1>5. /\ held' \in [Clients -> [Pins -> {"no", "Allocated", "Reserved"}]]
      /\ held'[c][p] = target
      /\ \A d \in Clients, q \in Pins : d # c \/ q # p => held'[d][q] = held[d][q]
  BY <1>1, <1>3
<1>6. TypeOK'
  BY <1>0, <1>1, <1>2, <1>4, <1>5 DEF TypeOK, PinEntry, Accessible
<1>7. PinCallTypes' /\ CriticalStays'
  BY <1>0, <1>1, <1>4 DEF PinCallTypes, CriticalStays
<1>8. AllocatedStays'
  BY <1>0, <1>1, <1>2, <1>4, <1>5 DEF AllocatedStays
<1>9. ASSUME p \notin contested'
      PROVE  /\ entries[p].owner = NoOne
             /\ \A d \in Clients : ~Has(d, p)
             /\ driver[p] = NoOne
  <2>1. entries[p].state = "Free" /\ ~UnderWay(c, p) /\ p \notin contested
    BY <1>1, <1>9
  <2>2. entries[p].owner = NoOne
    BY <2>1, <1>0, <1>3 DEF TypeOK, Accessible, PinEntry
  <2>3. \A d \in Clients : ~Has(d, p)
    BY <2>1, <2>2, <1>0 DEF HolderOwns
  <2>4. ASSUME NEW d \in Clients PROVE call[d] # [op |-> "reset", pin |-> p]
    <3>1. CASE d = c
      BY <3>1, <1>1 DEF Idle
    <3>2. CASE d # c
      BY <3>2, <2>1 DEF UnderWay
    <3> QED
      BY <3>1, <3>2
  <2>5. driver[p] = NoOne
    BY <2>1, <2>2, <2>4, <1>0 DEF NobodyElsesPin
  <2> QED
    BY <2>2, <2>3, <2>5
<1>10. HolderOwns'
  BY <1>0, <1>1, <1>2, <1>4, <1>5, <1>9 DEF HolderOwns, Has
<1>11. AccessorOwns'
  <2> SUFFICES ASSUME NEW d \in Clients, call'[d].op = "access", call'[d].pin \notin contested'
               PROVE  entries'[call'[d].pin].owner = d
    BY DEF AccessorOwns
  <2>1. call[d].op = "access" /\ call[d].pin \notin contested /\ entries[call[d].pin].owner = d
    BY <1>0, <1>1 DEF AccessorOwns
  <2>2. call[d].pin \in Pins
    BY <2>1, <1>0 DEF TypeOK
  <2>3. call[d].pin # p
    BY <2>1, <1>1, <1>9
  <2> QED
    BY <2>1, <2>2, <2>3, <1>1, <1>4
<1>12. NobodyElsesPin'
  <2> SUFFICES ASSUME NEW q \in Pins \ contested'
               PROVE  \/ driver'[q] = NoOne
                      \/ driver'[q] = entries'[q].owner
                      \/ \E d \in Clients : /\ call'[d] = [op |-> "reset", pin |-> q]
                                            /\ driver'[q] = d
    BY DEF NobodyElsesPin
  <2>1. CASE q = p
    BY <2>1, <1>1, <1>9
  <2>2. CASE q # p
    BY <2>2, <1>0, <1>1, <1>4 DEF NobodyElsesPin
  <2> QED
    BY <2>1, <2>2
<1> QED
  BY <1>6, <1>7, <1>8, <1>10, <1>11, <1>12 DEF PinInv

LEMMA StepRelease ==
  ASSUME PinInv, NEW c \in Clients, NEW p \in Pins, Release(c, p)
  PROVE  PinInv'
<1> USE GpioAssumption, CallFacts, EntryFacts
<1>0. /\ TypeOK /\ PinCallTypes /\ CriticalStays /\ AllocatedStays
      /\ HolderOwns /\ AccessorOwns /\ NobodyElsesPin
  BY DEF PinInv
<1>1. call[c] = Idle /\ held' = [held EXCEPT ![c][p] = "no"] /\ UNCHANGED driver
  BY DEF Release, AtRest
<1>2. /\ entries \in [Pins -> PinEntry]
      /\ held \in [Clients -> [Pins -> {"no", "Allocated", "Reserved"}]]
      /\ call \in [Clients -> PinCalls]
  BY <1>0 DEF TypeOK, PinEntry, PinCallTypes
<1>3. /\ held' \in [Clients -> [Pins -> {"no", "Allocated", "Reserved"}]]
      /\ held'[c][p] = "no"
      /\ \A d \in Clients, q \in Pins : d # c \/ q # p => held'[d][q] = held[d][q]
  BY <1>1, <1>2
<1>4. CASE /\ entries[p].state \in {"Allocated", "Reserved"} /\ entries[p].owner = c
           /\ entries' = [entries EXCEPT ![p] = Free]
           /\ call' = [call EXCEPT ![c] = [op |-> "reset", pin |-> p]]
           /\ contested' = IF UnderWay(c, p) THEN contested \cup {p} ELSE contested
  <2> DEFINE reset == [op |-> "reset", pin |-> p]
  <2>1. /\ entries' \in [Pins -> PinEntry] /\ entries'[p] = Free
        /\ \A q \in Pins \ {p} : entries'[q] = entries[q]
    BY <1>2, <1>4
  <2>2. /\ call' \in [Clients -> PinCalls] /\ call'[c] = reset
        /\ \A d \in Clients \ {c} : call'[d] = call[d]
    BY <1>2, <1>4
  <2>3. contested \subseteq contested' /\ contested' \subseteq contested \cup {p}
    BY <1>4
  <2>4. p \notin Critical
    BY <1>0, <1>4 DEF CriticalStays
  <2>5. \A q \in Pins : Accessible(q)' <=> Accessible(q) /\ q # p
    BY <2>1 DEF Accessible
  <2>6. TypeOK'
    BY <2>1, <2>2, <2>3, <2>4, <2>5, <1>0, <1>1, <1>3 DEF TypeOK, PinEntry
  <2>7. PinCallTypes' /\ CriticalStays'
    BY <2>1, <2>2, <2>4, <1>0 DEF PinCallTypes, CriticalStays
  <2>8. AllocatedStays'
    BY <2>1, <1>0, <1>3, <1>4 DEF AllocatedStays
  <2>9. HolderOwns'
    BY <2>1, <2>3, <1>0, <1>3, <1>4 DEF HolderOwns, Has
  <2>10. AccessorOwns'
    BY <2>1, <2>2, <2>3, <1>0, <1>2, <1>4 DEF AccessorOwns, TypeOK
  <2>11. NobodyElsesPin'
    <3> SUFFICES ASSUME NEW q \in Pins \ contested'
                 PROVE  \/ driver'[q] = NoOne
                        \/ driver'[q] = entries'[q].owner
                        \/ \E d \in Clients : /\ call'[d] = [op |-> "reset", pin |-> q]
                                              /\ driver'[q] = d
      BY DEF NobodyElsesPin
    <3>1. CASE \E d \in Clients : call[d] = [op |-> "reset", pin |-> q] /\ driver[q] = d
      BY <3>1, <2>2, <1>1 DEF Idle
    <3>2. CASE /\ ~\E d \in Clients : call[d] = [op |-> "reset", pin |-> q] /\ driver[q] = d
               /\ q = p
      BY <3>2, <2>2, <2>3, <1>0, <1>1, <1>4 DEF NobodyElsesPin
    <3>3. CASE /\ ~\E d \in Clients : call[d] = [op |-> "reset", pin |-> q] /\ driver[q] = d
               /\ q # p
      BY <3>3, <2>1, <2>3, <1>0, <1>1 DEF NobodyElsesPin
    <3> QED
      BY <3>1, <3>2, <3>3
  <2> QED
    BY <2>6, <2>7, <2>8, <2>9, <2>10, <2>11 DEF PinInv
<1>5. CASE /\ entries[p].state \notin {"Allocated", "Reserved"} \/ entries[p].owner # c
           /\ UNCHANGED <<entries, call, contested>>
  <2>1. TypeOK' /\ PinCallTypes' /\ CriticalStays' /\ NobodyElsesPin' /\ AccessorOwns'
    BY <1>0, <1>1, <1>3, <1>5
       DEF TypeOK, Accessible, PinCallTypes, CriticalStays, NobodyElsesPin, AccessorOwns
  <2>2. AllocatedStays' /\ HolderOwns'
    BY <1>0, <1>3, <1>5 DEF AllocatedStays, HolderOwns, Has
  <2> QED
    BY <2>1, <2>2 DEF PinInv
<1> QED
  BY <1>4, <1>5 DEF Release

LEMMA StepAccess ==
  ASSUME PinInv, NEW c \in Clients, NEW p \in Pins, Access(c, p)
  PROVE  PinInv'
<1> USE GpioAssumption, CallFacts, EntryFacts
<1>0. /\ TypeOK /\ PinCallTypes /\ CriticalStays /\ AllocatedStays
      /\ HolderOwns /\ AccessorOwns /\ NobodyElsesPin
  BY DEF PinInv
<1>1. /\ call[c] = Idle /\ Has(c, p) /\ Accessible(p)
      /\ call' = [call EXCEPT ![c] = [op |-> "access", pin |-> p]]
      /\ UNCHANGED <<entries, driver, held, contested>>
  BY DEF Access, AtRest
<1>2. /\ call' \in [Clients -> PinCalls] /\ call'[c] = [op |-> "access", pin |-> p]
      /\ \A d \in Clients \ {c} : call'[d] = call[d]
  BY <1>0, <1>1 DEF PinCallTypes
<1>3. p \notin Critical
  BY <1>0, <1>1 DEF CriticalStays, Accessible
<1>4. TypeOK'
  BY <1>0, <1>1, <1>2, <1>3 DEF TypeOK, Accessible
<1>5. PinCallTypes' /\ CriticalStays' /\ AllocatedStays' /\ HolderOwns'
  BY <1>0, <1>1, <1>2 DEF PinCallTypes, CriticalStays, AllocatedStays, HolderOwns, Has
<1>6. AccessorOwns'
  BY <1>0, <1>1, <1>2 DEF AccessorOwns, HolderOwns
<1>7. NobodyElsesPin'
  <2> SUFFICES ASSUME NEW q \in Pins \ contested'
               PROVE  \/ driver'[q] = NoOne
                      \/ driver'[q] = entries'[q].owner
                      \/ \E d \in Clients : /\ call'[d] = [op |-> "reset", pin |-> q]
                                            /\ driver'[q] = d
    BY DEF NobodyElsesPin
  <2>1. ASSUME NEW d \in Clients, call[d] = [op |-> "reset", pin |-> q]
        PROVE  call'[d] = [op |-> "reset", pin |-> q]
    BY <2>1, <1>1, <1>2 DEF Idle
  <2>2. NobodyElsesPin /\ UNCHANGED <<entries, driver, contested>>
    BY <1>0, <1>1
  <2> QED
    BY <2>1, <2>2 DEF NobodyElsesPin
<1> QED
  BY <1>4, <1>5, <1>6, <1>7 DEF PinInv

LEMMA StepDriver ==
  ASSUME PinInv, NEW c \in Clients, DriverAccesses(c) \/ DriverResets(c)
  PROVE  PinInv'
<1> USE GpioAssumption, CallFacts, EntryFacts
<1>0. /\ TypeOK /\ PinCallTypes /\ CriticalStays /\ AllocatedStays
      /\ HolderOwns /\ AccessorOwns /\ NobodyElsesPin
  BY DEF PinInv
<1> DEFINE p == call[c].pin
<1>1. /\ call[c].op \in {"access", "reset"}
      /\ call' = [call EXCEPT ![c] = Idle]
      /\ UNCHANGED <<entries, held, contested>>
      /\ \/ driver' = driver /\ call[c].op = "access"
         \/ driver' = [driver EXCEPT ![p] = c] /\ call[c].op = "access"
         \/ driver' = [driver EXCEPT ![p] = NoOne]
  BY DEF DriverAccesses, DriverResets
<1>2. p \in Pins /\ driver \in [Pins -> Clients \cup {NoOne}]
  BY <1>0, <1>1 DEF TypeOK, Idle
<1>3. /\ call' \in [Clients -> PinCalls] /\ call'[c] = Idle
      /\ \A d \in Clients \ {c} : call'[d] = call[d]
  BY <1>0, <1>1 DEF PinCallTypes
<1>4. /\ driver' \in [Pins -> Clients \cup {NoOne}]
      /\ \A q \in Pins \ {p} : driver'[q] = driver[q]
      /\ \/ driver'[p] = driver[p] /\ call[c].op = "access"
         \/ driver'[p] = c /\ call[c].op = "access"
         \/ driver'[p] = NoOne
  BY <1>1, <1>2
<1>5. TypeOK'
  BY <1>0, <1>1, <1>3, <1>4 DEF TypeOK, Accessible
<1>6. PinCallTypes' /\ CriticalStays' /\ AllocatedStays' /\ HolderOwns'
  BY <1>0, <1>1, <1>3 DEF PinCallTypes, CriticalStays, AllocatedStays, HolderOwns, Has
<1>7. AccessorOwns'
  BY <1>0, <1>1, <1>3 DEF AccessorOwns
<1>8. NobodyElsesPin'
  <2> SUFFICES ASSUME NEW q \in Pins \ contested
               PROVE  \/ driver'[q] = NoOne
                      \/ driver'[q] = entries[q].owner
                      \/ \E d \in Clients : /\ call'[d] = [op |-> "reset", pin |-> q]
                                            /\ driver'[q] = d
    BY <1>1 DEF NobodyElsesPin
  <2>1. CASE q = p /\ driver'[p] = c /\ call[c].op = "access"
    BY <2>1, <1>0 DEF AccessorOwns
  <2>2. CASE q = p /\ driver'[p] = NoOne
    BY <2>2
  <2>3. CASE driver'[q] = driver[q] /\ (q = p => call[c].op = "access")
    <3>1. ASSUME NEW d \in Clients, call[d] = [op |-> "reset", pin |-> q]
          PROVE  call'[d] = [op |-> "reset", pin |-> q]
      BY <3>1, <2>3, <1>3
    <3> QED
      BY <3>1, <2>3, <1>0 DEF NobodyElsesPin
  <2> QED
    BY <2>1, <2>2, <2>3, <1>4
<1> QED
  BY <1>5, <1>6, <1>7, <1>8 DEF PinInv

LEMMA PinStep == PinInv /\ [Next]_vars => PinInv'
<1>1. ASSUME PinInv, UNCHANGED vars PROVE PinInv'
  BY <1>1 DEF PinInv, vars, TypeOK, PinCallTypes, CriticalStays, AllocatedStays, HolderOwns,
              AccessorOwns, NobodyElsesPin, Has, Accessible
<1> QED
  BY <1>1, StepAllocate, StepRelease, StepAccess, StepDriver DEF Next

\* The inductive invariant of GpioService's table and of the calls past its check.
THEOREM GpioInvariant == Spec => []PinInv
  BY PinInit, PinStep, PTL DEF Spec

\* The table and the driver keep their types, a pin has an owner exactly while it is
\* allocated or reserved, and no driver call is about a critical pin.
THEOREM GpioTypes == Spec => []TypeOK
<1>1. PinInv => TypeOK
  BY DEF PinInv
<1> QED
  BY <1>1, GpioInvariant, PTL

\* Neither requestPin(), reserve() nor claim() by force gives a critical pin away.
THEOREM CriticalPinsStay == Spec => []CriticalStays
<1>1. PinInv => CriticalStays
  BY DEF PinInv
<1> QED
  BY <1>1, GpioInvariant, PTL

\* A client that was given a pin for itself keeps it until it releases it.
THEOREM AllocatedPinsStay == Spec => []AllocatedStays
<1>1. PinInv => AllocatedStays
  BY DEF PinInv
<1> QED
  BY <1>1, GpioInvariant, PTL

\* A pin that was never taken by force and did not change hands under a call is as
\* its holder left it, and as power-on left it when nobody holds it.
THEOREM PinsAreTheirHolders == Spec => []NobodyElsesPin
<1>1. PinInv => NobodyElsesPin
  BY DEF PinInv
<1> QED
  BY <1>1, GpioInvariant, PTL

-----------------------------------------------------------------------------
(* The panel.                                                                *)

\* The lock is the drawing task's; boot makes its subscriptions, and draws once the
\* display is active.
DrawerHasLock == \A t \in Painters : where[t] \in {"draw", "flush"} => holder = t

BootActivates ==
  /\ where["boot"] = "splash" => subscribed = 0
  /\ where["boot"] = "subscribe" => subscribed < Subscriptions
  /\ statusActive => where["boot"] \notin {"splash", "subscribe", "activate"}

\* The status is torn only while it is written.
StatusIsWhole ==
  where["dispatcher"] # "update" /\ where["boot"] # "hostname" => status = coming

\* Somebody has still to read the status.
WillDraw ==
  \/ where["dispatcher"] \in {"update", "choose"}
  \/ where["boot"] \in {"hostname", "choose"}
  \/ \E t \in Painters : where[t] \in {"lock", "draw"}

\* The panel shows the status, or the frame that is being flushed does.
IsShown ==
  \/ \E t \in Painters : where[t] = "flush" /\ buffer.value = status
  \/ /\ \A t \in Painters : where[t] # "flush"
     /\ panel = Spoiled \/ panel.value = status

StatusReachesPanel == statusActive => WillDraw \/ IsShown

ScreenPlaces ==
  {"idle", "splash", "subscribe", "activate", "hostname", "update", "choose", "lock", "draw", "flush"}

\* The types of the frames, and those of the rest.
FrameTypes == buffer \in Frames /\ panel \in Frames

PainterTypes ==
  /\ charge \in BOOLEAN /\ subscribed \in 0 .. Subscriptions /\ statusActive \in BOOLEAN
  /\ status \in Values \cup {"torn"} /\ coming \in Values
  /\ where \in [Painters -> ScreenPlaces] /\ chosen \in [Painters -> Screens]
  /\ holder \in Painters \cup {Nobody}
  /\ failures \in 0 .. MaxFailures

PanelInv ==
  /\ PainterTypes /\ FrameTypes /\ DrawerHasLock /\ BootActivates
  /\ StatusIsWhole /\ StatusReachesPanel

LEMMA PanelTypes == ScreenTypeOK <=> PainterTypes /\ FrameTypes
  BY DEF ScreenTypeOK, PainterTypes, FrameTypes, ScreenPlaces

LEMMA FrameFacts ==
  /\ Blank \in Frames /\ Spoiled \in Frames
  /\ \A s \in Screens, v \in Values \cup {"torn"} : Frame(s, v) \in Frames /\ Frame(s, v).value = v
  BY DEF Frames, Frame

\* What a task does to the places: its own changes.
LEMMA PanelGo ==
  ASSUME PainterTypes, NEW t \in Painters, NEW from, NEW to \in ScreenPlaces, Goes(t, from, to)
  PROVE  /\ where' \in [Painters -> ScreenPlaces] /\ where[t] = from /\ where'[t] = to
         /\ \A u \in Painters \ {t} : where'[u] = where[u]
  BY DEF PainterTypes, Goes

LEMMA PanelTasks == "dispatcher" \in Painters /\ "boot" \in Painters /\ Callers \subseteq Painters
  BY DEF Painters

LEMMA PanelInit == ScreenInit => PanelInv
<1> SUFFICES ASSUME ScreenInit PROVE PanelInv
  OBVIOUS
<1>0. 0 \in 0 .. MaxFailures /\ 0 \in 0 .. Subscriptions
  BY ScreenAssumption DEF Subscriptions
<1>1. PainterTypes
  BY <1>0 DEF ScreenInit, PainterTypes, ScreenPlaces, Screens
<1>2. FrameTypes
  BY FrameFacts DEF ScreenInit, FrameTypes
<1>3. DrawerHasLock /\ BootActivates /\ StatusIsWhole /\ StatusReachesPanel
  BY PanelTasks DEF ScreenInit, DrawerHasLock, BootActivates, StatusIsWhole, StatusReachesPanel
<1> QED
  BY <1>1, <1>2, <1>3 DEF PanelInv

\* A screen is chosen: once the display is active, the task waits for the lock.
LEMMA PanelChooses ==
  ASSUME PanelInv, NEW t \in Painters, NEW screen \in Screens, Chooses(t, "choose", screen)
  PROVE  PanelInv'
<1>0. PainterTypes /\ FrameTypes /\ DrawerHasLock /\ BootActivates /\ StatusIsWhole
  BY DEF PanelInv
<1>1. PICK to \in {"lock", "idle"} :
        /\ Goes(t, "choose", to) /\ (statusActive => to = "lock")
        /\ chosen' = [chosen EXCEPT ![t] = IF statusActive THEN screen ELSE chosen[t]]
        /\ UNCHANGED <<holder, buffer, panel, failures, charge, subscribed, statusActive, status, coming>>
  BY DEF Chooses, DrawingOnly
<1>2. /\ where' \in [Painters -> ScreenPlaces] /\ where[t] = "choose" /\ where'[t] = to
      /\ \A u \in Painters \ {t} : where'[u] = where[u]
  BY <1>0, <1>1, PanelGo DEF ScreenPlaces
<1>3. PainterTypes' /\ FrameTypes'
  BY <1>0, <1>1, <1>2 DEF PainterTypes, FrameTypes
<1>4. DrawerHasLock' /\ BootActivates' /\ StatusIsWhole'
  BY <1>0, <1>1, <1>2, PanelTasks DEF DrawerHasLock, BootActivates, StatusIsWhole
<1>5. StatusReachesPanel'
  BY <1>1, <1>2 DEF StatusReachesPanel, WillDraw
<1> QED
  BY <1>3, <1>4, <1>5 DEF PanelInv

\* The lock, the frame and the flush.
LEMMA PanelRender ==
  ASSUME PanelInv, NEW t \in Painters, Render(t)
  PROVE  PanelInv'
<1>0. PainterTypes /\ FrameTypes /\ DrawerHasLock /\ BootActivates /\ StatusIsWhole /\ StatusReachesPanel
  BY DEF PanelInv
<1>1. CASE Lock(t)
  <2>1. /\ holder = Nobody /\ holder' = t
        /\ where' \in [Painters -> ScreenPlaces] /\ where[t] = "lock" /\ where'[t] = "draw"
        /\ \A u \in Painters \ {t} : where'[u] = where[u]
        /\ UNCHANGED <<chosen, buffer, panel, failures, charge, subscribed, statusActive, status, coming>>
    BY <1>0, <1>1, PanelGo DEF Lock, DrawingOnly, ScreenPlaces
  <2>2. \A u \in Painters : where[u] \notin {"draw", "flush"}
    BY <1>0, <2>1, ScreenAssumption DEF DrawerHasLock, Painters
  <2>3. PainterTypes' /\ FrameTypes' /\ DrawerHasLock' /\ BootActivates' /\ StatusIsWhole' /\ StatusReachesPanel'
    BY <1>0, <2>1, <2>2, PanelTasks
       DEF PainterTypes, FrameTypes, DrawerHasLock, BootActivates, StatusIsWhole, StatusReachesPanel, WillDraw
  <2> QED
    BY <2>3 DEF PanelInv
<1>2. CASE Draw(t)
  <2>1. /\ where' \in [Painters -> ScreenPlaces] /\ where[t] = "draw" /\ where'[t] = "flush"
        /\ \A u \in Painters \ {t} : where'[u] = where[u]
        /\ buffer' = Frame(chosen[t], status) /\ chosen' = [chosen EXCEPT ![t] = "status"]
        /\ UNCHANGED <<holder, panel, failures, charge, subscribed, statusActive, status, coming>>
    BY <1>0, <1>2, PanelGo DEF Draw, DrawingOnly, ScreenPlaces
  <2>2. buffer' \in Frames /\ buffer'.value = status
    BY <1>0, <2>1, FrameFacts DEF PainterTypes
  <2>3. chosen' \in [Painters -> Screens]
    BY <1>0, <2>1 DEF PainterTypes, Screens
  <2>4. PainterTypes' /\ FrameTypes' /\ DrawerHasLock' /\ BootActivates' /\ StatusIsWhole' /\ StatusReachesPanel'
    BY <1>0, <2>1, <2>2, <2>3, PanelTasks
       DEF PainterTypes, FrameTypes, DrawerHasLock, BootActivates, StatusIsWhole, StatusReachesPanel, IsShown
  <2> QED
    BY <2>4 DEF PanelInv
<1>3. CASE Flush(t)
  <2>1. /\ where' \in [Painters -> ScreenPlaces] /\ where[t] = "flush" /\ where'[t] = "idle"
        /\ \A u \in Painters \ {t} : where'[u] = where[u]
        /\ holder' = Nobody /\ panel' \in {buffer, Spoiled} /\ Flushes
        /\ UNCHANGED <<chosen, buffer, charge, subscribed, statusActive, status, coming>>
    BY <1>0, <1>3, PanelGo DEF Flush, Flushes, DrawingOnly, ScreenPlaces
  <2>2. \A u \in Painters \ {t} : where[u] \notin {"draw", "flush"}
    BY <1>0, <2>1 DEF DrawerHasLock
  <2>3. failures' \in 0 .. MaxFailures
    BY <1>0, <2>1, ScreenAssumption DEF PainterTypes, Flushes
  <2>4. PainterTypes' /\ FrameTypes'
    BY <1>0, <2>1, <2>3, FrameFacts DEF PainterTypes, FrameTypes
  <2>5. DrawerHasLock' /\ BootActivates' /\ StatusIsWhole'
    BY <1>0, <2>1, <2>2, PanelTasks DEF DrawerHasLock, BootActivates, StatusIsWhole
  <2>6. StatusReachesPanel'
    <3>1. CASE WillDraw
      BY <2>1, <3>1, PanelTasks DEF StatusReachesPanel, WillDraw
    <3>2. CASE statusActive /\ ~WillDraw
      BY <1>0, <2>1, <2>2, <3>2 DEF StatusReachesPanel, IsShown
    <3> QED
      BY <2>1, <3>1, <3>2 DEF StatusReachesPanel
  <2> QED
    BY <2>4, <2>5, <2>6 DEF PanelInv
<1> QED
  BY <1>1, <1>2, <1>3 DEF Render

\* The dispatcher writes the status: it has still to draw it.
LEMMA PanelUpdate ==
  ASSUME PanelInv, Event \/ Update
  PROVE  PanelInv'
<1>0. PainterTypes /\ FrameTypes /\ DrawerHasLock /\ BootActivates /\ StatusIsWhole
  BY DEF PanelInv
<1>1. CASE Event
  <2>1. PICK v \in Values : OnEvent(v)
    BY <1>1 DEF Event
  <2>2. /\ where' \in [Painters -> ScreenPlaces] /\ where'["dispatcher"] = "update"
        /\ \A u \in Painters \ {"dispatcher"} : where'[u] = where[u]
        /\ coming' = v /\ status' \in {status, "torn"}
        /\ UNCHANGED <<charge, subscribed, statusActive, chosen, holder, buffer, panel, failures>>
    BY <1>0, <2>1, PanelGo, PanelTasks DEF OnEvent, Writes, ScreenPlaces
  <2>3. PainterTypes' /\ FrameTypes' /\ DrawerHasLock' /\ BootActivates'
    BY <1>0, <2>2, PanelTasks DEF PainterTypes, FrameTypes, DrawerHasLock, BootActivates
  <2>4. StatusIsWhole' /\ StatusReachesPanel'
    BY <2>2 DEF StatusIsWhole, StatusReachesPanel, WillDraw
  <2> QED
    BY <2>3, <2>4 DEF PanelInv
<1>2. CASE Update
  <2>2. /\ where' \in [Painters -> ScreenPlaces] /\ where'["dispatcher"] = "choose"
        /\ \A u \in Painters \ {"dispatcher"} : where'[u] = where[u]
        /\ status' = IF where["boot"] = "hostname" THEN status ELSE coming
        /\ UNCHANGED <<charge, subscribed, statusActive, coming, chosen, holder, buffer, panel, failures>>
    BY <1>0, <1>2, PanelGo, PanelTasks DEF Update, Wrote, ScreenPlaces
  <2>3. PainterTypes' /\ FrameTypes' /\ DrawerHasLock' /\ BootActivates'
    BY <1>0, <2>2, PanelTasks DEF PainterTypes, FrameTypes, DrawerHasLock, BootActivates
  <2>4. StatusIsWhole' /\ StatusReachesPanel'
    BY <2>2, PanelTasks DEF StatusIsWhole, StatusReachesPanel, WillDraw
  <2> QED
    BY <2>3, <2>4 DEF PanelInv
<1> QED
  BY <1>1, <1>2

\* A caller sets the mode, which says nothing of the status.
LEMMA PanelSetMode ==
  ASSUME PanelInv, NEW c \in Callers, NEW mode \in BOOLEAN, SetChargeMode(c, mode)
  PROVE  PanelInv'
<1>0. PainterTypes /\ FrameTypes /\ DrawerHasLock /\ BootActivates /\ StatusIsWhole /\ StatusReachesPanel
  BY DEF PanelInv
<1>1. /\ where' \in [Painters -> ScreenPlaces] /\ where[c] = "idle" /\ where'[c] = "choose" /\ c \in Painters
      /\ \A u \in Painters \ {c} : where'[u] = where[u]
      /\ c \notin {"dispatcher", "boot"}
      /\ charge' \in BOOLEAN
      /\ UNCHANGED <<subscribed, statusActive, status, coming, chosen, holder, buffer, panel, failures>>
  BY <1>0, PanelGo, PanelTasks, ScreenAssumption DEF SetChargeMode, ScreenPlaces
<1>2. PainterTypes' /\ FrameTypes' /\ DrawerHasLock' /\ BootActivates' /\ StatusIsWhole'
  BY <1>0, <1>1, PanelTasks
     DEF PainterTypes, FrameTypes, DrawerHasLock, BootActivates, StatusIsWhole
<1>3. (WillDraw => WillDraw') /\ (IsShown => IsShown')
  BY <1>1, PanelTasks DEF WillDraw, IsShown
<1> QED
  BY <1>0, <1>1, <1>2, <1>3 DEF PanelInv, StatusReachesPanel

\* app_main() up to the subscriptions, which may fail: the display is not active.
LEMMA PanelSubscribes ==
  ASSUME PanelInv, PlaySplash \/ Subscribe
  PROVE  PanelInv'
<1>0. PainterTypes /\ FrameTypes /\ DrawerHasLock /\ BootActivates /\ StatusIsWhole
  BY DEF PanelInv
<1>1. PICK from \in {"splash", "subscribe"}, to \in {"subscribe", "activate", "idle"} :
        /\ Goes("boot", from, to)
        /\ subscribed' \in 0 .. Subscriptions
        /\ to = "subscribe" => subscribed' < Subscriptions
        /\ buffer' \in {buffer, Blank} /\ panel' \in {panel, Blank, Spoiled}
        /\ UNCHANGED <<charge, statusActive, status, coming, chosen, holder, failures>>
  <2>1. subscribed \in 0 .. Subscriptions
    BY <1>0 DEF PainterTypes
  <2>2. CASE PlaySplash
    BY <1>0, <2>1, <2>2 DEF PlaySplash, BootActivates, Goes, Subscriptions
  <2>3. CASE Subscribe
    <3>1. UNCHANGED <<charge, statusActive, status, coming, chosen, holder, buffer, panel, failures>>
      BY <2>3 DEF Subscribe
    <3>2. CASE /\ Goes("boot", "subscribe",
                       IF subscribed + 1 < Subscriptions THEN "subscribe" ELSE "activate")
               /\ subscribed' = subscribed + 1
      <4>1. subscribed < Subscriptions
        BY <1>0, <3>2 DEF BootActivates, Goes
      <4>2. subscribed' \in 0 .. Subscriptions
        BY <2>1, <3>2, <4>1 DEF Subscriptions
      <4>3. CASE subscribed' < Subscriptions
        BY <3>1, <3>2, <4>2, <4>3
      <4>4. CASE ~(subscribed' < Subscriptions)
        BY <3>1, <3>2, <4>2, <4>4
      <4> QED
        BY <4>3, <4>4
    <3>3. CASE Goes("boot", "subscribe", "idle") /\ subscribed' = subscribed
      BY <2>1, <3>1, <3>3
    <3> QED
      BY <2>3, <3>2, <3>3 DEF Subscribe
  <2> QED
    BY <2>2, <2>3
<1>2. /\ where' \in [Painters -> ScreenPlaces] /\ where["boot"] = from /\ where'["boot"] = to
      /\ \A u \in Painters \ {"boot"} : where'[u] = where[u]
  BY <1>0, <1>1, PanelGo, PanelTasks DEF ScreenPlaces
<1>3. PainterTypes' /\ FrameTypes'
  BY <1>0, <1>1, <1>2, FrameFacts DEF PainterTypes, FrameTypes
<1>4. ~statusActive /\ ~statusActive'
  BY <1>0, <1>1, <1>2 DEF BootActivates
<1>5. DrawerHasLock' /\ BootActivates' /\ StatusReachesPanel'
  BY <1>0, <1>1, <1>2, <1>4 DEF DrawerHasLock, BootActivates, StatusReachesPanel
<1>6. StatusIsWhole'
  BY <1>0, <1>1, <1>2, PanelTasks DEF StatusIsWhole
<1> QED
  BY <1>3, <1>5, <1>6 DEF PanelInv

\* The display becomes active when boot has still to draw, and to write the hostname.
LEMMA PanelActivates ==
  ASSUME PanelInv, (\E v \in Values : Activate(v)) \/ UpdateHostname
  PROVE  PanelInv'
<1>0. PainterTypes /\ FrameTypes /\ DrawerHasLock /\ BootActivates /\ StatusIsWhole
  BY DEF PanelInv
<1>1. CASE \E v \in Values : Activate(v)
  <2>1. PICK v \in Values : Activate(v)
    BY <1>1
  <2>2. /\ where' \in [Painters -> ScreenPlaces] /\ where'["boot"] = "hostname"
        /\ \A u \in Painters \ {"boot"} : where'[u] = where[u]
        /\ statusActive' = TRUE /\ coming' = v /\ status' \in {status, "torn"}
        /\ UNCHANGED <<charge, subscribed, chosen, holder, buffer, panel, failures>>
    BY <1>0, <2>1, PanelGo, PanelTasks DEF Activate, Writes, ScreenPlaces
  <2>3. PainterTypes' /\ FrameTypes' /\ DrawerHasLock' /\ BootActivates'
    BY <1>0, <2>2, PanelTasks DEF PainterTypes, FrameTypes, DrawerHasLock, BootActivates
  <2>4. StatusIsWhole' /\ StatusReachesPanel'
    BY <2>2 DEF StatusIsWhole, StatusReachesPanel, WillDraw
  <2> QED
    BY <2>3, <2>4 DEF PanelInv
<1>2. CASE UpdateHostname
  <2>2. /\ where' \in [Painters -> ScreenPlaces] /\ where'["boot"] = "choose"
        /\ \A u \in Painters \ {"boot"} : where'[u] = where[u]
        /\ status' = IF where["dispatcher"] = "update" THEN status ELSE coming
        /\ UNCHANGED <<charge, subscribed, statusActive, coming, chosen, holder, buffer, panel, failures>>
    BY <1>0, <1>2, PanelGo, PanelTasks DEF UpdateHostname, Wrote, ScreenPlaces
  <2>3. PainterTypes' /\ FrameTypes' /\ DrawerHasLock' /\ BootActivates'
    BY <1>0, <2>2, PanelTasks DEF PainterTypes, FrameTypes, DrawerHasLock, BootActivates
  <2>4. StatusIsWhole' /\ StatusReachesPanel'
    BY <2>2, PanelTasks DEF StatusIsWhole, StatusReachesPanel, WillDraw
  <2> QED
    BY <2>3, <2>4 DEF PanelInv
<1> QED
  BY <1>1, <1>2

LEMMA PanelStep == PanelInv /\ [ScreenNext]_screenVars => PanelInv'
<1>1. ASSUME PanelInv, UNCHANGED screenVars PROVE PanelInv'
  BY <1>1 DEF PanelInv, screenVars, PainterTypes, FrameTypes, DrawerHasLock, BootActivates,
              StatusIsWhole, StatusReachesPanel, WillDraw, IsShown
<1>2. "status" \in Screens /\ \A mode : For(mode) \in Screens
  BY DEF For, Screens
<1>3. ASSUME PanelInv, EventChooses \/ BootChooses PROVE PanelInv'
  BY <1>2, <1>3, PanelChooses, PanelTasks DEF EventChooses, BootChooses
<1>4. ASSUME PanelInv, NEW c \in Callers, CallerChooses(c) PROVE PanelInv'
  BY <1>2, <1>4, PanelChooses, PanelTasks DEF CallerChooses
<1> QED
  BY <1>1, <1>3, <1>4, PanelRender, PanelUpdate, PanelSetMode, PanelSubscribes, PanelActivates
     DEF ScreenNext, Start

\* The inductive invariant of the display: whoever draws has the lock, and a status
\* the panel does not show is still to be read by somebody who will draw.
THEOREM PanelInvariant == ScreenSpec => []PanelInv
  BY PanelInit, PanelStep, PTL DEF ScreenSpec

\* The display's state keeps its types, and its frames are ones it can draw.
THEOREM ScreenTypes == ScreenSpec => []ScreenTypeOK
<1>1. PanelInv => ScreenTypeOK
  BY PanelTypes DEF PanelInv
<1> QED
  BY <1>1, PanelInvariant, PTL

\* When nobody draws, the panel shows the status as the last event left it, unless
\* the last flush failed, however events, callers and boot came between.
THEOREM PanelShowsStatus == ScreenSpec => []PanelIsCurrent
<1>1. PanelInv => PanelIsCurrent
  <2> SUFFICES ASSUME PanelInv, statusActive, \A t \in Painters : where[t] = "idle"
               PROVE  panel = Spoiled \/ (panel.value = status /\ status # "torn")
    BY DEF PanelIsCurrent
  <2>1. ~WillDraw
    BY PanelTasks DEF WillDraw
  <2>2. status # "torn"
    BY PanelTasks, ScreenAssumption DEF PanelInv, StatusIsWhole, PainterTypes
  <2> QED
    BY <2>1, <2>2 DEF PanelInv, StatusReachesPanel, IsShown
<1> QED
  BY <1>1, PanelInvariant, PTL

-----------------------------------------------------------------------------
(* The dashboard.                                                            *)

\* The socket the server's task works for is one, and a new client's is open.
ServerHasSocket ==
  /\ pc["httpd"] \in {"add", "remove", "remove and log", "remove only"} => fd \in Fds
  /\ pc["httpd"] = "add" => socket[fd] = "ws"

WebPlaces == {"idle", "lock", "send", "add", "remove", "remove and log", "remove only"}

TableTypes ==
  /\ clients \in Seq(Fds) /\ Len(clients) <= MaxClients
  /\ socket \in [Fds -> {"closed", "http", "ws"}] /\ fd \in Fds \cup {None}
  /\ gone \subseteq Fds /\ unheard \subseteq Fds

WebCallTypes ==
  /\ pc \in [WebTasks -> WebPlaces] /\ mutex \in WebTasks \cup {None}
  /\ next \in [WebTasks -> 1 .. MaxClients + 1]
  /\ works \in Seq(Fds) /\ Len(works) <= MaxWorks
  /\ served \in [WebTasks -> Seq(Fds)] /\ \A t \in WebTasks : Len(served[t]) <= MaxClients

\* Who is in its loop holds the mutex, and nobody else has come past a client.
LoopHoldsMutex ==
  \A t \in WebTasks : /\ pc[t] = "send" => mutex = t
                      /\ mutex # t => served[t] = <<>>

WebUiInv ==
  /\ TableTypes /\ WebCallTypes
  /\ ServerHasSocket /\ TableMatchesSockets /\ LoopHoldsMutex /\ EachClientOnce

LEMMA ServerIsTask == "httpd" \in WebTasks /\ None \notin WebTasks /\ None \notin Fds
  BY WebUiAssumption DEF WebTasks

LEMMA MovesEffect ==
  ASSUME WebCallTypes, NEW t \in WebTasks, NEW from, NEW to \in WebPlaces, Moves(t, from, to)
  PROVE  /\ pc' \in [WebTasks -> WebPlaces] /\ pc[t] = from /\ pc'[t] = to
         /\ \A u \in WebTasks \ {t} : pc'[u] = pc[u]
  BY DEF WebCallTypes, Moves

\* addClient() at the end of the table.
LEMMA AppendFacts ==
  ASSUME NEW S, NEW s \in Seq(S), IsInjective(s), NEW x \in S, x \notin Range(s)
  PROVE  /\ Append(s, x) \in Seq(S) /\ Len(Append(s, x)) = Len(s) + 1
         /\ IsInjective(Append(s, x))
         /\ Range(Append(s, x)) = Range(s) \cup {x}
<1> DEFINE n == Len(s)
           a == Append(s, x)
<1>1. /\ n \in Nat /\ DOMAIN s = 1 .. n /\ a \in Seq(S) /\ Len(a) = n + 1
      /\ DOMAIN a = 1 .. n + 1 /\ a[n + 1] = x /\ \A i \in 1 .. n : a[i] = s[i]
  OBVIOUS
<1>2. \A i \in 1 .. n + 1 : i \in 1 .. n \/ i = n + 1
  BY <1>1
<1>3. 1 .. n \subseteq 1 .. n + 1 /\ n + 1 \in 1 .. n + 1
  BY <1>1
<1> HIDE DEF n, a
<1>4. \A i \in 1 .. n : s[i] # x
  BY <1>1 DEF Range
<1>5. IsInjective(a)
  BY <1>1, <1>2, <1>4 DEF IsInjective
<1>6. Range(a) = Range(s) \cup {x}
  BY <1>1, <1>2, <1>3 DEF Range
<1> QED
  BY <1>1, <1>5, <1>6 DEF n, a

\* removeClient(): the gap is filled with the last client, and nobody else is lost.
LEMMA WithoutFacts ==
  ASSUME NEW S, NEW s \in Seq(S), IsInjective(s), NEW x
  PROVE  /\ Without(s, x) \in Seq(S) /\ Len(Without(s, x)) <= Len(s)
         /\ IsInjective(Without(s, x))
         /\ Range(Without(s, x)) = Range(s) \ {x}
<1> DEFINE n == Len(s)
           w == Without(s, x)
<1>1. n \in Nat /\ DOMAIN s = 1 .. n /\ \A i \in 1 .. n : s[i] \in S
  OBVIOUS
<1>2. CASE x \notin Range(s)
  BY <1>1, <1>2 DEF Without
<1>3. CASE x \in Range(s)
  <2> DEFINE k == CHOOSE i \in DOMAIN s : s[i] = x
             e == [s EXCEPT ![k] = Last(s)]
  <2>1. k \in 1 .. n /\ s[k] = x
    BY <1>1, <1>3 DEF Range
  <2> HIDE DEF k, n
  <2>2. /\ n \in 1 .. n /\ n - 1 \in Nat /\ 1 .. n - 1 \subseteq 1 .. n
        /\ \A i \in 1 .. n : i \in 1 .. n - 1 \/ i = n
        /\ n \notin 1 .. n - 1 /\ n - 1 <= n
    BY <1>1, <2>1
  <2> USE DEF k, n
  <2>3. w = SubSeq(e, 1, Len(e) - 1)
    BY <1>3 DEF Without, Front
  <2> HIDE DEF k
  <2>4. /\ e \in Seq(S) /\ Len(e) = n
        /\ \A i \in 1 .. n : e[i] = IF i = k THEN s[n] ELSE s[i]
    BY <1>1, <2>1, <2>2, ExceptSeq DEF Last
  <2> HIDE DEF e, n, w
  <2>5. /\ w \in Seq(S) /\ Len(w) = n - 1 /\ DOMAIN w = 1 .. n - 1
        /\ \A i \in 1 .. n - 1 : w[i] = e[i]
    <3>1. \A i \in 1 .. n - 1 : e[i] \in S
      BY <1>1, <2>2, <2>4
    <3> QED
      BY <2>2, <2>3, <2>4, <3>1
  <2>6. \A i \in 1 .. n - 1 : w[i] = IF i = k THEN s[n] ELSE s[i]
    BY <2>2, <2>4, <2>5
  <2>7. \A i, j \in 1 .. n : s[i] = s[j] => i = j
    BY <1>1 DEF IsInjective
  <2>8. IsInjective(w)
    <3> SUFFICES ASSUME NEW i \in 1 .. n - 1, NEW j \in 1 .. n - 1, w[i] = w[j] PROVE i = j
      BY <2>5 DEF IsInjective
    <3> QED
      BY <2>2, <2>6, <2>7
  <2>9. ASSUME NEW y PROVE y \in Range(w) <=> y \in Range(s) /\ y # x
    <3>1. ASSUME NEW i \in 1 .. n - 1, y = w[i] PROVE y \in Range(s) /\ y # x
      <4>1. CASE i = k
        BY <1>1, <2>1, <2>2, <2>6, <2>7, <3>1, <4>1 DEF Range
      <4>2. CASE i # k
        BY <1>1, <2>1, <2>2, <2>6, <2>7, <3>1, <4>2 DEF Range
      <4> QED
        BY <4>1, <4>2
    <3>2. ASSUME NEW i \in 1 .. n, y = s[i], y # x PROVE \E j \in 1 .. n - 1 : y = w[j]
      <4>1. i # k
        BY <2>1, <3>2
      <4>2. CASE i = n
        <5>1. k \in 1 .. n - 1
          BY <2>1, <2>2, <4>1, <4>2
        <5> QED
          BY <2>6, <3>2, <4>2, <5>1
      <4>3. CASE i \in 1 .. n - 1
        BY <2>6, <3>2, <4>1, <4>3
      <4> QED
        BY <2>2, <4>2, <4>3
    <3> QED
      BY <1>1, <2>5, <3>1, <3>2 DEF Range
  <2> QED
    BY <2>2, <2>5, <2>8, <2>9 DEF n, w
<1> QED
  BY <1>2, <1>3

LEMMA WebInit == WebUiInit => WebUiInv
<1> SUFFICES ASSUME WebUiInit PROVE WebUiInv
  OBVIOUS
<1> USE WebUiAssumption, ServerIsTask
<1>0. 1 \in 1 .. MaxClients + 1 /\ 0 <= MaxClients /\ 0 <= MaxWorks
  OBVIOUS
<1>1. <<>> \in Seq(Fds) /\ Len(<<>>) = 0 /\ DOMAIN <<>> = {}
  OBVIOUS
<1>2. TableTypes /\ WebCallTypes
  BY <1>0, <1>1 DEF WebUiInit, TableTypes, WebCallTypes, WebPlaces
<1>3. TableMatchesSockets
  BY <1>1 DEF WebUiInit, TableMatchesSockets, IsInjective, Listed, Range
<1>4. ServerHasSocket /\ LoopHoldsMutex /\ EachClientOnce
  BY DEF WebUiInit, ServerHasSocket, LoopHoldsMutex, EachClientOnce
<1> QED
  BY <1>2, <1>3, <1>4 DEF WebUiInv

\* A step of broadcast() leaves the table, the sockets and the other tasks alone.
LEMMA BroadcastMoves ==
  ASSUME WebUiInv, NEW t \in WebTasks, Broadcast(t)
  PROVE  /\ pc' \in [WebTasks -> WebPlaces]
         /\ pc'[t] \in {"lock", "send", "idle"} /\ pc[t] \in {"lock", "send", "idle"}
         /\ \A u \in WebTasks \ {t} : pc'[u] = pc[u]
         /\ mutex' \in WebTasks \cup {None}
<1>0. WebCallTypes
  BY DEF WebUiInv
<1>1. CASE Begins(t)
  <2>1. Moves(t, "idle", "lock") /\ UNCHANGED mutex
    BY <1>1 DEF Begins
  <2> QED
    BY <1>0, <2>1, MovesEffect DEF WebPlaces, WebCallTypes
<1>2. CASE LockClients(t)
  BY <1>0, <1>2, MovesEffect DEF LockClients, WebPlaces
<1>3. CASE QueueWork(t)
  BY <1>0, <1>3 DEF QueueWork, WebCallTypes
<1>4. CASE Refused(t)
  <2>1. Moves(t, "send", "lock") /\ UNCHANGED mutex
    BY <1>4 DEF Refused, Logs
  <2> QED
    BY <1>0, <2>1, MovesEffect DEF WebPlaces, WebCallTypes
<1>5. CASE UnlockClients(t)
  <2>1. Moves(t, "send", "idle") /\ mutex' = None
    BY <1>5 DEF UnlockClients
  <2> QED
    BY <1>0, <2>1, MovesEffect DEF WebPlaces
<1> QED
  BY <1>1, <1>2, <1>3, <1>4, <1>5 DEF Broadcast

\* A piece of work: the loop comes past one more client, the one after those it has
\* come past.
LEMMA WorkIsTheNext ==
  ASSUME WebUiInv, NEW t \in WebTasks, QueueWork(t), UNCHANGED clients
  PROVE  /\ next' \in [WebTasks -> 1 .. MaxClients + 1]
         /\ works' \in Seq(Fds) /\ Len(works') <= MaxWorks
         /\ served' \in [WebTasks -> Seq(Fds)]
         /\ \A u \in WebTasks \ {t} : served'[u] = served[u] /\ next'[u] = next[u]
         /\ Len(served'[t]) = next'[t] - 1 /\ Len(served'[t]) <= Len(clients)
         /\ \A i \in 1 .. Len(served'[t]) : served'[t][i] = clients[i]
<1>0. TableTypes /\ WebCallTypes /\ EachClientOnce
  BY DEF WebUiInv
<1> DEFINE n == next[t]
           s == served[t]
<1>1. /\ pc[t] = "send" /\ n <= Len(clients)
      /\ works' \in {works} \cup IF Len(works) < MaxWorks THEN {Append(works, clients[n])} ELSE {}
      /\ next' = [next EXCEPT ![t] = n + 1]
      /\ served' = [served EXCEPT ![t] = Append(s, clients[n])]
  BY DEF QueueWork
<1>2. /\ Len(clients) \in Nat /\ n \in 1 .. MaxClients + 1
      /\ MaxClients \in Nat /\ Len(clients) <= MaxClients /\ clients \in Seq(Fds)
  BY <1>0, WebUiAssumption DEF TableTypes, WebCallTypes
<1>3. n + 1 \in 1 .. MaxClients + 1 /\ n \in 1 .. Len(clients)
  BY <1>1, <1>2
<1>4. clients[n] \in Fds
  BY <1>2, <1>3
<1>5. s \in Seq(Fds) /\ Len(s) = n - 1 /\ \A i \in 1 .. Len(s) : s[i] = clients[i]
  BY <1>0, <1>1 DEF WebCallTypes, EachClientOnce
<1>6. next' \in [WebTasks -> 1 .. MaxClients + 1] /\ next'[t] = n + 1
      /\ \A u \in WebTasks \ {t} : next'[u] = next[u]
  BY <1>0, <1>1, <1>3 DEF WebCallTypes
<1>7. works' \in Seq(Fds) /\ Len(works') <= MaxWorks
  <2>1. CASE works' = works
    BY <1>0, <2>1 DEF WebCallTypes
  <2>2. CASE Len(works) < MaxWorks /\ works' = Append(works, clients[n])
    <3>1. works' \in Seq(Fds) /\ Len(works') = Len(works) + 1 /\ Len(works) \in Nat /\ MaxWorks \in Nat
      BY <1>0, <1>4, <2>2, WebUiAssumption DEF WebCallTypes
    <3> QED
      BY <2>2, <3>1
  <2> QED
    BY <1>1, <2>1, <2>2
<1> HIDE DEF n, s
<1>8. /\ Append(s, clients[n]) \in Seq(Fds) /\ Len(Append(s, clients[n])) = n
      /\ \A i \in 1 .. n : Append(s, clients[n])[i] = clients[i]
  <2>1. /\ Append(s, clients[n]) \in Seq(Fds) /\ Len(Append(s, clients[n])) = Len(s) + 1
        /\ Append(s, clients[n])[Len(s) + 1] = clients[n]
        /\ \A i \in 1 .. Len(s) : Append(s, clients[n])[i] = s[i]
    BY <1>4, <1>5
  <2>2. Len(s) + 1 = n /\ \A i \in 1 .. n : i \in 1 .. Len(s) \/ i = n
    BY <1>2, <1>5
  <2> QED
    BY <1>5, <2>1, <2>2
<1>9. /\ served' \in [WebTasks -> Seq(Fds)] /\ served'[t] = Append(s, clients[n])
      /\ \A u \in WebTasks \ {t} : served'[u] = served[u]
  BY <1>0, <1>1, <1>8 DEF WebCallTypes, s
<1>10. n = next'[t] - 1 /\ n <= Len(clients)
  BY <1>1, <1>2, <1>6
<1> QED
  BY <1>6, <1>7, <1>8, <1>9, <1>10

\* The types of the calls, and the loop of each task: nobody else's changes.
LEMMA BroadcastLoops ==
  ASSUME WebUiInv, NEW t \in WebTasks, Broadcast(t)
  PROVE  WebCallTypes' /\ LoopHoldsMutex' /\ EachClientOnce'
<1>0. TableTypes /\ WebCallTypes /\ LoopHoldsMutex /\ EachClientOnce
  BY DEF WebUiInv
<1>1. UNCHANGED clients
  BY DEF Broadcast, BroadcastOnly
<1>2. /\ pc' \in [WebTasks -> WebPlaces] /\ mutex' \in WebTasks \cup {None}
      /\ \A u \in WebTasks \ {t} : pc'[u] = pc[u]
  BY BroadcastMoves
<1>3. Len(clients) \in Nat /\ MaxClients \in Nat /\ Len(clients) <= MaxClients
  BY <1>0, WebUiAssumption DEF TableTypes
<1>4. CASE Begins(t) \/ Refused(t)
  <2>1. UNCHANGED <<mutex, next, works, served>> /\ pc'[t] = "lock"
    BY <1>0, <1>4, MovesEffect DEF Begins, Refused, Logs, WebPlaces
  <2> QED
    BY <1>0, <1>1, <1>2, <2>1 DEF WebCallTypes, LoopHoldsMutex, EachClientOnce
<1>5. CASE LockClients(t)
  <2>1. mutex = None /\ mutex' = t /\ UNCHANGED <<works, served>>
        /\ next' = [next EXCEPT ![t] = 1]
    BY <1>5 DEF LockClients
  <2>2. served[t] = <<>> /\ \A u \in WebTasks : pc[u] # "send" /\ served[u] = <<>>
    BY <1>0, <2>1, ServerIsTask DEF LoopHoldsMutex
  <2>3. next' \in [WebTasks -> 1 .. MaxClients + 1] /\ next'[t] = 1
    <3>1. 1 \in 1 .. MaxClients + 1
      BY <1>3
    <3> QED
      BY <1>0, <2>1, <3>1 DEF WebCallTypes
  <2>4. Len(served'[t]) = 0
    BY <2>1, <2>2
  <2>5. WebCallTypes'
    BY <1>0, <1>2, <2>1, <2>3 DEF WebCallTypes
  <2>6. LoopHoldsMutex'
    BY <1>2, <2>1, <2>2 DEF LoopHoldsMutex
  <2>7. EachClientOnce'
    BY <1>1, <1>2, <1>3, <2>1, <2>2, <2>3, <2>4 DEF EachClientOnce
  <2> QED
    BY <2>5, <2>6, <2>7
<1>6. CASE QueueWork(t)
  <2>1. UNCHANGED <<pc, mutex>> /\ pc[t] = "send"
    BY <1>6 DEF QueueWork
  <2>2. /\ next' \in [WebTasks -> 1 .. MaxClients + 1]
        /\ works' \in Seq(Fds) /\ Len(works') <= MaxWorks
        /\ served' \in [WebTasks -> Seq(Fds)]
        /\ \A u \in WebTasks \ {t} : served'[u] = served[u] /\ next'[u] = next[u]
        /\ Len(served'[t]) = next'[t] - 1 /\ Len(served'[t]) <= Len(clients)
        /\ \A i \in 1 .. Len(served'[t]) : served'[t][i] = clients[i]
    BY <1>1, <1>6, WorkIsTheNext
  <2>3. Len(served'[t]) <= MaxClients
    <3>1. Len(served'[t]) \in Nat
      BY <2>2
    <3> QED
      BY <1>3, <2>2, <3>1
  <2>4. WebCallTypes'
    BY <1>0, <2>1, <2>2, <2>3 DEF WebCallTypes
  <2>5. LoopHoldsMutex'
    BY <1>0, <2>1, <2>2 DEF LoopHoldsMutex
  <2>6. EachClientOnce'
    <3> SUFFICES ASSUME NEW u \in WebTasks, pc'[u] = "send"
                 PROVE  /\ Len(served'[u]) = next'[u] - 1 /\ Len(served'[u]) <= Len(clients)
                        /\ \A i \in 1 .. Len(served'[u]) : served'[u][i] = clients[i]
      BY <1>1 DEF EachClientOnce
    <3>1. CASE u = t
      BY <2>2, <3>1
    <3>2. CASE u # t
      <4>1. pc[u] = "send" /\ served'[u] = served[u] /\ next'[u] = next[u]
        BY <2>1, <2>2, <3>2
      <4> QED
        BY <1>0, <4>1 DEF EachClientOnce
    <3> QED
      BY <3>1, <3>2
  <2> QED
    BY <2>4, <2>5, <2>6
<1>7. CASE UnlockClients(t)
  <2>1. /\ mutex' = None /\ UNCHANGED works
        /\ next' = [next EXCEPT ![t] = 1] /\ served' = [served EXCEPT ![t] = <<>>]
        /\ pc[t] = "send" /\ pc'[t] = "idle"
    BY <1>0, <1>7, MovesEffect DEF UnlockClients, WebPlaces
  <2>2. mutex = t /\ \A u \in WebTasks \ {t} : pc[u] # "send" /\ served[u] = <<>>
    BY <1>0, <2>1 DEF LoopHoldsMutex
  <2>3. next' \in [WebTasks -> 1 .. MaxClients + 1]
    <3>1. 1 \in 1 .. MaxClients + 1
      BY <1>3
    <3> QED
      BY <1>0, <2>1, <3>1 DEF WebCallTypes
  <2>4. /\ served' \in [WebTasks -> Seq(Fds)] /\ served'[t] = <<>>
        /\ \A u \in WebTasks \ {t} : served'[u] = served[u]
    <3>1. <<>> \in Seq(Fds)
      OBVIOUS
    <3> QED
      BY <1>0, <2>1, <3>1 DEF WebCallTypes
  <2>5. \A u \in WebTasks : served'[u] = <<>> /\ Len(served'[u]) <= MaxClients
    BY <1>3, <2>2, <2>4
  <2>6. WebCallTypes'
    BY <1>0, <1>2, <2>1, <2>3, <2>4, <2>5 DEF WebCallTypes
  <2>7. \A u \in WebTasks : pc'[u] # "send"
    BY <1>2, <2>1, <2>2
  <2> QED
    BY <2>5, <2>6, <2>7 DEF LoopHoldsMutex, EachClientOnce
<1> QED
  BY <1>4, <1>5, <1>6, <1>7 DEF Broadcast

LEMMA WebBroadcast ==
  ASSUME WebUiInv, NEW t \in WebTasks, Broadcast(t)
  PROVE  WebUiInv'
<1>0. TableTypes /\ ServerHasSocket /\ TableMatchesSockets
  BY DEF WebUiInv
<1>1. UNCHANGED <<clients, fd, socket, gone, unheard>>
  BY DEF Broadcast, BroadcastOnly
<1>2. pc'["httpd"] = pc["httpd"] \/ (pc["httpd"] # "add" /\ pc'["httpd"] \in {"lock", "send", "idle"})
  BY BroadcastMoves, ServerIsTask
<1>3. TableTypes' /\ ServerHasSocket' /\ TableMatchesSockets'
  BY <1>0, <1>1, <1>2 DEF TableTypes, ServerHasSocket, TableMatchesSockets, Listed
<1> QED
  BY <1>3, BroadcastLoops DEF WebUiInv

\* A step of the server's task: what it leaves alone, and where it comes from.
ServerMoves ==
  /\ pc' \in [WebTasks -> WebPlaces]
  /\ \A u \in WebTasks \ {"httpd"} : pc'[u] = pc[u]
  /\ pc["httpd"] # "send" /\ pc'["httpd"] # "send"
  /\ mutex = None \/ UNCHANGED clients
  /\ UNCHANGED <<mutex, next, served>>

LEMMA ServerGoes ==
  ASSUME WebCallTypes, NEW from \in WebPlaces \ {"send"}, NEW to \in WebPlaces \ {"send"},
         Moves("httpd", from, to), UNCHANGED <<mutex, next, served>>,
         mutex = None \/ UNCHANGED clients
  PROVE  ServerMoves /\ pc["httpd"] = from /\ pc'["httpd"] = to
  BY MovesEffect, ServerIsTask DEF ServerMoves

\* Nobody is in its loop when the table changes.
LEMMA ServerKeepsLoops ==
  ASSUME WebUiInv, ServerMoves
  PROVE  LoopHoldsMutex' /\ EachClientOnce'
<1>1. LoopHoldsMutex /\ EachClientOnce
  BY DEF WebUiInv
<1>2. /\ \A t \in WebTasks : pc'[t] = "send" => pc[t] = "send"
      /\ mutex = None \/ UNCHANGED clients
      /\ UNCHANGED <<mutex, next, served>>
  BY DEF ServerMoves
<1>3. LoopHoldsMutex'
  BY <1>1, <1>2 DEF LoopHoldsMutex
<1>4. ASSUME NEW t \in WebTasks, pc'[t] = "send" PROVE UNCHANGED clients
  BY <1>1, <1>2, <1>4, ServerIsTask DEF LoopHoldsMutex
<1>5. EachClientOnce'
  BY <1>1, <1>2, <1>4 DEF EachClientOnce
<1> QED
  BY <1>3, <1>5

LEMMA ServerTypes ==
  ASSUME WebUiInv, ServerMoves, works' \in Seq(Fds), Len(works') <= MaxWorks
  PROVE  WebCallTypes'
  BY DEF WebUiInv, ServerMoves, WebCallTypes

LEMMA WebConnects ==
  ASSUME WebUiInv, NEW f \in Fds, WsConnects(f) \/ WsEnds(f)
  PROVE  WebUiInv'
<1>0. TableTypes /\ WebCallTypes /\ ServerHasSocket /\ TableMatchesSockets /\ LoopHoldsMutex /\ EachClientOnce
  BY DEF WebUiInv
<1>1. CASE WsConnects(f) /\ Moves("httpd", "idle", "add") /\ fd' = f
           /\ socket' = [socket EXCEPT ![f] = "ws"]
  <2>1. /\ ServerMoves /\ pc["httpd"] = "idle" /\ pc'["httpd"] = "add"
        /\ socket[f] = "closed" /\ UNCHANGED <<clients, works, gone, unheard>>
    BY <1>0, <1>1, ServerGoes DEF WsConnects, WebPlaces, historyVars
  <2>2. /\ socket' \in [Fds -> {"closed", "http", "ws"}] /\ socket'[f] = "ws"
        /\ \A g \in Fds \ {f} : socket'[g] = socket[g]
    BY <1>0, <1>1 DEF TableTypes
  <2>3. TableTypes' /\ WebCallTypes'
    BY <1>0, <1>1, <2>1, <2>2, ServerTypes DEF TableTypes, WebCallTypes
  <2>4. ServerHasSocket' /\ TableMatchesSockets'
    BY <1>0, <1>1, <2>1, <2>2 DEF ServerHasSocket, TableMatchesSockets, Listed
  <2> QED
    BY <2>1, <2>3, <2>4, ServerKeepsLoops DEF WebUiInv
<1>2. CASE \/ WsEnds(f)
           \/ WsConnects(f) /\ Logs("httpd", "idle") /\ fd' = fd /\ socket' = socket
  <2>0. UNCHANGED <<socket, works>>
    BY <1>2 DEF WsEnds, WsConnects
  <2>1. /\ ServerMoves /\ pc["httpd"] = "idle" /\ UNCHANGED <<clients, gone, unheard>>
        /\ \/ pc'["httpd"] \in {"remove and log", "remove"} /\ fd' = f
           \/ pc'["httpd"] = "lock" /\ fd' = fd
    <3>1. CASE WsEnds(f)
      BY <1>0, <3>1, ServerIsTask DEF WsEnds, ServerMoves, WebCallTypes, WebPlaces, historyVars
    <3>2. CASE WsConnects(f) /\ Logs("httpd", "idle") /\ fd' = fd
      BY <1>0, <3>2, ServerGoes DEF WsConnects, Logs, WebPlaces, historyVars
    <3> QED
      BY <1>2, <3>1, <3>2
  <2>2. TableTypes' /\ WebCallTypes'
    BY <1>0, <2>0, <2>1, ServerTypes DEF TableTypes, WebCallTypes
  <2>3. ServerHasSocket' /\ TableMatchesSockets'
    BY <1>0, <2>0, <2>1 DEF ServerHasSocket, TableMatchesSockets, Listed
  <2> QED
    BY <2>1, <2>2, <2>3, ServerKeepsLoops DEF WebUiInv
<1>3. \/ WsEnds(f)
      \/ /\ WsConnects(f)
         /\ \/ Moves("httpd", "idle", "add") /\ fd' = f /\ socket' = [socket EXCEPT ![f] = "ws"]
            \/ Logs("httpd", "idle") /\ fd' = fd /\ socket' = socket
  BY DEF WsConnects
<1> QED
  BY <1>1, <1>2, <1>3

\* A new client is listed, was listed, or finds no room.
LEMMA WebAdds ==
  ASSUME WebUiInv, AddClient
  PROVE  WebUiInv'
<1>0. TableTypes /\ WebCallTypes /\ ServerHasSocket /\ TableMatchesSockets /\ LoopHoldsMutex /\ EachClientOnce
  BY DEF WebUiInv
<1>1. /\ ServerMoves /\ pc["httpd"] = "add" /\ pc'["httpd"] = "lock"
      /\ fd' = None /\ UNCHANGED <<socket, works>>
      /\ clients' = IF fd \notin Listed /\ Len(clients) < MaxClients THEN Append(clients, fd)
                    ELSE clients
      /\ unheard' = IF fd \in Range(clients') THEN unheard ELSE unheard \cup {fd}
      /\ gone' = gone \ {fd}
  BY <1>0, ServerGoes DEF AddClient, Logs, WebPlaces
<1>2. fd \in Fds /\ socket[fd] = "ws" /\ clients \in Seq(Fds) /\ IsInjective(clients)
  BY <1>0, <1>1 DEF ServerHasSocket, TableTypes, TableMatchesSockets
<1>3. /\ clients' \in Seq(Fds) /\ Len(clients') <= MaxClients /\ IsInjective(clients')
      /\ Listed \subseteq Listed' /\ Listed' \subseteq Listed \cup {fd}
  <2>1. CASE fd \notin Listed /\ Len(clients) < MaxClients
    <3>1. Len(clients) \in Nat /\ MaxClients \in Nat
      BY <1>2, WebUiAssumption
    <3>2. /\ clients' \in Seq(Fds) /\ Len(clients') = Len(clients) + 1 /\ IsInjective(clients')
          /\ Listed' = Listed \cup {fd}
      BY <1>1, <1>2, <2>1, AppendFacts DEF Listed
    <3> QED
      BY <2>1, <3>1, <3>2
  <2>2. CASE ~(fd \notin Listed /\ Len(clients) < MaxClients)
    BY <1>0, <1>1, <1>2, <2>2 DEF TableTypes, Listed
  <2> QED
    BY <2>1, <2>2
<1>4. TableTypes' /\ WebCallTypes'
  BY <1>0, <1>1, <1>2, <1>3, ServerTypes DEF TableTypes, WebCallTypes
<1>5. unheard \subseteq unheard' /\ fd \in Listed' \cup unheard'
  BY <1>1 DEF Listed
<1>6. TableMatchesSockets'
  BY <1>0, <1>1, <1>2, <1>3, <1>5 DEF TableMatchesSockets
<1>7. ServerHasSocket'
  BY <1>1 DEF ServerHasSocket
<1> QED
  BY <1>1, <1>4, <1>6, <1>7, ServerKeepsLoops DEF WebUiInv

LEMMA WebRemoves ==
  ASSUME WebUiInv, RemoveClient
  PROVE  WebUiInv'
<1>0. TableTypes /\ WebCallTypes /\ ServerHasSocket /\ TableMatchesSockets /\ LoopHoldsMutex /\ EachClientOnce
  BY DEF WebUiInv
<1>1. /\ ServerMoves /\ pc["httpd"] \in {"remove", "remove and log", "remove only"}
      /\ pc'["httpd"] \in {"lock", "idle"}
      /\ fd' = None /\ UNCHANGED works
      /\ socket' \in {socket, [socket EXCEPT ![fd] = "closed"]}
      /\ clients' = Without(clients, fd)
      /\ unheard' = IF socket'[fd] = "ws" THEN unheard \cup {fd} ELSE unheard \ {fd}
      /\ gone' = gone \ {fd}
  <2>1. /\ UNCHANGED <<mutex, next, works, served>> /\ fd' = None /\ mutex = None
        /\ socket' \in {socket, [socket EXCEPT ![fd] = "closed"]}
        /\ \/ Moves("httpd", "remove and log", "lock")
           \/ Moves("httpd", "remove", "idle")
           \/ Moves("httpd", "remove only", "idle")
    BY DEF RemoveClient, Logs
  <2>2. /\ ServerMoves /\ pc["httpd"] \in {"remove", "remove and log", "remove only"}
        /\ pc'["httpd"] \in {"lock", "idle"}
    BY <1>0, <2>1, ServerGoes DEF WebPlaces
  <2> QED
    BY <2>1, <2>2 DEF RemoveClient
<1>2. fd \in Fds /\ clients \in Seq(Fds) /\ IsInjective(clients)
  BY <1>0, <1>1 DEF ServerHasSocket, TableTypes, TableMatchesSockets
<1>3. /\ clients' \in Seq(Fds) /\ Len(clients') <= MaxClients /\ IsInjective(clients')
      /\ Listed' = Listed \ {fd}
  <2>1. /\ clients' \in Seq(Fds) /\ Len(clients') <= Len(clients) /\ IsInjective(clients')
        /\ Listed' = Listed \ {fd}
    BY <1>1, <1>2, WithoutFacts DEF Listed
  <2>2. Len(clients) \in Nat /\ Len(clients') \in Nat /\ Len(clients) <= MaxClients /\ MaxClients \in Nat
    BY <1>0, <2>1, WebUiAssumption DEF TableTypes
  <2> QED
    BY <2>1, <2>2
<1>4. /\ socket' \in [Fds -> {"closed", "http", "ws"}]
      /\ \A g \in Fds \ {fd} : socket'[g] = socket[g]
  BY <1>0, <1>1, <1>2 DEF TableTypes
<1>5. TableTypes' /\ WebCallTypes'
  BY <1>0, <1>1, <1>2, <1>3, <1>4, ServerTypes DEF TableTypes, WebCallTypes
<1>6. TableMatchesSockets'
  BY <1>0, <1>1, <1>2, <1>3, <1>4 DEF TableMatchesSockets
<1>7. ServerHasSocket'
  BY <1>1 DEF ServerHasSocket
<1> QED
  BY <1>1, <1>5, <1>6, <1>7, ServerKeepsLoops DEF WebUiInv

\* A socket that comes or goes without the handler, and a send.
LEMMA WebSockets ==
  ASSUME WebUiInv, NEW f \in Fds, HttpConnects(f) \/ SocketGoes(f)
  PROVE  WebUiInv'
<1>0. TableTypes /\ WebCallTypes /\ ServerHasSocket /\ TableMatchesSockets /\ LoopHoldsMutex /\ EachClientOnce
  BY DEF WebUiInv
<1>1. /\ ServerMoves /\ pc["httpd"] = "idle"
      /\ UNCHANGED <<clients, pc, fd, works>>
      /\ \/ /\ socket[f] = "closed" /\ socket' = [socket EXCEPT ![f] = "http"]
            /\ UNCHANGED <<gone, unheard>>
         \/ /\ socket' = [socket EXCEPT ![f] = "closed"]
            /\ gone' = IF f \in Listed THEN gone \cup {f} ELSE gone
            /\ unheard' = unheard \ {f}
  BY <1>0 DEF HttpConnects, SocketGoes, ServerMoves, WebCallTypes, historyVars
<1>2. /\ socket' \in [Fds -> {"closed", "http", "ws"}] /\ socket'[f] # "ws"
      /\ \A g \in Fds \ {f} : socket'[g] = socket[g]
  BY <1>0, <1>1 DEF TableTypes
<1>3. TableTypes' /\ WebCallTypes'
  BY <1>0, <1>1, <1>2, ServerTypes DEF TableTypes, WebCallTypes
<1>4. ServerHasSocket' /\ TableMatchesSockets'
  BY <1>0, <1>1, <1>2 DEF ServerHasSocket, TableMatchesSockets, Listed
<1> QED
  BY <1>1, <1>3, <1>4, ServerKeepsLoops DEF WebUiInv

LEMMA WebSends ==
  ASSUME WebUiInv, WsSendWorker
  PROVE  WebUiInv'
<1>0. TableTypes /\ WebCallTypes /\ ServerHasSocket /\ TableMatchesSockets /\ LoopHoldsMutex /\ EachClientOnce
  BY DEF WebUiInv
<1>1. works # <<>> /\ works \in Seq(Fds) /\ works' = Tail(works) /\ Len(works) <= MaxWorks
  BY <1>0 DEF WsSendWorker, WebCallTypes
<1>2. /\ Head(works) \in Fds /\ works' \in Seq(Fds) /\ Len(works') <= MaxWorks
  <2>1. /\ Head(works) \in Fds /\ works' \in Seq(Fds) /\ Len(works) \in Nat /\ Len(works') = Len(works) - 1
    BY <1>1
  <2> QED
    BY <1>1, <2>1, WebUiAssumption
<1>3. /\ ServerMoves /\ pc["httpd"] = "idle" /\ UNCHANGED <<clients, socket, gone, unheard>>
      /\ \/ UNCHANGED <<pc, fd>>
         \/ pc'["httpd"] = "remove only" /\ fd' = Head(works)
  BY <1>0, ServerIsTask DEF WsSendWorker, ServerMoves, WebCallTypes, WebPlaces, historyVars
<1>4. TableTypes' /\ WebCallTypes'
  BY <1>0, <1>2, <1>3, ServerTypes DEF TableTypes, WebCallTypes
<1>5. ServerHasSocket' /\ TableMatchesSockets'
  BY <1>0, <1>2, <1>3 DEF ServerHasSocket, TableMatchesSockets, Listed
<1> QED
  BY <1>3, <1>4, <1>5, ServerKeepsLoops DEF WebUiInv

LEMMA WebStep == WebUiInv /\ [WebUiNext]_webUiVars => WebUiInv'
<1>1. ASSUME WebUiInv, UNCHANGED webUiVars PROVE WebUiInv'
  BY <1>1 DEF WebUiInv, webUiVars, serverVars, historyVars, TableTypes, WebCallTypes,
              ServerHasSocket, TableMatchesSockets, LoopHoldsMutex, EachClientOnce, Listed
<1> QED
  BY <1>1, WebBroadcast, WebConnects, WebAdds, WebRemoves, WebSockets, WebSends
     DEF WebUiNext, Server

\* The inductive invariant of the dashboard: its types, the socket the server's task
\* works for, the table and the loops over it.
THEOREM WebUiInvariant == WebUiSpec => []WebUiInv
  BY WebInit, WebStep, PTL DEF WebUiSpec

\* The table and the server's queue keep their bounds, and a broadcast never goes
\* past the end of the table.
THEOREM WebUiTypes == WebUiSpec => []WebUiTypeOK
<1>1. ASSUME NEW S, NEW n \in Nat, NEW s \in Seq(S), Len(s) <= n
      PROVE  s \in SeqOf(S, n)
  <2>1. s \in [1 .. Len(s) -> S] /\ Len(s) \in 0 .. n
    BY <1>1
  <2> QED
    BY <2>1 DEF SeqOf
<1>2. MaxClients \in Nat /\ MaxWorks \in Nat
  BY WebUiAssumption
<1>3. WebUiInv => WebUiTypeOK
  BY <1>1, <1>2 DEF WebUiInv, TableTypes, WebCallTypes, WebPlaces, WebUiTypeOK
<1> QED
  BY <1>3, WebUiInvariant, PTL

\* The table lists the websockets that are open, each once, whatever numbers come back
\* and whichever sends fail; a socket it misses found it full or failed a send, and one
\* it should not list went without a call of the handler.
THEOREM TableIsTrue == WebUiSpec => []TableMatchesSockets
<1>1. WebUiInv => TableMatchesSockets
  BY DEF WebUiInv
<1> QED
  BY <1>1, WebUiInvariant, PTL

\* The loop of broadcast() comes past every client of the table once and in its order,
\* whoever wants to add or to remove one meanwhile.
THEOREM EachClientIsServedOnce == WebUiSpec => []EachClientOnce
<1>1. WebUiInv => EachClientOnce
  BY DEF WebUiInv
<1> QED
  BY <1>1, WebUiInvariant, PTL
=============================================================================
