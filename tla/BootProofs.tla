----------------------------- MODULE BootProofs -----------------------------
(***************************************************************************)
(* Proofs about Boot for any number of faults, crashes and requests.       *)
(*                                                                         *)
(* The inductive invariant has four parts.  The steps of a boot: what      *)
(* came up or failed is behind app_main(), and a service whose server is   *)
(* there has come up or failed for a reason of its own.  The route table:  *)
(* no route is in it twice, each is there no sooner than its service, and  *)
(* the portal's /* is last, because the portal opens when every service    *)
(* has registered.  The slots: the one the bootloader tries was proven or  *)
(* has a proven one beside it, and only an image that ran to the end is    *)
(* confirmed.  The update: the bootloader's choice differs from the        *)
(* running slot only after an upload, which keeps in_progress_ up.         *)
(***************************************************************************)
EXTENDS Boot, SequenceTheorems, TLAPS

Count == 23

Names == {"api", "upload", "dashboard", "ws", "provision", "setup", "any"}

Types ==
  /\ at \in 1 .. Count + 1
  /\ routes \in Seq(Names)
  /\ running \in Slots /\ selected \in Slots
  /\ state \in [Slots -> {"none", "new", "pending", "valid", "aborted"}]
  /\ image \in [Slots -> {"good", "loops", "partial"}]

\* What is behind app_main() came up or failed, and for a reason of its own if its
\* server is there; what is not behind it has not come up.
Outcomes ==
  /\ "wifi start" \in up => at > 17
  /\ at > 8 => "rest" \in up \cup faults
  /\ "rest" \in up =>
       /\ at > 13 => "routes" \in up \cup faults
       /\ at > 14 => "ota" \in up \cup faults
       /\ at > 15 => "webui" \in up \cup faults

TableInOrder ==
  /\ \A i, j \in DOMAIN routes : routes[i] = routes[j] => i = j
  /\ \A i \in DOMAIN routes :
       /\ routes[i] \in {"provision", "setup", "any"} => provisioning
       /\ routes[i] = "any" => i = Len(routes)
       /\ routes[i] = "api" => at > 13
       /\ routes[i] = "upload" => at > 14
       /\ routes[i] \in {"dashboard", "ws"} => at > 15
  /\ provisioning => at > 17

Registered ==
  /\ "routes" \in up => "api" \in Range(routes)
  /\ "ota" \in up    => "upload" \in Range(routes)
  /\ "webui" \in up  => "ws" \in Range(routes)

Proven(s) == image[s] = "good" /\ state[s] \in {"none", "valid"}

\* What the bootloader falls back to.
Fallback ==
  IF state[selected] \in {"none", "valid"}
  THEN image[selected] = "good"
  ELSE image[selected] # "partial" /\ Proven(Other(selected))

RunningImage ==
  /\ image[running] # "partial" /\ state[running] \in {"none", "valid", "pending"}
  /\ at > 22 => image[running] = "good"

Updating ==
  /\ selected # running =>
       inProgress /\ upload \in {"no", "selected"} /\ state[selected] = "new"
  /\ upload \in {"writing", "written"} => state[running] # "pending"
  /\ upload = "written" => image[Other(running)] # "partial"

Inv ==
  /\ Types
  /\ Outcomes /\ TableInOrder /\ Registered
  /\ Fallback /\ RunningImage /\ Updating /\ BusyWhileUpdating

-----------------------------------------------------------------------------
(* Constant facts.                                                           *)

LEMMA OtherSlot ==
  \A s \in Slots :
    Other(s) \in Slots /\ Other(s) # s /\ Other(Other(s)) = s /\ \A r \in Slots : r = s \/ r = Other(s)
<1>1. \A s \in Slots : \E t \in Slots : t # s
  BY DEF Slots
<1>2. \A s \in Slots : Other(s) \in Slots /\ Other(s) # s
  BY <1>1 DEF Other
<1> QED
  BY <1>2 DEF Slots

LEMMA OrderLength == Len(BootOrder) = Count /\ DOMAIN BootOrder = 1 .. Count
BY DEF BootOrder, Count

LEMMA Listed ==
  /\ BootOrder[1] = "storage" /\ BootOrder[2] = "config" /\ BootOrder[3] = "gpio" /\ BootOrder[4] = "i2c"
  /\ BootOrder[5] = "pins" /\ BootOrder[6] = "panel" /\ BootOrder[7] = "wifi" /\ BootOrder[8] = "rest"
  /\ BootOrder[9] = "network" /\ BootOrder[10] = "time" /\ BootOrder[11] = "modules" /\ BootOrder[12] = "power"
  /\ BootOrder[13] = "routes" /\ BootOrder[14] = "ota" /\ BootOrder[15] = "webui" /\ BootOrder[16] = "battery"
  /\ BootOrder[17] = "wifi start" /\ BootOrder[18] = "modules start" /\ BootOrder[19] = "power start" /\ BootOrder[20] = "display"
  /\ BootOrder[21] = "sampling" /\ BootOrder[22] = "ready" /\ BootOrder[23] = "confirm"
BY DEF BootOrder

LEMMA Enumerated ==
  ASSUME NEW k \in 1 .. Count
  PROVE  \/ k = 1 \/ k = 2 \/ k = 3 \/ k = 4 \/ k = 5 \/ k = 6 \/ k = 7 \/ k = 8 \/ k = 9 \/ k = 10 \/ k = 11 \/ k = 12
         \/ k = 13 \/ k = 14 \/ k = 15 \/ k = 16 \/ k = 17 \/ k = 18 \/ k = 19 \/ k = 20 \/ k = 21 \/ k = 22 \/ k = 23
BY DEF Count

LEMMA Places ==
  ASSUME NEW k \in 1 .. Count
  PROVE  /\ (BootOrder[k] = "rest") = (k = 8)
         /\ (BootOrder[k] = "routes") = (k = 13)
         /\ (BootOrder[k] = "ota") = (k = 14)
         /\ (BootOrder[k] = "webui") = (k = 15)
         /\ (BootOrder[k] = "wifi start") = (k = 17)
         /\ (BootOrder[k] = "ready") = (k = 22)
         /\ (BootOrder[k] = "confirm") = (k = 23)
BY Listed, Enumerated

-----------------------------------------------------------------------------
(* The route table.                                                          *)

LEMMA InRange ==
  ASSUME NEW table \in Seq(Names), NEW r
  PROVE  r \in Range(table) <=> \E i \in 1 .. Len(table) : table[i] = r
BY DEF Range

\* What no route in the table matches is registered.
LEMMA AllRegister ==
  ASSUME NEW table \in Seq(Names), NEW new \in Seq(Names),
         \A t \in Range(table) : \A i \in DOMAIN new : ~Matches(t, new[i])
  PROVE  Register(table, new) = table \o new
<1>1. {i \in DOMAIN new : \E t \in Range(table) : Matches(t, new[i])} = {}
  OBVIOUS
<1>2. SubSeq(new, 1, Len(new)) = new
  BY SubSeqFull
<1> QED
  BY <1>1, <1>2 DEF Register

\* Registering two tables after one another.
LEMMA Joined ==
  ASSUME NEW table \in Seq(Names), NEW new \in Seq(Names)
  PROVE  /\ table \o new \in Seq(Names)
         /\ Len(table \o new) = Len(table) + Len(new)
         /\ \A i \in 1 .. Len(table) : (table \o new)[i] = table[i]
         /\ \A i \in 1 .. Len(new) : (table \o new)[Len(table) + i] = new[i]
         /\ \A i \in 1 .. Len(table) + Len(new) :
              i \in 1 .. Len(table) \/ \E k \in 1 .. Len(new) : i = Len(table) + k
OBVIOUS

\* Without its page at / the table keeps the others, in their order.
LEMMA Removed ==
  ASSUME NEW table \in Seq(Names),
         \A i, j \in DOMAIN table : table[i] = table[j] => i = j,
         "setup" \notin Range(table)
  PROVE  /\ Unregister(table) \in Seq(Names)
         /\ \A i, j \in DOMAIN Unregister(table) :
              Unregister(table)[i] = Unregister(table)[j] => i = j
         /\ \A r \in Names :
              r \in Range(Unregister(table)) <=> r \in Range(table) /\ r # "dashboard"
<1> DEFINE Page(t) == t \in {"dashboard", "setup"}
           Pages   == {i \in 1 .. Len(table) : Page(table[i])}
           first   == SelectInSeq(table, Page)
           rest    == Unregister(table)
<1>1. Len(table) \in Nat /\ DOMAIN table = 1 .. Len(table)
  OBVIOUS
<1>2. CASE Pages = {}
  <2>1. rest = table
    BY <1>2 DEF Unregister, RemoveFirstMatch
  <2> QED
    BY <1>1, <1>2, <2>1, InRange
<1>3. CASE Pages # {}
  <2>1. PICK p \in 1 .. Len(table) : table[p] = "dashboard" /\ Pages = {p}
    BY <1>1, <1>3 DEF Range
  <2>2. first = p
    BY <2>1 DEF SelectInSeq, Min
  <2>3. rest = SubSeq(table, 1, p - 1) \o SubSeq(table, p + 1, Len(table))
    BY <2>1, <2>2 DEF Unregister, RemoveFirstMatch, RemoveAt
  <2>p. p \in 1 .. Len(table)
    OBVIOUS
  <2> DEFINE Place(i) == IF i < p THEN i ELSE i + 1
  <2>4. /\ rest \in Seq(Names) /\ Len(rest) = Len(table) - 1
        /\ \A i \in 1 .. Len(table) - 1 : rest[i] = table[Place(i)]
    <3> DEFINE left  == SubSeq(table, 1, p - 1)
               right == SubSeq(table, p + 1, Len(table))
    <3> HIDE DEF rest
    <3>1. /\ left \in Seq(Names) /\ Len(left) = p - 1
          /\ \A i \in 1 .. p - 1 : left[i] = table[i]
      BY <1>1, <2>p, SubSeqProperties
    <3>2. /\ right \in Seq(Names) /\ Len(right) = Len(table) - p
          /\ \A i \in 1 .. Len(table) - p : right[i] = table[p + i]
      <4>1. \A i \in p + 1 .. Len(table) : table[i] \in Names
        BY <1>1, <2>p
      <4>2. /\ right \in Seq(Names)
            /\ Len(right) = IF p + 1 <= Len(table) THEN Len(table) - (p + 1) + 1 ELSE 0
            /\ \A i \in 1 .. Len(table) - (p + 1) + 1 : right[i] = table[(p + 1) + i - 1]
        BY ONLY <1>1, <2>p, <4>1, SubSeqProperties, p + 1 \in Int, Len(table) \in Int
      <4> HIDE DEF right
      <4>3. Len(right) = Len(table) - p
        <5>1. CASE p + 1 <= Len(table)
          <6>1. Len(right) = Len(table) - (p + 1) + 1
            BY <4>2, <5>1
          <6> QED
            BY <1>1, <2>p, <6>1
        <5>2. CASE p = Len(table)
          <6>1. ~(p + 1 <= Len(table)) /\ Len(table) - p = 0
            BY <1>1, <2>p, <5>2
          <6> QED
            BY <4>2, <6>1
        <5>3. p + 1 <= Len(table) \/ p = Len(table)
          <6>1. \A m \in Nat : \A q \in 1 .. m : q + 1 <= m \/ q = m
            OBVIOUS
          <6> QED
            BY <1>1, <2>p, <6>1
        <5> QED
          BY <5>1, <5>2, <5>3
      <4>4. ASSUME NEW i \in 1 .. Len(table) - p PROVE right[i] = table[p + i]
        <5>1. i \in 1 .. Len(table) - (p + 1) + 1 /\ (p + 1) + i - 1 = p + i
          BY <1>1, <2>p
        <5> QED
          BY <4>2, <5>1
      <4> QED
        BY <4>2, <4>3, <4>4
    <3>3. rest = left \o right
      BY <2>3
    <3> HIDE DEF left, right
    <3>4. rest \in Seq(Names) /\ Len(rest) = Len(table) - 1
      <4>1. rest \in Seq(Names) /\ Len(rest) = Len(left) + Len(right)
        BY <3>1, <3>2, <3>3, ConcatProperties
      <4> QED
        BY <1>1, <2>p, <3>1, <3>2, <4>1
    <3>5. ASSUME NEW i \in 1 .. Len(table) - 1 PROVE rest[i] = table[Place(i)]
      <4>1. CASE i < p
        BY <1>1, <2>p, <3>1, <3>2, <3>3, <4>1
      <4>2. CASE i >= p
        <5>1. i - (p - 1) \in 1 .. Len(table) - p /\ Place(i) = p + (i - (p - 1))
          BY <1>1, <2>p, <4>2
        <5>2. rest[i] = right[i - (p - 1)]
          <6>1. \A k \in 1 .. Len(left) + Len(right) :
                  rest[k] = IF k <= Len(left) THEN left[k] ELSE right[k - Len(left)]
            BY <3>1, <3>2, <3>3, ConcatProperties
          <6>2. i \in 1 .. Len(left) + Len(right) /\ ~(i <= Len(left))
            BY <1>1, <2>p, <3>1, <3>2, <4>2
          <6> QED
            BY <3>1, <6>1, <6>2
        <5> QED
          BY <3>2, <5>1, <5>2
      <4> QED
        BY <1>1, <2>p, <4>1, <4>2
    <3> QED
      BY <3>4, <3>5
  <2> HIDE DEF rest
  <2>5. \A i, j \in 1 .. Len(table) - 1 :
          /\ Place(i) \in 1 .. Len(table) /\ Place(i) # p
          /\ Place(i) = Place(j) => i = j
    BY <1>1, <2>p
  <2>6. \A k \in 1 .. Len(table) : k # p => \E i \in 1 .. Len(table) - 1 : Place(i) = k
    <3> SUFFICES ASSUME NEW k \in 1 .. Len(table), k # p
                 PROVE  \E i \in 1 .. Len(table) - 1 : Place(i) = k
      OBVIOUS
    <3>1. CASE k < p
      <4>1. k \in 1 .. Len(table) - 1 /\ Place(k) = k
        BY <1>1, <2>p, <3>1
      <4> QED
        BY <4>1
    <3>2. CASE k > p
      <4>1. k - 1 \in 1 .. Len(table) - 1 /\ Place(k - 1) = k
        BY <1>1, <2>p, <3>2
      <4> QED
        BY <4>1
    <3> QED
      BY <1>1, <2>p, <3>1, <3>2
  <2> HIDE DEF Place
  <2>7. \A i, j \in DOMAIN rest : rest[i] = rest[j] => i = j
    BY <1>1, <2>4, <2>5
  <2>8. \A r \in Names : r \in Range(rest) <=> r \in Range(table) /\ r # "dashboard"
    <3> SUFFICES ASSUME NEW r \in Names
                 PROVE  r \in Range(rest) <=> r \in Range(table) /\ r # "dashboard"
      OBVIOUS
    <3>1. r \in Range(rest) <=> \E i \in 1 .. Len(table) - 1 : table[Place(i)] = r
      BY <2>4, InRange
    <3>2. r \in Range(table) <=> \E k \in 1 .. Len(table) : table[k] = r
      BY InRange
    <3>3. ASSUME NEW i \in 1 .. Len(table) - 1, table[Place(i)] = r
          PROVE  r \in Range(table) /\ r # "dashboard"
      BY <1>1, <2>1, <2>5, <3>2, <3>3
    <3>4. ASSUME NEW k \in 1 .. Len(table), table[k] = r, r # "dashboard"
          PROVE  r \in Range(rest)
      BY <2>1, <2>6, <3>1, <3>4
    <3> QED
      BY <3>1, <3>2, <3>3, <3>4
  <2> QED
    BY <2>4, <2>7, <2>8 DEF rest
<1> QED
  BY <1>2, <1>3
-----------------------------------------------------------------------------
(* What the steps of app_main() do.                                          *)

LEMMA StepFacts ==
  ASSUME Types, NEW s, NEW ok \in BOOLEAN, Step(s, ok)
  PROVE  /\ at \in 1 .. Count /\ at' = at + 1 /\ BootOrder[at] = s
         /\ up \subseteq up' /\ up' \subseteq up \cup {s} /\ (ok => s \in up')
BY OrderLength DEF Types, Step, Count

LEMMA ComesFacts ==
  ASSUME Types, NEW s, NEW needs, Comes(s, needs)
  PROVE  /\ at \in 1 .. Count /\ at' = at + 1 /\ BootOrder[at] = s
         /\ up \subseteq up' /\ up' \subseteq up \cup {s} /\ faults \subseteq faults'
         /\ needs \subseteq up => s \in up' \cup faults'
         /\ UNCHANGED <<netVars, slotVars, otaVars, reboot>>
<1>1. CASE Step(s, needs \subseteq up) /\ UNCHANGED <<faults, netVars>> /\ Elsewhere
  BY <1>1, StepFacts DEF Elsewhere
<1>2. CASE Faults(s)
  <2>1. Step(s, FALSE) /\ faults' = faults \cup {s} /\ UNCHANGED netVars /\ Elsewhere
    BY <1>2 DEF Faults
  <2> QED
    BY <2>1, StepFacts DEF Elsewhere
<1> QED
  BY <1>1, <1>2 DEF Comes

\* The services nothing else here depends on.
PlainStep ==
  \/ StorageInit \/ ConfigInit \/ GpioInit \/ I2cInit \/ PinsReserve \/ PanelInit
  \/ WifiInit \/ NetworkInit \/ TimeInit \/ ModulesInit \/ PowerInit
  \/ BatteryInit \/ ModulesStart \/ PowerStart \/ DisplayStart \/ BatteryStart

Plain   == {"storage", "config", "gpio", "i2c", "pins", "panel", "wifi", "network", "time",
            "modules", "power", "battery", "modules start", "power start", "display",
            "sampling"}
Telling == {"rest", "routes", "ota", "webui", "wifi start", "ready", "confirm"}

LEMMA PlainFacts ==
  ASSUME Types, PlainStep
  PROVE  /\ at \in 1 .. Count /\ at' = at + 1 /\ BootOrder[at] \notin Telling
         /\ up \subseteq up' /\ up' \subseteq up \cup {BootOrder[at]} /\ faults \subseteq faults'
         /\ UNCHANGED <<netVars, slotVars, otaVars, reboot>>
<1>1. \E s \in Plain : \E needs : Comes(s, needs)
  <2>1. CASE StorageInit
    BY <2>1 DEF StorageInit, Plain
  <2>2. CASE ConfigInit
    BY <2>2 DEF ConfigInit, Plain
  <2>3. CASE GpioInit
    BY <2>3 DEF GpioInit, Plain
  <2>4. CASE I2cInit
    BY <2>4 DEF I2cInit, Plain
  <2>5. CASE PinsReserve
    BY <2>5 DEF PinsReserve, Plain
  <2>6. CASE PanelInit
    BY <2>6 DEF PanelInit, Plain
  <2>7. CASE WifiInit
    BY <2>7 DEF WifiInit, Plain
  <2>8. CASE NetworkInit
    BY <2>8 DEF NetworkInit, Plain
  <2>9. CASE TimeInit
    BY <2>9 DEF TimeInit, Plain
  <2>10. CASE ModulesInit
    BY <2>10 DEF ModulesInit, Plain
  <2>11. CASE PowerInit
    BY <2>11 DEF PowerInit, Plain
  <2>12. CASE BatteryInit
    BY <2>12 DEF BatteryInit, Plain
  <2>13. CASE ModulesStart
    BY <2>13 DEF ModulesStart, Plain
  <2>14. CASE PowerStart
    BY <2>14 DEF PowerStart, Plain
  <2>15. CASE DisplayStart
    BY <2>15 DEF DisplayStart, Plain
  <2>16. CASE BatteryStart
    BY <2>16 DEF BatteryStart, Plain
  <2> QED
    BY <2>1, <2>2, <2>3, <2>4, <2>5, <2>6, <2>7, <2>8, <2>9, <2>10, <2>11, <2>12, <2>13,
       <2>14, <2>15, <2>16 DEF PlainStep
<1>2. \A s \in Plain : s \notin Telling
  BY DEF Plain, Telling
<1> QED
  BY <1>1, <1>2, ComesFacts

\* A service that registers routes which no route in the table matches.
LEMMA ServesFacts ==
  ASSUME Types, NEW s, NEW new \in Seq(Names), Serves(s, {"rest"}, new),
         \A t \in Range(routes) : \A i \in DOMAIN new : ~Matches(t, new[i])
  PROVE  /\ at \in 1 .. Count /\ at' = at + 1 /\ BootOrder[at] = s
         /\ up \subseteq up' /\ up' \subseteq up \cup {s} /\ faults \subseteq faults'
         /\ "rest" \in up => s \in up' \cup faults'
         /\ \/ UNCHANGED <<up, routes>>
            \/ routes' = routes \o new
         /\ UNCHANGED <<provisioning, slotVars, otaVars, reboot>>
<1>1. Registers(routes, new) /\ Register(routes, new) = routes \o new
  BY AllRegister DEF Types, Registers
<1>2. CASE /\ Step(s, {"rest"} \subseteq up /\ Registers(routes, new))
           /\ routes' = IF {"rest"} \subseteq up THEN Register(routes, new) ELSE routes
           /\ UNCHANGED <<faults, provisioning, creds>> /\ Elsewhere
  <2>1. CASE "rest" \in up
    BY <1>1, <1>2, <2>1, StepFacts DEF Elsewhere
  <2>2. CASE "rest" \notin up
    <3>1. Step(s, FALSE) /\ routes' = routes
      BY <1>2, <2>2
    <3>2. up' = up
      BY <3>1 DEF Step
    <3> QED
      BY <1>2, <2>2, <3>1, <3>2, StepFacts DEF Elsewhere
  <2> QED
    BY <2>1, <2>2
<1>3. CASE Faults(s)
  <2>1. /\ Step(s, FALSE) /\ faults' = faults \cup {s} /\ UNCHANGED netVars /\ Elsewhere
        /\ up' = up
    BY <1>3 DEF Faults, Step
  <2> QED
    BY <2>1, StepFacts DEF Elsewhere, netVars
<1> QED
  BY <1>2, <1>3 DEF Serves
-----------------------------------------------------------------------------
(* The outcomes of the steps.                                                *)

LEMMA StepOutcomes ==
  ASSUME Types, Outcomes, at \in 1 .. Count, at' = at + 1,
         up \subseteq up', up' \subseteq up \cup {BootOrder[at]}, faults \subseteq faults',
         BootOrder[at] = "rest" => "rest" \in up' \cup faults',
         "rest" \in up /\ BootOrder[at] \in {"routes", "ota", "webui"} =>
           BootOrder[at] \in up' \cup faults'
  PROVE  Outcomes' /\ at' \in 1 .. Count + 1
<1>1. at' \in 1 .. Count + 1
  BY DEF Count
<1>2. /\ "wifi start" \in up' => at' > 17
      /\ "rest" \in up' => at <= 8 \/ "rest" \in up
  <2>1. /\ BootOrder[at] = "wifi start" => at = 17
        /\ BootOrder[at] = "rest" => at = 8
    BY Places
  <2>2. at > 17 => at + 1 > 17
    BY DEF Count
  <2>3. "wifi start" \in up => at' > 17
    BY <2>2 DEF Outcomes
  <2>4. ASSUME BootOrder[at] = "wifi start" PROVE at' > 17
    <3>1. at = 17
      BY <2>1, <2>4
    <3> QED
      BY ONLY <3>1, at' = at + 1
  <2>5. BootOrder[at] = "rest" => at <= 8
    BY <2>1
  <2>6. \A s \in up' : s \in up \/ BootOrder[at] = s
    OBVIOUS
  <2> QED
    BY <2>3, <2>4, <2>5, <2>6
<1>3. at + 1 > 8 => "rest" \in up' \cup faults'
  <2>1. at = 8 \/ at > 8 \/ ~(at + 1 > 8)
    BY DEF Count
  <2>2. CASE at = 8
    <3>1. BootOrder[at] = "rest"
      BY <2>2, Places
    <3> QED
      BY <3>1
  <2>3. CASE at > 8
    BY <2>3 DEF Outcomes
  <2> QED
    BY <2>1, <2>2, <2>3
<1>4. ASSUME "rest" \in up, at + 1 > 13 PROVE "routes" \in up' \cup faults'
  <2>1. at = 13 \/ at > 13
    BY <1>4 DEF Count
  <2> QED
    BY <1>4, <2>1, Places DEF Outcomes
<1>5. ASSUME "rest" \in up, at + 1 > 14 PROVE "ota" \in up' \cup faults'
  <2>1. at = 14 \/ at > 14
    BY <1>5 DEF Count
  <2> QED
    BY <1>5, <2>1, Places DEF Outcomes
<1>6. ASSUME "rest" \in up, at + 1 > 15 PROVE "webui" \in up' \cup faults'
  <2>1. at = 15 \/ at > 15
    BY <1>6 DEF Count
  <2> QED
    BY <1>6, <2>1, Places DEF Outcomes
<1>7. at <= 8 => ~(at + 1 > 13) /\ ~(at + 1 > 14) /\ ~(at + 1 > 15)
  BY DEF Count
<1> QED
  BY <1>1, <1>2, <1>3, <1>4, <1>5, <1>6, <1>7 DEF Outcomes

-----------------------------------------------------------------------------
(* The order of the table.                                                   *)

LEMMA Grown ==
  ASSUME NEW table \in Seq(Names), NEW new \in Seq(Names),
         \A i, j \in DOMAIN table : table[i] = table[j] => i = j,
         \A i, j \in DOMAIN new : new[i] = new[j] => i = j,
         \A i \in DOMAIN table : \A j \in DOMAIN new : table[i] # new[j]
  PROVE  /\ table \o new \in Seq(Names)
         /\ \A i, j \in DOMAIN (table \o new) : (table \o new)[i] = (table \o new)[j] => i = j
         /\ \A r \in Names :
              r \in Range(table \o new) <=> r \in Range(table) \/ r \in Range(new)
<1> DEFINE both == table \o new
<1>1. /\ both \in Seq(Names) /\ DOMAIN both = 1 .. Len(table) + Len(new)
      /\ DOMAIN table = 1 .. Len(table) /\ DOMAIN new = 1 .. Len(new)
      /\ Len(table) \in Nat /\ Len(new) \in Nat
      /\ \A i \in 1 .. Len(table) : both[i] = table[i]
      /\ \A i \in 1 .. Len(new) : both[Len(table) + i] = new[i]
      /\ \A i \in DOMAIN both : i \in DOMAIN table \/ \E k \in DOMAIN new : i = Len(table) + k
  <2>1. /\ DOMAIN table = 1 .. Len(table) /\ DOMAIN new = 1 .. Len(new)
        /\ Len(table) \in Nat /\ Len(new) \in Nat
    OBVIOUS
  <2>2. both \in Seq(Names) /\ DOMAIN both = 1 .. Len(table) + Len(new)
    BY Joined
  <2> QED
    BY <2>1, <2>2, Joined
<1> HIDE DEF both
<1>2. ASSUME NEW i \in DOMAIN both, NEW j \in DOMAIN both, both[i] = both[j] PROVE i = j
  <2>1. CASE i \in DOMAIN table /\ j \in DOMAIN table
    BY <1>1, <1>2, <2>1
  <2>2. CASE i \in DOMAIN table /\ j \notin DOMAIN table
    BY <1>1, <1>2, <2>2
  <2>3. CASE i \notin DOMAIN table /\ j \in DOMAIN table
    BY <1>1, <1>2, <2>3
  <2>4. CASE i \notin DOMAIN table /\ j \notin DOMAIN table
    <3>1. PICK k \in DOMAIN new, l \in DOMAIN new : i = Len(table) + k /\ j = Len(table) + l
      BY <1>1, <2>4
    <3> QED
      BY <1>1, <1>2, <3>1
  <2> QED
    BY <2>1, <2>2, <2>3, <2>4
<1>3. ASSUME NEW r \in Names
      PROVE  r \in Range(both) <=> r \in Range(table) \/ r \in Range(new)
  <2>1. ASSUME NEW i \in DOMAIN table PROVE table[i] \in Range(both)
    BY <1>1, InRange
  <2>2. ASSUME NEW i \in DOMAIN new PROVE new[i] \in Range(both)
    <3>1. Len(table) + i \in 1 .. Len(both)
      BY <1>1
    <3> QED
      BY <1>1, <3>1, InRange
  <2>3. ASSUME NEW i \in DOMAIN both PROVE both[i] \in Range(table) \/ both[i] \in Range(new)
    BY <1>1, InRange
  <2> QED
    BY <2>1, <2>2, <2>3 DEF Range
<1> QED
  BY <1>1, <1>2, <1>3 DEF both

Servers == {"routes", "ota", "webui"}

LEMMA TableStays ==
  ASSUME Types, TableInOrder, Registered, at' \in Nat, at' >= at, UNCHANGED <<routes, provisioning>>,
         up' \cap Servers \subseteq up
  PROVE  TableInOrder' /\ Registered'
<1>1. Registered'
  BY DEF Registered, Servers
<1>2. \A n \in {13, 14, 15, 17} : at > n => at' > n
  BY DEF Types, Count
<1> QED
  BY <1>1, <1>2 DEF TableInOrder

LEMMA PortalOpens ==
  ASSUME Types, TableInOrder, Registered, OpensPortal, at' \in Nat, at' > 17, at' >= at,
         up' \cap Servers \subseteq up
  PROVE  TableInOrder' /\ Registered' /\ routes' \in Seq(Names)
<1>1. ~provisioning /\ provisioning'
  BY DEF OpensPortal
<1>2. \A n \in {13, 14, 15} : at' > n
  OBVIOUS
<1>3. CASE "rest" \notin up
  <2>1. routes' = routes
    BY <1>3 DEF OpensPortal
  <2> QED
    BY <1>1, <1>2, <2>1 DEF TableInOrder, Registered, Servers, Types
<1>4. CASE "rest" \in up
  <2> DEFINE left == Unregister(routes)
  <2>1. \A r \in Range(routes) : r \notin {"provision", "setup", "any"}
    BY <1>1 DEF Range, TableInOrder
  <2>2. /\ left \in Seq(Names)
        /\ \A i, j \in DOMAIN left : left[i] = left[j] => i = j
        /\ \A r \in Names : r \in Range(left) <=> r \in Range(routes) /\ r # "dashboard"
    BY <2>1, Removed DEF Types, TableInOrder
  <2>3. PortalRoutes \in Seq(Names) /\ Len(PortalRoutes) = 3 /\ DOMAIN PortalRoutes = 1 .. 3
        /\ PortalRoutes[1] = "provision" /\ PortalRoutes[2] = "setup" /\ PortalRoutes[3] = "any"
    BY DEF PortalRoutes, Names
  <2> HIDE DEF left
  <2>4. \A t \in Range(left) : t \in Range(routes) /\ t # "dashboard"
    BY <2>2 DEF Range
  <2>5. ASSUME NEW t \in Range(left), NEW i \in DOMAIN PortalRoutes
        PROVE  ~Matches(t, PortalRoutes[i]) /\ t # PortalRoutes[i]
    <3>1. i = 1 \/ i = 2 \/ i = 3
      BY <2>3
    <3> QED
      BY <2>1, <2>3, <2>4, <3>1 DEF Matches
  <2>6. routes' = left \o PortalRoutes
    BY <1>4, <2>2, <2>3, <2>5, AllRegister DEF OpensPortal, left
  <2>7. /\ routes' \in Seq(Names)
        /\ \A i, j \in DOMAIN routes' : routes'[i] = routes'[j] => i = j
        /\ \A r \in Names : r \in Range(routes') <=> r \in Range(left) \/ r \in Range(PortalRoutes)
    <3>1. \A i, j \in DOMAIN PortalRoutes : PortalRoutes[i] = PortalRoutes[j] => i = j
      BY <2>3
    <3>2. \A i \in DOMAIN left : \A j \in DOMAIN PortalRoutes : left[i] # PortalRoutes[j]
      BY <2>5 DEF Range
    <3> QED
      BY <2>2, <2>3, <2>6, <3>1, <3>2, Grown
  <2>8. ASSUME NEW i \in DOMAIN routes', routes'[i] = "any" PROVE i = Len(routes')
    <3>1. Len(routes') = Len(left) + 3 /\ routes'[Len(left) + 3] = "any" /\ Len(left) \in Nat
      <4>1. /\ Len(left \o PortalRoutes) = Len(left) + Len(PortalRoutes)
            /\ \A k \in 1 .. Len(PortalRoutes) :
                 (left \o PortalRoutes)[Len(left) + k] = PortalRoutes[k]
        BY <2>2, <2>3, Joined
      <4>2. 3 \in 1 .. Len(PortalRoutes) /\ Len(left) \in Nat
        BY <2>2, <2>3
      <4> QED
        BY <2>3, <2>6, <4>1, <4>2
    <3>2. Len(left) + 3 \in DOMAIN routes'
      BY <2>7, <3>1
    <3> QED
      BY <2>7, <2>8, <3>1, <3>2
  <2>9. Registered'
    BY <2>2, <2>7 DEF Registered, Servers, Names
  <2>10. TableInOrder'
    BY <1>1, <1>2, <2>7, <2>8 DEF TableInOrder
  <2> QED
    BY <2>7, <2>9, <2>10
<1> QED
  BY <1>3, <1>4
-----------------------------------------------------------------------------
(* The slots.                                                                *)

SlotParts == Fallback /\ RunningImage /\ Updating /\ BusyWhileUpdating

SlotTypes ==
  /\ running \in Slots /\ selected \in Slots
  /\ state \in [Slots -> {"none", "new", "pending", "valid", "aborted"}]
  /\ image \in [Slots -> {"good", "loops", "partial"}]

\* While the image does not go on past "ready" unless it is good.
LEMMA SlotsStay ==
  ASSUME SlotParts, UNCHANGED <<slotVars, otaVars>>, reboot => reboot',
         at' > 22 => at > 22 \/ image[running] = "good"
  PROVE  SlotParts'
BY DEF SlotParts, Fallback, Proven, RunningImage, Updating, BusyWhileUpdating, slotVars, otaVars

LEMMA Confirmed ==
  ASSUME Types, SlotParts, ConfirmHealthy
  PROVE  SlotParts' /\ SlotTypes'
<1> USE DEF SlotParts, Types
<1>1. /\ Step("confirm", TRUE)
      /\ UNCHANGED <<running, selected, image, otaVars, reboot>>
      /\ \/ state[running] = "pending" /\ state' = [state EXCEPT ![running] = "valid"]
         \/ state' = state
  BY DEF ConfirmHealthy
<1>2. image[running] = "good"
  <2>1. at \in 1 .. Count /\ BootOrder[at] = "confirm"
    BY <1>1, StepFacts
  <2>2. at = 23
    BY <2>1, Places
  <2> QED
    BY <2>2 DEF RunningImage
<1>3. SlotTypes'
  BY <1>1 DEF SlotTypes
<1>4. UNCHANGED <<inProgress, upload, lost>>
  BY <1>1 DEF otaVars
<1>5. CASE state[running] = "pending" /\ state' = [state EXCEPT ![running] = "valid"]
  <2>1. selected = running
    BY <1>5, OtherSlot DEF Updating, Fallback, Proven
  <2>2. /\ state'[running] = "valid" /\ \A s \in Slots : s # running => state'[s] = state[s]
    BY <1>5 DEF SlotTypes
  <2> QED
    BY <1>1, <1>2, <1>3, <1>4, <2>1, <2>2
       DEF Fallback, Proven, RunningImage, Updating, BusyWhileUpdating
<1>6. CASE state' = state
  BY <1>1, <1>2, <1>3, <1>4, <1>6
     DEF Fallback, Proven, RunningImage, Updating, BusyWhileUpdating
<1> QED
  BY <1>1, <1>5, <1>6

\* The bootloader finds an image, and one that was proven if the one it tries was not.
LEMMA Booting ==
  ASSUME Types, SlotParts, Boots
  PROVE  SlotParts' /\ SlotTypes'
<1> USE DEF SlotParts, Types
<1> DEFINE s == selected
           o == Other(selected)
<1>1. /\ state' = Tried /\ UNCHANGED image /\ running' = selected'
      /\ selected' = IF Bootable(s) THEN s ELSE o
      /\ at' = 1 /\ ~inProgress' /\ upload' = "no"
  BY DEF Boots
<1>2. /\ o \in Slots /\ o # s /\ Other(o) = s /\ s \in Slots
  BY OtherSlot
<1>3. /\ Tried[o] = state[o]
      /\ state[s] = "new" => Tried[s] = "pending"
      /\ state[s] = "pending" => Tried[s] = "aborted"
      /\ state[s] \notin {"new", "pending"} => Tried[s] = state[s]
      /\ Tried \in [Slots -> {"none", "new", "pending", "valid", "aborted"}]
  BY <1>2 DEF Tried
<1>4. SlotTypes'
  BY <1>1, <1>2, <1>3 DEF SlotTypes
<1>5. CASE state[s] \in {"none", "valid"}
  <2>1. Bootable(s) /\ selected' = s /\ image[s] = "good" /\ Tried[s] = state[s]
    BY <1>1, <1>3, <1>5 DEF Bootable, Fallback
  <2> QED
    BY <1>1, <1>2, <1>4, <1>5, <2>1
       DEF Fallback, Proven, RunningImage, Updating, BusyWhileUpdating
<1>6. CASE state[s] = "new"
  <2>1. Bootable(s) /\ selected' = s /\ Tried[s] = "pending"
    BY <1>1, <1>3, <1>6 DEF Bootable, Fallback
  <2>2. image[s] # "partial" /\ Proven(o)
    BY <1>6 DEF Fallback
  <2> QED
    BY <1>1, <1>2, <1>3, <1>4, <2>1, <2>2
       DEF Fallback, Proven, RunningImage, Updating, BusyWhileUpdating
<1>7. CASE state[s] \in {"pending", "aborted"}
  <2>1. Tried[s] = "aborted" /\ selected' = o
    BY <1>1, <1>3, <1>7 DEF Bootable
  <2>2. Proven(o)
    BY <1>7 DEF Fallback
  <2> QED
    BY <1>1, <1>2, <1>3, <1>4, <2>1, <2>2
       DEF Fallback, Proven, RunningImage, Updating, BusyWhileUpdating
<1> QED
  BY <1>2, <1>5, <1>6, <1>7

LEMMA Uploading ==
  ASSUME Types, SlotParts,
         UploadBegin \/ UploadFails \/ UploadEnd \/ SetBoot \/ ScheduleRestart
  PROVE  SlotParts' /\ SlotTypes' /\ UNCHANGED <<bootVars, netVars>>
<1> USE DEF SlotParts, Types
<1> DEFINE r == running
           o == Other(running)
<1>1. /\ o \in Slots /\ o # r /\ Other(o) = r /\ r \in Slots
      /\ \A s \in Slots : s = r \/ s = o
  BY OtherSlot
<1>2. UNCHANGED <<bootVars, netVars, running>> /\ UNCHANGED at
  BY DEF OtaOnly, UploadBegin, UploadFails, UploadEnd, SetBoot, ScheduleRestart, bootVars
<1>3. CASE UploadBegin
  <2>1. /\ ~inProgress /\ state[r] # "pending" /\ inProgress' /\ upload' = "writing"
        /\ image' = [image EXCEPT ![o] = "partial"]
        /\ UNCHANGED <<selected, state, lost, reboot>>
    BY <1>3 DEF UploadBegin
  <2>2. selected = r /\ image[r] = "good" /\ state[r] \in {"none", "valid"}
    BY <2>1 DEF Updating, Fallback, RunningImage
  <2>3. image'[r] = "good"
    BY <1>1, <2>1, <2>2
  <2>4. SlotTypes'
    BY <1>2, <2>1 DEF SlotTypes
  <2> QED
    BY <1>2, <2>1, <2>2, <2>3, <2>4
       DEF Fallback, Proven, RunningImage, Updating, BusyWhileUpdating
<1>4. CASE UploadFails
  <2>1. /\ upload \in {"writing", "written"} /\ upload' = "no" /\ ~inProgress'
        /\ UNCHANGED <<selected, state, image, lost, reboot>>
    BY <1>4 DEF UploadFails
  <2>2. selected = r
    BY <2>1 DEF Updating
  <2> QED
    BY <1>2, <2>1, <2>2
       DEF SlotTypes, Fallback, Proven, RunningImage, Updating, BusyWhileUpdating
<1>5. CASE UploadEnd
  <2>1. PICK kind \in {"good", "loops"} : image' = [image EXCEPT ![o] = kind]
    BY <1>5 DEF UploadEnd
  <2>2. /\ upload = "writing" /\ upload' = "written"
        /\ UNCHANGED <<inProgress, selected, state, lost, reboot>>
    BY <1>5 DEF UploadEnd
  <2>3. image'[r] = image[r] /\ image'[o] = kind /\ selected = r
    BY <1>1, <2>1, <2>2 DEF Updating
  <2>4. state[r] \in {"none", "valid"} /\ image[r] = "good"
    BY <2>2, <2>3 DEF Updating, RunningImage, Fallback
  <2>5. SlotTypes'
    BY <1>2, <2>1, <2>2 DEF SlotTypes
  <2> QED
    BY <1>2, <2>1, <2>2, <2>3, <2>4, <2>5
       DEF Fallback, Proven, RunningImage, Updating, BusyWhileUpdating
<1>6. CASE SetBoot
  <2>1. /\ upload = "written" /\ upload' = "selected" /\ selected' = o
        /\ state' = [state EXCEPT ![o] = "new"]
        /\ UNCHANGED <<inProgress, image, lost, reboot>>
    BY <1>6 DEF SetBoot
  <2>2. /\ selected = r /\ state[r] \in {"none", "valid"} /\ image[r] = "good"
        /\ image[o] # "partial" /\ inProgress
    BY <2>1 DEF Updating, RunningImage, Fallback, BusyWhileUpdating
  <2>3. state'[o] = "new" /\ state'[r] = state[r]
    BY <1>1, <2>1
  <2>4. SlotTypes'
    BY <1>1, <1>2, <2>1 DEF SlotTypes
  <2> QED
    BY <1>1, <1>2, <2>1, <2>2, <2>3, <2>4
       DEF Fallback, Proven, RunningImage, Updating, BusyWhileUpdating
<1>7. CASE ScheduleRestart
  <2>1. /\ upload = "selected" /\ upload' = "no" /\ (reboot' \/ lost')
        /\ UNCHANGED <<inProgress, selected, state, image>>
    BY <1>7 DEF ScheduleRestart
  <2> QED
    BY <1>2, <2>1
       DEF SlotTypes, Fallback, Proven, RunningImage, Updating, BusyWhileUpdating
<1> QED
  BY <1>2, <1>3, <1>4, <1>5, <1>6, <1>7

-----------------------------------------------------------------------------
(* The steps.                                                                *)

BootParts == Outcomes /\ TableInOrder /\ Registered

LEMMA Parts ==
  /\ Inv <=> Types /\ BootParts /\ SlotParts
  /\ Types <=> at \in 1 .. Count + 1 /\ routes \in Seq(Names) /\ SlotTypes
BY DEF Inv, BootParts, SlotParts, Types, SlotTypes

LEMMA InvNext ==
  ASSUME BootParts', SlotParts', SlotTypes', at' \in 1 .. Count + 1, routes' \in Seq(Names)
  PROVE  Inv'
BY DEF Inv, BootParts, SlotParts, Types, SlotTypes

\* A step of app_main() that leaves the table alone.
LEMMA QuietStep ==
  ASSUME Inv, at \in 1 .. Count, at' = at + 1,
         up \subseteq up', up' \subseteq up \cup {BootOrder[at]}, faults \subseteq faults',
         BootOrder[at] = "rest" => "rest" \in up' \cup faults',
         BootOrder[at] \notin Servers,
         BootOrder[at] = "ready" => image[running] = "good",
         UNCHANGED <<netVars, slotVars, otaVars, reboot>>
  PROVE  Inv'
<1> USE Parts
<1>1. Outcomes' /\ at' \in 1 .. Count + 1
  BY StepOutcomes DEF BootParts, Servers
<1>2. TableInOrder' /\ Registered'
  <2>1. at' \in Nat /\ at' >= at
    BY DEF Count
  <2>2. up' \cap Servers \subseteq up
    OBVIOUS
  <2> QED
    BY <2>1, <2>2, TableStays DEF BootParts, netVars
<1>3. at' > 22 => at > 22 \/ image[running] = "good"
  <2>1. at' > 22 => at = 22 \/ at > 22
    BY DEF Count
  <2> QED
    BY <2>1, Places
<1>4. SlotParts'
  BY <1>3, SlotsStay
<1> QED
  BY <1>1, <1>2, <1>4, InvNext DEF BootParts, SlotTypes, netVars, slotVars, Types

\* A service registers its routes while the portal is still closed.
LEMMA ServingStep ==
  ASSUME Inv, NEW s, NEW new, Serves(s, {"rest"}, new),
         \/ s = "routes" /\ new = <<"api">>
         \/ s = "ota" /\ new = <<"upload">>
         \/ s = "webui" /\ new = <<"dashboard", "ws">>
  PROVE  Inv'
<1> USE Parts
<1>1. at \in 1 .. Count /\ BootOrder[at] = s
  <2>1. CASE Step(s, {"rest"} \subseteq up /\ Registers(routes, new))
    BY <2>1, StepFacts
  <2>2. CASE Faults(s)
    BY <2>2, StepFacts DEF Faults
  <2> QED
    BY <2>1, <2>2 DEF Serves
<1>2. \/ s = "routes" /\ new = <<"api">> /\ at = 13
      \/ s = "ota" /\ new = <<"upload">> /\ at = 14
      \/ s = "webui" /\ new = <<"dashboard", "ws">> /\ at = 15
  BY <1>1, Places
<1>3. ~provisioning
  BY <1>2 DEF BootParts, TableInOrder
<1>4. /\ new \in Seq(Names) /\ \A i, j \in DOMAIN new : new[i] = new[j] => i = j
      /\ \A i \in DOMAIN new :
           /\ new[i] \notin {"provision", "setup", "any"}
           /\ new[i] = "api" => at = 13
           /\ new[i] = "upload" => at = 14
           /\ new[i] \in {"dashboard", "ws"} => at = 15
           /\ new[i] \in {"api", "upload", "dashboard", "ws"}
  <2>1. CASE s = "routes" /\ new = <<"api">> /\ at = 13
    BY <2>1 DEF Names
  <2>2. CASE s = "ota" /\ new = <<"upload">> /\ at = 14
    BY <2>2 DEF Names
  <2>3. CASE s = "webui" /\ new = <<"dashboard", "ws">> /\ at = 15
    BY <2>3 DEF Names
  <2> QED
    BY <1>2, <2>1, <2>2, <2>3
<1>5. \A i \in DOMAIN routes :
        /\ routes[i] \notin {"provision", "setup", "any"}
        /\ routes[i] = "api" => at > 13
        /\ routes[i] = "upload" => at > 14
        /\ routes[i] \in {"dashboard", "ws"} => at > 15
  BY <1>3 DEF BootParts, TableInOrder
<1>6. \A i \in DOMAIN routes : \A j \in DOMAIN new : routes[i] # new[j]
  BY <1>4, <1>5
<1>7. \A t \in Range(routes) : \A j \in DOMAIN new : ~Matches(t, new[j])
  BY <1>4, <1>5, <1>6 DEF Matches, Range
<1>8. /\ at' = at + 1 /\ up \subseteq up' /\ up' \subseteq up \cup {s} /\ faults \subseteq faults'
      /\ "rest" \in up => s \in up' \cup faults'
      /\ (UNCHANGED <<up, routes>> \/ routes' = routes \o new)
      /\ UNCHANGED <<provisioning, slotVars, otaVars, reboot>>
  BY <1>4, <1>7, ServesFacts
<1>9. Outcomes' /\ at' \in 1 .. Count + 1
  BY <1>1, <1>2, <1>8, StepOutcomes DEF BootParts
<1>10. SlotParts' /\ SlotTypes'
  <2>1. ~(at' > 22)
    BY <1>2, <1>8
  <2> QED
    BY <1>8, <2>1, SlotsStay DEF SlotTypes, slotVars
<1>11. CASE UNCHANGED <<up, routes>>
  BY <1>1, <1>8, <1>9, <1>10, <1>11, TableStays, InvNext DEF BootParts, Count
<1>12. CASE routes' = routes \o new
  <2>1. /\ routes' \in Seq(Names)
        /\ \A i, j \in DOMAIN routes' : routes'[i] = routes'[j] => i = j
        /\ \A r \in Names : r \in Range(routes') <=> r \in Range(routes) \/ r \in Range(new)
    BY <1>4, <1>6, <1>12, Grown DEF BootParts, TableInOrder, Types
  <2>2. ASSUME NEW i \in DOMAIN routes'
        PROVE  /\ routes'[i] \notin {"provision", "setup", "any"}
               /\ routes'[i] = "api" => at' > 13
               /\ routes'[i] = "upload" => at' > 14
               /\ routes'[i] \in {"dashboard", "ws"} => at' > 15
    <3>1. \A n \in {13, 14, 15} : at > n \/ at = n => at' > n
      BY <1>1, <1>8 DEF Count
    <3>2. routes'[i] \in Range(routes) \/ routes'[i] \in Range(new)
      <4>1. routes'[i] \in Range(routes') /\ routes'[i] \in Names
        BY <2>1 DEF Range
      <4> QED
        BY <2>1, <4>1
    <3>3. CASE routes'[i] \in Range(routes)
      BY <1>5, <3>1, <3>3 DEF Range
    <3>4. CASE routes'[i] \in Range(new)
      BY <1>4, <3>1, <3>4 DEF Range
    <3> QED
      BY <3>2, <3>3, <3>4
  <2>3. TableInOrder'
    BY <1>3, <1>8, <2>1, <2>2 DEF TableInOrder
  <2>4. Registered'
    <3>1. \/ s = "routes" /\ "api" \in Range(new)
          \/ s = "ota" /\ "upload" \in Range(new)
          \/ s = "webui" /\ "ws" \in Range(new)
      <4>1. CASE s = "routes" /\ new = <<"api">>
        BY <4>1 DEF Range
      <4>2. CASE s = "ota" /\ new = <<"upload">>
        BY <4>2 DEF Range
      <4>3. CASE s = "webui" /\ new = <<"dashboard", "ws">>
        <5>1. 2 \in DOMAIN new /\ new[2] = "ws"
          BY <4>3
        <5> QED
          BY <4>3, <5>1 DEF Range
      <4> QED
        BY <1>2, <4>1, <4>2, <4>3
    <3>2. {"api", "upload", "ws"} \subseteq Names
      BY DEF Names
    <3> QED
      BY <1>8, <2>1, <3>1, <3>2 DEF BootParts, Registered
  <2> QED
    BY <1>9, <1>10, <2>1, <2>3, <2>4, InvNext DEF BootParts
<1> QED
  BY <1>8, <1>11, <1>12

\* The WiFi step: nothing registers after it but the portal.
LEMMA WifiStep ==
  ASSUME Inv, WifiStart
  PROVE  Inv'
<1> USE Parts
<1>1. ASSUME Comes("wifi start", {"wifi"}) PROVE Inv'
  <2>1. /\ at \in 1 .. Count /\ at' = at + 1 /\ BootOrder[at] = "wifi start"
        /\ up \subseteq up' /\ up' \subseteq up \cup {"wifi start"} /\ faults \subseteq faults'
        /\ UNCHANGED <<netVars, slotVars, otaVars, reboot>>
    BY <1>1, ComesFacts
  <2>2. "wifi start" \notin Servers /\ "wifi start" # "rest" /\ "wifi start" # "ready"
    BY DEF Servers
  <2> QED
    BY <2>1, <2>2, QuietStep
<1>2. Faults("wifi start") => Comes("wifi start", {"wifi"})
  BY DEF Comes
<1>3. ASSUME NEW ok \in BOOLEAN, Step("wifi start", ok), UNCHANGED faults, Elsewhere,
             UNCHANGED netVars \/ OpensPortal
      PROVE  Inv'
  <2>1. /\ at \in 1 .. Count /\ at' = at + 1 /\ BootOrder[at] = "wifi start"
        /\ up \subseteq up' /\ up' \subseteq up \cup {"wifi start"}
    BY <1>3, StepFacts
  <2>2. UNCHANGED <<slotVars, otaVars, reboot>>
    BY <1>3 DEF Elsewhere
  <2>3. CASE UNCHANGED netVars
    BY <1>3, <2>1, <2>2, <2>3, QuietStep DEF Servers
  <2>4. CASE OpensPortal
    <3>1. at = 17 /\ at' = 18
      <4>1. at = 17
        BY <2>1, Places
      <4>2. at' = at + 1
        BY <2>1
      <4> QED
        BY ONLY <4>1, <4>2
    <3>2. TableInOrder' /\ Registered' /\ routes' \in Seq(Names)
      <4>1. at' \in Nat /\ at' > 17 /\ at' >= at
        BY ONLY <3>1
      <4>2. up' \cap Servers \subseteq up
        BY <2>1 DEF Servers
      <4> QED
        BY <2>4, <4>1, <4>2, PortalOpens DEF BootParts
    <3>3. Outcomes' /\ at' \in 1 .. Count + 1
      BY <1>3, <2>1, StepOutcomes DEF BootParts
    <3>4. SlotParts' /\ SlotTypes'
      <4>1. ~(at' > 22)
        BY ONLY <3>1
      <4> QED
        BY <2>2, <4>1, SlotsStay DEF SlotTypes, slotVars
    <3> QED
      BY <3>2, <3>3, <3>4, InvNext DEF BootParts
  <2> QED
    BY <1>3, <2>3, <2>4
<1>4. CASE Step("wifi start", TRUE) /\ UNCHANGED netVars /\ UNCHANGED faults /\ Elsewhere
  BY <1>3, <1>4
<1>5. CASE Step("wifi start", "rest" \in up) /\ OpensPortal /\ UNCHANGED faults /\ Elsewhere
  <2>1. CASE "rest" \in up
    <3>1. Step("wifi start", TRUE)
      BY <1>5, <2>1
    <3> QED
      BY <1>3, <1>5, <3>1
  <2>2. CASE "rest" \notin up
    <3>1. Step("wifi start", FALSE)
      BY <1>5, <2>2 DEF Step
    <3> QED
      BY <1>3, <1>5, <3>1
  <2> QED
    BY <2>1, <2>2
<1> QED
  BY <1>1, <1>2, <1>4, <1>5 DEF WifiStart

LEMMA BootStepKeeps ==
  ASSUME Inv, BootStep
  PROVE  Inv'
<1> USE Parts
<1>1. CASE PlainStep
  <2>1. /\ at \in 1 .. Count /\ at' = at + 1 /\ BootOrder[at] \notin Telling
        /\ up \subseteq up' /\ up' \subseteq up \cup {BootOrder[at]} /\ faults \subseteq faults'
        /\ UNCHANGED <<netVars, slotVars, otaVars, reboot>>
    BY <1>1, PlainFacts
  <2>2. BootOrder[at] \notin Servers \cup {"rest", "ready"}
    BY <2>1 DEF Telling, Servers
  <2> QED
    BY <2>1, <2>2, QuietStep
<1>2. CASE RestInit
  <2>1. /\ at \in 1 .. Count /\ at' = at + 1 /\ BootOrder[at] = "rest"
        /\ up \subseteq up' /\ up' \subseteq up \cup {"rest"} /\ faults \subseteq faults'
        /\ "rest" \in up' \cup faults'
        /\ UNCHANGED <<netVars, slotVars, otaVars, reboot>>
    BY <1>2, ComesFacts DEF RestInit
  <2>2. "rest" \notin Servers /\ "rest" # "ready"
    BY DEF Servers
  <2> QED
    BY <2>1, <2>2, QuietStep
<1>3. CASE KernelStart
  <2>1. /\ at \in 1 .. Count /\ at' = at + 1 /\ BootOrder[at] = "ready"
        /\ up \subseteq up' /\ up' \subseteq up \cup {"ready"} /\ faults \subseteq faults'
        /\ UNCHANGED <<netVars, slotVars, otaVars, reboot>>
    BY <1>3, ComesFacts DEF KernelStart
  <2>2. "ready" \notin Servers /\ "ready" # "rest" /\ image[running] = "good"
    BY <1>3 DEF Servers, KernelStart
  <2> QED
    BY <2>1, <2>2, QuietStep
<1>4. CASE ApiRoutes
  BY <1>4, ServingStep DEF ApiRoutes
<1>5. CASE OtaInit
  BY <1>5, ServingStep DEF OtaInit
<1>6. CASE WebUiInit
  BY <1>6, ServingStep DEF WebUiInit
<1>7. CASE WifiStart
  BY <1>7, WifiStep
<1>8. CASE ConfirmHealthy
  <2>1. /\ at \in 1 .. Count /\ at' = at + 1 /\ BootOrder[at] = "confirm"
        /\ up \subseteq up' /\ up' \subseteq up \cup {"confirm"}
        /\ UNCHANGED <<faults, netVars>>
    BY <1>8, StepFacts DEF ConfirmHealthy
  <2>2. SlotParts' /\ SlotTypes'
    BY <1>8, Confirmed
  <2>3. "confirm" \notin Servers /\ "confirm" # "rest"
    BY DEF Servers
  <2>4. Outcomes' /\ at' \in 1 .. Count + 1
    BY <2>1, <2>3, StepOutcomes DEF BootParts, Servers
  <2>5. at' \in Nat /\ at' >= at
    BY <2>1 DEF Count
  <2>6. TableInOrder' /\ Registered' /\ routes' \in Seq(Names)
    BY <2>1, <2>3, <2>5, TableStays DEF BootParts, netVars, Types
  <2> QED
    BY <2>2, <2>4, <2>6, InvNext DEF BootParts
<1> QED
  BY <1>1, <1>2, <1>3, <1>4, <1>5, <1>6, <1>7, <1>8 DEF BootStep, PlainStep

LEMMA RestartKeeps ==
  ASSUME Inv, Boots
  PROVE  Inv'
<1>1. /\ at' = 1 /\ up' = {} /\ faults' = {} /\ routes' = <<>> /\ provisioning' = FALSE
  BY DEF Boots
<1>2. Outcomes' /\ Registered'
  BY <1>1 DEF Outcomes, Registered
<1>3. TableInOrder' /\ routes' \in Seq(Names)
  BY <1>1 DEF TableInOrder
<1>4. SlotParts' /\ SlotTypes' /\ at' \in 1 .. Count + 1
  BY <1>1, Parts, Booting DEF Count
<1> QED
  BY <1>2, <1>3, <1>4, InvNext DEF BootParts

\* A step that touches neither the boot nor the routes.
LEMMA BootPartsStay ==
  ASSUME Inv, UNCHANGED <<bootVars, routes, provisioning>>
  PROVE  BootParts' /\ at' \in 1 .. Count + 1 /\ routes' \in Seq(Names) /\ UNCHANGED at
<1>1. UNCHANGED <<at, up, faults, routes, provisioning>>
  BY DEF bootVars
<1>2. Outcomes' /\ Registered'
  BY <1>1 DEF Inv, Outcomes, Registered
<1>3. TableInOrder'
  BY <1>1 DEF Inv, TableInOrder
<1> QED
  BY <1>1, <1>2, <1>3 DEF Inv, BootParts, Types

LEMMA RequestKeeps ==
  ASSUME Inv, Reboot \/ Provision
  PROVE  Inv'
<1> USE Parts
<1>1. /\ UNCHANGED <<bootVars, routes, provisioning, slotVars, otaVars>>
      /\ reboot' = reboot \/ reboot' = TRUE
  BY DEF Reboot, Provision
<1>2. reboot => reboot'
  <2>1. CASE reboot' = reboot
    BY <2>1
  <2>2. CASE reboot' = TRUE
    BY <2>2
  <2> QED
    BY <1>1, <2>1, <2>2
<1>3. SlotParts' /\ SlotTypes'
  BY <1>1, <1>2, BootPartsStay, SlotsStay DEF SlotTypes, slotVars
<1> QED
  BY <1>1, <1>3, BootPartsStay, InvNext

LEMMA GivesUpKeeps ==
  ASSUME Inv, GivesUp
  PROVE  Inv'
<1> USE Parts
<1>1. OpensPortal /\ UNCHANGED <<bootVars, slotVars, otaVars, reboot>> /\ at > 17
  BY DEF GivesUp, Elsewhere, BootParts, Outcomes
<1>2. TableInOrder' /\ Registered' /\ routes' \in Seq(Names)
  <2>1. at' \in Nat /\ at' > 17 /\ at' >= at /\ up' \cap Servers \subseteq up
    BY <1>1 DEF bootVars, Types, Count
  <2> QED
    BY <1>1, <2>1, PortalOpens DEF BootParts
<1>3. SlotParts' /\ SlotTypes'
  BY <1>1, SlotsStay DEF SlotTypes, slotVars, bootVars
<1> QED
  BY <1>1, <1>2, <1>3, InvNext DEF BootParts, Outcomes, bootVars, Types

LEMMA NextKeeps == Inv /\ [Next]_vars => Inv'
<1> SUFFICES ASSUME Inv, [Next]_vars PROVE Inv'
  OBVIOUS
<1>1. CASE BootStep
  BY <1>1, BootStepKeeps
<1>2. CASE GivesUp
  BY <1>2, GivesUpKeeps
<1>3. CASE Crash \/ Loops \/ Restarts
  BY <1>3, RestartKeeps DEF Crash, Loops, Restarts
<1>4. CASE Reboot \/ Provision
  BY <1>4, RequestKeeps
<1>5. CASE UploadBegin \/ UploadFails \/ UploadEnd \/ SetBoot \/ ScheduleRestart
  <2>1. SlotParts' /\ SlotTypes' /\ UNCHANGED <<bootVars, netVars>>
    BY <1>5, Parts, Uploading
  <2> QED
    BY <2>1, BootPartsStay, InvNext DEF netVars
<1>6. CASE UNCHANGED vars
  <2>1. UNCHANGED <<bootVars, netVars, slotVars, otaVars, reboot>>
    BY <1>6 DEF vars
  <2>2. SlotParts' /\ SlotTypes'
    BY <2>1, Parts, BootPartsStay, SlotsStay DEF SlotTypes, slotVars, netVars
  <2> QED
    BY <2>1, <2>2, BootPartsStay, InvNext DEF netVars
<1> QED
  BY <1>1, <1>2, <1>3, <1>4, <1>5, <1>6 DEF Next

LEMMA InitInv == Init => Inv
<1> SUFFICES ASSUME Init PROVE Inv
  OBVIOUS
<1>1. Types
  BY DEF Init, Types, Slots, Count
<1>2. Outcomes /\ TableInOrder /\ Registered
  BY DEF Init, Outcomes, TableInOrder, Registered
<1>3. Fallback /\ RunningImage /\ Updating /\ BusyWhileUpdating
  BY DEF Init, Fallback, RunningImage, Updating, BusyWhileUpdating, Slots
<1> QED
  BY <1>1, <1>2, <1>3 DEF Inv

-----------------------------------------------------------------------------
(* The theorems.                                                             *)

\* The inductive invariant: the outcomes of the boot's steps, the order of the route
\* table, what the bootloader falls back to, and how far an update has come.
THEOREM BootInvariant == Spec => []Inv
BY InitInv, NextKeeps, PTL DEF Spec

\* Whatever is uploaded, interrupted or rolled back, the slot the bootloader tries is
\* complete, and one slot keeps an image that came to the end of its boot before.
THEOREM ProvenImageStays == Spec => []ProvenImageKept
<1>1. Inv => ProvenImageKept
  BY OtherSlot DEF Inv, Types, Fallback, Proven, ProvenImageKept
<1> QED
  BY <1>1, BootInvariant, PTL

\* in_progress_ is up exactly while an update runs or its restart is due, unless the
\* scheduler had no room for the restart.
THEOREM UpdatesAreNotShutOut == Spec => []BusyWhileUpdating
<1>1. Inv => BusyWhileUpdating
  BY DEF Inv
<1> QED
  BY <1>1, BootInvariant, PTL

\* Once booted, the API, the upload and the socket answer at their paths unless their
\* own registration failed, whether the portal opened at once, later or never.
THEOREM RoutesGetAnswered == Spec => []RoutesAnswer
<1>1. ASSUME Inv, Booted,
             NEW p \in {<<"routes", "api">>, <<"ota", "upload">>, <<"webui", "ws">>},
             {"rest", p[1]} \cap faults = {}
      PROVE  \E i \in DOMAIN routes :
               routes[i] = p[2] /\ \A j \in 1 .. i - 1 : ~Matches(routes[j], p[2])
  <2>1. at = 24
    BY <1>1, OrderLength DEF Inv, Types, Booted, Count
  <2>2. "rest" \in up
    BY <1>1, <2>1 DEF Inv, Outcomes
  <2>3. p[2] \in Range(routes) /\ p[2] \in {"api", "upload", "ws"}
    <3>1. CASE p = <<"routes", "api">>
      BY <1>1, <2>1, <2>2, <3>1 DEF Inv, Outcomes, Registered
    <3>2. CASE p = <<"ota", "upload">>
      BY <1>1, <2>1, <2>2, <3>2 DEF Inv, Outcomes, Registered
    <3>3. CASE p = <<"webui", "ws">>
      BY <1>1, <2>1, <2>2, <3>3 DEF Inv, Outcomes, Registered
    <3> QED
      BY <1>1, <3>1, <3>2, <3>3
  <2>4. PICK i \in 1 .. Len(routes) : routes[i] = p[2]
    BY <1>1, <2>3 DEF Range, Inv, Types
  <2>5. ASSUME NEW j \in 1 .. i - 1 PROVE ~Matches(routes[j], p[2])
    <3>1. /\ j \in DOMAIN routes /\ i \in DOMAIN routes /\ j # i /\ j # Len(routes)
      BY <1>1, <2>4 DEF Inv, Types
    <3>2. routes[j] # p[2] /\ routes[j] # "any"
      BY <1>1, <2>4, <3>1 DEF Inv, TableInOrder
    <3> QED
      BY <2>3, <3>2 DEF Matches
  <2> QED
    BY <1>1, <2>4, <2>5 DEF Inv, Types
<1>2. Inv => RoutesAnswer
  BY <1>1 DEF RoutesAnswer
<1> QED
  BY <1>2, BootInvariant, PTL
=============================================================================
