--------------------------- MODULE EventBusProofs ---------------------------
(***************************************************************************)
(* Proofs about EventBus for every number of publishers, slots, topics and *)
(* every depth of the queue.                                               *)
(***************************************************************************)
EXTENDS EventBus, FiniteSetTheorems, TLAPS

LEMMA InitTypeOK == Init => TypeOK
<1> SUFFICES ASSUME Init PROVE TypeOK
  OBVIOUS
<1>1. (CHOOSE t \in Topics : TRUE) \in Topics
  BY BusAssumption
<1>2. queue \in Seq(Event) /\ Len(queue) <= QueueDepth
  BY BusAssumption DEF Init
<1> QED
  BY <1>1, <1>2, BusAssumption DEF Init, TypeOK, SubId, Tickets

\* Facts about the queue that the steps below use.
LEMMA QueueTail ==
  ASSUME NEW q \in Seq(Event), q # <<>>
  PROVE  /\ Head(q) \in Event
         /\ Head(q) = q[1]
         /\ Tail(q) \in Seq(Event)
         /\ Len(Tail(q)) = Len(q) - 1
         /\ \A i \in 1 .. Len(Tail(q)) : Tail(q)[i] = q[i + 1]
OBVIOUS

LEMMA QueueAppend ==
  ASSUME NEW q \in Seq(Event), NEW e \in Event
  PROVE  /\ Append(q, e) \in Seq(Event)
         /\ Len(Append(q, e)) = Len(q) + 1
         /\ \A i \in 1 .. Len(q) : Append(q, e)[i] = q[i]
         /\ Append(q, e)[Len(q) + 1] = e
OBVIOUS

LEMMA NewEventType ==
  ASSUME TypeOK, NEW p \in Publishers, NEW topic \in Topics, published[p] < MaxPublish
  PROVE  /\ NewEvent(p, topic) \in Event
         /\ NewEvent(p, topic).from = p
         /\ NewEvent(p, topic).no = published[p] + 1
         /\ published[p] + 1 \in 0 .. MaxPublish
  BY BusAssumption DEF TypeOK, NewEvent, Event

LEMMA StepTypeOK == TypeOK /\ OrderInv /\ [Next]_vars => TypeOK'
<1> SUFFICES ASSUME TypeOK, OrderInv, [Next]_vars PROVE TypeOK'
  OBVIOUS
<1> USE BusAssumption
<1>1. ASSUME NEW p \in Publishers, NEW topic \in Topics, PublishSend(p, topic) PROVE TypeOK'
  <2>1. NewEvent(p, topic) \in Event /\ published[p] + 1 \in 0 .. MaxPublish
    BY <1>1, NewEventType DEF PublishSend, StartCall
  <2>2. CASE ~Full
    <3>0. queue \in Seq(Event) /\ queue' = Append(queue, NewEvent(p, topic))
      BY <1>1, <2>2 DEF TypeOK, PublishSend
    <3>1. queue' \in Seq(Event) /\ Len(queue') = Len(queue) + 1
      BY <3>0, <2>1, QueueAppend
    <3>2. Len(queue') <= QueueDepth
      BY <3>1, <2>2 DEF TypeOK, Full
    <3> QED
      BY <1>1, <2>1, <2>2, <3>1, <3>2
      DEF TypeOK, PublishSend, StartCall, dispVars, subVars
  <2>3. CASE Full
    BY <1>1, <2>1, <2>3 DEF TypeOK, PublishSend, StartCall, dispVars, subVars
  <2> QED
    BY <2>2, <2>3
<1>2. ASSUME NEW p \in Publishers, NEW topic \in Topics, PublishFromIsr(p, topic) PROVE TypeOK'
  <2>1. NewEvent(p, topic) \in Event /\ published[p] + 1 \in 0 .. MaxPublish
    BY <1>2, NewEventType DEF PublishFromIsr, StartCall
  <2>2. CASE ~Full
    <3>0. queue \in Seq(Event) /\ queue' = Append(queue, NewEvent(p, topic))
      BY <1>2, <2>2 DEF TypeOK, PublishFromIsr
    <3>1. queue' \in Seq(Event) /\ Len(queue') = Len(queue) + 1
      BY <3>0, <2>1, QueueAppend
    <3>2. Len(queue') <= QueueDepth
      BY <3>1, <2>2 DEF TypeOK, Full
    <3> QED
      BY <1>2, <2>1, <2>2, <3>1, <3>2
      DEF TypeOK, PublishFromIsr, StartCall, dispVars, subVars
  <2>3. CASE Full
    BY <1>2, <2>1, <2>3 DEF TypeOK, PublishFromIsr, StartCall, dispVars, subVars
  <2> QED
    BY <2>2, <2>3
<1>3. ASSUME NEW p \in Publishers, PublishEvict(p) PROVE TypeOK'
  <2>1. queue' \in Seq(Event) /\ Len(queue') <= QueueDepth
    BY <1>3, QueueTail DEF TypeOK, PublishEvict
  <2> QED
    BY <1>3, <2>1 DEF TypeOK, PublishEvict, dispVars, subVars
<1>4. ASSUME NEW p \in Publishers, PublishRetry(p) PROVE TypeOK'
  <2>1. offer[p] \in Event
    BY <1>4 DEF TypeOK, OrderInv, OfferOrder, PublishRetry
  <2>2. CASE Full
    BY <1>4, <2>2 DEF TypeOK, PublishRetry, dispVars, subVars
  <2>3. CASE ~Full
    <3>1. queue \in Seq(Event) /\ queue' = Append(queue, offer[p])
      BY <1>4, <2>3 DEF TypeOK, PublishRetry
    <3>2. queue' \in Seq(Event) /\ Len(queue') = Len(queue) + 1
      BY <3>1, <2>1, QueueAppend
    <3>3. Len(queue') <= QueueDepth
      BY <3>2, <2>3 DEF TypeOK, Full
    <3> QED
      BY <1>4, <2>3, <3>2, <3>3 DEF TypeOK, PublishRetry, dispVars, subVars
  <2> QED
    BY <2>2, <2>3
<1>5. ASSUME NEW topic \in Topics, Subscribe(topic) PROVE TypeOK'
  <2>1. PICK s \in Slots : /\ subs[s].gen < MaxGen
                           /\ subs' = [subs EXCEPT ![s] = [active |-> TRUE, topic |-> topic,
                                                           gen |-> @.gen + 1]]
                           /\ held' = held \cup {<<s, subs[s].gen + 1>>}
                           /\ UNCHANGED <<queue, dropped, pubVars, dispVars>>
    BY <1>5 DEF Subscribe
  <2>2. subs[s].gen + 1 \in 1 .. MaxGen
    BY <2>1 DEF TypeOK
  <2> QED
    BY <2>1, <2>2 DEF TypeOK, SubId, pubVars, dispVars
<1>6. ASSUME NEW id \in SubId, Unsubscribe(id) PROVE TypeOK'
  BY <1>6 DEF TypeOK, Unsubscribe, SubId, pubVars, dispVars
<1>7. CASE Receive
  <2>1. queue' \in Seq(Event) /\ Len(queue') <= QueueDepth /\ dispEvent' \in Event
    BY <1>7, QueueTail DEF TypeOK, Receive
  <2> QED
    BY <1>7, <2>1 DEF TypeOK, Receive, pubVars, subVars
<1>8. CASE Snapshot
  BY <1>8 DEF TypeOK, Snapshot, pubVars, subVars
<1>9. CASE Invoke
  <2>1. dispEvent \in Event
    BY <1>9 DEF TypeOK, OrderInv, DispatchOrder, Invoke
  <2>2. Ticket(dispEvent) \in Tickets
    BY <2>1 DEF Event, Ticket, Tickets
  <2>3. PICK id \in todo : /\ todo' = todo \ {id}
                          /\ calls' = calls \cup {[sub |-> id, of |-> Ticket(dispEvent),
                                                  late |-> ~Live(id)]}
    BY <1>9 DEF Invoke
  <2>4. (~Live(id)) \in BOOLEAN
    OBVIOUS
  <2>5. [sub |-> id, of |-> Ticket(dispEvent), late |-> ~Live(id)]
          \in [sub : SubId, of : Tickets, late : BOOLEAN]
    BY <2>2, <2>4 DEF TypeOK
  <2> QED
    BY <1>9, <2>3, <2>5 DEF TypeOK, Invoke, pubVars, subVars
<1>10. CASE Finish
  <2>1. dispEvent \in Event
    BY <1>10 DEF TypeOK, OrderInv, DispatchOrder, Finish
  <2>2. Ticket(dispEvent) \in Tickets
    BY <2>1 DEF Event, Ticket, Tickets
  <2> QED
    BY <1>10, <2>2 DEF TypeOK, Finish, pubVars, subVars
<1>11. CASE UNCHANGED vars
  BY <1>11 DEF TypeOK, vars
<1> QED
  BY <1>1, <1>2, <1>3, <1>4, <1>5, <1>6, <1>7, <1>8, <1>9, <1>10, <1>11
  DEF Next, InPublish, Dispatcher

-----------------------------------------------------------------------------
LEMMA InitOrderInv == Init => OrderInv
  BY BusAssumption
  DEF Init, OrderInv, OfferOrder, QueueOrder, DispatchOrder, DeliveredOrder

LEMMA EventFields ==
  ASSUME NEW e \in Event
  PROVE  /\ e.from \in Publishers /\ e.no \in Nat /\ e.no \in 1 .. MaxPublish
         /\ Ticket(e) = <<e.from, e.no>> /\ Ticket(e) \in Tickets
         /\ e # NoEvent
  BY BusAssumption DEF Event, Ticket, Tickets

LEMMA QueueEvents ==
  ASSUME TypeOK
  PROVE  /\ Len(queue) \in Nat
         /\ \A i \in 1 .. Len(queue) :
              queue[i] \in Event /\ queue[i].from \in Publishers /\ queue[i].no \in Nat
<1>1. Len(queue) \in Nat /\ \A i \in 1 .. Len(queue) : queue[i] \in Event
  BY DEF TypeOK
<1> QED
  BY <1>1, EventFields

\* The order survives when the last publication of a publisher whose call
\* returns in this step is put at the end of the queue.
LEMMA AppendOrder ==
  ASSUME TypeOK, OrderInv, NEW e \in Event,
         queue' = Append(queue, e),
         UNCHANGED <<dispPc, dispEvent, delivered>>,
         \A p \in Publishers, n \in Nat : Returned(p, n) => Returned(p, n)',
         Returned(e.from, e.no)',
         \A n \in Nat : Returned(e.from, n) => n < e.no
  PROVE  QueueOrder' /\ DispatchOrder' /\ DeliveredOrder'
<1>1. /\ Len(queue') = Len(queue) + 1 /\ Len(queue) \in Nat
      /\ \A i \in 1 .. Len(queue) : /\ queue'[i] = queue[i]
                                    /\ queue[i].from \in Publishers /\ queue[i].no \in Nat
      /\ queue'[Len(queue) + 1] = e
      /\ e.from \in Publishers /\ e.no \in Nat
  BY QueueEvents, QueueAppend, EventFields DEF TypeOK
<1>2. QueueOrder'
  BY <1>1 DEF OrderInv, QueueOrder
<1>3. DispatchOrder'
  <2>1. dispEvent # NoEvent => dispEvent.from \in Publishers /\ dispEvent.no \in Nat
    BY EventFields DEF TypeOK
  <2> QED
    BY <1>1, <2>1 DEF OrderInv, DispatchOrder
<1>4. DeliveredOrder'
  <2>1. \A t \in delivered : t[1] \in Publishers /\ t[2] \in Nat
    BY DEF TypeOK, Tickets
  <2> QED
    BY <1>1, <2>1 DEF OrderInv, DeliveredOrder
<1> QED
  BY <1>2, <1>3, <1>4

\* The order survives when events are only taken from the head of the queue.
LEMMA TailOrder ==
  ASSUME TypeOK, OrderInv,
         queue' = queue \/ (queue # <<>> /\ queue' = Tail(queue)),
         UNCHANGED <<dispPc, dispEvent, delivered>>,
         \A p \in Publishers, n \in Nat : Returned(p, n) => Returned(p, n)'
  PROVE  QueueOrder' /\ DispatchOrder' /\ DeliveredOrder'
<1>1. PICK k \in {0, 1} :
        /\ Len(queue') = Len(queue) - k /\ Len(queue) \in Nat /\ Len(queue') \in Nat
        /\ \A i \in 1 .. Len(queue') : /\ queue'[i] = queue[i + k] /\ i + k \in 1 .. Len(queue)
                                       /\ queue'[i].from \in Publishers /\ queue'[i].no \in Nat
  <2>1. CASE queue' = queue
    BY <2>1, QueueEvents
  <2>2. CASE queue # <<>> /\ queue' = Tail(queue)
    <3>1. /\ queue \in Seq(Event) /\ Len(queue') = Len(queue) - 1 /\ Len(queue') \in Nat
          /\ \A i \in 1 .. Len(queue') : queue'[i] = queue[i + 1]
      BY <2>2, QueueTail DEF TypeOK
    <3> QED
      BY <3>1, QueueEvents
  <2> QED
    BY <2>1, <2>2
<1>2. QueueOrder'
  <2>1. ASSUME NEW i \in 1 .. Len(queue') PROVE Returned(queue[i].from, queue[i].no)'
    <3>1. Returned(queue[i + k].from, queue[i + k].no)
      BY <1>1 DEF OrderInv, QueueOrder
    <3> QED
      BY <1>1, <3>1
  <2>2. ASSUME NEW i \in 1 .. Len(queue'), NEW j \in 1 .. Len(queue'), i < j,
               queue'[i].from = queue'[j].from
        PROVE  queue'[i].no < queue'[j].no
    <3>1. i + k \in 1 .. Len(queue) /\ j + k \in 1 .. Len(queue) /\ i + k < j + k
      BY <1>1, <2>2
    <3> QED
      BY <1>1, <2>2, <3>1 DEF OrderInv, QueueOrder
  <2> QED
    BY <2>1, <2>2 DEF QueueOrder
<1>3. DispatchOrder'
  <2>1. dispEvent # NoEvent => dispEvent.from \in Publishers /\ dispEvent.no \in Nat
    BY EventFields DEF TypeOK
  <2> QED
    BY <1>1, <2>1 DEF OrderInv, DispatchOrder
<1>4. DeliveredOrder'
  <2>1. \A t \in delivered : t[1] \in Publishers /\ t[2] \in Nat
    BY DEF TypeOK, Tickets
  <2> QED
    BY <1>1, <2>1 DEF OrderInv, DeliveredOrder
<1> QED
  BY <1>2, <1>3, <1>4

LEMMA StepOrderInv == TypeOK /\ OrderInv /\ [Next]_vars => OrderInv'
<1> SUFFICES ASSUME TypeOK, OrderInv, [Next]_vars PROVE OrderInv'
  OBVIOUS
<1> USE BusAssumption
<1>0. TypeOK'
  BY StepTypeOK
<1>1. ASSUME NEW p \in Publishers, NEW topic \in Topics,
             PublishSend(p, topic) \/ PublishFromIsr(p, topic)
      PROVE  OrderInv'
  <2>0. PICK e \in Event : e = NewEvent(p, topic)
    BY <1>1, NewEventType DEF PublishSend, PublishFromIsr, StartCall
  <2>1. /\ StartCall(p) /\ UNCHANGED <<dispPc, dispEvent, delivered>>
        /\ pc[p] = "idle" /\ offer[p] = NoEvent
        /\ published' = [published EXCEPT ![p] = @ + 1]
    BY <1>1 DEF PublishSend, PublishFromIsr, StartCall, dispVars, OrderInv, OfferOrder
  <2>2. /\ e \in Event /\ e.from = p /\ e.no = published[p] + 1
        /\ Ticket(e) = <<p, published[p] + 1>> /\ published[p] \in Nat
    BY <2>0, <2>1, NewEventType DEF StartCall, TypeOK, Ticket
  <2>3. CASE queue' = Append(queue, e) /\ UNCHANGED <<pc, offer>>
    <3>1. OfferOrder'
      BY <2>1, <2>2, <2>3 DEF OrderInv, OfferOrder, TypeOK
    <3>2. \A q \in Publishers, n \in Nat : Returned(q, n) => Returned(q, n)'
      BY <2>1, <2>3 DEF TypeOK, Returned
    <3>3. Returned(e.from, e.no)' /\ \A n \in Nat : Returned(e.from, n) => n < e.no
      BY <2>1, <2>2, <2>3 DEF TypeOK, Returned
    <3> QED
      BY <2>1, <2>2, <2>3, <3>1, <3>2, <3>3, AppendOrder DEF OrderInv
  <2>4. CASE queue' = queue /\ UNCHANGED <<pc, offer>>
    <3>1. OfferOrder'
      BY <2>1, <2>2, <2>4 DEF OrderInv, OfferOrder, TypeOK
    <3>2. \A q \in Publishers, n \in Nat : Returned(q, n) => Returned(q, n)'
      BY <2>1, <2>4 DEF TypeOK, Returned
    <3> QED
      BY <2>1, <2>4, <3>1, <3>2, TailOrder DEF OrderInv
  <2>5. CASE /\ queue' = queue
             /\ pc' = [pc EXCEPT ![p] = "evict"] /\ offer' = [offer EXCEPT ![p] = e]
    <3>1. OfferOrder'
      BY <2>1, <2>2, <2>5, EventFields DEF OrderInv, OfferOrder, TypeOK
    <3>2. \A q \in Publishers, n \in Nat : Returned(q, n) => Returned(q, n)'
      BY <2>1, <2>5 DEF TypeOK, Returned
    <3> QED
      BY <2>1, <2>5, <3>1, <3>2, TailOrder DEF OrderInv
  <2> QED
    BY <1>1, <2>0, <2>3, <2>4, <2>5 DEF PublishSend, PublishFromIsr
<1>2. ASSUME NEW p \in Publishers, PublishEvict(p) PROVE OrderInv'
  <2>1. OfferOrder'
    BY <1>2 DEF OrderInv, OfferOrder, TypeOK, PublishEvict
  <2>2. \A q \in Publishers, n \in Nat : Returned(q, n) => Returned(q, n)'
    BY <1>2 DEF TypeOK, Returned, PublishEvict
  <2>3. /\ queue' = queue \/ (queue # <<>> /\ queue' = Tail(queue))
        /\ UNCHANGED <<dispPc, dispEvent, delivered>>
    BY <1>2 DEF PublishEvict, dispVars
  <2> QED
    BY <2>1, <2>2, <2>3, TailOrder DEF OrderInv
<1>3. ASSUME NEW p \in Publishers, PublishRetry(p) PROVE OrderInv'
  <2>0. PICK e \in Event : e = offer[p]
    BY <1>3 DEF PublishRetry, OrderInv, OfferOrder, TypeOK
  <2>1. /\ pc[p] = "retry" /\ pc' = [pc EXCEPT ![p] = "idle"]
        /\ offer' = [offer EXCEPT ![p] = NoEvent]
        /\ UNCHANGED <<published, dispPc, dispEvent, delivered>>
    BY <1>3 DEF PublishRetry, dispVars
  <2>2. e \in Event /\ Ticket(e) = <<p, published[p]>> /\ published[p] \in Nat
    BY <2>0, <2>1 DEF OrderInv, OfferOrder, TypeOK
  <2>3. e.from = p /\ e.no = published[p]
    BY <2>2 DEF Ticket
  <2>4. OfferOrder'
    BY <2>1 DEF OrderInv, OfferOrder, TypeOK
  <2>5. \A q \in Publishers, n \in Nat : Returned(q, n) => Returned(q, n)'
    BY <2>1 DEF TypeOK, Returned
  <2>6. CASE queue' = queue
    BY <2>1, <2>4, <2>5, <2>6, TailOrder DEF OrderInv
  <2>7. CASE queue' = Append(queue, e)
    <3>1. Returned(e.from, e.no)' /\ \A n \in Nat : Returned(e.from, n) => n < e.no
      BY <2>1, <2>2, <2>3 DEF TypeOK, Returned
    <3> QED
      BY <2>1, <2>4, <2>5, <2>7, <3>1, AppendOrder DEF OrderInv
  <2> QED
    BY <1>3, <2>0, <2>6, <2>7 DEF PublishRetry
<1>4. CASE Receive
  <2>0. PICK e \in Event : queue # <<>> /\ e = queue[1]
    BY <1>4, QueueTail DEF Receive, TypeOK
  <2>1. /\ queue # <<>> /\ dispEvent = NoEvent /\ dispPc' = "snapshot" /\ dispEvent' = e
        /\ queue' = Tail(queue) /\ UNCHANGED <<pc, offer, published, delivered>>
    BY <1>4, <2>0, QueueTail DEF Receive, pubVars, OrderInv, DispatchOrder, TypeOK
  <2>2. /\ Len(queue) \in Nat /\ 1 \in 1 .. Len(queue) /\ Len(queue') = Len(queue) - 1
        /\ \A i \in 1 .. Len(queue') : queue'[i] = queue[i + 1] /\ i + 1 \in 1 .. Len(queue)
        /\ e \in Event /\ e # NoEvent
    BY <2>0, <2>1, QueueTail, QueueEvents, EventFields DEF TypeOK
  <2>3. \A q \in Publishers, n \in Nat : Returned(q, n)' <=> Returned(q, n)
    BY <2>1 DEF Returned
  <2>4. OfferOrder'
    BY <2>1 DEF OrderInv, OfferOrder
  <2>5. QueueOrder'
    <3>1. ASSUME NEW i \in 1 .. Len(queue') PROVE Returned(queue[i].from, queue[i].no)'
      BY <2>1, <2>2, <2>3, QueueEvents DEF OrderInv, QueueOrder
    <3>2. ASSUME NEW i \in 1 .. Len(queue'), NEW j \in 1 .. Len(queue'), i < j,
                 queue'[i].from = queue'[j].from
          PROVE  queue'[i].no < queue'[j].no
      <4>1. i + 1 \in 1 .. Len(queue) /\ j + 1 \in 1 .. Len(queue) /\ i + 1 < j + 1
        BY <2>2, <3>2
      <4> QED
        BY <2>2, <3>2, <4>1 DEF OrderInv, QueueOrder
    <3> QED
      BY <3>1, <3>2 DEF QueueOrder
  <2>6. DispatchOrder'
    <3>1. Returned(e.from, e.no)'
      BY <2>0, <2>2, <2>3, EventFields DEF OrderInv, QueueOrder
    <3>2. ASSUME NEW i \in 1 .. Len(queue'), queue'[i].from = e.from PROVE e.no < queue'[i].no
      <4>1. i + 1 \in 1 .. Len(queue) /\ 1 < i + 1
        BY <2>2
      <4> QED
        BY <2>0, <2>2, <3>2, <4>1 DEF OrderInv, QueueOrder
    <3> QED
      BY <2>1, <2>2, <3>1, <3>2 DEF DispatchOrder
  <2>7. DeliveredOrder'
    <3>1. \A t \in delivered : t[1] \in Publishers /\ t[2] \in Nat
      BY DEF TypeOK, Tickets
    <3> QED
      BY <2>0, <2>1, <2>2, <2>3, <3>1 DEF OrderInv, DeliveredOrder
  <2> QED
    BY <2>4, <2>5, <2>6, <2>7 DEF OrderInv
<1>5. CASE Finish
  <2>1. /\ dispEvent \in Event /\ dispEvent # NoEvent
        /\ Ticket(dispEvent) = <<dispEvent.from, dispEvent.no>>
    BY <1>5, EventFields DEF Finish, OrderInv, DispatchOrder, TypeOK
  <2>2. /\ UNCHANGED <<queue, pc, offer, published>>
        /\ dispPc' = "wait" /\ dispEvent' = NoEvent
        /\ delivered' = delivered \cup {<<dispEvent.from, dispEvent.no>>}
    BY <1>5, <2>1 DEF Finish, pubVars
  <2>3. OfferOrder' /\ QueueOrder' /\ DispatchOrder'
    BY <2>2 DEF OrderInv, OfferOrder, QueueOrder, DispatchOrder, Returned
  <2>4. DeliveredOrder'
    BY <2>1, <2>2 DEF OrderInv, DeliveredOrder, DispatchOrder, Returned
  <2> QED
    BY <2>3, <2>4 DEF OrderInv
<1>6. CASE \/ Snapshot \/ Invoke \/ UNCHANGED vars
           \/ \E topic \in Topics : Subscribe(topic)
           \/ \E id \in SubId : Unsubscribe(id)
  <2>1. UNCHANGED <<queue, pc, offer, published, dispEvent, delivered>>
    BY <1>6 DEF Snapshot, Invoke, Subscribe, Unsubscribe, vars, pubVars, dispVars
  <2>2. dispPc' # "wait" <=> dispPc # "wait"
    BY <1>6 DEF Snapshot, Invoke, Subscribe, Unsubscribe, vars, dispVars
  <2> QED
    BY <2>1, <2>2
    DEF OrderInv, OfferOrder, QueueOrder, DispatchOrder, DeliveredOrder, Returned
<1> QED
  BY <1>1, <1>2, <1>3, <1>4, <1>5, <1>6 DEF Next, InPublish, Dispatcher

\* The types of the state and the order of publications are invariant: no
\* interleaving of the three queue operations of publish() with other
\* publishers and the dispatcher reorders one publisher's events.
THEOREM BusOrder == Spec => [](TypeOK /\ OrderInv)
<1>1. Init => TypeOK /\ OrderInv
  BY InitTypeOK, InitOrderInv
<1>2. TypeOK /\ OrderInv /\ [Next]_vars => (TypeOK /\ OrderInv)'
  BY StepTypeOK, StepOrderInv
<1> QED
  BY <1>1, <1>2, PTL DEF Spec

-----------------------------------------------------------------------------
(* The subscription table.                                                   *)

LEMMA StepHandles == TypeOK /\ HandlesOwnTheirSlot /\ [Next]_vars => HandlesOwnTheirSlot'
<1> SUFFICES ASSUME TypeOK, HandlesOwnTheirSlot, [Next]_vars PROVE HandlesOwnTheirSlot'
  OBVIOUS
<1>1. ASSUME NEW topic \in Topics, Subscribe(topic) PROVE HandlesOwnTheirSlot'
  <2>1. PICK s \in Slots : /\ ~subs[s].active
                           /\ subs' = [subs EXCEPT ![s] = [active |-> TRUE, topic |-> topic,
                                                           gen |-> @.gen + 1]]
                           /\ held' = held \cup {<<s, subs[s].gen + 1>>}
    BY <1>1 DEF Subscribe, FirstFree
  <2>2. ASSUME NEW id \in SubId, id[1] # s PROVE id \in held' <=> Live(id)'
    <3>1. id[1] \in Slots /\ id # <<s, subs[s].gen + 1>>
      BY <2>2 DEF SubId
    <3>2. subs'[id[1]] = subs[id[1]]
      BY <2>1, <2>2, <3>1 DEF TypeOK
    <3>3. id \in held' <=> id \in held
      BY <2>1, <3>1
    <3> QED
      BY <3>2, <3>3 DEF HandlesOwnTheirSlot, Live
  <2>3. ASSUME NEW id \in SubId, id[1] = s PROVE id \in held' <=> Live(id)'
    <3>1. id \notin held
      BY <2>1, <2>3 DEF HandlesOwnTheirSlot, Live
    <3>2. id = <<s, id[2]>> /\ id[2] \in Nat
      BY <2>3 DEF SubId
    <3>3. subs'[s].active /\ subs'[s].gen = subs[s].gen + 1
      BY <2>1 DEF TypeOK
    <3> QED
      BY <2>1, <2>3, <3>1, <3>2, <3>3 DEF Live
  <2> QED
    BY <2>2, <2>3 DEF HandlesOwnTheirSlot
<1>2. ASSUME NEW id \in SubId, Unsubscribe(id) PROVE HandlesOwnTheirSlot'
  <2>1. /\ subs' = IF Live(id) THEN [subs EXCEPT ![id[1]].active = FALSE] ELSE subs
        /\ held' = held \ {id}
    BY <1>2 DEF Unsubscribe
  <2>2. ASSUME NEW other \in SubId PROVE other \in held' <=> Live(other)'
    <3>1. CASE Live(id)
      <4>1. other[1] = id[1] /\ other # id => ~Live(other) /\ ~Live(other)'
        <5>1. ASSUME other[1] = id[1], other # id PROVE other[2] # id[2]
          BY <5>1 DEF SubId
        <5>2. id[1] \in Slots /\ subs'[id[1]].gen = subs[id[1]].gen /\ subs[id[1]].gen = id[2]
          BY <2>1, <3>1 DEF Live, SubId, TypeOK
        <5> QED
          BY <5>1, <5>2 DEF Live
      <4>2. ~Live(id)'
        BY <2>1, <3>1 DEF Live, SubId, TypeOK
      <4>3. other[1] # id[1] => (Live(other)' <=> Live(other))
        BY <2>1, <3>1 DEF Live, SubId, TypeOK
      <4> QED
        BY <2>1, <4>1, <4>2, <4>3 DEF HandlesOwnTheirSlot
    <3>2. CASE ~Live(id)
      BY <2>1, <3>2 DEF HandlesOwnTheirSlot, Live
    <3> QED
      BY <3>1, <3>2
  <2> QED
    BY <2>2 DEF HandlesOwnTheirSlot
<1>3. CASE UNCHANGED subVars
  BY <1>3 DEF subVars, HandlesOwnTheirSlot, Live
<1> QED
  BY <1>1, <1>2, <1>3
  DEF Next, PublishSend, PublishFromIsr, InPublish, PublishEvict, PublishRetry,
      Dispatcher, Receive, Snapshot, Invoke, Finish, vars, subVars

\* A subscription stays in the table exactly until its own handle is given
\* back, however many stale handles of its slot are given to unsubscribe().
THEOREM HandlesAreSafe == Spec => []HandlesOwnTheirSlot
<1>1. Init => HandlesOwnTheirSlot
  BY DEF Init, HandlesOwnTheirSlot, Live, SubId
<1> QED
  BY <1>1, BusOrder, StepHandles, PTL DEF Spec

-----------------------------------------------------------------------------
(* Late calls.  Once a subscription is gone it is never in a snapshot again, *)
(* and it leaves the current one with its first late call.                   *)

Gone(id) == Issued(id) /\ ~Live(id)

LateInv ==
  /\ dispPc # "invoke" => todo = {}
  /\ \A id \in todo : Issued(id)
  /\ \A c \in calls : c.late => Gone(c.sub) /\ c.sub \notin todo
  /\ AtMostOneLateCall

LEMMA GoneForGood ==
  ASSUME TypeOK, [Next]_vars, NEW id \in SubId
  PROVE  (Issued(id) => Issued(id)') /\ (Gone(id) => Gone(id)')
<1>1. ASSUME NEW topic \in Topics, Subscribe(topic)
      PROVE  (Issued(id) => Issued(id)') /\ (Gone(id) => Gone(id)')
  <2>1. PICK s \in Slots : subs' = [subs EXCEPT ![s] = [active |-> TRUE, topic |-> topic,
                                                        gen |-> @.gen + 1]]
    BY <1>1 DEF Subscribe
  <2> QED
    BY <2>1 DEF Gone, Issued, Live, TypeOK, SubId
<1>2. ASSUME NEW other \in SubId, Unsubscribe(other)
      PROVE  (Issued(id) => Issued(id)') /\ (Gone(id) => Gone(id)')
  BY <1>2 DEF Unsubscribe, Gone, Issued, Live, TypeOK, SubId
<1>3. CASE UNCHANGED subs
  BY <1>3 DEF Gone, Issued, Live
<1> QED
  BY <1>1, <1>2, <1>3
  DEF Next, PublishSend, PublishFromIsr, InPublish, PublishEvict, PublishRetry,
      Dispatcher, Receive, Snapshot, Invoke, Finish, vars, subVars

LEMMA StepLateInv == TypeOK /\ LateInv /\ [Next]_vars => LateInv'
<1> SUFFICES ASSUME TypeOK, LateInv, [Next]_vars PROVE LateInv'
  OBVIOUS
<1>0. \A c \in calls : c.sub \in SubId
  BY DEF TypeOK
<1>00. todo \subseteq SubId
  BY DEF TypeOK
<1>1. CASE Invoke
  <2>1. PICK id \in todo : /\ todo' = todo \ {id}
                          /\ calls' = calls \cup {[sub |-> id, of |-> Ticket(dispEvent),
                                                  late |-> ~Live(id)]}
    BY <1>1 DEF Invoke
  <2>2. subs' = subs /\ dispPc = "invoke" /\ dispPc' = "invoke"
    BY <1>1 DEF Invoke, subVars
  <2>3. \A c \in calls : c.late => c.sub # id
    BY <2>1 DEF LateInv
  <2>4. AtMostOneLateCall'
    BY <2>1, <2>3 DEF LateInv, AtMostOneLateCall
  <2>5. \A c \in calls' : c.late => Gone(c.sub)' /\ c.sub \notin todo'
    <3>1. ASSUME NEW c \in calls, c.late PROVE Gone(c.sub)' /\ c.sub \notin todo'
      BY <2>1, <2>2, <3>1 DEF LateInv, Gone, Issued, Live
    <3>2. ~Live(id) => Gone(id)' /\ id \notin todo'
      BY <2>1, <2>2 DEF LateInv, Gone, Issued, Live
    <3>3. ASSUME NEW c, c = [sub |-> id, of |-> Ticket(dispEvent), late |-> ~Live(id)], c.late
          PROVE  Gone(c.sub)' /\ c.sub \notin todo'
      <4>1. c.sub = id /\ (c.late <=> ~Live(id))
        BY <3>3, Zenon
      <4> QED
        BY <3>2, <3>3, <4>1
    <3> QED
      BY <2>1, <3>1, <3>3, Zenon
  <2> QED
    BY <2>1, <2>2, <2>4, <2>5 DEF LateInv, Issued
<1>2. CASE Snapshot
  <2>1. /\ todo' = {id \in SubId : Live(id) /\ subs[id[1]].topic = dispEvent.topic}
        /\ dispPc' = "invoke" /\ UNCHANGED <<subs, calls>>
    BY <1>2 DEF Snapshot, subVars
  <2>2. \A id \in todo' : Live(id) /\ Issued(id) /\ Issued(id)'
    BY <2>1 DEF Live, Issued, TypeOK, SubId
  <2> QED
    BY <2>1, <2>2 DEF LateInv, Gone, Issued, Live, AtMostOneLateCall
<1>3. CASE Finish \/ Receive
  <2>1. todo = {} /\ todo' = todo /\ calls' = calls
    BY <1>3 DEF Finish, Receive, LateInv
  <2>2. \A c \in calls : c.late => Gone(c.sub)'
    BY <1>0, GoneForGood DEF LateInv
  <2> QED
    BY <2>1, <2>2 DEF LateInv, AtMostOneLateCall
<1>4. CASE UNCHANGED dispVars
  <2>1. \A c \in calls : c.late => Gone(c.sub)'
    BY <1>0, GoneForGood DEF LateInv
  <2>2. \A id \in todo : Issued(id)'
    BY <1>00, GoneForGood DEF LateInv
  <2> QED
    BY <1>4, <2>1, <2>2 DEF LateInv, AtMostOneLateCall, dispVars
<1> QED
  BY <1>1, <1>2, <1>3, <1>4
  DEF Next, PublishSend, PublishFromIsr, InPublish, PublishEvict, PublishRetry,
      Subscribe, Unsubscribe, Dispatcher, vars, dispVars

\* The grace period of event_bus.hpp: at most one delivery after unsubscribe().
THEOREM OneLateCall == Spec => []AtMostOneLateCall
<1>1. Init => LateInv
  BY DEF Init, LateInv, AtMostOneLateCall
<1>2. LateInv => AtMostOneLateCall
  BY DEF LateInv
<1> QED
  BY <1>1, <1>2, BusOrder, StepLateInv, PTL DEF Spec

-----------------------------------------------------------------------------
(* The bus implements its contract.                                          *)

Stages == [t \in Tickets |-> Life(t)]

LEMMA LifeOf ==
  ASSUME TypeOK, OrderInv, NEW t \in Tickets
  PROVE  /\ Life(t) = "unborn" <=> Unborn(t)
         /\ Life(t) = "offered" <=> Offered(t)
         /\ Life(t) = "queued" <=> InQueue(t)
         /\ Life(t) = "delivering" <=> InHand(t)
         /\ Life(t) = "delivered" <=> t \in delivered
<1>1. t[1] \in Publishers /\ t[2] \in Nat /\ t = <<t[1], t[2]>>
  BY DEF Tickets
<1>2. published[t[1]] \in Nat
  BY <1>1 DEF TypeOK
<1>3. Offered(t) => ~Unborn(t) /\ ~Returned(t[1], t[2])
  <2>1. offer[t[1]] # NoEvent => Ticket(offer[t[1]]) = <<t[1], published[t[1]]>> /\ pc[t[1]] # "idle"
    BY <1>1 DEF OrderInv, OfferOrder
  <2> QED
    BY <1>1, <1>2, <2>1 DEF Offered, Unborn, Returned
<1>4. ASSUME NEW i \in 1 .. Len(queue), Ticket(queue[i]) = t
      PROVE  /\ queue[i].from = t[1] /\ queue[i].no = t[2] /\ Returned(t[1], t[2])
  <2>1. queue[i].from = t[1] /\ queue[i].no = t[2]
    BY <1>4 DEF Ticket
  <2> QED
    BY <2>1 DEF OrderInv, QueueOrder
<1>5. InHand(t) => /\ dispEvent # NoEvent /\ dispEvent.from = t[1] /\ dispEvent.no = t[2]
                   /\ Returned(t[1], t[2])
  BY <1>1 DEF InHand, Ticket, OrderInv, DispatchOrder
<1>6. t \in delivered => Returned(t[1], t[2])
  BY DEF OrderInv, DeliveredOrder
<1>7. Returned(t[1], t[2]) => ~Unborn(t)
  BY <1>1, <1>2 DEF Returned, Unborn
<1>8. InHand(t) => ~InQueue(t) /\ t \notin delivered
  BY <1>1, <1>4, <1>5 DEF InQueue, OrderInv, DispatchOrder, DeliveredOrder
<1>9. InQueue(t) => t \notin delivered
  BY <1>1, <1>4 DEF InQueue, OrderInv, DeliveredOrder
<1>10. InQueue(t) => Returned(t[1], t[2])
  BY <1>4 DEF InQueue
<1> QED
  BY <1>3, <1>5, <1>6, <1>7, <1>8, <1>9, <1>10 DEF Life

LEMMA OneStageChanges ==
  ASSUME NEW t \in Tickets, NEW v, Life(t)' = v,
         \A u \in Tickets : u # t => Life(u)' = Life(u)
  PROVE  Stages' = [Stages EXCEPT ![t] = v]
  BY Zenon DEF Stages

LEMMA EventArrives ==
  ASSUME TypeOK, NEW e \in Event, NEW t \in Tickets, t = Ticket(e), queue' = Append(queue, e)
  PROVE  \A u \in Tickets : InQueue(u)' <=> InQueue(u) \/ u = t
<1>1. /\ Len(queue') = Len(queue) + 1 /\ Len(queue) \in Nat
      /\ \A i \in 1 .. Len(queue) : queue'[i] = queue[i]
      /\ queue'[Len(queue) + 1] = e
  BY QueueAppend, QueueEvents DEF TypeOK
<1>2. \A i \in 1 .. Len(queue) : i \in 1 .. Len(queue')
  BY <1>1
<1>3. \A i \in 1 .. Len(queue') : i \in 1 .. Len(queue) \/ i = Len(queue) + 1
  BY <1>1
<1>4. Len(queue) + 1 \in 1 .. Len(queue')
  BY <1>1
<1> QED
  BY <1>1, <1>2, <1>3, <1>4 DEF InQueue, Ticket

LEMMA HeadLeaves ==
  ASSUME TypeOK, OrderInv, queue # <<>>, queue' = Tail(queue)
  PROVE  \E t \in Tickets :
           /\ t = Ticket(queue[1]) /\ t = Ticket(Head(queue))
           /\ InQueue(t) /\ ~InQueue(t)'
           /\ \A u \in Tickets : u # t => (InQueue(u)' <=> InQueue(u))
<1>1. /\ Len(queue) \in Nat /\ 1 \in 1 .. Len(queue) /\ Len(queue') = Len(queue) - 1
      /\ \A i \in 1 .. Len(queue') : queue'[i] = queue[i + 1] /\ i + 1 \in 1 .. Len(queue)
      /\ Head(queue) = queue[1] /\ queue[1] \in Event
  BY QueueTail, QueueEvents DEF TypeOK
<1>2. PICK t \in Tickets : t = Ticket(queue[1])
  BY <1>1, EventFields
<1>3. InQueue(t)
  BY <1>1, <1>2 DEF InQueue
<1>4. ASSUME NEW i \in 1 .. Len(queue'), Ticket(queue'[i]) = t PROVE FALSE
  <2>1. i + 1 \in 1 .. Len(queue) /\ 1 < i + 1 /\ Ticket(queue[i + 1]) = t
    BY <1>1, <1>4
  <2>2. queue[i + 1].from = queue[1].from /\ queue[i + 1].no = queue[1].no
    BY <1>2, <2>1 DEF Ticket
  <2>3. queue[1].no < queue[i + 1].no
    BY <1>1, <2>1, <2>2 DEF OrderInv, QueueOrder
  <2> QED
    BY <1>1, <2>1, <2>2, <2>3, QueueEvents
<1>5. ASSUME NEW u \in Tickets, u # t PROVE InQueue(u)' <=> InQueue(u)
  <2>1. ASSUME NEW i \in 1 .. Len(queue), Ticket(queue[i]) = u PROVE InQueue(u)'
    <3>1. i # 1
      BY <1>2, <1>5, <2>1
    <3>2. i - 1 \in 1 .. Len(queue') /\ (i - 1) + 1 = i
      BY <1>1, <3>1
    <3>3. queue'[i - 1] = queue[i]
      BY <1>1, <3>2
    <3> QED
      BY <2>1, <3>2, <3>3 DEF InQueue, Ticket
  <2>2. ASSUME NEW i \in 1 .. Len(queue'), Ticket(queue'[i]) = u PROVE InQueue(u)
    BY <1>1, <2>2 DEF InQueue, Ticket
  <2> QED
    BY <2>1, <2>2 DEF InQueue, Ticket
<1>6. ~InQueue(t)'
  BY <1>4 DEF InQueue, Ticket
<1> QED
  BY <1>1, <1>2, <1>3, <1>5, <1>6

LEMMA StepImplements == TypeOK /\ OrderInv /\ [Next]_vars => [Contract!Next]_Stages
<1> SUFFICES ASSUME TypeOK, OrderInv, [Next]_vars PROVE [Contract!Next]_Stages
  OBVIOUS
<1> USE BusAssumption
<1>0. TypeOK' /\ OrderInv'
  BY StepTypeOK, StepOrderInv
<1>1. ASSUME NEW p \in Publishers, NEW topic \in Topics,
             PublishSend(p, topic) \/ PublishFromIsr(p, topic)
      PROVE  Contract!Next
  <2>0. PICK e \in Event : e = NewEvent(p, topic)
    BY <1>1, NewEventType DEF PublishSend, PublishFromIsr, StartCall
  <2>1. /\ pc[p] = "idle" /\ offer[p] = NoEvent
        /\ published' = [published EXCEPT ![p] = @ + 1]
        /\ UNCHANGED <<dispEvent, delivered>>
    BY <1>1 DEF PublishSend, PublishFromIsr, StartCall, dispVars, OrderInv, OfferOrder
  <2>2. PICK t \in Tickets : t = Ticket(e)
    BY EventFields
  <2>3. t[1] = p /\ t[2] = published[p] + 1 /\ published[p] \in Nat /\ Unborn(t) /\ ~Unborn(t)'
    BY <1>1, <2>0, <2>1, <2>2, NewEventType DEF Ticket, TypeOK, Unborn, StartCall, PublishSend,
       PublishFromIsr
  <2>4. ASSUME NEW u \in Tickets, u # t PROVE Unborn(u)' <=> Unborn(u)
    <3>1. u[1] \in Publishers /\ u[2] \in Nat /\ (u[1] = p => u[2] # t[2])
      BY <2>3, <2>4 DEF Tickets
    <3> QED
      BY <2>1, <2>3, <3>1 DEF Unborn, TypeOK
  <2>5. ASSUME NEW u \in Tickets, u[1] = p, u[2] < t[2] PROVE ~Unborn(u) /\ ~Offered(u)
    BY <2>1, <2>3, <2>5 DEF Unborn, Offered, Tickets
  <2>6. Contract!NextCall(t)
    BY <2>3, <2>5, LifeOf DEF Contract!NextCall, Contract!Ticket, Tickets, Stages
  <2>7. ~InHand(t)' /\ t \notin delivered' /\ ~InQueue(t) /\ ~Offered(t)
    BY <2>1, <2>3, LifeOf DEF InHand
  <2>8. CASE queue' = Append(queue, e) /\ UNCHANGED <<pc, offer>>
    <3>1. \A u \in Tickets : InQueue(u)' <=> InQueue(u) \/ u = t
      BY <2>2, <2>8, EventArrives
    <3>2. Life(t)' = "queued"
      BY <1>0, <3>1, LifeOf, <2>3, <2>7, <2>8 DEF Life, Offered
    <3>3. \A u \in Tickets : u # t => Life(u)' = Life(u)
      BY <2>1, <2>4, <2>8, <3>1 DEF Life, Offered, InHand
    <3>4. Contract!Accept(t)
      BY <2>6, <3>2, <3>3, OneStageChanges DEF Contract!Accept, Stages
    <3> QED
      BY <3>4 DEF Contract!Next, Contract!Ticket, Tickets
  <2>9. CASE queue' = queue /\ UNCHANGED <<pc, offer>>
    <3>1. Life(t)' = "lost"
      BY <2>3, <2>7, <2>9 DEF Life, Offered, InQueue
    <3>2. \A u \in Tickets : u # t => Life(u)' = Life(u)
      BY <2>1, <2>4, <2>9 DEF Life, Offered, InHand, InQueue
    <3>3. Contract!Lose(t)
      BY <2>6, <3>1, <3>2, OneStageChanges DEF Contract!Lose, Stages
    <3> QED
      BY <3>3 DEF Contract!Next, Contract!Ticket, Tickets
  <2>10. CASE queue' = queue /\ offer' = [offer EXCEPT ![p] = e]
    <3>1. offer'[p] = e /\ e # NoEvent
      BY <2>10, EventFields DEF TypeOK
    <3>2. Life(t)' = "offered"
      <4>1. Offered(t)' /\ ~InQueue(t)'
        BY <2>2, <2>3, <2>7, <2>10, <3>1 DEF Offered, InQueue, Ticket
      <4> QED
        BY <2>3, <2>7, <4>1 DEF Life
    <3>3. ASSUME NEW u \in Tickets, u # t PROVE Life(u)' = Life(u)
      <4>1. Offered(u)' <=> Offered(u)
        BY <2>1, <2>2, <2>10, <3>1, <3>3 DEF Offered, TypeOK
      <4> QED
        BY <2>1, <2>4, <2>10, <3>3, <4>1 DEF Life, InHand, InQueue
    <3>4. Contract!Offer(t)
      BY <2>6, <3>2, <3>3, OneStageChanges DEF Contract!Offer, Stages
    <3> QED
      BY <3>4 DEF Contract!Next, Contract!Ticket, Tickets
  <2> QED
    BY <1>1, <2>0, <2>8, <2>9, <2>10 DEF PublishSend, PublishFromIsr
<1>2. ASSUME NEW p \in Publishers, PublishEvict(p) PROVE [Contract!Next]_Stages
  <2>1. UNCHANGED <<offer, published, dispEvent, delivered>>
    BY <1>2 DEF PublishEvict, dispVars
  <2>2. CASE queue = <<>> /\ queue' = queue
    <3>1. \A t \in Tickets : Life(t)' = Life(t)
      BY <2>1, <2>2 DEF Life, Unborn, Offered, InHand, InQueue
    <3> QED
      BY <3>1, Zenon DEF Stages
  <2>3. CASE queue # <<>> /\ queue' = Tail(queue)
    <3>1. PICK t \in Tickets : /\ InQueue(t) /\ ~InQueue(t)'
                              /\ \A u \in Tickets : u # t => (InQueue(u)' <=> InQueue(u))
      BY <2>3, HeadLeaves
    <3>2. Life(t) = "queued" /\ ~Unborn(t) /\ ~Offered(t) /\ ~InHand(t) /\ t \notin delivered
      BY <3>1, LifeOf
    <3>3. Life(t)' = "lost"
      BY <2>1, <3>1, <3>2 DEF Life, Unborn, Offered, InHand
    <3>4. \A u \in Tickets : u # t => Life(u)' = Life(u)
      BY <2>1, <3>1 DEF Life, Unborn, Offered, InHand
    <3>5. Contract!Lose(t)
      BY <3>2, <3>3, <3>4, OneStageChanges DEF Contract!Lose, Stages
    <3> QED
      BY <3>5 DEF Contract!Next, Contract!Ticket, Tickets
  <2> QED
    BY <1>2, <2>2, <2>3 DEF PublishEvict
<1>3. ASSUME NEW p \in Publishers, PublishRetry(p) PROVE Contract!Next
  <2>0. PICK e \in Event : e = offer[p]
    BY <1>3 DEF PublishRetry, OrderInv, OfferOrder, TypeOK
  <2>1. /\ offer' = [offer EXCEPT ![p] = NoEvent]
        /\ UNCHANGED <<published, dispEvent, delivered>>
    BY <1>3 DEF PublishRetry, dispVars
  <2>2. PICK t \in Tickets : t = Ticket(e)
    BY EventFields
  <2>3. t[1] = p /\ Offered(t) /\ e # NoEvent
    <3>1. Ticket(e) = <<p, published[p]>> /\ e # NoEvent
      BY <2>0, EventFields DEF OrderInv, OfferOrder
    <3> QED
      BY <2>0, <2>2, <3>1 DEF Offered
  <2>4. Life(t) = "offered" /\ ~Unborn(t) /\ ~InQueue(t) /\ ~InHand(t) /\ t \notin delivered
    BY <2>3, LifeOf
  <2>5. ~Offered(t)' /\ ~Unborn(t)' /\ ~InHand(t)' /\ t \notin delivered'
    BY <2>1, <2>3, <2>4 DEF Offered, Unborn, InHand, TypeOK
  <2>6. ASSUME NEW u \in Tickets, u # t PROVE Offered(u)' <=> Offered(u)
    BY <2>0, <2>1, <2>2, <2>3, <2>6 DEF Offered, TypeOK, Tickets
  <2>7. CASE queue' = Append(queue, e)
    <3>1. \A u \in Tickets : InQueue(u)' <=> InQueue(u) \/ u = t
      BY <2>2, <2>7, EventArrives
    <3>2. Life(t)' = "queued"
      BY <2>5, <3>1 DEF Life
    <3>3. \A u \in Tickets : u # t => Life(u)' = Life(u)
      BY <2>1, <2>6, <3>1 DEF Life, Unborn, InHand
    <3>4. Contract!Accept(t)
      BY <2>4, <3>2, <3>3, OneStageChanges DEF Contract!Accept, Stages
    <3> QED
      BY <3>4 DEF Contract!Next, Contract!Ticket, Tickets
  <2>8. CASE queue' = queue
    <3>1. Life(t)' = "lost"
      BY <2>4, <2>5, <2>8 DEF Life, InQueue
    <3>2. \A u \in Tickets : u # t => Life(u)' = Life(u)
      BY <2>1, <2>6, <2>8 DEF Life, Unborn, InHand, InQueue
    <3>3. Contract!Lose(t)
      BY <2>4, <3>1, <3>2, OneStageChanges DEF Contract!Lose, Stages
    <3> QED
      BY <3>3 DEF Contract!Next, Contract!Ticket, Tickets
  <2> QED
    BY <1>3, <2>0, <2>7, <2>8 DEF PublishRetry
<1>4. ASSUME Receive PROVE Contract!Next
  <2>1. /\ queue # <<>> /\ queue' = Tail(queue) /\ dispEvent' = Head(queue) /\ dispEvent = NoEvent
        /\ UNCHANGED <<offer, published, delivered>>
    BY <1>4 DEF Receive, pubVars, OrderInv, DispatchOrder
  <2>2. PICK e \in Event : e = Head(queue) /\ e = queue[1]
    BY <2>1, QueueTail DEF TypeOK
  <2>3. PICK t \in Tickets : t = Ticket(e)
    BY EventFields
  <2>4. /\ InQueue(t) /\ ~InQueue(t)'
        /\ \A u \in Tickets : u # t => (InQueue(u)' <=> InQueue(u))
    BY <2>1, <2>2, <2>3, HeadLeaves
  <2>5. Life(t) = "queued" /\ ~Unborn(t) /\ ~Offered(t) /\ t \notin delivered
    BY <2>4, LifeOf
  <2>6. InHand(t)' /\ \A u \in Tickets : ~InHand(u) /\ (u # t => ~InHand(u)')
    BY <2>1, <2>2, <2>3, EventFields DEF InHand, Ticket
  <2>7. Life(t)' = "delivering"
    BY <2>1, <2>4, <2>5, <2>6 DEF Life, Unborn, Offered
  <2>8. \A u \in Tickets : u # t => Life(u)' = Life(u)
    BY <2>1, <2>4, <2>6 DEF Life, Unborn, Offered
  <2>9. ASSUME NEW u \in Tickets, u[1] = t[1], u[2] > t[2] PROVE Life(u) \notin {"delivering", "delivered"}
    <3>1. t[1] = queue[1].from /\ t[2] = queue[1].no /\ 1 \in 1 .. Len(queue)
      BY <2>1, <2>2, <2>3, QueueEvents, QueueTail DEF Ticket, TypeOK
    <3>2. u \notin delivered
      BY <2>9, <3>1 DEF OrderInv, DeliveredOrder, Tickets
    <3> QED
      BY <2>6, <3>2, LifeOf
  <2>10. Contract!Begin(t)
    <3>1. \A u \in Tickets : Life(u) # "delivering"
      BY <2>6, LifeOf
    <3> QED
      BY <2>5, <2>7, <2>8, <2>9, <3>1, OneStageChanges
      DEF Contract!Begin, Contract!Begun, Contract!Ticket, Tickets, Stages
  <2> QED
    BY <2>10 DEF Contract!Next, Contract!Ticket, Tickets
<1>5. ASSUME Finish PROVE Contract!Next
  <2>1. /\ dispEvent \in Event /\ dispEvent # NoEvent /\ dispEvent' = NoEvent
        /\ delivered' = delivered \cup {Ticket(dispEvent)}
        /\ UNCHANGED <<queue, offer, published>>
    BY <1>5 DEF Finish, pubVars, OrderInv, DispatchOrder, TypeOK
  <2>2. PICK t \in Tickets : t = Ticket(dispEvent)
    BY <2>1, EventFields
  <2>3. InHand(t) /\ \A u \in Tickets : ~InHand(u)' /\ (u # t => ~InHand(u))
    BY <2>1, <2>2 DEF InHand
  <2>4. Life(t) = "delivering" /\ ~Unborn(t) /\ ~Offered(t) /\ ~InQueue(t)
    BY <2>3, LifeOf
  <2>5. Life(t)' = "delivered"
    BY <2>1, <2>2, <2>3, <2>4 DEF Life, Unborn, Offered, InQueue
  <2>6. \A u \in Tickets : u # t => Life(u)' = Life(u)
    BY <2>1, <2>2, <2>3 DEF Life, Unborn, Offered, InQueue
  <2>7. Contract!End(t)
    BY <2>4, <2>5, <2>6, OneStageChanges DEF Contract!End, Stages
  <2> QED
    BY <2>7 DEF Contract!Next, Contract!Ticket, Tickets
<1>6. ASSUME \/ Snapshot \/ Invoke \/ UNCHANGED vars
             \/ \E topic \in Topics : Subscribe(topic)
             \/ \E id \in SubId : Unsubscribe(id)
      PROVE  UNCHANGED Stages
  <2>1. UNCHANGED <<queue, offer, published, dispEvent, delivered>>
    BY <1>6 DEF Snapshot, Invoke, Subscribe, Unsubscribe, vars, pubVars, dispVars
  <2>2. \A t \in Tickets : Life(t)' = Life(t)
    BY <2>1 DEF Life, Unborn, Offered, InHand, InQueue
  <2> QED
    BY <2>2, Zenon DEF Stages
<1> QED
  BY <1>1, <1>2, <1>3, <1>4, <1>5, <1>6 DEF Next, InPublish, Dispatcher

\* The bus implements BusContract: in every interleaving a publication is
\* delivered at most once, never after it was lost, and in its publisher's
\* order.
THEOREM BusImplementsContract == Spec => Implements
<1>1. Init => Contract!Init
  <2> SUFFICES ASSUME Init PROVE Contract!Init
    OBVIOUS
  <2>1. ASSUME NEW t \in Tickets PROVE Life(t) = "unborn"
    <3>1. Unborn(t)
      BY DEF Init, Unborn, Tickets
    <3> QED
      BY <3>1, InitTypeOK, InitOrderInv, LifeOf
  <2> QED
    BY <2>1 DEF Contract!Init, Contract!Ticket, Tickets
<1> QED
  BY <1>1, BusOrder, StepImplements, PTL DEF Spec, Contract!Spec, Implements, Stages

-----------------------------------------------------------------------------
(* The drop counter.  That the set of losses is finite is part of the        *)
(* invariant, as nothing bounds the number of publishers; a step that counts *)
(* a drop loses one publication at most because the bus implements its       *)
(* contract, and a step that counts none loses none.                         *)

LossInv == IsFiniteSet(LostEvents) /\ Cardinality(LostEvents) <= dropped

Kept(t) == Unborn(t) \/ Offered(t) \/ InQueue(t) \/ InHand(t) \/ t \in delivered

LEMMA LostOrKept == \A t \in Tickets : Life(t) = "lost" <=> ~Kept(t)
BY DEF Life, Kept

LEMMA OneMore ==
  ASSUME NEW S, IsFiniteSet(S), NEW x, NEW T, T \subseteq S \cup {x},
         NEW d \in Nat, Cardinality(S) <= d
  PROVE  IsFiniteSet(T) /\ Cardinality(T) <= d + 1
<1>1. /\ IsFiniteSet(S \cup {x}) /\ Cardinality(S) \in Nat
      /\ Cardinality(S \cup {x}) = Cardinality(S) \/ Cardinality(S \cup {x}) = Cardinality(S) + 1
  BY FS_AddElement, FS_CardinalityType
<1>2. IsFiniteSet(T) /\ Cardinality(T) <= Cardinality(S \cup {x})
  BY <1>1, FS_Subset
<1>3. Cardinality(T) \in Nat
  BY <1>2, FS_CardinalityType
<1> QED
  BY <1>1, <1>2, <1>3

LEMMA NoMore ==
  ASSUME NEW S, IsFiniteSet(S), NEW T, T \subseteq S, NEW d \in Nat, Cardinality(S) <= d
  PROVE  IsFiniteSet(T) /\ Cardinality(T) <= d
<1>1. IsFiniteSet(T) /\ Cardinality(T) <= Cardinality(S)
  BY FS_Subset
<1>2. Cardinality(S) \in Nat /\ Cardinality(T) \in Nat
  BY <1>1, FS_CardinalityType
<1> QED
  BY <1>1, <1>2

\* Any step loses one publication at most.
LEMMA OneLoss ==
  ASSUME TypeOK, OrderInv, [Next]_vars
  PROVE  \E t : LostEvents' \subseteq LostEvents \cup {t}
<1>1. [Contract!Next]_Stages
  BY StepImplements
<1>2. /\ LostEvents = {t \in Tickets : Stages[t] = "lost"}
      /\ LostEvents' = {t \in Tickets : Stages'[t] = "lost"}
  BY DEF LostEvents, Stages
<1>3. CASE Stages' = Stages
  BY <1>2, <1>3
<1>4. CASE Contract!Next
  <2>1. PICK t \in Tickets : \E v : Stages' = [Stages EXCEPT ![t] = v]
    BY <1>4 DEF Contract!Next, Contract!Ticket, Tickets, Contract!Offer, Contract!Accept,
       Contract!Lose, Contract!Begin, Contract!End, Stages
  <2>2. \A u \in Tickets : u # t => Stages'[u] = Stages[u]
    BY <2>1 DEF Stages
  <2> QED
    BY <1>2, <2>2
<1> QED
  BY <1>1, <1>3, <1>4

\* A step that counts no drop loses nothing.
LEMMA NoLoss ==
  ASSUME TypeOK, OrderInv, [Next]_vars, NEW t \in Tickets, Kept(t)
  PROVE  Kept(t)' \/ dropped' = dropped + 1
<1> USE BusAssumption
<1>1. ASSUME NEW p \in Publishers, NEW topic \in Topics,
             PublishSend(p, topic) \/ PublishFromIsr(p, topic), dropped' # dropped + 1
      PROVE  Kept(t)'
  <2>1. PICK e \in Event : e = NewEvent(p, topic)
    BY <1>1, NewEventType DEF PublishSend, PublishFromIsr, StartCall
  <2>2. /\ published' = [published EXCEPT ![p] = @ + 1]
        /\ UNCHANGED <<dispEvent, delivered>>
        /\ pc[p] = "idle" /\ offer[p] = NoEvent
        /\ \/ queue' = Append(queue, e) /\ UNCHANGED offer
           \/ UNCHANGED queue /\ offer' = [offer EXCEPT ![p] = e]
    BY <1>1, <2>1 DEF PublishSend, PublishFromIsr, StartCall, dispVars, OrderInv, OfferOrder
  <2>3. Unborn(t) => Unborn(t)' \/ t = Ticket(e)
    <3>1. /\ t[1] \in Publishers /\ t[2] \in Nat /\ t = <<t[1], t[2]>>
          /\ published \in [Publishers -> 0 .. MaxPublish] /\ published[p] \in Nat
      BY DEF Tickets, TypeOK
    <3>2. Ticket(e) = <<p, published[p] + 1>>
      BY <2>1, <3>1 DEF Ticket, NewEvent
    <3> QED
      BY <2>2, <3>1, <3>2 DEF Unborn
  <2>4. CASE queue' = Append(queue, e) /\ UNCHANGED offer
    <3>1. \A u \in Tickets : u = Ticket(e) \/ InQueue(u) => InQueue(u)'
      BY <2>4, EventArrives, EventFields
    <3> QED
      BY <2>2, <2>3, <2>4, <3>1 DEF Kept, Offered, InHand
  <2>5. CASE UNCHANGED queue /\ offer' = [offer EXCEPT ![p] = e]
    <3>1. e # NoEvent /\ offer'[p] = e /\ Ticket(e)[1] = p
      BY <2>1, <2>5 DEF TypeOK, Ticket, NewEvent
    <3>2. t = Ticket(e) => Offered(t)'
      BY <3>1 DEF Offered, Ticket
    <3>3. Offered(t) => Offered(t)'
      BY <2>2, <2>5 DEF Offered, TypeOK, Tickets
    <3> QED
      BY <2>2, <2>3, <2>5, <3>2, <3>3 DEF Kept, InQueue, InHand
  <2> QED
    BY <2>2, <2>4, <2>5
<1>2. ASSUME NEW p \in Publishers, PublishEvict(p) PROVE dropped' = dropped + 1
  BY <1>2 DEF PublishEvict
<1>3. ASSUME NEW p \in Publishers, PublishRetry(p), dropped' # dropped + 1 PROVE Kept(t)'
  <2>1. /\ queue' = Append(queue, offer[p]) /\ offer' = [offer EXCEPT ![p] = NoEvent]
        /\ UNCHANGED <<published, dispEvent, delivered>>
        /\ offer[p] \in Event
    BY <1>3 DEF PublishRetry, dispVars, OrderInv, OfferOrder, TypeOK
  <2>2. \A u \in Tickets : u = Ticket(offer[p]) \/ InQueue(u) => InQueue(u)'
    BY <2>1, EventArrives, EventFields
  <2>3. Offered(t) => Offered(t)' \/ t = Ticket(offer[p])
    BY <2>1 DEF Offered, TypeOK, Tickets
  <2> QED
    BY <2>1, <2>2, <2>3 DEF Kept, Unborn, InHand
<1>4. CASE Receive
  <2>1. /\ queue # <<>> /\ queue' = Tail(queue) /\ dispEvent' = Head(queue) /\ dispEvent = NoEvent
        /\ Head(queue) \in Event
        /\ UNCHANGED <<offer, published, delivered>>
    BY <1>4, QueueTail DEF Receive, pubVars, OrderInv, DispatchOrder, TypeOK
  <2>2. InQueue(t) => InQueue(t)' \/ t = Ticket(dispEvent')
    BY <2>1, HeadLeaves
  <2>3. dispEvent' # NoEvent
    BY <2>1, EventFields
  <2> QED
    BY <2>1, <2>2, <2>3 DEF Kept, Unborn, Offered, InHand, Ticket
<1>5. CASE Finish
  <2>1. /\ delivered' = delivered \cup {Ticket(dispEvent)}
        /\ UNCHANGED <<queue, offer, published>>
    BY <1>5 DEF Finish, pubVars
  <2> QED
    BY <2>1 DEF Kept, Unborn, Offered, InHand, InQueue
<1>6. CASE \/ Snapshot \/ Invoke \/ UNCHANGED vars
           \/ \E topic \in Topics : Subscribe(topic)
           \/ \E id \in SubId : Unsubscribe(id)
  <2>1. UNCHANGED <<queue, offer, published, dispEvent, delivered>>
    BY <1>6 DEF Snapshot, Invoke, Subscribe, Unsubscribe, vars, pubVars, dispVars
  <2> QED
    BY <2>1 DEF Kept, Unborn, Offered, InHand, InQueue
<1> QED
  BY <1>1, <1>2, <1>3, <1>4, <1>5, <1>6 DEF Next, InPublish, Dispatcher

LEMMA DroppedSteps ==
  ASSUME [Next]_vars
  PROVE  dropped' = dropped \/ dropped' = dropped + 1
BY DEF Next, InPublish, Dispatcher, PublishSend, PublishFromIsr, PublishEvict, PublishRetry,
       Subscribe, Unsubscribe, Receive, Snapshot, Invoke, Finish, vars

LEMMA StepLossInv == TypeOK /\ OrderInv /\ LossInv /\ [Next]_vars => LossInv'
<1> SUFFICES ASSUME TypeOK, OrderInv, LossInv, [Next]_vars PROVE LossInv'
  OBVIOUS
<1>1. dropped \in Nat
  BY DEF TypeOK
<1>2. CASE dropped' = dropped + 1
  BY <1>1, <1>2, OneLoss, OneMore DEF LossInv
<1>3. CASE dropped' = dropped
  <2>1. \A t \in Tickets : Life(t)' = "lost" => Life(t) = "lost"
    <3> SUFFICES ASSUME NEW t \in Tickets, Life(t)' = "lost" PROVE Life(t) = "lost"
      OBVIOUS
    <3>1. ~Kept(t)'
      BY DEF Life, Kept
    <3>2. ~Kept(t)
      BY <1>1, <1>3, <3>1, NoLoss
    <3> QED
      BY <3>2, LostOrKept
  <2>2. LostEvents' \subseteq LostEvents
    BY <2>1 DEF LostEvents
  <2> QED
    BY <1>1, <1>3, <2>2, NoMore DEF LossInv
<1> QED
  BY <1>2, <1>3, DroppedSteps

\* droppedCount() hides no loss: whichever way publishers and the dispatcher overlap
\* inside publish(), the publications that are gone undelivered are all counted.
THEOREM LossesAreCounted == Spec => []EveryLossIsCounted
<1>1. Init => LossInv
  <2> SUFFICES ASSUME Init PROVE LossInv
    OBVIOUS
  <2>1. \A t \in Tickets : Unborn(t)
    BY DEF Init, Unborn, Tickets
  <2>2. LostEvents = {} /\ dropped = 0
    BY <2>1 DEF LostEvents, Life, Init
  <2> QED
    BY <2>2, FS_EmptySet DEF LossInv
<1>2. LossInv => EveryLossIsCounted
  BY DEF LossInv, EveryLossIsCounted
<1> QED
  BY <1>1, <1>2, BusOrder, StepLossInv, PTL DEF Spec
=============================================================================
