------------------------------ MODULE EventBus ------------------------------
(***************************************************************************)
(* The kernel event bus: a bounded FreeRTOS queue, one dispatcher task and *)
(* a static subscription table with generation-checked handles.            *)
(*                                                                         *)
(* publish() is three separate queue operations (send, receive to discard, *)
(* send again), so other publishers and the dispatcher run in between: each*)
(* is a step of its own here.  A critical section under subs_mutex_ neither*)
(* blocks nor calls out, so each is one step.  A handler runs on the       *)
(* dispatcher task outside the lock; what it calls (subscribe, unsubscribe,*)
(* publish) is included in what the other contexts may do at that time.    *)
(***************************************************************************)
EXTENDS Naturals, Sequences, FiniteSets

CONSTANTS Publishers,      \* the contexts that call publish() or publishFromIsr()
          IsrPublishers,   \* those of them that are interrupt handlers
          Topics,          \* the EventIds
          NumSlots,        \* kMaxSubscriptions
          QueueDepth,      \* the queue_depth given to init()
          MaxPublish,      \* bound: publications of one publisher
          MaxGen,          \* bound: subscriptions made in one slot
          MaxSubscribe,    \* bound: subscriptions made in all
          NoEvent          \* not an event

Slots  == 1 .. NumSlots
Event  == [topic : Topics, from : Publishers, no : 1 .. MaxPublish]
SubId  == Slots \X (1 .. MaxGen)

ASSUME BusAssumption ==
  /\ IsrPublishers \subseteq Publishers
  /\ Topics # {}
  /\ NumSlots \in Nat \ {0}
  /\ QueueDepth \in Nat \ {0}
  /\ MaxPublish \in Nat
  /\ MaxGen \in Nat
  /\ NoEvent \notin Event

VARIABLES
  queue,       \* queue_: the events waiting, oldest first
  dropped,     \* dropped_
  pc,          \* where each publisher stands in publish()
  offer,       \* the event each publisher is publishing
  published,   \* how many publications each publisher has made
  subs,        \* subs_: the subscription table
  dispPc,      \* where the dispatcher stands in dispatchLoop() and deliver()
  dispEvent,   \* the event it holds
  todo,        \* the snapshotted subscriptions it has still to invoke
  delivered,   \* the publications delivered_ has counted
  held,        \* history: handles returned and not yet given to unsubscribe()
  calls        \* history: the handler invocations made

vars == <<queue, dropped, pc, offer, published, subs, dispPc, dispEvent, todo,
          delivered, held, calls>>

pubVars  == <<pc, offer, published>>
dispVars == <<dispPc, dispEvent, todo, delivered, calls>>
subVars  == <<subs, held>>

Ticket(e) == <<e.from, e.no>>

\* Fault variant: one event too many fits in the queue.
FullOffByOne == Len(queue) = QueueDepth + 1

Full == Len(queue) = QueueDepth

\* The subscription id = <<slot, generation>> is in the table.
Live(id) == subs[id[1]].active /\ subs[id[1]].gen = id[2]

\* A handle subscribe() has returned at some time.
Issued(id) == id[2] <= subs[id[1]].gen

Init ==
  /\ queue = <<>>
  /\ dropped = 0
  /\ pc = [p \in Publishers |-> "idle"]
  /\ offer = [p \in Publishers |-> NoEvent]
  /\ published = [p \in Publishers |-> 0]
  /\ subs = [s \in Slots |-> [active |-> FALSE, topic |-> CHOOSE t \in Topics : TRUE,
                              gen |-> 0]]
  /\ dispPc = "wait"
  /\ dispEvent = NoEvent
  /\ todo = {}
  /\ delivered = {}
  /\ held = {}
  /\ calls = {}

-----------------------------------------------------------------------------
(* publish(): try to send; when the queue is full discard one event, count a *)
(* drop, and try once more.                                                  *)

NewEvent(p, topic) == [topic |-> topic, from |-> p, no |-> published[p] + 1]

StartCall(p) ==
  /\ pc[p] = "idle"
  /\ published[p] < MaxPublish
  /\ published' = [published EXCEPT ![p] = @ + 1]

PublishSend(p, topic) ==
  /\ p \notin IsrPublishers
  /\ StartCall(p)
  /\ \/ /\ ~Full
        /\ queue' = Append(queue, NewEvent(p, topic))
        /\ UNCHANGED <<pc, offer>>
     \/ /\ Full
        /\ pc' = [pc EXCEPT ![p] = "evict"]
        /\ offer' = [offer EXCEPT ![p] = NewEvent(p, topic)]
        /\ UNCHANGED queue
  /\ UNCHANGED <<dropped, dispVars, subVars>>

\* The result of the discarding receive is ignored: a drop is counted even
\* when the dispatcher has drained the queue in the meantime.
PublishEvict(p) ==
  /\ pc[p] = "evict"
  /\ queue' = IF queue = <<>> THEN queue ELSE Tail(queue)
  /\ dropped' = dropped + 1
  /\ pc' = [pc EXCEPT ![p] = "retry"]
  /\ UNCHANGED <<offer, published, dispVars, subVars>>

\* Fault variant: the second failure to send is not counted.
PublishRetryUncounted(p) ==
  /\ pc[p] = "retry"
  /\ queue' = IF Full THEN queue ELSE Append(queue, offer[p])
  /\ pc' = [pc EXCEPT ![p] = "idle"]
  /\ offer' = [offer EXCEPT ![p] = NoEvent]
  /\ UNCHANGED <<dropped, published, dispVars, subVars>>

\* Fault variant: the event is sent to the front of the queue.
PublishRetryToFront(p) ==
  /\ pc[p] = "retry"
  /\ queue' = IF Full THEN queue ELSE <<offer[p]>> \o queue
  /\ dropped' = IF Full THEN dropped + 1 ELSE dropped
  /\ pc' = [pc EXCEPT ![p] = "idle"]
  /\ offer' = [offer EXCEPT ![p] = NoEvent]
  /\ UNCHANGED <<published, dispVars, subVars>>

\* Another publisher may have taken the room that was made.
PublishRetry(p) ==
  /\ pc[p] = "retry"
  /\ \/ /\ ~Full
        /\ queue' = Append(queue, offer[p])
        /\ UNCHANGED dropped
     \/ /\ Full
        /\ dropped' = dropped + 1
        /\ UNCHANGED queue
  /\ pc' = [pc EXCEPT ![p] = "idle"]
  /\ offer' = [offer EXCEPT ![p] = NoEvent]
  /\ UNCHANGED <<published, dispVars, subVars>>

PublishFromIsr(p, topic) ==
  /\ p \in IsrPublishers
  /\ StartCall(p)
  /\ \/ /\ ~Full
        /\ queue' = Append(queue, NewEvent(p, topic))
        /\ UNCHANGED dropped
     \/ /\ Full
        /\ dropped' = dropped + 1
        /\ UNCHANGED queue
  /\ UNCHANGED <<pc, offer, dispVars, subVars>>

-----------------------------------------------------------------------------
(* The subscription table.                                                   *)

FirstFree(s) ==
  /\ ~subs[s].active
  /\ \A r \in Slots : r < s => subs[r].active

Subscribe(topic) ==
  \E s \in Slots :
    /\ FirstFree(s)
    /\ subs[s].gen < MaxGen
    /\ Cardinality({id \in SubId : Issued(id)}) < MaxSubscribe
    /\ subs' = [subs EXCEPT ![s] = [active |-> TRUE, topic |-> topic, gen |-> @.gen + 1]]
    /\ held' = held \cup {<<s, subs[s].gen + 1>>}
    /\ UNCHANGED <<queue, dropped, pubVars, dispVars>>

\* Fault variant: the generation of the handle is not compared.
UnsubscribeAnyGeneration(id) ==
  /\ Issued(id)
  /\ subs' = [subs EXCEPT ![id[1]].active = FALSE]
  /\ held' = held \ {id}
  /\ UNCHANGED <<queue, dropped, pubVars, dispVars>>

\* Any handle ever issued may be given, a stale one too (NotFound).
Unsubscribe(id) ==
  /\ Issued(id)
  /\ subs' = IF Live(id) THEN [subs EXCEPT ![id[1]].active = FALSE] ELSE subs
  /\ held' = held \ {id}
  /\ UNCHANGED <<queue, dropped, pubVars, dispVars>>

-----------------------------------------------------------------------------
(* The dispatcher task.                                                      *)

Receive ==
  /\ dispPc = "wait"
  /\ queue # <<>>
  /\ dispEvent' = Head(queue)
  /\ queue' = Tail(queue)
  /\ dispPc' = "snapshot"
  /\ UNCHANGED <<dropped, todo, delivered, calls, pubVars, subVars>>

\* Fault variant: a subscription that was removed still matches.
SnapshotInactive ==
  /\ dispPc = "snapshot"
  /\ todo' = {id \in SubId : subs[id[1]].gen = id[2] /\ subs[id[1]].topic = dispEvent.topic}
  /\ dispPc' = "invoke"
  /\ UNCHANGED <<queue, dropped, dispEvent, delivered, calls, pubVars, subVars>>

\* Under subs_mutex_: the matching subscriptions, as they are now.
Snapshot ==
  /\ dispPc = "snapshot"
  /\ todo' = {id \in SubId : Live(id) /\ subs[id[1]].topic = dispEvent.topic}
  /\ dispPc' = "invoke"
  /\ UNCHANGED <<queue, dropped, dispEvent, delivered, calls, pubVars, subVars>>

\* Outside the lock, in slot order; the subscription may be gone by now.
Invoke ==
  /\ dispPc = "invoke"
  /\ \E id \in todo :
       /\ \A other \in todo : id[1] <= other[1]
       /\ todo' = todo \ {id}
       /\ calls' = calls \cup {[sub |-> id, of |-> Ticket(dispEvent), late |-> ~Live(id)]}
  /\ UNCHANGED <<queue, dropped, dispPc, dispEvent, delivered, pubVars, subVars>>

\* Fault variant: delivery ends before every handler was invoked.
FinishEarly ==
  /\ dispPc = "invoke"
  /\ todo' = {}
  /\ delivered' = delivered \cup {Ticket(dispEvent)}
  /\ dispPc' = "wait"
  /\ dispEvent' = NoEvent
  /\ UNCHANGED <<queue, dropped, calls, pubVars, subVars>>

Finish ==
  /\ dispPc = "invoke"
  /\ todo = {}
  /\ delivered' = delivered \cup {Ticket(dispEvent)}
  /\ dispPc' = "wait"
  /\ dispEvent' = NoEvent
  /\ UNCHANGED <<queue, dropped, todo, calls, pubVars, subVars>>

-----------------------------------------------------------------------------
Dispatcher == Receive \/ Snapshot \/ Invoke \/ Finish

InPublish(p) == PublishEvict(p) \/ PublishRetry(p)

Next ==
  \/ \E p \in Publishers, topic \in Topics : PublishSend(p, topic) \/ PublishFromIsr(p, topic)
  \/ \E p \in Publishers : InPublish(p)
  \/ \E topic \in Topics : Subscribe(topic)
  \/ \E id \in SubId : Unsubscribe(id)
  \/ Dispatcher

Spec == Init /\ [][Next]_vars

\* The dispatcher task and a publisher inside publish() are runnable until
\* they block or return, and FreeRTOS runs them; nobody has to publish,
\* subscribe or unsubscribe.
Fairness == WF_vars(Dispatcher) /\ \A p \in Publishers : WF_vars(InPublish(p))

FairSpec == Spec /\ Fairness

-----------------------------------------------------------------------------
(* Where a publication is now, read off the state.                           *)

Tickets == Publishers \X (1 .. MaxPublish)

InQueue(t)   == \E i \in 1 .. Len(queue) : Ticket(queue[i]) = t
Offered(t)   == offer[t[1]] # NoEvent /\ Ticket(offer[t[1]]) = t
InHand(t)    == dispEvent # NoEvent /\ Ticket(dispEvent) = t
Unborn(t)    == t[2] > published[t[1]]

Life(t) ==
  CASE Unborn(t)       -> "unborn"
    [] Offered(t)      -> "offered"
    [] InQueue(t)      -> "queued"
    [] InHand(t)       -> "delivering"
    [] t \in delivered -> "delivered"
    [] OTHER           -> "lost"

LostEvents == {t \in Tickets : Life(t) = "lost"}

Contract == INSTANCE BusContract WITH life <- [t \in Tickets |-> Life(t)]

-----------------------------------------------------------------------------
(* Properties.                                                               *)

TypeOK ==
  /\ queue \in Seq(Event) /\ Len(queue) <= QueueDepth
  /\ dropped \in Nat
  /\ pc \in [Publishers -> {"idle", "evict", "retry"}]
  /\ offer \in [Publishers -> Event \cup {NoEvent}]
  /\ published \in [Publishers -> 0 .. MaxPublish]
  /\ subs \in [Slots -> [active : BOOLEAN, topic : Topics, gen : 0 .. MaxGen]]
  /\ dispPc \in {"wait", "snapshot", "invoke"}
  /\ dispEvent \in Event \cup {NoEvent}
  /\ todo \subseteq SubId
  /\ delivered \subseteq Tickets
  /\ held \subseteq SubId
  /\ calls \subseteq [sub : SubId, of : Tickets, late : BOOLEAN]

\* The n-th publish call of p has returned.
Returned(p, n) == n <= published[p] /\ (pc[p] # "idle" => n < published[p])

\* A publication being published is its publisher's last call.
OfferOrder ==
  \A p \in Publishers :
    /\ offer[p] # NoEvent <=> pc[p] # "idle"
    /\ offer[p] # NoEvent => Ticket(offer[p]) = <<p, published[p]>>

QueueOrder ==
  /\ \A i \in 1 .. Len(queue) : Returned(queue[i].from, queue[i].no)
  /\ \A i, j \in 1 .. Len(queue) :
       i < j /\ queue[i].from = queue[j].from => queue[i].no < queue[j].no

DispatchOrder ==
  /\ dispEvent # NoEvent <=> dispPc # "wait"
  /\ dispEvent # NoEvent =>
       /\ Returned(dispEvent.from, dispEvent.no)
       /\ \A i \in 1 .. Len(queue) :
            queue[i].from = dispEvent.from => dispEvent.no < queue[i].no

DeliveredOrder ==
  \A t \in delivered :
    /\ Returned(t[1], t[2])
    /\ \A i \in 1 .. Len(queue) : queue[i].from = t[1] => t[2] < queue[i].no
    /\ dispEvent # NoEvent /\ dispEvent.from = t[1] => t[2] < dispEvent.no

\* Publications stand in their publisher's order along the way from the
\* publisher through the queue and the dispatcher to delivered: what the
\* refinement of BusContract rests on.
OrderInv == OfferOrder /\ QueueOrder /\ DispatchOrder /\ DeliveredOrder

\* droppedCount() never hides a loss: every publication that is neither
\* waiting, nor being published or dispatched, nor delivered was counted,
\* whichever way publishers and dispatcher interleave inside publish().
EveryLossIsCounted == Cardinality(LostEvents) <= dropped

\* A handle works for its owner and for nobody else: a subscription is in the
\* table exactly while its own handle has not been given to unsubscribe(),
\* whatever stale handles of the same, since reused, slot are given to it.
HandlesOwnTheirSlot == \A id \in SubId : id \in held <=> Live(id)

\* The grace period event_bus.hpp grants: after unsubscribe() returned, the
\* handler is invoked for at most one more event.
AtMostOneLateCall ==
  \A c, d \in calls : c.late /\ d.late /\ c.sub = d.sub => c.of = d.of

\* A publication of the topic that is accepted while a subscription is in the
\* table reaches the handler, unless it is discarded later or the handler
\* unsubscribes first.
SubscribersHear ==
  \A id \in SubId, t \in Tickets, topic \in Topics :
    (/\ Live(id) /\ subs[id[1]].topic = topic
     /\ \E i \in 1 .. Len(queue) : Ticket(queue[i]) = t /\ queue[i].topic = topic)
      ~> (~Live(id) \/ Life(t) = "lost" \/ \E c \in calls : c.sub = id /\ c.of = t)

\* The bus implements its contract: no publication is delivered twice, after
\* it was lost, or out of its publisher's order.
Implements == Contract!Spec
=============================================================================
