---------------------------- MODULE BusContract ----------------------------
(***************************************************************************)
(* What the kernel event bus promises about one published event, with no   *)
(* queue, no table and no counter: a publication is offered once, is then  *)
(* accepted or lost, and an accepted one is delivered at most once, never  *)
(* after it was lost, one at a time, and in the order its publisher made   *)
(* its calls.  A publication is named by its publisher and the number of   *)
(* the call.  EventBus implements this module (see EventBus!Contract).     *)
(***************************************************************************)
EXTENDS Naturals

CONSTANTS Publishers,   \* the contexts that call publish()
          MaxPublish    \* bound on the publications of one publisher

Ticket == Publishers \X (1 .. MaxPublish)

Stage == {"unborn", "offered", "queued", "delivering", "delivered", "lost"}

VARIABLE life

Begun(t) == life[t] \in {"delivering", "delivered"}

Init == life = [t \in Ticket |-> "unborn"]

\* t is the next call of its publisher, whose earlier calls have returned.
NextCall(t) ==
  /\ life[t] = "unborn"
  /\ \A u \in Ticket : u[1] = t[1] /\ u[2] < t[2] => life[u] \notin {"unborn", "offered"}

Offer(t) ==
  /\ NextCall(t)
  /\ life' = [life EXCEPT ![t] = "offered"]

Accept(t) ==
  /\ NextCall(t) \/ life[t] = "offered"
  /\ life' = [life EXCEPT ![t] = "queued"]

Lose(t) ==
  /\ NextCall(t) \/ life[t] \in {"offered", "queued"}
  /\ life' = [life EXCEPT ![t] = "lost"]

Begin(t) ==
  /\ life[t] = "queued"
  /\ \A u \in Ticket : life[u] # "delivering"
  /\ \A u \in Ticket : u[1] = t[1] /\ u[2] > t[2] => ~Begun(u)
  /\ life' = [life EXCEPT ![t] = "delivering"]

End(t) ==
  /\ life[t] = "delivering"
  /\ life' = [life EXCEPT ![t] = "delivered"]

Next == \E t \in Ticket : Offer(t) \/ Accept(t) \/ Lose(t) \/ Begin(t) \/ End(t)

Spec == Init /\ [][Next]_life
=============================================================================
