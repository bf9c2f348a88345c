----------------------------- MODULE Callbacks -----------------------------
(***************************************************************************)
(* withIdempotency (webhooks/idempotency.service.js): the handler of a     *)
(* callback runs at most once for an event. Deliveries of an event claim   *)
(* its row; the events here are of one subject, the greater the later, and *)
(* a provider may reuse the id of an event for another body.               *)
(***************************************************************************)
EXTENDS Integers

CONSTANTS Event,     \* a set of times
          Delivery   \* deliveries that may be under way at once

ASSUME CallbackAssumption == Event \subseteq Nat

Bodies == {"first", "other"}

VARIABLES claims,    \* the WebhookEvent rows, by event
          delivery,  \* what each delivery is doing
          effects,   \* times the handler of each event took effect, up to 2
          shaken     \* events whose effect was not followed by "completed"

callbackVars == <<claims, delivery, effects, shaken>>

NoClaim == [state |-> "none", body |-> "none"]
NotDelivered == [step |-> "idle"]

CallbackInit ==
  /\ claims = [e \in Event |-> NoClaim]
  /\ delivery = [d \in Delivery |-> NotDelivered]
  /\ effects = [e \in Event |-> 0]
  /\ shaken = {}

DeliveryTo(d, step, e) == delivery' = [delivery EXCEPT ![d] = [step |-> step, event |-> e]]
Answered(d) == delivery' = [delivery EXCEPT ![d] = NotDelivered]
Delivering(d, step, e) == delivery[d].step = step /\ delivery[d].event = e
Put(e, state) == claims' = [claims EXCEPT ![e].state = state]

\* The row is created, or the one that is there decides: another body is a
\* conflict, a completed event a duplicate, one being processed in flight.
ClaimCallback(d, e, body) ==
  /\ delivery[d] = NotDelivered
  /\ IF claims[e] = NoClaim
     THEN /\ claims' = [claims EXCEPT ![e] = [state |-> "processing", body |-> body]]
          /\ DeliveryTo(d, "order", e)
     ELSE /\ claims[e].state = "failed" /\ claims[e].body = body
          /\ DeliveryTo(d, "reclaim", e)
          /\ UNCHANGED claims
  /\ UNCHANGED <<effects, shaken>>

\* (Mutant: the row is taken over whatever its state is by now.)
ReclaimCallbackAnyway(d, e) ==
  /\ Delivering(d, "reclaim", e)
  /\ Put(e, "processing") /\ DeliveryTo(d, "order", e)
  /\ UNCHANGED <<effects, shaken>>

\* A failed event is claimed again by whoever updates the row first.
ReclaimCallback(d, e) ==
  /\ Delivering(d, "reclaim", e)
  /\ IF claims[e].state = "failed" THEN Put(e, "processing") /\ DeliveryTo(d, "order", e)
     ELSE Answered(d) /\ UNCHANGED claims
  /\ UNCHANGED <<effects, shaken>>

Superseded(e) == \E f \in Event : f > e /\ claims[f].state = "completed"

\* An event older than one already completed is marked completed, unhandled.
Order(d, e) ==
  /\ Delivering(d, "order", e)
  /\ IF Superseded(e) THEN Put(e, "completed") /\ Answered(d)
     ELSE DeliveryTo(d, "handle", e) /\ UNCHANGED claims
  /\ UNCHANGED <<effects, shaken>>

\* The handler takes effect, and returns or throws afterwards; or it throws
\* before.
Handle(d, e) ==
  /\ Delivering(d, "handle", e)
  /\ \/ /\ effects' = [effects EXCEPT ![e] = IF @ < 2 THEN @ + 1 ELSE @]
        /\ \/ DeliveryTo(d, "done", e) /\ UNCHANGED shaken
           \/ DeliveryTo(d, "failed", e) /\ shaken' = shaken \cup {e}
     \/ DeliveryTo(d, "failed", e) /\ UNCHANGED <<effects, shaken>>
  /\ UNCHANGED claims

\* The update that completes the event stands in the same try as the handler:
\* when it fails the event is marked as failed, and will be handled again.
Record(d, e) ==
  /\ Delivering(d, "done", e)
  /\ \/ Put(e, "completed") /\ Answered(d) /\ UNCHANGED shaken
     \/ DeliveryTo(d, "failed", e) /\ shaken' = shaken \cup {e} /\ UNCHANGED claims
  /\ UNCHANGED effects

\* That update may fail too; the row then stays "processing" and every later
\* delivery is told that it is in flight.
RecordFailure(d, e) ==
  /\ Delivering(d, "failed", e)
  /\ \E known \in BOOLEAN : IF known THEN Put(e, "failed") ELSE UNCHANGED claims
  /\ Answered(d)
  /\ UNCHANGED <<effects, shaken>>

DeliveryDies(d) ==
  /\ delivery[d] # NotDelivered
  /\ Answered(d)
  /\ UNCHANGED <<claims, effects, shaken>>

CallbackNext ==
  \E d \in Delivery :
    \/ DeliveryDies(d)
    \/ \E e \in Event :
         \/ \E body \in Bodies : ClaimCallback(d, e, body)
         \/ ReclaimCallback(d, e) \/ Order(d, e) \/ Handle(d, e) \/ Record(d, e) \/ RecordFailure(d, e)

CallbackSpec == CallbackInit /\ [][CallbackNext]_callbackVars
-----------------------------------------------------------------------------
\* "Run handler at most once for a given callback event"
\* (idempotency.service.js:103): it takes effect once, however many
\* deliveries and retries there are, unless an effect was followed by an
\* error: of the handler, or of the update that would have said so.
EffectOnce == \A e \in Event : effects[e] > 1 => e \in shaken
=============================================================================
