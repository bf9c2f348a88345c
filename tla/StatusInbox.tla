---------------------------- MODULE StatusInbox ----------------------------
(***************************************************************************)
(* What becomes of the status callbacks Meta sends for the messages of a   *)
(* notification: the webhook stores each in the inbox before it answers    *)
(* (controllers/webhook.controller.js), drains hand them from the inbox to *)
(* recordDeliveryStatus (services/webhookInbox.service.js, the webhook's   *)
(* own drains and those of jobs/messaging.jobs.js), and that advances the  *)
(* row of the notification (services/messaging.service.js).                *)
(*                                                                         *)
(* Meta sends a callback until it is acknowledged, in any order, together  *)
(* with any others.  Time is left out: an event may be due at any time     *)
(* after a failed attempt, also for a drain that looked for it earlier.    *)
(***************************************************************************)
EXTENDS NotificationOutbox, FiniteSets

CONSTANTS Callback,     \* the callbacks: records of message id and status
          Stamp,        \* the provider timestamp of each status
          Background,   \* the drains of the interval timers
          Inline,       \* the drains of webhook requests
          MaxAttempts,  \* attempts before an event is a dead letter
          MaxFaults     \* bounds the failed accesses and deaths of drains

Drain == Background \cup Inline

ASSUME InboxAssumption ==
  /\ Callback \subseteq [id : Nat \ {0}, status : DOMAIN Rank]
  /\ Stamp \in [DOMAIN Rank -> 0 .. MaxStamp]
  /\ MaxAttempts \in Nat \ {0}
  /\ MaxFaults \in Nat

VARIABLES inbox,     \* the rows of WebhookInboxEvent
          recorded,  \* the rows of WhatsappStatusEvent
          drain,     \* what each drain is doing
          acked,     \* the callbacks acknowledged to Meta
          result,    \* what recordDeliveryStatus last returned for each
          lost,      \* the events whose drain ended before it wrote an outcome
          faults     \* how many faults the drains have met

inboxVars == <<inbox, recorded, drain, acked, result, lost, faults>>
vars == <<outboxVars, inboxVars>>

EventStates == {"none", "pending", "processing", "processed", "failed", "dead_letter"}
Results == {"none", "recorded", "duplicate", "unmatched", "terminal_ignored", "out_of_order"}
HandlerSteps == {"inserting", "finding", "updating", "marking", "failing"}

Idle == [step |-> "idle"]

\* The attempts that the events a drain has still to handle had when it listed
\* them; -1 for the events that are not on its list.
Lists == [Callback -> Nat \cup {-1}]
Nothing == [e \in Callback |-> -1]

TypeOK ==
  /\ OutboxTypeOK
  /\ inbox \in [Callback -> [state : EventStates, attempts : Nat]]
  /\ recorded \subseteq Callback
  /\ drain \in [Drain -> {Idle}
                \cup [step : {"claiming"}, list : Lists]
                \cup [step : HandlerSteps, list : Lists, event : Callback]]
  /\ acked \subseteq Callback
  /\ result \in [Callback -> Results]
  /\ lost \subseteq Callback
  /\ faults \in 0 .. MaxFaults

Init ==
  /\ OutboxInit
  /\ inbox = [e \in Callback |-> [state |-> "none", attempts |-> 0]]
  /\ recorded = {}
  /\ drain = [d \in Drain |-> Idle]
  /\ acked = {}
  /\ result = [e \in Callback |-> "none"]
  /\ lost = {}
  /\ faults = 0

Drains(d, step) == drain[d].step = step
Handling(d, e) == drain[d].step \in HandlerSteps /\ drain[d].event = e
Go(d, step) == drain' = [drain EXCEPT ![d].step = step]

Fault == faults < MaxFaults /\ faults' = faults + 1

\* The drain is done with an event and turns to the rest of its list.
NextEvent(d, e) ==
  LET rest == [drain[d].list EXCEPT ![e] = -1]
  IN drain' = [drain EXCEPT ![d] = IF rest = Nothing THEN Idle
                                   ELSE [step |-> "claiming", list |-> rest]]
-----------------------------------------------------------------------------
(***************************************************************************)
(* The webhook: a batch of callbacks is stored item by item; if one could  *)
(* not be stored the answer is 503.                                        *)
(***************************************************************************)
\* recordInboundEvent: an item that is in the inbox already stays as it is.
RecordInboundEvent(e) == IF inbox[e].state = "none" THEN [inbox[e] EXCEPT !.state = "pending"] ELSE inbox[e]

\* ingestStatusBatch, of which some items could not be stored.
IngestStatusBatch(stored) ==
  inbox' = [e \in Callback |-> IF e \in stored THEN RecordInboundEvent(e) ELSE inbox[e]]

Ingest(batch, stored) ==
  /\ batch # {}
  /\ stored \subseteq batch
  /\ \A e \in batch : e.id <= accepted
  /\ ~ batch \subseteq acked
  /\ IngestStatusBatch(stored)
  /\ acked' = IF stored = batch THEN acked \cup batch ELSE acked
  /\ UNCHANGED <<outboxVars, recorded, drain, result, lost, faults>>
-----------------------------------------------------------------------------
Waiting(e) == inbox[e].state \in {"pending", "failed"}

\* A drain of a timer lists all that is due; one of a request lists as many
\* events as its batch had, the oldest first.
ListDue(d, due) ==
  /\ Drains(d, "idle")
  /\ due # {}
  /\ \A e \in due : Waiting(e)
  /\ d \in Background => due = {e \in Callback : Waiting(e)}
  /\ drain' = [drain EXCEPT ![d] = [step |-> "claiming",
       list |-> [e \in Callback |-> IF e \in due THEN inbox[e].attempts ELSE -1]]]
  /\ UNCHANGED <<outboxVars, inbox, recorded, acked, result, lost, faults>>

\* An event that is no longer waiting is skipped.
ClaimEvent(d, e) ==
  /\ Drains(d, "claiming")
  /\ drain[d].list[e] # -1
  /\ IF Waiting(e)
     THEN /\ inbox' = [inbox EXCEPT ![e] = [state |-> "processing", attempts |-> @.attempts + 1]]
          /\ drain' = [drain EXCEPT ![d] = [step |-> "inserting", list |-> drain[d].list, event |-> e]]
     ELSE /\ NextEvent(d, e)
          /\ UNCHANGED inbox
  /\ UNCHANGED <<outboxVars, recorded, acked, result, lost, faults>>

Return(d, verdict) ==
  /\ result' = [result EXCEPT ![drain[d].event] = verdict]
  /\ Go(d, "marking")

\* The event's row in WhatsappStatusEvent is unique: a second one is refused.
InsertStatusEvent(d) ==
  /\ Drains(d, "inserting")
  /\ LET e == drain[d].event
     IN IF e \in recorded THEN Return(d, "duplicate") /\ UNCHANGED recorded
        ELSE Go(d, "finding") /\ recorded' = recorded \cup {e} /\ UNCHANGED result
  /\ UNCHANGED <<outboxVars, inbox, acked, lost, faults>>

\* What keeps a status from being written to the row, "none" if nothing does.
Objection(e, row) ==
  CASE row.provider # e.id -> "unmatched"
    [] row.provider = e.id /\ row.status = "failed" -> "terminal_ignored"
    [] row.provider = e.id /\ row.status # "failed"
       /\ (Stamp[e.status] < row.last \/ Rank[e.status] < RankOf(row.status)) -> "out_of_order"
    [] OTHER -> "none"

FindNotification(d) ==
  /\ Drains(d, "finding")
  /\ LET objection == Objection(drain[d].event, notification)
     IN IF objection = "none" THEN Go(d, "updating") /\ UNCHANGED result
        ELSE Return(d, objection)
  /\ UNCHANGED <<outboxVars, inbox, recorded, acked, lost, faults>>

\* The update does not look at the row again.  (The retry it may queue for a
\* failed message is dropped by its processor, which looks for another field.)
UpdateNotification(d) ==
  /\ Drains(d, "updating")
  /\ LET status == drain[d].event.status
     IN notification' = [notification EXCEPT !.status = status, !.last = Stamp[status]]
  /\ Return(d, "recorded")
  /\ UNCHANGED <<send, accepted, inbox, recorded, acked, lost, faults>>

MarkProcessed(d) ==
  /\ Drains(d, "marking")
  /\ inbox' = [inbox EXCEPT ![drain[d].event].state = "processed"]
  /\ NextEvent(d, drain[d].event)
  /\ UNCHANGED <<outboxVars, recorded, acked, result, lost, faults>>

\* The database refuses an access of the handler, or the update to processed.
HandlerFails(d) ==
  /\ drain[d].step \in HandlerSteps \ {"failing"}
  /\ Fault
  /\ Go(d, "failing")
  /\ UNCHANGED <<outboxVars, inbox, recorded, acked, result, lost>>

\* (Mutant: the failure is swallowed.)
SwallowFailure(d) ==
  /\ Drains(d, "failing")
  /\ inbox' = [inbox EXCEPT ![drain[d].event].state = "processed"]
  /\ NextEvent(d, drain[d].event)
  /\ UNCHANGED <<outboxVars, recorded, acked, result, lost, faults>>

\* (Mutant: the event is left as it is while it has attempts.)
LeaveProcessing(d) ==
  /\ Drains(d, "failing")
  /\ LET e == drain[d].event
         exhausted == drain[d].list[e] + 1 >= MaxAttempts
     IN /\ inbox' = [inbox EXCEPT ![e].state = IF exhausted THEN "dead_letter" ELSE @]
        /\ NextEvent(d, e)
  /\ UNCHANGED <<outboxVars, recorded, acked, result, lost, faults>>

\* The attempts are those the drain read when it listed the event.
MarkFailed(d) ==
  /\ Drains(d, "failing")
  /\ LET e == drain[d].event
         exhausted == drain[d].list[e] + 1 >= MaxAttempts
     IN /\ inbox' = [inbox EXCEPT ![e].state = IF exhausted THEN "dead_letter" ELSE "failed"]
        /\ NextEvent(d, e)
  /\ UNCHANGED <<outboxVars, recorded, acked, result, lost, faults>>

\* The process dies, or a claim or the update to failed is refused and ends
\* the drain.  The event it holds stays processing.
DrainDies(d) ==
  /\ ~ Drains(d, "idle")
  /\ Fault
  /\ lost' = lost \cup {e \in Callback : Handling(d, e)}
  /\ drain' = [drain EXCEPT ![d] = Idle]
  /\ UNCHANGED <<outboxVars, inbox, recorded, acked, result>>

DrainStep(d) ==
  \/ \E e \in Callback : ClaimEvent(d, e)
  \/ InsertStatusEvent(d) \/ FindNotification(d) \/ UpdateNotification(d)
  \/ MarkProcessed(d) \/ MarkFailed(d)

Next ==
  \/ OutboxNext /\ UNCHANGED inboxVars
  \/ \E batch \in SUBSET Callback : \E stored \in SUBSET batch : Ingest(batch, stored)
  \/ \E d \in Drain : \/ \E due \in SUBSET Callback : ListDue(d, due)
                      \/ DrainStep(d) \/ HandlerFails(d) \/ DrainDies(d)

Spec == Init /\ [][Next]_vars

\* Calls and drains go on, and the timers that registerJobs is there to start
\* keep sweeping rows in flight and draining what is due.
FairSpec ==
  /\ Spec
  /\ \A c \in Call : WF_vars(SendStep(c) /\ UNCHANGED inboxVars)
  /\ WF_vars(Sweep /\ UNCHANGED inboxVars)
  /\ \A d \in Drain : WF_vars(DrainStep(d))
  /\ \A d \in Background : WF_vars(\E due \in SUBSET Callback : ListDue(d, due))
-----------------------------------------------------------------------------
\* Two drains never handle the same event, and an event that says processing
\* is in the hands of one of them unless that one was lost.
OneHandler ==
  \A e \in Callback :
    /\ \A c, d \in Drain : Handling(c, e) /\ Handling(d, e) => c = d
    /\ inbox[e].state = "processing" => e \in lost \/ \E d \in Drain : Handling(d, e)

\* What Meta no longer sends is in the inbox, also when a part of a batch
\* could not be stored.
AckedIsStored == \A e \in acked : inbox[e].state # "none"

\* A processed status that the row of its message is behind has been passed
\* over because no row had its message id yet, because the row was stamped
\* later or was final, or because an earlier attempt got stuck after recording
\* it; or another recorded status of the message was written after it.
LossesKnown ==
  \A e \in Callback :
    /\ inbox[e].state = "processed"
    /\ notification.provider = e.id
    /\ RankOf(notification.status) < Rank[e.status]
    => \/ result[e] \in {"unmatched", "terminal_ignored", "out_of_order"}
       \/ result[e] = "duplicate" /\ inbox[e].attempts > 1
       \/ \E f \in recorded \ {e} : f.id = e.id /\ f.status = notification.status

\* A callback is accounted for on its whole way: stored if acknowledged, with
\* one drain at a time, and passed over for a known reason only
\* (webhookInbox.service.js, messaging.service.js:659-790).
CallbacksAccounted == AckedIsStored /\ OneHandler /\ LossesKnown

\* Every stored event is processed or dead-lettered, except those whose drain
\* ended while it held them.
EventsSettle ==
  \A e \in Callback :
    (inbox[e].state = "pending")
      ~> (inbox[e].state \in {"processed", "dead_letter"} \/ e \in lost)
=============================================================================
