------------------------------- MODULE Inbound -------------------------------
(***************************************************************************)
(* From the provider's webhook to the end of a message's processing        *)
(* (controllers/webhook.controller.js, jobs/inbound.jobs.js and module     *)
(* Ordering).  The ProcessedMessage row of a message is its claim: created *)
(* by the first delivery, it decides what a redelivery does.               *)
(*                                                                         *)
(* The provider may deliver a message again at any time: it was refused,   *)
(* or the 200 did not reach it.  Deliveries of one message may overlap.    *)
(***************************************************************************)
EXTENDS Ordering

CONSTANT Handler  \* webhook requests that can be in progress at once

VARIABLES claim,    \* ProcessedMessage.status, "none" without a row
          handler,  \* what each webhook request is doing
          dropped   \* the messages that were throttled, or of an invalid sender

webVars == <<claim, handler, dropped>>
vars == <<ordVars, webVars>>

ClaimStates == {"none", "claiming", "queued", "failed", "processing", "completed"}
HandlerSteps == {"received", "found", "reclaiming", "claimed", "added", "notAdded", "answered"}

TypeOK ==
  /\ OrdTypeOK
  /\ claim \in [Message -> ClaimStates]
  /\ handler \in [Handler -> {Idle} \cup [step : HandlerSteps, m : Message]]
  /\ dropped \subseteq Message

Init ==
  /\ OrdInit
  /\ claim = [m \in Message |-> "none"]
  /\ handler = [h \in Handler |-> Idle]
  /\ dropped = {}

HandlerAt(h, step) == handler[h].step = step
HandlerGoto(h, step) == handler' = [handler EXCEPT ![h].step = step]
Claim(m, status) == claim' = [claim EXCEPT ![m] = status]

\* UPDATE ... WHERE status = 'claiming'.
Release(m, status) == claim' = IF claim[m] = "claiming" THEN [claim EXCEPT ![m] = status] ELSE claim

\* The response ends the request: 200, or 503.
Acknowledge(h) == HandlerGoto(h, "answered")
Refuse(h) == handler' = [handler EXCEPT ![h] = Idle]
-----------------------------------------------------------------------------
(***************************************************************************)
(* processMessage of the webhook controller.                               *)
(***************************************************************************)
Deliver(h, m) ==
  /\ handler[h].step \in {"idle", "answered"}
  /\ handler' = [handler EXCEPT ![h] = [step |-> "received", m |-> m]]
  /\ UNCHANGED <<claim, dropped, ordVars>>

\* processedMessage.create, whose unique message id lets one delivery through.
CreateClaim(h) ==
  /\ HandlerAt(h, "received")
  /\ IF claim[handler[h].m] = "none"
     THEN Claim(handler[h].m, "claiming") /\ HandlerGoto(h, "claimed")
     ELSE UNCHANGED claim /\ HandlerGoto(h, "found")
  /\ UNCHANGED <<dropped, ordVars>>

\* The row that was there is read: a failed one may be reclaimed, one that is
\* being claimed asks the provider to come again, any other is a duplicate.
ReadClaim(h) ==
  /\ HandlerAt(h, "found")
  /\ CASE claim[handler[h].m] = "failed"   -> HandlerGoto(h, "reclaiming")
       [] claim[handler[h].m] = "claiming" -> Refuse(h)
       [] OTHER                            -> Acknowledge(h)
  /\ UNCHANGED <<claim, dropped, ordVars>>

\* Another delivery may have reclaimed the row since it was read as failed:
\* then this one is answered as a duplicate.
Reclaim(h) ==
  /\ HandlerAt(h, "reclaiming")
  /\ IF claim[handler[h].m] = "failed"
     THEN Claim(handler[h].m, "claiming") /\ HandlerGoto(h, "claimed")
     ELSE UNCHANGED claim /\ Acknowledge(h)
  /\ UNCHANGED <<dropped, ordVars>>

\* An invalid sender, or one above its rate limit: the claim is released as if
\* the message had been queued, or stays if that update fails.
Drop(h) ==
  /\ HandlerAt(h, "claimed")
  /\ dropped' = dropped \cup {handler[h].m}
  /\ Release(handler[h].m, "queued") \/ UNCHANGED claim
  /\ Acknowledge(h)
  /\ UNCHANGED ordVars

\* The rate limit could not be read, or the first claim could not be written:
\* the claim stays as it is.
Break(h) ==
  /\ HandlerAt(h, "claimed")
  /\ Refuse(h)
  /\ UNCHANGED <<claim, dropped, ordVars>>

Enqueue(h) ==
  /\ HandlerAt(h, "claimed")
  /\ AddJob(handler[h].m)
  /\ HandlerGoto(h, "added")
  /\ UNCHANGED <<run, lock, cursor, remembered, begun, claim, dropped>>

\* enqueue throws, and the job may have been added or not.
EnqueueThrows(h) ==
  /\ HandlerAt(h, "claimed")
  /\ AddJob(handler[h].m) \/ UNCHANGED job
  /\ HandlerGoto(h, "notAdded")
  /\ UNCHANGED <<run, lock, cursor, remembered, begun, claim, dropped>>

\* (Mutant: a delivery that could not be queued is recorded like one that was.)
RecordQueued(h) ==
  /\ HandlerAt(h, "notAdded")
  /\ Release(handler[h].m, "queued") \/ UNCHANGED claim
  /\ Refuse(h)
  /\ UNCHANGED <<dropped, ordVars>>

\* The claim is failed, or stays 'claiming' if that update fails as well.
RecordFailed(h) ==
  /\ HandlerAt(h, "notAdded")
  /\ Release(handler[h].m, "failed") \/ UNCHANGED claim
  /\ Refuse(h)
  /\ UNCHANGED <<dropped, ordVars>>

\* The claim is queued unless the job has already moved it on; if the update
\* throws the request is refused although the job exists.
MarkQueued(h) ==
  /\ HandlerAt(h, "added")
  /\ \/ Release(handler[h].m, "queued") /\ Acknowledge(h)
     \/ UNCHANGED claim /\ Refuse(h)
  /\ UNCHANGED <<dropped, ordVars>>

HandlerCrash(h) ==
  /\ handler[h].step \notin {"idle", "answered"}
  /\ Refuse(h)
  /\ UNCHANGED <<claim, dropped, ordVars>>

Serve(h) ==
  \/ CreateClaim(h) \/ ReadClaim(h) \/ Reclaim(h) \/ Drop(h) \/ Break(h)
  \/ Enqueue(h) \/ EnqueueThrows(h) \/ RecordFailed(h) \/ MarkQueued(h)
-----------------------------------------------------------------------------
(***************************************************************************)
(* processInboundMessage keeps the row up to date while the job runs.      *)
(***************************************************************************)
BeginProcessing(w) ==
  /\ MarkProcessing(w)
  /\ IF run'[w].step = "handling" THEN Claim(run[w].m, "processing") ELSE UNCHANGED claim
  /\ UNCHANGED <<handler, dropped>>

EndProcessing(w) ==
  /\ MarkCompleted(w)
  /\ Claim(run[w].m, "completed") \/ UNCHANGED claim
  /\ UNCHANGED <<handler, dropped>>

Work(w) ==
  \/ Process(w) /\ UNCHANGED webVars
  \/ BeginProcessing(w) \/ EndProcessing(w)
  \/ (HandlerReturns(w) \/ HandlerThrows(w)) /\ UNCHANGED webVars

Next ==
  \/ \E h \in Handler, m \in Message : Deliver(h, m)
  \/ \E h \in Handler : Serve(h) \/ HandlerCrash(h)
  \/ \E w \in Worker : Work(w)
  \/ \E w \in Worker : (Crash(w) \/ Stall(w)) /\ UNCHANGED webVars
  \/ LockExpires /\ UNCHANGED webVars

Spec == Init /\ [][Next]_vars
-----------------------------------------------------------------------------
(***************************************************************************)
(* What must hold.                                                         *)
(***************************************************************************)

\* A row never says that a message was queued, or more, unless there is a job
\* for it or it was dropped on purpose: what is lost can be found by its row.
QueuedHasJob ==
  \A m \in Message : claim[m] \in {"queued", "processing", "completed"} =>
    job[m].state # "none" \/ m \in dropped
=============================================================================
