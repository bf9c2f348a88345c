------------------------- MODULE NotificationOutbox -------------------------
(***************************************************************************)
(* One logical WhatsApp notification that must not be sent unrecorded: the *)
(* calls of sendTextMessage that share its idempotency key and its row in  *)
(* the table Notification (services/notificationOutbox.service.js and the  *)
(* Meta transport of services/messaging.service.js).  Calls come from      *)
(* overlapping sweeps and from several processes.                          *)
(*                                                                         *)
(* Meta gives every message it accepts an id, 1, 2, ...  An answer of 5xx  *)
(* or no answer at all does not tell whether the message was accepted.     *)
(***************************************************************************)
EXTENDS Integers

CONSTANTS Call,      \* the calls of sendTextMessage with the key
          MaxPosts,  \* 1 + config.whatsapp.maxSendRetries
          MaxStamp,  \* bounds the timestamps of status callbacks
          Slow       \* whether a call may outlast UNRESOLVED_AFTER_MS

ASSUME OutboxAssumption ==
  /\ MaxPosts \in Nat \ {0}
  /\ MaxStamp \in Nat
  /\ Slow \in BOOLEAN

VARIABLES notification,  \* the row of the key
          send,          \* what each call is doing
          accepted       \* how many messages Meta accepted

outboxVars == <<notification, send, accepted>>

Rank == [sent |-> 1, delivered |-> 2, read |-> 3, failed |-> 4]
RankOf(status) == IF status \in DOMAIN Rank THEN Rank[status] ELSE 0

\* "none" is the absence of the row; 0 is the provider id null.
RowStates == {"none", "queued", "sending", "unknown"} \cup DOMAIN Rank
NoRow == [status |-> "none", provider |-> 0, last |-> 0]

Outcomes == {"accepted", "permanent_failure", "transient_failure", "unknown"}

OutboxTypeOK ==
  /\ notification \in [status : RowStates, provider : Nat, last : 0 .. MaxStamp]
  /\ send \in [Call -> [step : {"reserving", "claiming", "over"}]
                       \cup [step : {"posting"}, posts : 0 .. MaxPosts - 1]
                       \cup [step : {"attaching"}, outcome : Outcomes, id : Nat]]
  /\ accepted \in Nat

OutboxInit ==
  /\ notification = NoRow
  /\ send = [c \in Call |-> [step |-> "reserving"]]
  /\ accepted = 0

Sends(c, step) == send[c].step = step
Continue(c, state) == send' = [send EXCEPT ![c] = state]
EndCall(c) == Continue(c, [step |-> "over"])

\* The call that has claimed the row and not yet written its outcome.
InFlight(c) == send[c].step \in {"posting", "attaching"}
-----------------------------------------------------------------------------
\* (Mutant: a row that is only reserved also ends the call.)
ReserveOnce(c) ==
  /\ Sends(c, "reserving")
  /\ notification' = IF notification = NoRow
                     THEN [notification EXCEPT !.status = "queued"] ELSE notification
  /\ IF notification.status \in {"queued", "sent"} THEN EndCall(c) ELSE Continue(c, [step |-> "claiming"])
  /\ UNCHANGED accepted

\* The intent is written before anything is sent, unless it is there already.
Reserve(c) ==
  /\ Sends(c, "reserving")
  /\ notification' = IF notification = NoRow
                     THEN [notification EXCEPT !.status = "queued"] ELSE notification
  /\ IF notification.status = "sent" THEN EndCall(c) ELSE Continue(c, [step |-> "claiming"])
  /\ UNCHANGED accepted

\* (Mutant: the claim does not ask for a queued row.)
ClaimUnguarded(c) ==
  /\ Sends(c, "claiming")
  /\ notification' = [notification EXCEPT !.status = "sending"]
  /\ Continue(c, [step |-> "posting", posts |-> 0])
  /\ UNCHANGED accepted

\* A call that finds the row in any other state than queued sends nothing.
ClaimForSend(c) ==
  /\ Sends(c, "claiming")
  /\ IF notification.status = "queued"
     THEN /\ notification' = [notification EXCEPT !.status = "sending"]
          /\ Continue(c, [step |-> "posting", posts |-> 0])
     ELSE /\ EndCall(c)
          /\ UNCHANGED notification
  /\ UNCHANGED accepted

Attaching(outcome, id) == [step |-> "attaching", outcome |-> outcome, id |-> id]

PostAccepted(c) ==
  /\ Sends(c, "posting")
  /\ accepted' = accepted + 1
  /\ Continue(c, Attaching("accepted", accepted + 1))
  /\ UNCHANGED notification

PostRejected(c) ==
  /\ Sends(c, "posting")
  /\ Continue(c, Attaching("permanent_failure", 0))
  /\ UNCHANGED <<notification, accepted>>

\* A time out, a cancelled call or an answer without a message id.
PostUnanswered(c) ==
  /\ Sends(c, "posting")
  /\ accepted' \in {accepted, accepted + 1}
  /\ Continue(c, Attaching("unknown", 0))
  /\ UNCHANGED notification

\* 429, 5xx or no connection: the message is posted again, up to MaxPosts times.
PostUnavailable(c) ==
  /\ Sends(c, "posting")
  /\ accepted' \in {accepted, accepted + 1}
  /\ LET posts == send[c].posts + 1
     IN Continue(c, IF posts = MaxPosts THEN Attaching("transient_failure", 0)
                    ELSE [step |-> "posting", posts |-> posts])
  /\ UNCHANGED notification

\* Blind: also over a row the sweep has flagged.  The time of the update
\* becomes lastStatusAt, and nothing relates it to the whole seconds in which
\* Meta stamps its callbacks.
MarkSent(c) ==
  /\ Sends(c, "attaching")
  /\ send[c].outcome = "accepted"
  /\ \E now \in 0 .. MaxStamp :
       notification' = [status |-> "sent", provider |-> send[c].id, last |-> now]
  /\ EndCall(c)
  /\ UNCHANGED accepted

MarkSendFailed(c) ==
  /\ Sends(c, "attaching")
  /\ send[c].outcome = "permanent_failure"
  /\ notification' = [notification EXCEPT !.status = "failed", !.provider = 0]
  /\ EndCall(c)
  /\ UNCHANGED accepted

\* (Mutant: looks for rows that were not claimed yet.)
UnresolvedQueued(row) == IF row.status = "queued" THEN [row EXCEPT !.status = "unknown"] ELSE row

Unresolved(row) == IF row.status = "sending" THEN [row EXCEPT !.status = "unknown"] ELSE row

\* After a transient failure the call also tries to leave a second row to the
\* retry queue, and throws: the table has no column metadata.
MarkUnresolved(c) ==
  /\ Sends(c, "attaching")
  /\ send[c].outcome \in {"unknown", "transient_failure"}
  /\ notification' = Unresolved(notification)
  /\ EndCall(c)
  /\ UNCHANGED accepted

\* The process dies, or an access to the database fails and the call throws.
CallDies(c) ==
  /\ ~ Sends(c, "over")
  /\ EndCall(c)
  /\ UNCHANGED <<notification, accepted>>

\* The sweep of reconcileUnresolvedSends, over rows claimed a while ago.
Sweep ==
  /\ notification.status = "sending"
  /\ Slow \/ \A c \in Call : ~ InFlight(c)
  /\ notification' = Unresolved(notification)
  /\ UNCHANGED <<send, accepted>>

SendStep(c) ==
  \/ Reserve(c) \/ ClaimForSend(c)
  \/ PostAccepted(c) \/ PostRejected(c) \/ PostUnanswered(c) \/ PostUnavailable(c)
  \/ MarkSent(c) \/ MarkSendFailed(c) \/ MarkUnresolved(c)

OutboxNext == (\E c \in Call : SendStep(c) \/ CallDies(c)) \/ Sweep
-----------------------------------------------------------------------------
\* Of all calls with one key, at most one gets to post the message, and a
\* message that Meta may have accepted belongs to that call: a row that still
\* says queued has not been handed to Meta.
OneSender ==
  /\ \A c, d \in Call : InFlight(c) /\ InFlight(d) => c = d
  /\ accepted > 0 \/ (\E c \in Call : InFlight(c)) => notification.status \notin {"none", "queued"}

\* A claimed notification does not stay in flight: its call writes the outcome,
\* or the sweep shows the row to the operators as unknown.
SendingEnds == (notification.status = "sending") ~> (notification.status # "sending")
=============================================================================
