------------------------------ MODULE Deposits ------------------------------
(***************************************************************************)
(* The deposit poller (jobs/deposits.jobs.js) on one wallet.  Sweeps page  *)
(* through the payments of the account from the wallet's cursor, record    *)
(* those that come in in the deposit outbox together with the cursor, try  *)
(* to tell the customer, and retry what is still pending.  A sweep starts  *)
(* every 30 seconds in every worker, whether or not others have ended.     *)
(*                                                                         *)
(* The alerts of all deposits of a wallet share one idempotency key: each  *)
(* sweep is a caller of sendTextMessage for one and the same notification. *)
(* The paging tokens of the account are 1, 2, ...; deposits are in the     *)
(* trusted asset (others are told of without a durable record).            *)
(***************************************************************************)
EXTENDS NotificationOutbox

CONSTANTS MaxToken,     \* bounds the payments of the account
          Inbound,      \* those to the wallet, by their paging token
          PageSize,     \* payments in a page of Horizon
          MaxAttempts,  \* attempts before an alert is a dead letter
          MaxFaults     \* bounds the failed accesses and deaths of sweeps

Sweeper == Call

ASSUME DepositsAssumption ==
  /\ MaxToken \in Nat
  /\ Inbound \subseteq 1 .. MaxToken
  /\ PageSize \in Nat \ {0}
  /\ MaxAttempts \in Nat \ {0}
  /\ MaxFaults \in Nat

VARIABLES ledger,   \* the last payment of the account, 0 before the first
          cursor,   \* Wallet.paymentCursor, 0 for null
          starts,   \* the cursors that first polls have written
          deposit,  \* the rows of DepositOutboxRecord
          poll,     \* what each sweep is doing
          posted,   \* the deposits whose alert a sweep has posted to Meta
          faults    \* how many faults the sweeps have met

pollerVars == <<ledger, cursor, starts, deposit, poll, posted, faults>>
vars == <<outboxVars, pollerVars>>

Token == 0 .. MaxToken
\* The attempts of the pending deposits a sweep has still to retry; -1 for
\* those that are not on its list.
Lists == [Inbound -> Nat \cup {-1}]
Nothing == [t \in Inbound |-> -1]

PollSteps == {"starting", "writing", "paging", "recording", "checking", "comparing", "advancing"}
AlertSteps == {"alerting", "delivering", "deferring"}

Polling == [step : {"idle", "listing", "retrying"} \cup PollSteps \cup AlertSteps,
            from : Token, last : Token, token : Token, list : Lists]

TypeOK ==
  /\ OutboxTypeOK
  /\ ledger \in Token
  /\ cursor \in Token
  /\ starts \subseteq Token
  /\ deposit \in [Inbound -> [status : {"none", "pending", "delivered", "dead_letter"},
                              attempts : Nat]]
  /\ poll \in [Sweeper -> Polling]
  /\ posted \subseteq Inbound
  /\ faults \in 0 .. MaxFaults

Idle == [step |-> "idle", from |-> 0, last |-> 0, token |-> 0, list |-> Nothing]

Init ==
  /\ OutboxInit
  /\ ledger = 0
  /\ cursor = 0
  /\ starts = {}
  /\ deposit = [t \in Inbound |-> [status |-> "none", attempts |-> 0]]
  /\ poll = [s \in Sweeper |-> Idle]
  /\ posted = {}
  /\ faults = 0

At(s, step) == poll[s].step = step
Become(s, state) == poll' = [poll EXCEPT ![s] = state]
Go(s, step) == Become(s, [poll[s] EXCEPT !.step = step])

\* A sweep works on its list once it has read the outbox.
Retries(s) == poll[s].list # Nothing

Fault == faults < MaxFaults /\ faults' = faults + 1
-----------------------------------------------------------------------------
NewPayment ==
  /\ ledger < MaxToken
  /\ ledger' = ledger + 1
  /\ UNCHANGED <<outboxVars, cursor, starts, deposit, poll, posted, faults>>

\* The cursor the sweep works with is the one it reads here.
StartSweep(s) ==
  /\ At(s, "idle")
  /\ Become(s, [Idle EXCEPT !.step = IF cursor = 0 THEN "starting" ELSE "paging",
                            !.from = cursor])
  /\ UNCHANGED <<outboxVars, ledger, cursor, starts, deposit, posted, faults>>

PageEnd(from) == IF from + PageSize < ledger THEN from + PageSize ELSE ledger

\* The first poll of a wallet looks for the last payment; if Horizon refuses
\* that, for the first page.
FetchLatest(s) ==
  /\ At(s, "starting")
  /\ \/ /\ ledger = 0
        /\ Go(s, "listing")
        /\ UNCHANGED faults
     \/ /\ ledger > 0
        /\ Become(s, [poll[s] EXCEPT !.step = "writing", !.token = ledger])
        /\ UNCHANGED faults
     \/ /\ ledger > 0
        /\ Fault
        /\ Become(s, [poll[s] EXCEPT !.step = "writing", !.token = PageEnd(0)])
  /\ UNCHANGED <<outboxVars, ledger, cursor, starts, deposit, posted>>

\* Blind: also over the cursor of another first poll, and of sweeps after it.
WriteStart(s) ==
  /\ At(s, "writing")
  /\ cursor' = poll[s].token
  /\ starts' = starts \cup {poll[s].token}
  /\ Go(s, "listing")
  /\ UNCHANGED <<outboxVars, ledger, deposit, posted, faults>>
-----------------------------------------------------------------------------
\* The next deposit of the page after a token, or the end of the page.
ToNextDeposit(s, state, after) ==
  \/ \E t \in Inbound :
       /\ after < t /\ t <= state.last
       /\ \A u \in Inbound : after < u => t <= u
       /\ Become(s, [state EXCEPT !.step = "recording", !.token = t])
  \/ /\ \A t \in Inbound : after < t => t > state.last
     /\ Become(s, [state EXCEPT !.step = IF after = state.from THEN "advancing" ELSE "comparing"])

FetchPage(s) ==
  /\ At(s, "paging")
  /\ LET from == poll[s].from
     IN IF PageEnd(from) <= from THEN Go(s, "listing")
        ELSE ToNextDeposit(s, [poll[s] EXCEPT !.last = PageEnd(from)], from)
  /\ UNCHANGED <<outboxVars, ledger, cursor, starts, deposit, posted, faults>>

\* (Mutant: the cursor of the whole page is written with the first deposit.)
RecordPage(s) ==
  /\ At(s, "recording")
  /\ cursor' = poll[s].last
  /\ deposit' = [deposit EXCEPT ![poll[s].token].status = IF @ = "none" THEN "pending" ELSE @]
  /\ Go(s, "checking")
  /\ UNCHANGED <<outboxVars, ledger, starts, posted, faults>>

\* One transaction: the cursor, blindly, and the intent unless it is there.
Record(s) ==
  /\ At(s, "recording")
  /\ cursor' = poll[s].token
  /\ deposit' = [deposit EXCEPT ![poll[s].token].status = IF @ = "none" THEN "pending" ELSE @]
  /\ Go(s, "checking")
  /\ UNCHANGED <<outboxVars, ledger, starts, posted, faults>>

\* The sweep calls sendTextMessage once more.
Alert(s, state) ==
  /\ Become(s, [state EXCEPT !.step = "alerting"])
  /\ Continue(s, [step |-> "reserving"])
  /\ UNCHANGED <<notification, accepted>>

\* If the look-up fails the customer is told all the same.
CheckDelivered(s) ==
  /\ At(s, "checking")
  /\ \/ /\ deposit[poll[s].token].status = "delivered"
        /\ ToNextDeposit(s, poll[s], poll[s].token)
        /\ UNCHANGED <<outboxVars, faults>>
     \/ /\ deposit[poll[s].token].status # "delivered"
        /\ Alert(s, poll[s])
        /\ UNCHANGED faults
     \/ Alert(s, poll[s]) /\ Fault
  /\ UNCHANGED <<ledger, cursor, starts, deposit, posted>>

ToNextPage(s) ==
  LET full == poll[s].last - poll[s].from >= PageSize
  IN Become(s, [poll[s] EXCEPT !.step = IF full THEN "paging" ELSE "listing", !.from = poll[s].last])

CompareCursor(s) ==
  /\ At(s, "comparing")
  /\ IF cursor = poll[s].last THEN ToNextPage(s) ELSE Go(s, "advancing")
  /\ UNCHANGED <<outboxVars, ledger, cursor, starts, deposit, posted, faults>>

Advance(s) ==
  /\ At(s, "advancing")
  /\ cursor' = poll[s].last
  /\ ToNextPage(s)
  /\ UNCHANGED <<outboxVars, ledger, starts, deposit, posted, faults>>
-----------------------------------------------------------------------------
\* (Mutant: the last attempt is not made.)
ListFewer(s) ==
  /\ At(s, "listing")
  /\ LET due == {t \in Inbound : deposit[t].status = "pending" /\ deposit[t].attempts + 1 < MaxAttempts}
     IN IF due = {} THEN Become(s, Idle)
        ELSE Become(s, [Idle EXCEPT !.step = "retrying",
               !.list = [t \in Inbound |-> IF t \in due THEN deposit[t].attempts ELSE -1]])
  /\ UNCHANGED <<outboxVars, ledger, cursor, starts, deposit, posted, faults>>

\* processDepositOutbox: what is pending and has attempts left.
ListPending(s) ==
  /\ At(s, "listing")
  /\ LET due == {t \in Inbound : deposit[t].status = "pending" /\ deposit[t].attempts < MaxAttempts}
     IN IF due = {} THEN Become(s, Idle)
        ELSE Become(s, [Idle EXCEPT !.step = "retrying",
               !.list = [t \in Inbound |-> IF t \in due THEN deposit[t].attempts ELSE -1]])
  /\ UNCHANGED <<outboxVars, ledger, cursor, starts, deposit, posted, faults>>

Retry(s, t) ==
  /\ At(s, "retrying")
  /\ poll[s].list[t] # -1
  /\ Alert(s, [poll[s] EXCEPT !.token = t])
  /\ UNCHANGED <<ledger, cursor, starts, deposit, posted, faults>>

ToNextRetry(s) ==
  LET rest == [poll[s].list EXCEPT ![poll[s].token] = -1]
  IN Become(s, IF rest = Nothing THEN Idle ELSE [poll[s] EXCEPT !.step = "retrying", !.list = rest])

ToNext(s) == IF Retries(s) THEN ToNextRetry(s) ELSE ToNextDeposit(s, poll[s], poll[s].token)
-----------------------------------------------------------------------------
\* Of all the outcomes of a call only this one throws, and no other is told
\* from a message sent.
Throws(s) == Sends(s, "attaching") /\ send[s].outcome = "transient_failure"

AlertStep(s) ==
  /\ At(s, "alerting")
  /\ SendStep(s)
  /\ posted' = IF Sends(s, "posting") THEN posted \cup {poll[s].token} ELSE posted
  /\ IF send'[s].step = "over"
     THEN Go(s, IF Throws(s) THEN "deferring" ELSE "delivering")
     ELSE UNCHANGED poll
  /\ UNCHANGED <<ledger, cursor, starts, deposit, faults>>

\* The database refuses an access of the call, which throws.
AlertThrows(s) ==
  /\ At(s, "alerting")
  /\ Fault
  /\ CallDies(s)
  /\ Go(s, "deferring")
  /\ UNCHANGED <<ledger, cursor, starts, deposit, posted>>

\* Both writes are unconditional; a retry also writes the attempts it read.
MarkDelivered(s) ==
  /\ At(s, "delivering")
  /\ LET t == poll[s].token
         attempts == IF Retries(s) THEN poll[s].list[t] + 1 ELSE deposit[t].attempts
     IN deposit' = [deposit EXCEPT ![t] = [status |-> "delivered", attempts |-> attempts]]
  /\ ToNext(s)
  /\ UNCHANGED <<outboxVars, ledger, cursor, starts, posted, faults>>

MarkDeliveredFails(s) ==
  /\ At(s, "delivering")
  /\ Fault
  /\ Go(s, "deferring")
  /\ UNCHANGED <<outboxVars, ledger, cursor, starts, deposit, posted>>

\* A retry writes over whatever the row has become.
Defer(s) ==
  /\ At(s, "deferring")
  /\ LET t == poll[s].token
         attempts == poll[s].list[t] + 1
     IN deposit' = [deposit EXCEPT ![t] =
          IF Retries(s)
          THEN [status |-> IF attempts >= MaxAttempts THEN "dead_letter" ELSE "pending",
                attempts |-> attempts]
          ELSE IF @.status = "pending" THEN [status |-> "pending", attempts |-> @.attempts + 1] ELSE @]
  /\ ToNext(s)
  /\ UNCHANGED <<outboxVars, ledger, cursor, starts, posted, faults>>

\* An error ends the poll of the wallet, and the sweep goes on to the outbox.
PollFails(s) ==
  /\ poll[s].step \in PollSteps \ {"checking"} \/ (At(s, "deferring") /\ ~ Retries(s))
  /\ Fault
  /\ Go(s, "listing")
  /\ UNCHANGED <<outboxVars, ledger, cursor, starts, deposit, posted>>

\* The process dies, or an error ends the work on the outbox.
SweepDies(s) ==
  /\ ~ At(s, "idle")
  /\ Fault
  /\ EndCall(s)
  /\ Become(s, Idle)
  /\ UNCHANGED <<notification, accepted, ledger, cursor, starts, deposit, posted>>

SweepStep(s) ==
  \/ StartSweep(s) \/ FetchLatest(s) \/ WriteStart(s) \/ FetchPage(s)
  \/ Record(s) \/ CheckDelivered(s) \/ CompareCursor(s) \/ Advance(s)
  \/ ListPending(s) \/ (\E t \in Inbound : Retry(s, t))
  \/ AlertStep(s) \/ MarkDelivered(s) \/ Defer(s)

Next ==
  \/ NewPayment
  \/ \E s \in Sweeper : \/ SweepStep(s) \/ AlertThrows(s) \/ MarkDeliveredFails(s)
                        \/ PollFails(s) \/ SweepDies(s)
  \/ Sweep /\ UNCHANGED pollerVars

Spec == Init /\ [][Next]_vars

\* The timer starts sweeps, and a sweep goes on.
FairSpec == Spec /\ \A s \in Sweeper : WF_vars(SweepStep(s))
-----------------------------------------------------------------------------
\* A deposit that the cursor has passed is recorded, unless a first poll
\* began after it: whatever sweeps overlap, fail, and write back older
\* cursors.
RecordedBelowCursor ==
  \A t \in Inbound :
    t <= cursor /\ (\A start \in starts : start < t) => deposit[t].status # "none"

\* The alerts of a wallet's deposits share one notification.  A deposit that is
\* called delivered although no sweep has posted its alert is one whose
\* notification was used up: another deposit of the wallet was told of with it,
\* or a call has claimed it and not come to an outcome.  A notification that
\* was only reserved hides no deposit.
DeliveredIsTold ==
  \A t \in Inbound :
    deposit[t].status = "delivered" /\ t \notin posted =>
      posted # {} \/ notification.status \in {"sending", "unknown"}

\* deposits.jobs.js:17, "no lost or duplicate alerts": of a deposit that is
\* called delivered the alert has been posted, or a sweep is about to post it.
NoLostAlert ==
  \A t \in Inbound :
    deposit[t].status = "delivered" =>
      t \in posted \/ \E s \in Sweeper : InFlight(s) /\ poll[s].token = t

\* Every deposit after the first poll gets to be delivered or a dead letter,
\* except one whose failures were counted by polls, which do not bury it.
DepositsSettle ==
  \A t \in Inbound :
    (t <= ledger) ~> (\/ deposit[t].status \in {"delivered", "dead_letter"}
                      \/ deposit[t].attempts >= MaxAttempts
                      \/ \E start \in starts : t <= start)
=============================================================================
