--------------------------- MODULE SpendingLimits ---------------------------
(***************************************************************************)
(* What a customer may send: the checks of enforceTransactionPolicy        *)
(* (compliance/compliance.service.js), which every payment passes before   *)
(* its row is reserved, and those of enforceWalletActivityLimit            *)
(* (compliance/kycDecision.service.js), exported for the same purpose. The *)
(* day's total is read from the rows, without a lock, and the new row is   *)
(* inserted later; a row counts only in some of its statuses.              *)
(*                                                                         *)
(* Amounts are in units of 10000 of the reference currency.                *)
(***************************************************************************)
EXTENDS PaymentTransitions

CONSTANTS Send,      \* payments of the customer
          Amount,    \* the amount of each, in the reference currency
          Customers  \* the profiles the customer may have

ASSUME LimitsAssumption ==
  /\ IsFiniteSet(Send)
  /\ Amount \in [Send -> Nat \ {0}]
  /\ \A c \in Customers : c.tier \in 0 .. 3 /\ c.risk \in Nat /\ c.trusted \in BOOLEAN

VARIABLES customer, \* the profile and the session of the customer
          sending,  \* where each payment is
          counted,  \* the rows each payment found in the last day
          money     \* the payments whose money moved

limitVars == <<customer, sending, counted, money>>

LimitInit ==
  /\ customer \in Customers
  /\ sending = [s \in Send |-> "new"]
  /\ counted = [s \in Send |-> {}]
  /\ money = {}
-----------------------------------------------------------------------------
\* Limits of a tier: of one payment and of a day.
Limits ==
  [t \in 0 .. 3 |->
    CASE t = 0 -> [single |-> 0, daily |-> 0]
      [] t = 1 -> [single |-> 2, daily |-> 5]
      [] t = 2 -> [single |-> 20, daily |-> 50]
      [] t = 3 -> [single |-> 100, daily |-> 500]]

RiskClass(score) ==
  CASE score >= 80 -> "critical"
    [] score > 59 /\ score < 80 -> "high"
    [] score > 29 /\ score <= 59 -> "medium"
    [] score <= 29 -> "low"

\* The limits of an activity: none at a critical risk, half at a high risk or
\* in a session that is not trusted (whole units, rounded down).
ActivityLimits(tier, score, trusted) ==
  CASE RiskClass(score) = "critical" -> Limits[0]
    [] RiskClass(score) = "high" \/ (RiskClass(score) # "critical" /\ ~ trusted) ->
         [single |-> Limits[tier].single \div 2, daily |-> Limits[tier].daily \div 2]
    [] OTHER -> Limits[tier]

\* calculateRiskScore of a domestic payment.
RiskOf(amount, score) ==
  LET own == IF score < 30 THEN score ELSE 30
      sum == 10 + (IF amount > 10 THEN 30 ELSE 0) + (IF amount > 5 THEN 10 ELSE 0) + own
  IN IF sum < 100 THEN sum ELSE 100

\* The statuses in which a row counts towards the day.
CountedStatuses == {"success", "processing", "pending"}

Recent == {s \in Send : sending[s] \in CountedStatuses}
Total(rows) == SumOf(Amount, rows)
-----------------------------------------------------------------------------
\* (Mutant: the new payment itself is left out of the total.)
PolicyCheckWithoutOwn(s) ==
  LET limits == Limits[customer.tier]
  IN /\ customer.active
     /\ customer.status = "approved"
     /\ customer.custody \notin {"denied", "review"}
     /\ customer.sanctions \notin {"blocked", "review"}
     /\ Amount[s] <= limits.single
     /\ Total(Recent) <= limits.daily

\* enforceTransactionPolicy up to the day's total.
PolicyCheck(s) ==
  LET limits == Limits[customer.tier]
  IN /\ customer.active
     /\ customer.status = "approved"
     /\ customer.custody \notin {"denied", "review"}
     /\ customer.sanctions \notin {"blocked", "review"}
     /\ Amount[s] <= limits.single
     /\ Total(Recent) + Amount[s] <= limits.daily

\* enforceWalletActivityLimit of a send. A custody review does not stop it.
ActivityCheck(s) ==
  LET limits == ActivityLimits(customer.tier, customer.risk, customer.trusted)
  IN /\ customer.active
     /\ RiskClass(customer.risk) # "critical"
     /\ customer.status = "approved"
     /\ customer.sanctions \notin {"blocked", "review"}
     /\ customer.custody # "denied"
     /\ Amount[s] <= limits.single
     /\ Total(Recent) + Amount[s] <= limits.daily

\* The rows of the day are read, and the payment is let through or refused by
\* whichever of the two checks its caller makes.
Check(s) ==
  /\ sending[s] = "new"
  /\ counted' = [counted EXCEPT ![s] = Recent]
  /\ \E passed \in {PolicyCheck(s), ActivityCheck(s)} :
       sending' = [sending EXCEPT ![s] = IF passed THEN "checked" ELSE "refused"]
  /\ UNCHANGED <<customer, money>>

\* The screening and the risk score come after the total was taken; then the
\* row is inserted and the transaction commits.
ReserveChecked(s) ==
  /\ sending[s] = "checked"
  /\ \/ /\ RiskOf(Amount[s], customer.risk) < 80
        /\ sending' = [sending EXCEPT ![s] = "processing"]
     \/ sending' = [sending EXCEPT ![s] = "refused"]
  /\ UNCHANGED <<customer, counted, money>>

\* The money moves while the row is on its way.
MoneyMoves(s) ==
  /\ sending[s] \in {"processing", "pending"}
  /\ money' = money \cup {s}
  /\ UNCHANGED <<customer, sending, counted>>

\* Whoever settles, fails, resolves or escalates the row.
Transition(s, to) ==
  /\ sending[s] \in PaymentStatuses
  /\ to \in PaymentTransitions[sending[s]]
  /\ sending' = [sending EXCEPT ![s] = to]
  /\ UNCHANGED <<customer, counted, money>>

LimitNext ==
  \E s \in Send :
    \/ Check(s)
    \/ ReserveChecked(s)
    \/ MoneyMoves(s)
    \/ \E to \in PaymentStatuses : Transition(s, to)

LimitSpec == LimitInit /\ [][LimitNext]_limitVars
-----------------------------------------------------------------------------
\* The money sent within the day stays below the daily limit of the tier
\* (compliance.service.js "exceeds your tier daily limit"), unless neither of
\* two of the payments found the row of the other when it was checked: both
\* were checked before either had a row, or the first row's status did not
\* count at that moment although its money moved (failed, expired, resolved,
\* escalated, cancelled or reversed).
DailyLimit ==
  Total(money) > Limits[customer.tier].daily =>
    \E s, r \in money : s # r /\ s \notin counted[r] /\ r \notin counted[s]
=============================================================================
