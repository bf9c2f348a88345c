------------------------------ MODULE Refunds ------------------------------
(***************************************************************************)
(* Refunds of one payment (executeRefund, payment.orchestrator.js). Each   *)
(* administrator's request reads the payment and the refunds made so far,  *)
(* checks what is left, looks for the wallets of both parties, creates a   *)
(* row of its own, pays from the wallet of the recipient, and records the  *)
(* refund on the payment by writing back the metadata it read at first.    *)
(***************************************************************************)
EXTENDS PaymentTransitions

CONSTANTS Refund,   \* requests for a refund of the payment
          Asked,    \* the amount each asks for
          Original  \* the amount of the payment

ASSUME RefundAssumption ==
  /\ IsFiniteSet(Refund)
  /\ Asked \in [Refund -> Nat \ {0}]
  /\ Original \in Nat \ {0}

VARIABLES refund,   \* where each request is
          status,   \* the status of its row
          listed,   \* the refunds in the metadata of the payment
          seen,     \* what of that each request has read
          beside,   \* the refunds checked before each and not settled when it was
          returned  \* the refunds whose money moved

refundVars == <<refund, status, listed, seen, beside, returned>>

UnderWay == {"reserved", "submitted", "failing"}

RefundTypeOK ==
  /\ refund \in [Refund -> {"new", "read", "checked", "ended"} \cup UnderWay]
  /\ status \in [Refund -> {"none"} \cup PaymentStatuses]
  /\ listed \subseteq Refund
  /\ seen \in [Refund -> SUBSET Refund]
  /\ beside \in [Refund -> SUBSET Refund]
  /\ returned \subseteq Refund

RefundInit ==
  /\ refund = [f \in Refund |-> "new"]
  /\ status = [f \in Refund |-> "none"]
  /\ listed = {}
  /\ seen = [f \in Refund |-> {}]
  /\ beside = [f \in Refund |-> {}]
  /\ returned = {}

AmountOf(refunds) == SumOf(Asked, refunds)
RefundSettled == {f \in Refund : status[f] = "success"}
RefundStep(f, from, to) == refund[f] = from /\ refund' = [refund EXCEPT ![f] = to]

\* (Mutant: only what the metadata lists is taken off.)
RefundableByList(f) == Asked[f] <= Original - AmountOf(seen[f])

\* The greater of the two sums is taken off the amount of the payment: the
\* refunds its metadata listed, and the rows that are successful.
Refundable(f) ==
  /\ Asked[f] <= Original - AmountOf(seen[f])
  /\ Asked[f] <= Original - AmountOf(RefundSettled)

ReadOriginal(f) ==
  /\ RefundStep(f, "new", "read")
  /\ seen' = [seen EXCEPT ![f] = listed]
  /\ UNCHANGED <<status, listed, beside, returned>>

\* A refund that was checked, with or without a row yet, and is not settled.
Unsettled(f) == refund[f] = "checked" \/ status[f] = "processing"

\* The rows are summed and what is left is compared with what is asked.
CheckRefund(f) ==
  /\ Refundable(f)
  /\ RefundStep(f, "read", "checked")
  /\ beside' = [beside EXCEPT ![f] = {g \in Refund : Unsettled(g)}]
  /\ UNCHANGED <<status, listed, seen, returned>>

\* The wallets of both parties were found: the row is created.
ReserveRefund(f) ==
  /\ RefundStep(f, "checked", "reserved")
  /\ status' = [status EXCEPT ![f] = "processing"]
  /\ UNCHANGED <<listed, seen, beside, returned>>

\* Too much is asked, or a wallet is missing, or the database does not answer.
RefuseRefund(f) ==
  /\ RefundStep(f, "read", "ended") \/ RefundStep(f, "checked", "ended")
  /\ UNCHANGED <<status, listed, seen, beside, returned>>

\* The network takes the payment or not; a failure may hide a success.
SubmitRefund(f) ==
  /\ \/ RefundStep(f, "reserved", "submitted") /\ returned' = returned \cup {f}
     \/ RefundStep(f, "reserved", "failing") /\ returned' = returned \cup {f}
     \/ RefundStep(f, "reserved", "failing") /\ UNCHANGED returned
  /\ UNCHANGED <<status, listed, seen, beside>>

\* One transaction: the row, if it is still processing, the metadata of the
\* payment as it was read with this refund added, and the journal entry.
SettleRefund(f) ==
  /\ RefundStep(f, "submitted", "ended")
  /\ IF TransitionAccepted(status[f], {"processing"}, "success")
     THEN /\ status' = [status EXCEPT ![f] = "success"]
          /\ listed' = seen[f] \cup {f}
     ELSE UNCHANGED <<status, listed>>
  /\ UNCHANGED <<seen, beside, returned>>

\* That transaction fails: the refund is marked as failed like any other.
SettleFails(f) ==
  /\ RefundStep(f, "submitted", "failing")
  /\ UNCHANGED <<status, listed, seen, beside, returned>>

MarkRefundFailed(f) ==
  /\ RefundStep(f, "failing", "ended")
  /\ status' = [status EXCEPT ![f] =
       IF TransitionAccepted(status[f], {"processing"}, "failed") THEN "failed" ELSE status[f]]
  /\ UNCHANGED <<listed, seen, beside, returned>>

RefundDies(f) ==
  /\ refund[f] \in UnderWay
  /\ refund' = [refund EXCEPT ![f] = "ended"]
  /\ UNCHANGED <<status, listed, seen, beside, returned>>

\* The reconciler settles a row that nobody did.
ReconcileRefund(f, to) ==
  /\ status[f] = "processing"
  /\ to = "success" => f \in returned
  /\ status' = [status EXCEPT ![f] = to]
  /\ UNCHANGED <<refund, listed, seen, beside, returned>>

RefundNext ==
  \E f \in Refund :
    \/ ReadOriginal(f) \/ CheckRefund(f) \/ ReserveRefund(f) \/ RefuseRefund(f) \/ SubmitRefund(f)
    \/ SettleRefund(f) \/ SettleFails(f) \/ MarkRefundFailed(f) \/ RefundDies(f)
    \/ \E to \in {"success", "failed", "expired"} : ReconcileRefund(f, to)

RefundSpec == RefundInit /\ [][RefundNext]_refundVars
-----------------------------------------------------------------------------
\* No more than the payment goes back ("Refund amount exceeds the maximum
\* refundable amount", executeRefund), unless one was checked after another
\* was and before that one was settled, or one moved money and is not recorded
\* as successful. Lost entries of the payment's metadata do no harm: the rows
\* are summed as well.
RefundedWithin ==
  AmountOf(returned) > Original =>
    \/ \E f \in returned : status[f] # "success"
    \/ \E f, g \in returned : g \in beside[f]
=============================================================================
