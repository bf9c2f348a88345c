------------------------- MODULE PaymentTransitions -------------------------
(***************************************************************************)
(* The status of a payment row and the matrix every status change is meant *)
(* to respect (payment/payment.transitions.js).                            *)
(***************************************************************************)
EXTENDS Integers, FiniteSets

PaymentStatuses ==
  {"processing", "pending", "success", "failed", "expired",
   "cancelled", "resolved", "escalated", "reversed"}

\* The allowed next statuses of each status.
PaymentTransitions ==
  [processing |-> {"pending", "success", "failed", "cancelled", "reversed"},
   pending    |-> {"success", "failed", "expired", "escalated", "resolved",
                   "cancelled", "processing", "reversed"},
   escalated  |-> {"processing", "resolved", "failed", "success", "reversed"},
   failed     |-> {"processing"},
   expired    |-> {"processing"},
   cancelled  |-> {},
   success    |-> {"reversed"},
   resolved   |-> {},
   reversed   |-> {}]

\* Staying in the same status is always accepted.
IsValidPaymentTransition(from, to) ==
  from = to \/ to \in PaymentTransitions[from]

\* The matrix marks these statuses "Terminal state".
TerminalStatuses == {s \in PaymentStatuses : PaymentTransitions[s] = {}}

\* transitionPaymentState up to its compare-and-set: the row is read, the
\* matrix is checked on the status read, and that status must be one the
\* caller expects.
TransitionAccepted(current, expected, to) ==
  /\ to \in PaymentStatuses
  /\ IsValidPaymentTransition(current, to)
  /\ current \in expected

\* (Mutant: the update is by id alone.)
CasById(stored, expected) == stored \in PaymentStatuses

\* The compare-and-set itself: UPDATE ... WHERE status IN expected. It looks
\* for any expected status, not for the one that was read and validated.
CasMatches(stored, expected) == stored \in expected
-----------------------------------------------------------------------------
\* What the amounts of some rows come to: their units, counted one by one.
Units(amount, rows) == UNION {{r} \X (1 .. amount[r]) : r \in rows}
SumOf(amount, rows) == Cardinality(Units(amount, rows))
=============================================================================
