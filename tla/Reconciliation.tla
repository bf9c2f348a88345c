--------------------------- MODULE Reconciliation ---------------------------
(***************************************************************************)
(* Payments together with the two other writers of a payment row:          *)
(* reconcileStaleTransactions, which asks Horizon what became of a row     *)
(* that stayed 'processing' or 'pending', and operatorResolveStuckPayment  *)
(* (payment/payment.reconciler.js).                                        *)
(*                                                                         *)
(* Horizon may fail to answer, and may not have (or no longer have) a      *)
(* transaction that the network included.                                  *)
(***************************************************************************)
EXTENDS Payment

CONSTANTS Reconciler,  \* passes of the reconciler that may run at once
          Alike,       \* the payments, in sets of one sender, amount and destination
          StaleAge,    \* staleAgeMs
          LedgerWindow \* LEDGER_SEQUENCE_WINDOW_MS

ASSUME ReconciliationAssumption ==
  /\ UNION Alike = Payment /\ \A s, t \in Alike : s = t \/ s \cap t = {}
  /\ StaleAge \in Nat
  /\ LedgerWindow \in Nat

VARIABLE rec  \* what each pass has read and decided about its current row

\* Sender, amount and destination, by the payments that have them.
Terms == [p \in Payment |-> CHOOSE terms \in Alike : p \in terms]

vars == <<row, hash, createdAt, pc, journal, chain, now, rec>>

Unsettled == {"processing", "pending"}

Idle == [step |-> "idle"]
Picked == [step : {"picked"}, p : Payment, txHash : Payment \cup {NoHash}]
NoEvidence == [step : {"history"}, p : Payment]
Decided == [step : {"decided", "validated"}, p : Payment,
            to : {"success", "failed", "expired"}, txHash : Payment \cup {NoHash}]

TypeOK ==
  /\ PayTypeOK
  /\ rec \in [Reconciler -> {Idle} \cup Picked \cup NoEvidence \cup Decided]

Init ==
  /\ PayInit
  /\ rec = [r \in Reconciler |-> Idle]

WindowClosed(p) == createdAt[p] + LedgerWindow <= now
GivenUp(p) == createdAt[p] + 3 * StaleAge <= now
-----------------------------------------------------------------------------
(***************************************************************************)
(* One row of a pass: the row is read once (findMany), the network asked,  *)
(* and the verdict written by transitionPaymentState, whose read of the    *)
(* status and whose update are two database calls.                         *)
(***************************************************************************)
Pick(r, p) ==
  /\ rec[r].step = "idle"
  /\ row[p] \in Unsettled
  /\ createdAt[p] + StaleAge <= now
  /\ rec' = [rec EXCEPT ![r] = [step |-> "picked", p |-> p, txHash |-> hash[p]]]

Decide(r, p, to, h) ==
  rec' = [rec EXCEPT ![r] = [step |-> "decided", p |-> p, to |-> to, txHash |-> h]]

Leave(r) == rec' = [rec EXCEPT ![r] = Idle]

\* (Mutant: any transaction Horizon finds counts as successful.)
LookupIncluded(r) ==
  /\ rec[r].step = "picked"
  /\ LET p == rec[r].p
         h == rec[r].txHash
     IN /\ h # NoHash
        /\ \/ Included(h) /\ Decide(r, p, "success", h)
           \/ WindowClosed(p) /\ Decide(r, p, "expired", h)
           \/ ~ WindowClosed(p) /\ Leave(r)

\* The row had a hash: Horizon has the transaction, successful or not, or
\* answers 404 (conclusive only when the window is closed).
LookupHash(r) ==
  /\ rec[r].step = "picked"
  /\ LET p == rec[r].p
         h == rec[r].txHash
     IN /\ h # NoHash
        /\ \/ chain[h] = "applied" /\ Decide(r, p, "success", h)
           \/ chain[h] = "rejected" /\ Decide(r, p, "failed", h)
           \/ WindowClosed(p) /\ Decide(r, p, "expired", h)
           \/ ~ WindowClosed(p) /\ Leave(r)

\* No hash, or Horizon failed on it: look at the sender's payment history.
LookupFails(r) ==
  /\ rec[r].step = "picked"
  /\ rec' = [rec EXCEPT ![r] = [step |-> "history", p |-> rec[r].p]]

\* A successful payment of the same sender with the same amount and
\* destination is taken for this row's, whichever row it was made for.
MatchHistory(r) ==
  /\ rec[r].step = "history"
  /\ LET p == rec[r].p
     IN \E q \in Payment :
          /\ Terms[q] = Terms[p]
          /\ chain[q] = "applied"
          /\ Decide(r, p, "success", q)

\* No match, or Horizon failed again: fail the row once it is old enough.
NoMatch(r) ==
  /\ rec[r].step = "history"
  /\ LET p == rec[r].p
     IN IF GivenUp(p) /\ WindowClosed(p) THEN Decide(r, p, "failed", NoHash)
                                         ELSE Leave(r)

\* transitionPaymentState reads the row and validates the move ...
ValidateVerdict(r) ==
  /\ rec[r].step = "decided"
  /\ IF TransitionAccepted(row[rec[r].p], Unsettled, rec[r].to)
     THEN rec' = [rec EXCEPT ![r].step = "validated"]
     ELSE Leave(r)

\* ... and writes it if the row still has one of the expected statuses.  The
\* hash is written with it only when it came from the history.
WriteVerdict(r) ==
  /\ rec[r].step = "validated"
  /\ LET v == rec[r]
     IN IF CasMatches(row[v.p], Unsettled)
        THEN /\ row' = [row EXCEPT ![v.p] = v.to]
             /\ hash' = IF v.to = "success" THEN [hash EXCEPT ![v.p] = v.txHash] ELSE hash
        ELSE UNCHANGED <<row, hash>>
  /\ Leave(r)

\* The process running the pass stops.
PassCrash(r) == rec[r] # Idle /\ Leave(r)

ReconcileStep(r) ==
  \/ /\ \/ \E p \in Payment : Pick(r, p)
        \/ LookupHash(r) \/ LookupFails(r) \/ MatchHistory(r) \/ NoMatch(r)
        \/ ValidateVerdict(r) \/ PassCrash(r)
     /\ UNCHANGED <<row, hash>>
  \/ WriteVerdict(r)

Reconcile == (\E r \in Reconciler : ReconcileStep(r))
             /\ UNCHANGED <<createdAt, pc, journal, chain, now>>
-----------------------------------------------------------------------------
\* The operator's actions and the status each one asks for.
OperatorAction == [retry |-> "processing", mark_resolved |-> "resolved", escalate |-> "escalated"]

\* One database transaction; the status it read is the one it expects.  A
\* retry only rewrites the status: nothing is submitted again.
OperatorResolve(p, action) ==
  /\ row[p] \notin {"none", "success", "resolved"}
  /\ TransitionAccepted(row[p], {row[p]}, OperatorAction[action])
  /\ row' = [row EXCEPT ![p] = OperatorAction[action]]
  /\ UNCHANGED <<hash, createdAt, pc, journal, chain, now, rec>>

Next ==
  \/ PayNext /\ UNCHANGED rec
  \/ Reconcile
  \/ \E p \in Payment, action \in DOMAIN OperatorAction : OperatorResolve(p, action)

Spec == Init /\ [][Next]_vars
-----------------------------------------------------------------------------
(***************************************************************************)
(* What must hold.                                                         *)
(***************************************************************************)

\* A row that says 'success' names a transaction the network applied, made
\* under the same terms; so no receipt is issued for money that did not move.
\* (reconcileStaleTransactions writes 'success' from what it read earlier.)
SuccessIsOnChain ==
  \A p \in Payment : row[p] = "success" =>
    /\ hash[p] \in Payment
    /\ chain[hash[p]] = "applied"
    /\ Terms[hash[p]] = Terms[p]

\* A payment's journal never holds both its settlement and its reversal: the
\* catch block is entered only if the settlement was not posted.
NeverBothEntries == \A p \in Payment : journal[p] # JournalEntries

\* What the request, an operator or another pass has decided stays: a pass that
\* read a row before that only ever overwrites 'processing' or 'pending'.
\* (The update of transitionPaymentState looks at the stored status again.)
PassKeepsDecisions ==
  [][rec' # rec => \A p \in Payment : row'[p] # row[p] => row[p] \in Unsettled]_vars

\* Only two steps move a row against the matrix: the blind write of the catch
\* block of executePayment, which leaves 'failed', and a pass that validated
\* 'expired' on a pending row that an operator's retry has put back since.
\* (transitionPaymentState checks the matrix on its read, not on its update.)
KnownMatrixBreaks ==
  [][\A p \in Payment : row[p] # "none" /\ ~ IsValidPaymentTransition(row[p], row'[p]) =>
       \/ pc[p] = "catching" /\ row'[p] = "failed"
       \/ row[p] = "processing" /\ row'[p] = "expired"]_vars

\* Decisions are kept: those of others by the pass, those of the matrix by all
\* but these two steps (payment.transitions.js).
DecisionsKept == PassKeepsDecisions /\ KnownMatrixBreaks
=============================================================================
