------------------------------ MODULE Payment ------------------------------
(***************************************************************************)
(* executePayment (payment/payment.orchestrator.js): one payment row from  *)
(* its reservation to the end of the request that made it, with the        *)
(* Stellar network it submits to and the journal it posts to.              *)
(*                                                                         *)
(* Every `await' between two database or network calls is a point where    *)
(* another payment, the reconciler, an operator or a crash of the API      *)
(* process can come in, so each call is an action of its own.  A payment   *)
(* is identified with its row, and its envelope on the chain with its      *)
(* hash.  Amounts, fees, quotes and policy limits are left to other        *)
(* modules.                                                                *)
(***************************************************************************)
EXTENDS Naturals, PaymentTransitions

CONSTANTS Payment,   \* the payment rows a run may create
          NoHash,    \* a row without txHash
          MaxTime    \* bound on the clock, which ticks every few minutes

ASSUME PaymentAssumption ==
  /\ NoHash \notin Payment
  /\ MaxTime \in Nat

VARIABLES row,        \* Transaction.status, "none" while there is no row
          hash,       \* Transaction.txHash
          createdAt,  \* Transaction.createdAt
          pc,         \* where the request that made the payment is
          journal,    \* the journal entries posted for the payment
          chain,      \* what the network did with the payment's envelope
          now         \* the clock

payVars == <<row, hash, createdAt, pc, journal, chain, now>>

\* "inflight": sent, may still be included.  "applied", "rejected": included
\* in a closed ledger, successful or not.  "dropped": its time bounds passed.
ChainStates == {"unsent", "inflight", "applied", "rejected", "dropped"}
Included(p) == chain[p] \in {"applied", "rejected"}

JournalEntries == {"payment.settled", "payment.failed_reversal"}

Steps == {"idle", "reserved", "submitting", "accepted", "posting",
          "catching", "reversing", "returned", "thrown", "crashed"}
Running(p) == pc[p] \notin {"idle", "returned", "thrown", "crashed"}

PayTypeOK ==
  /\ row \in [Payment -> PaymentStatuses \cup {"none"}]
  /\ hash \in [Payment -> Payment \cup {NoHash}]
  /\ createdAt \in [Payment -> Nat]
  /\ pc \in [Payment -> Steps]
  /\ journal \in [Payment -> SUBSET JournalEntries]
  /\ chain \in [Payment -> ChainStates]
  /\ now \in Nat

PayInit ==
  /\ row = [p \in Payment |-> "none"]
  /\ hash = [p \in Payment |-> NoHash]
  /\ createdAt = [p \in Payment |-> 0]
  /\ pc = [p \in Payment |-> "idle"]
  /\ journal = [p \in Payment |-> {}]
  /\ chain = [p \in Payment |-> "unsent"]
  /\ now = 0

Goto(p, step) == pc' = [pc EXCEPT ![p] = step]
-----------------------------------------------------------------------------
(***************************************************************************)
(* The request.                                                            *)
(***************************************************************************)

\* runCore commits: policy accepted, quote made or consumed, row created.
\* Nothing is posted to the journal for the reservation.
Reserve(p) ==
  /\ pc[p] = "idle"
  /\ row' = [row EXCEPT ![p] = "processing"]
  /\ createdAt' = [createdAt EXCEPT ![p] = now]
  /\ Goto(p, "reserved")
  /\ UNCHANGED <<hash, journal, chain, now>>

\* walletService.submitPayment sends the envelope.  The row is not read again
\* first: whatever happened to it since Reserve, the money is sent.
Submit(p) ==
  /\ pc[p] = "reserved"
  /\ chain' = [chain EXCEPT ![p] = "inflight"]
  /\ Goto(p, "submitting")
  /\ UNCHANGED <<row, hash, createdAt, journal, now>>

\* createOrGetWallet, or the adapter before it sends anything, throws.
NeverSent(p) ==
  /\ pc[p] = "reserved"
  /\ Goto(p, "catching")
  /\ UNCHANGED <<row, hash, createdAt, journal, chain, now>>

\* The adapter returns a hash: the network answered that the envelope was
\* applied, or the answer was lost and the lookup by hash found it.  The
\* lookup does not ask whether the transaction it found was successful.
SubmitReturns(p) ==
  /\ pc[p] = "submitting"
  /\ Included(p)
  /\ Goto(p, "accepted")
  /\ UNCHANGED <<row, hash, createdAt, journal, chain, now>>

\* The adapter throws: rejected, or an answer it reads as a failure although
\* the envelope may still be included or already is (a 504, or an uncertain
\* write whose lookup failed as well).
SubmitThrows(p) ==
  /\ pc[p] = "submitting"
  /\ Goto(p, "catching")
  /\ UNCHANGED <<row, hash, createdAt, journal, chain, now>>

\* transitionPaymentState processing -> pending, with the hash.  A single
\* expected status makes the read and the compare-and-set one step.
MarkPending(p) ==
  /\ pc[p] = "accepted"
  /\ TransitionAccepted(row[p], {"processing"}, "pending")
  /\ row' = [row EXCEPT ![p] = "pending"]
  /\ hash' = [hash EXCEPT ![p] = p]
  /\ pc' \in {[pc EXCEPT ![p] = "posting"],
              [pc EXCEPT ![p] = "catching"]}  \* the read after the update throws
  /\ UNCHANGED <<createdAt, journal, chain, now>>

\* The row is no longer 'processing', or the database is unreachable.
MarkPendingThrows(p) ==
  /\ pc[p] = "accepted"
  /\ Goto(p, "catching")
  /\ UNCHANGED <<row, hash, createdAt, journal, chain, now>>

\* (Mutant: something after the post may still throw into the catch block.)
PostSettledThenThrow(p) ==
  /\ pc[p] = "posting"
  /\ journal' = [journal EXCEPT ![p] = @ \cup {"payment.settled"}]
  /\ pc' \in {[pc EXCEPT ![p] = "returned"], [pc EXCEPT ![p] = "catching"]}
  /\ UNCHANGED <<row, hash, createdAt, chain, now>>

\* ledger.postPaymentSettled: posted while the row is only 'pending'.
PostSettled(p) ==
  /\ pc[p] = "posting"
  /\ journal' = [journal EXCEPT ![p] = @ \cup {"payment.settled"}]
  /\ Goto(p, "returned")
  /\ UNCHANGED <<row, hash, createdAt, chain, now>>

PostSettledThrows(p) ==
  /\ pc[p] = "posting"
  /\ Goto(p, "catching")
  /\ UNCHANGED <<row, hash, createdAt, journal, chain, now>>

\* The catch block: markTransactionFailed writes the status whatever it is; an
\* error of that write is logged and swallowed.
MarkTransactionFailed(p) ==
  /\ pc[p] = "catching"
  /\ row' \in {[row EXCEPT ![p] = "failed"], row}
  /\ Goto(p, "reversing")
  /\ UNCHANGED <<hash, createdAt, journal, chain, now>>

\* ledger.postPaymentFailed, whose own error is swallowed; then rethrow.
PostFailed(p) ==
  /\ pc[p] = "reversing"
  /\ journal' \in {[journal EXCEPT ![p] = @ \cup {"payment.failed_reversal"}], journal}
  /\ Goto(p, "thrown")
  /\ UNCHANGED <<row, hash, createdAt, chain, now>>

\* The API process dies in the middle of the request.
Crash(p) ==
  /\ Running(p)
  /\ Goto(p, "crashed")
  /\ UNCHANGED <<row, hash, createdAt, journal, chain, now>>
-----------------------------------------------------------------------------
(***************************************************************************)
(* The network and the clock.  An envelope is valid for 30 seconds, far    *)
(* less than a tick of the clock: none is still in flight a tick later.    *)
(***************************************************************************)
Close(p, outcome) ==
  /\ chain[p] = "inflight"
  /\ outcome \in {"applied", "rejected", "dropped"}
  /\ chain' = [chain EXCEPT ![p] = outcome]
  /\ UNCHANGED <<row, hash, createdAt, pc, journal, now>>

Tick ==
  /\ now < MaxTime
  /\ \A p \in Payment : chain[p] # "inflight"
  /\ now' = now + 1
  /\ UNCHANGED <<row, hash, createdAt, pc, journal, chain>>

PayRequest(p) ==
  \/ Reserve(p) \/ Submit(p) \/ NeverSent(p) \/ SubmitReturns(p) \/ SubmitThrows(p)
  \/ MarkPending(p) \/ MarkPendingThrows(p) \/ PostSettled(p) \/ PostSettledThrows(p)
  \/ MarkTransactionFailed(p) \/ PostFailed(p) \/ Crash(p)

PayNext ==
  \/ \E p \in Payment : PayRequest(p)
  \/ \E p \in Payment : \E outcome \in ChainStates : Close(p, outcome)
  \/ Tick
=============================================================================
