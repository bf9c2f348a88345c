--------------------------- MODULE IdempotentSend ---------------------------
(***************************************************************************)
(* POST /wallet/send with an Idempotency-Key (controllers/wallet.controller*)
(* and payment/idempotency.service.js): the requests that carry one key of *)
(* one user, the record and the payment row they share, and the adapter    *)
(* calls they make.  Payments of the account that carry another key, or    *)
(* come from a chat, only show as sequence numbers they consume.           *)
(*                                                                         *)
(* The lease of the record expires at any moment after it was taken, and a *)
(* waiting request reaches its deadline at any moment: both are 30 seconds *)
(* and a payment may take longer.                                          *)
(***************************************************************************)
EXTENDS StellarSubmit

CONSTANTS Fingerprint,  \* the fingerprint of each request's parameters
          MaxSequence   \* bound on the sequence numbers other payments consume

\* Each request is also the adapter call it may make.
Request == Caller

ASSUME RequestAssumption ==
  /\ DOMAIN Fingerprint = Request
  /\ MaxSequence \in Nat

VARIABLES req,     \* where each request is
          record,  \* the PaymentIdempotency record of the key
          tx       \* status of the row with the record's reservedTransactionId

vars == <<adapter, env, account, req, record, tx>>

Steps == {"new", "waiting", "confirming", "claiming", "rewaiting", "running", "paying",
          "marking", "unpaid", "recording", "failing",
          "answered", "replayed", "emptyReplay", "threw", "crashed"}
Answers == {"answered", "replayed", "emptyReplay", "threw"}
Ended(r) == req[r] \in Answers \cup {"crashed"}

NoRecord == [state |-> "none"]
Records == [state : {"processing", "completed", "failed"}, leased : BOOLEAN,
            fingerprint : {Fingerprint[r] : r \in Request}]

TypeOK ==
  /\ SubmitTypeOK
  /\ req \in [Request -> Steps]
  /\ record \in Records \cup {NoRecord}
  /\ tx \in {"none", "processing", "pending", "success", "failed"}

Init ==
  /\ SubmitInit
  /\ req = [r \in Request |-> "new"]
  /\ record = NoRecord
  /\ tx = "none"

Goto(r, step) == req' = [req EXCEPT ![r] = step]
-----------------------------------------------------------------------------
\* The create succeeds for one request (unique user, operation and key); the
\* others go to the record it made.
Create(r) ==
  /\ req[r] = "new"
  /\ IF record = NoRecord
     THEN /\ record' = [state |-> "processing", leased |-> TRUE, fingerprint |-> Fingerprint[r]]
          /\ Goto(r, "running")
     ELSE /\ Goto(r, "waiting")
          /\ UNCHANGED record
  /\ UNCHANGED <<tx, submitVars>>

LeaseExpires ==
  /\ record # NoRecord
  /\ record.leased
  /\ record' = [record EXCEPT !.leased = FALSE]
  /\ UNCHANGED <<tx, req, submitVars>>

\* One round of replayOrWait: the record and the row it reserves are read, and
\* the first condition that applies decides.  "takeover" is its return of null.
Poll(r, waiting, takeover) ==
  /\ req[r] = waiting
  /\ Goto(r, IF record.fingerprint # Fingerprint[r] THEN "threw"
             ELSE IF record.state = "completed"      THEN "replayed"
             ELSE IF record.state = "failed"         THEN "threw"
             ELSE IF tx = "success"                  THEN "confirming"
             ELSE IF tx = "failed"                   THEN "threw"
             ELSE IF ~ record.leased /\ tx = "none"  THEN takeover
             ELSE waiting)
  /\ UNCHANGED <<record, tx, submitVars>>

\* The second replayOrWait has no taker for its null: the request answers 200
\* with an empty response.
PollFirst(r) == Poll(r, "waiting", "claiming")
PollAgain(r) == Poll(r, "rewaiting", "emptyReplay")

\* (Mutant: a payment that was reserved is waited for without a deadline.)
DeadlineBeforeRow(r) ==
  /\ req[r] \in {"waiting", "rewaiting"}
  /\ tx = "none"
  /\ Goto(r, "threw")
  /\ UNCHANGED <<record, tx, submitVars>>

\* A request that waited WAIT_MS: "still processing; retry this key later".
Deadline(r) ==
  /\ req[r] \in {"waiting", "rewaiting"}
  /\ Goto(r, "threw")
  /\ UNCHANGED <<record, tx, submitVars>>

\* The row was read as settled: complete the record with it, whatever the
\* record has become since.
ConfirmSettled(r) ==
  /\ req[r] = "confirming"
  /\ record' = [record EXCEPT !.state = "completed"]
  /\ Goto(r, "replayed")
  /\ UNCHANGED <<tx, submitVars>>

\* The conditional update of a takeover.  It does not look at the row again.
Claim(r) ==
  /\ req[r] = "claiming"
  /\ IF record.state = "processing" /\ ~ record.leased /\ record.fingerprint = Fingerprint[r]
     THEN record' = [record EXCEPT !.leased = TRUE] /\ Goto(r, "running")
     ELSE UNCHANGED record /\ Goto(r, "rewaiting")
  /\ UNCHANGED <<tx, submitVars>>

\* A database call before the payment throws (before the record is made, as
\* if the request had not come).
DatabaseError(r) ==
  /\ req[r] \in {"waiting", "confirming", "claiming", "rewaiting"}
  /\ Goto(r, "threw")
  /\ UNCHANGED <<record, tx, submitVars>>

\* (Mutant: a taker that finds the reserved row goes on with it.)
ResumeRow(r) ==
  /\ req[r] = "running"
  /\ tx' = IF tx = "none" THEN "processing" ELSE tx
  /\ adapter[r].step = "idle" /\ AdapterGoto(r, "waiting")
  /\ Goto(r, "paying")
  /\ UNCHANGED <<record, env, account>>

\* executePayment under the reserved id: the row is created once, and its
\* creator goes on to the wallet; for any other request the primary key is
\* taken and the payment throws before anything is sent.
ReserveRow(r) ==
  /\ req[r] = "running"
  /\ IF tx = "none"
     THEN /\ tx' = "processing"
          /\ CallSubmit(r)
          /\ Goto(r, "paying")
     ELSE /\ Goto(r, "failing")
          /\ UNCHANGED <<tx, submitVars>>
  /\ UNCHANGED record

\* A policy refusal or a database error: no row.
CoreThrows(r) ==
  /\ req[r] = "running"
  /\ Goto(r, "failing")
  /\ UNCHANGED <<record, tx, submitVars>>

\* The wallet returned a hash: processing -> pending.  The row may have been
\* settled by reconciliation meanwhile, which makes the transition throw.
MarkPending(r) ==
  /\ req[r] = "paying"
  /\ adapter[r].step = "returned"
  /\ IF tx = "processing" THEN tx' = "pending" /\ Goto(r, "recording")
                          ELSE UNCHANGED tx /\ Goto(r, "unpaid")
  /\ UNCHANGED <<record, submitVars>>

\* The wallet, the transition or the ledger post threw.
PaymentThrows(r) ==
  /\ req[r] = "paying"
  /\ adapter[r].step \in {"returned", "threw"}
  /\ Goto(r, "unpaid")
  /\ UNCHANGED <<record, tx, submitVars>>

\* The catch block of executePayment: markTransactionFailed, then rethrow.
MarkFailed(r) ==
  /\ req[r] = "unpaid"
  /\ tx' = "failed"
  /\ Goto(r, "failing")
  /\ UNCHANGED <<record, submitVars>>

\* run returned: the record is completed; if that update throws, the catch
\* block of execute takes over although the payment was made.
CompleteRecord(r) ==
  /\ req[r] = "recording"
  /\ \/ record' = [record EXCEPT !.state = "completed"] /\ Goto(r, "answered")
     \/ UNCHANGED record /\ Goto(r, "failing")
  /\ UNCHANGED <<tx, submitVars>>

\* The catch block of execute: the record is failed whatever it says; an error
\* of that update is swallowed.
FailRecord(r) ==
  /\ req[r] = "failing"
  /\ record' \in {[record EXCEPT !.state = "failed"], record}
  /\ Goto(r, "threw")
  /\ UNCHANGED <<tx, submitVars>>

RequestStep(r) ==
  \/ Create(r) \/ PollFirst(r) \/ PollAgain(r) \/ Deadline(r) \/ ConfirmSettled(r) \/ Claim(r)
  \/ ReserveRow(r) \/ CoreThrows(r) \/ MarkPending(r) \/ PaymentThrows(r) \/ MarkFailed(r)
  \/ CompleteRecord(r) \/ FailRecord(r)
-----------------------------------------------------------------------------
\* Reconciliation settles the row from what the network did with the envelopes
\* of the request that created it (see module Reconciliation).
Settle ==
  /\ tx \in {"processing", "pending"}
  /\ \/ tx' = "success" /\ \E r \in Request : Applied(r) # {}
     \/ tx' = "failed"
  /\ UNCHANGED <<req, record, submitVars>>

\* A payment of the same account that does not come through this key.
OtherPayment ==
  /\ account < MaxSequence
  /\ account' = account + 1
  /\ UNCHANGED <<adapter, env>>

CrashProcess(p) ==
  /\ AdapterCrash(p)
  /\ req' = [r \in Request |->
               IF ProcessOf[r] = p /\ ~ Ended(r) /\ req[r] # "new" THEN "crashed" ELSE req[r]]
  /\ UNCHANGED <<env, account, record, tx>>

\* What the process of a request does for it.
Work(r) ==
  \/ RequestStep(r)
  \/ AdapterStep(r) /\ UNCHANGED <<req, record, tx>>

Elsewhere ==
  /\ (\E c \in Caller, k \in Attempt : Network(c, k)) \/ OtherPayment
  /\ UNCHANGED <<req, record, tx>>

Next ==
  \/ \E r \in Request : Work(r) \/ DatabaseError(r)
  \/ Elsewhere
  \/ LeaseExpires
  \/ Settle
  \/ \E p \in Process : CrashProcess(p)

Spec == Init /\ [][Next]_vars

\* As long as some request can go on, one of them does: a wait has its
\* deadline, and a call to Horizon its timeout.
FairSpec == Spec /\ WF_vars(\E r \in Request : Work(r))
-----------------------------------------------------------------------------
(***************************************************************************)
(* What must hold.                                                         *)
(***************************************************************************)

\* Of the requests with one key, at most one ever calls the wallet, through
\* expired leases, takeovers and crashes: module OncePayment.
Payers == {r \in Request : adapter[r].step # "idle"}
Once == INSTANCE OncePayment WITH payer <- Payers
PaysOnce == Once!Spec

\* What a call may report as paid: an applied envelope, and after a lost answer
\* also one that its lookup found in a ledger as failed.
TakenForPaid(r, k) ==
  env[r][k].state = "applied" \/ (env[r][k].state = "failed" /\ adapter[r].uncertain)

\* A completed record, and so every response replayed from it, is about money
\* that moved, unless an answer was lost and the lookup took a failed
\* transaction for a payment.
CompletedIsPaid ==
  record.state = "completed" => \E r \in Request, k \in Attempt : TakenForPaid(r, k)

\* A request whose parameters differ from the record's neither pays nor is
\* answered with somebody else's payment.
OtherParametersRefused ==
  \A r \in Request :
    record # NoRecord /\ Fingerprint[r] # record.fingerprint =>
      req[r] \in {"new", "waiting", "threw", "crashed"}

\* Whatever leases, answers and processes are lost: a call pays twice only after
\* a lost answer, a record is completed without money that moved only after a
\* lost answer whose lookup found a failed transaction, and no request is
\* answered with a payment of other parameters (idempotency.service.js).
SendsAccounted == OnlyLostAnswersDouble /\ CompletedIsPaid /\ OtherParametersRefused

\* In the end every request has been answered, or its process died: the waits
\* for the record and for the lock of the account do not hold each other up.
EveryRequestEnds == <>[](\A r \in Request : Ended(r))
=============================================================================
