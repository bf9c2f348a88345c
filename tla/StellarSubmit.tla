--------------------------- MODULE StellarSubmit ---------------------------
(***************************************************************************)
(* submitPayment of the Stellar adapter (wallet/stellar.adapter.js): the   *)
(* calls that pay from one account, each in at most MaxAttempts attempts,  *)
(* every attempt with an envelope built on the sequence number the account *)
(* had when it was loaded.                                                 *)
(*                                                                         *)
(* A call that is made in a process holds that process's lock for the      *)
(* account from its first attempt to its end; calls of other processes are *)
(* held off by the sequence number alone.                                  *)
(***************************************************************************)
EXTENDS Integers, FiniteSets

CONSTANTS Caller,      \* the calls of submitPayment on the account
          Process,     \* API and worker processes
          ProcessOf,   \* the process each call is made in
          MaxAttempts  \* SEND_MAX_ATTEMPTS

ASSUME SubmitAssumption ==
  /\ ProcessOf \in [Caller -> Process]
  /\ MaxAttempts \in Nat \ {0}

VARIABLES adapter,  \* where each call is
          env,      \* the envelope of each attempt of each call
          account   \* the sequence number of the account on the network

submitVars == <<adapter, env, account>>

Attempt == 1 .. MaxAttempts
AdapterSteps == {"idle", "waiting", "loading", "loaded", "sent", "lookup",
                 "returned", "threw", "crashed"}
\* "failed" is included in a ledger but unsuccessful, "badseq" refused for its
\* sequence number, "gone" never included before its time bounds passed.
EnvelopeStates == {"none", "inflight", "applied", "failed", "badseq", "gone"}

SubmitTypeOK ==
  /\ adapter \in [Caller -> [step : AdapterSteps, attempt : Attempt, uncertain : BOOLEAN]]
  /\ env \in [Caller -> [Attempt -> [seq : Nat, state : EnvelopeStates]]]
  /\ account \in Nat

SubmitInit ==
  /\ adapter = [c \in Caller |-> [step |-> "idle", attempt |-> 1, uncertain |-> FALSE]]
  /\ env = [c \in Caller |-> [k \in Attempt |-> [seq |-> 0, state |-> "none"]]]
  /\ account = 0

\* withAccountLock: the call has the lock of its process.
HoldsLock(c) == adapter[c].step \in {"loading", "loaded", "sent", "lookup"}
LockFree(c) == \A d \in Caller : ProcessOf[d] = ProcessOf[c] => ~ HoldsLock(d)

AdapterGoto(c, step) == adapter' = [adapter EXCEPT ![c].step = step]
IncludedEnvelope(c, k) == env[c][k].state \in {"applied", "failed"}
Current(c) == env[c][adapter[c].attempt].state
-----------------------------------------------------------------------------
CallSubmit(c) ==
  /\ adapter[c].step = "idle"
  /\ AdapterGoto(c, "waiting")
  /\ UNCHANGED <<env, account>>

AcquireLock(c) ==
  /\ adapter[c].step = "waiting"
  /\ LockFree(c)
  /\ AdapterGoto(c, "loading")
  /\ UNCHANGED <<env, account>>

\* A bad destination, an unreadable account or too small a reserve: nothing is sent.
CannotBuild(c) ==
  /\ adapter[c].step = "loading"
  /\ AdapterGoto(c, "threw")
  /\ UNCHANGED <<env, account>>

\* loadAccount and build: a new envelope, on the next sequence number.
LoadAndBuild(c) ==
  /\ adapter[c].step = "loading"
  /\ env' = [env EXCEPT ![c][adapter[c].attempt].seq = account + 1]
  /\ AdapterGoto(c, "loaded")
  /\ UNCHANGED account

Post(c) ==
  /\ adapter[c].step = "loaded"
  /\ env' = [env EXCEPT ![c][adapter[c].attempt].state = "inflight"]
  /\ AdapterGoto(c, "sent")
  /\ UNCHANGED account

\* Horizon answers that the envelope was applied.
AnswerApplied(c) ==
  /\ adapter[c].step = "sent"
  /\ Current(c) = "applied"
  /\ AdapterGoto(c, "returned")
  /\ UNCHANGED <<env, account>>

\* No answer (timeout, lost connection): the write is uncertain, and the
\* envelope may be in any state.
AnswerLost(c) ==
  /\ adapter[c].step = "sent"
  /\ adapter' = [adapter EXCEPT ![c].step = "lookup", ![c].uncertain = TRUE]
  /\ UNCHANGED <<env, account>>

\* Horizon has the hash in a closed ledger, successful or not.  An envelope
\* rebuilt within a second on the same sequence number is the earlier one.
HashFound(c) ==
  \E k \in 1 .. adapter[c].attempt :
    env[c][k].seq = env[c][adapter[c].attempt].seq /\ IncludedEnvelope(c, k)

\* A transaction that was included as failed is found as well, and taken for a
\* "Recovered" payment: the answer's field `successful` is not looked at.
LookupFinds(c) ==
  /\ adapter[c].step = "lookup"
  /\ HashFound(c)
  /\ AdapterGoto(c, "returned")
  /\ UNCHANGED <<env, account>>

\* Another attempt, from a freshly loaded account, or the last one was made.
NextAttempt(c) ==
  adapter' = IF adapter[c].attempt < MaxAttempts
             THEN [adapter EXCEPT ![c].step = "loading", ![c].attempt = @ + 1]
             ELSE [adapter EXCEPT ![c].step = "threw"]

\* Lookup of the hash: not found, or the lookup itself failed (ignored).
LookupMisses(c) ==
  /\ adapter[c].step = "lookup"
  /\ NextAttempt(c)
  /\ UNCHANGED <<env, account>>

\* tx_bad_seq: the hash is looked up before the next attempt.
AnswerBadSequence(c) ==
  /\ adapter[c].step = "sent"
  /\ Current(c) = "badseq"
  /\ \/ HashFound(c) /\ AdapterGoto(c, "returned")
     \/ NextAttempt(c)
  /\ UNCHANGED <<env, account>>

\* (Mutant: an error response such as a 504 starts another attempt.)
ErrorRetries(c) ==
  /\ adapter[c].step = "sent"
  /\ NextAttempt(c)
  /\ UNCHANGED <<env, account>>

\* Any other error with a response: failed in a ledger, or a gateway timeout
\* (504) that says nothing about the envelope.  It ends the call.
AnswerError(c) ==
  /\ adapter[c].step = "sent"
  /\ AdapterGoto(c, "threw")
  /\ UNCHANGED <<env, account>>

AdapterStep(c) ==
  \/ AcquireLock(c) \/ CannotBuild(c) \/ LoadAndBuild(c) \/ Post(c) \/ AnswerApplied(c)
  \/ AnswerLost(c) \/ LookupFinds(c) \/ LookupMisses(c) \/ AnswerBadSequence(c) \/ AnswerError(c)
-----------------------------------------------------------------------------
(***************************************************************************)
(* The network: an envelope is included only on the account's next         *)
(* sequence number, which it consumes even if its operation fails.         *)
(***************************************************************************)
Network(c, k) ==
  /\ env[c][k].state = "inflight"
  /\ \/ /\ env[c][k].seq = account + 1
        /\ \E result \in {"applied", "failed"} : env' = [env EXCEPT ![c][k].state = result]
        /\ account' = account + 1
     \/ /\ env[c][k].seq # account + 1
        /\ env' = [env EXCEPT ![c][k].state = "badseq"]
        /\ UNCHANGED account
     \/ /\ env' = [env EXCEPT ![c][k].state = "gone"]
        /\ UNCHANGED account
  /\ UNCHANGED adapter

\* The calls of a process end with it.
AdapterCrash(p) ==
  adapter' = [c \in Caller |->
    IF ProcessOf[c] = p /\ adapter[c].step \notin {"idle", "returned", "threw"}
    THEN [adapter[c] EXCEPT !.step = "crashed"] ELSE adapter[c]]
-----------------------------------------------------------------------------
Applied(c) == {k \in Attempt : env[c][k].state = "applied"}

\* Retrying on a bad sequence number is safe: a call moves money twice only if
\* the answer to one of its writes was lost.  (submitPayment rebuilds the
\* envelope for every attempt.)
OnlyLostAnswersDouble ==
  \A c \in Caller : Cardinality(Applied(c)) > 1 => adapter[c].uncertain

\* The adapter reports "resubmitting same envelope" after a lost answer, and
\* otherwise "not resubmitting to avoid a duplicate": a call moves money once.
AppliedOnce == \A c \in Caller : Cardinality(Applied(c)) <= 1
=============================================================================
