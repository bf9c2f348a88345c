------------------------------- MODULE Access -------------------------------
(***************************************************************************)
(* What lets a customer in: the PIN, with its count of failed attempts and *)
(* its lock (compliance/pin.service.js), the status of the account, which  *)
(* administrators change (compliance/account.service.js), the sessions of  *)
(* the REST interface, each of which answers a challenge that the          *)
(* customer's wallet has signed (services/restAuth.service.js), and how    *)
(* often an account may call (services/rateLimit.service.js).              *)
(*                                                                         *)
(* An attempt reads the row with FOR UPDATE outside a transaction, so the  *)
(* lock of the row is gone when the read is; what it counts is written     *)
(* back by id. An administrator's change is decided on a row read before,  *)
(* and written together with its record in one transaction.                *)
(***************************************************************************)
EXTENDS Integers, Sequences, FiniteSets

CONSTANTS Attempt,     \* answers to a PIN prompt, and clearings of the lock
          FailureLimit,
          MaxGuesses,  \* bounds the wrong PINs, and their count
          Admin,       \* administrators
          MaxChanges,  \* bounds the changes of the account's status
          Challenge,   \* challenges to sign
          Login,       \* signed challenges sent back
          Visit,        \* calls of the REST interface
          GeneralMax,  \* calls let through in a window
          SendMax,     \* and payments among them
          RateWindow,  \* the length of a window
          MaxMoment,   \* bounds the time
          MaxHits      \* bounds the hits of a counter

ASSUME AccessAssumption == FailureLimit \in Nat \ {0} /\ MaxGuesses \in Nat /\ MaxChanges \in Nat
ASSUME RateAssumption == {GeneralMax, SendMax, RateWindow} \subseteq Nat \ {0} /\ {MaxMoment, MaxHits} \subseteq Nat

VARIABLES pin,      \* pinFailedAttempts and pinLockedUntil of the User row
          attempt,  \* what each attempt is doing, with the row it read
          fresh,    \* the attempts whose copy is still the row
          wrong,    \* wrong PINs since the count was last set to 0 for good
          raced,    \* an attempt has written over a row it had not read
          account,  \* whether the account is deactivated, and its kyc pending
          change,   \* what each administrator is doing
          records,  \* the AccountStatusRecord rows
          doubled,  \* two changes were decided on the same row
          challenge, \* the Sep10Challenge rows
          login,    \* what became of each answer, and the challenge it signs
          session,  \* the RestSession row each answer has led to
          served,   \* the answer whose session each call goes on with
          moment,   \* the time of the database
          counter,  \* the RateLimitHit row of each limit
          between,  \* calls that the first limit has let through to the second
          verdicts  \* (ghost) what each limit has said, and when

pinVars == <<pin, attempt, fresh, wrong, raced>>
accountVars == <<account, change, records, doubled>>
accessVars == <<pinVars, accountVars>>
sessionVars == <<challenge, login, session, served>>
rateLimitVars == <<moment, counter, between, verdicts>>

Unlocked == [attempts |-> 0, lock |-> "none"]
NoAttempt == [step |-> "idle", row |-> Unlocked]

AccessInit ==
  /\ pin = Unlocked
  /\ attempt = [a \in Attempt |-> NoAttempt]
  /\ fresh = {} /\ wrong = 0 /\ raced = FALSE
  /\ account \in [deactivated : {FALSE}, pending : BOOLEAN]
  /\ change = [d \in Admin |-> "idle"]
  /\ records = << >> /\ doubled = FALSE
-----------------------------------------------------------------------------
WritePin(a, row) ==
  /\ pin' = row
  /\ fresh' = {a}
  /\ raced' = (raced \/ a \notin fresh)

\* loadUserForUpdate. While the lock holds the attempt is refused; a lock that
\* has run out is cleared first.
ReadPin(a) ==
  /\ attempt[a].step = "idle"
  /\ attempt' = [attempt EXCEPT ![a] =
       IF pin.lock = "active" THEN NoAttempt
       ELSE [step |-> IF pin.lock = "expired" THEN "clearing" ELSE "comparing", row |-> pin]]
  /\ fresh' = fresh \cup {a}
  /\ UNCHANGED <<pin, wrong, raced, accountVars>>

ClearExpired(a) ==
  /\ attempt[a].step = "clearing"
  /\ WritePin(a, Unlocked)
  /\ attempt' = [attempt EXCEPT ![a].step = "comparing"]
  /\ UNCHANGED <<wrong, accountVars>>

RightPin(a) ==
  /\ attempt[a].step = "comparing"
  /\ WritePin(a, Unlocked)
  /\ wrong' = 0
  /\ attempt' = [attempt EXCEPT ![a] = NoAttempt]
  /\ UNCHANGED accountVars

\* (Mutant: the lock comes one attempt late.)
WrongPinLate(a) ==
  /\ attempt[a].step = "comparing"
  /\ wrong < MaxGuesses /\ attempt[a].row.attempts < MaxGuesses
  /\ LET attempts == attempt[a].row.attempts + 1
     IN WritePin(a, [attempts |-> attempts, lock |-> IF attempts > FailureLimit THEN "active" ELSE "none"])
  /\ wrong' = wrong + 1
  /\ attempt' = [attempt EXCEPT ![a] = NoAttempt]
  /\ UNCHANGED accountVars

\* The count goes on from the row that was read, also from before the lock ran
\* out: one wrong PIN after that locks again.
WrongPin(a) ==
  /\ attempt[a].step = "comparing"
  /\ wrong < MaxGuesses /\ attempt[a].row.attempts < MaxGuesses
  /\ LET attempts == attempt[a].row.attempts + 1
     IN WritePin(a, [attempts |-> attempts, lock |-> IF attempts >= FailureLimit THEN "active" ELSE "none"])
  /\ wrong' = wrong + 1
  /\ attempt' = [attempt EXCEPT ![a] = NoAttempt]
  /\ UNCHANGED accountVars

\* clearPinLock.
ClearPinLock(a) ==
  /\ attempt[a].step = "idle"
  /\ pin' = Unlocked
  /\ fresh' = {}
  /\ wrong' = 0
  /\ UNCHANGED <<attempt, raced, accountVars>>

LockExpires ==
  /\ pin.lock = "active"
  /\ pin' = [pin EXCEPT !.lock = "expired"]
  /\ UNCHANGED <<attempt, fresh, wrong, raced, accountVars>>

AttemptDies(a) ==
  /\ attempt[a].step # "idle"
  /\ attempt' = [attempt EXCEPT ![a] = NoAttempt]
  /\ raced' = (raced \/ attempt[a].row.lock = "expired")
  /\ UNCHANGED <<pin, fresh, wrong, accountVars>>
-----------------------------------------------------------------------------
\* deactivateAccount: not twice, and not over a pending verification, unless
\* forced or for a reason that overrides it. Legal holds are read and ignored.
Deactivate(d, forced) ==
  /\ change[d] = "idle" /\ Len(records) < MaxChanges
  /\ ~ account.deactivated
  /\ account.pending => forced
  /\ change' = [change EXCEPT ![d] = "deactivated"]
  /\ UNCHANGED <<pinVars, account, records, doubled>>

\* reactivateAccount: by the same administrator, if need be.
Reactivate(d) ==
  /\ change[d] = "idle" /\ Len(records) < MaxChanges
  /\ account.deactivated
  /\ change' = [change EXCEPT ![d] = "active"]
  /\ UNCHANGED <<pinVars, account, records, doubled>>

Status == IF account.deactivated THEN "deactivated" ELSE "active"

\* The transaction, decided on what was read.
CommitChange(d) ==
  /\ change[d] # "idle"
  /\ account' = [account EXCEPT !.deactivated = (change[d] = "deactivated")]
  /\ doubled' = (doubled \/ Status = change[d])
  /\ records' = Append(records, change[d])
  /\ change' = [change EXCEPT ![d] = "idle"]
  /\ UNCHANGED pinVars

ChangeFails(d) ==
  /\ change[d] # "idle"
  /\ change' = [change EXCEPT ![d] = "idle"]
  /\ UNCHANGED <<pinVars, account, records, doubled>>

PinNext ==
  \/ \E a \in Attempt : \/ ReadPin(a) \/ ClearExpired(a) \/ RightPin(a) \/ WrongPin(a)
                        \/ ClearPinLock(a) \/ AttemptDies(a)
  \/ LockExpires

AccountNext ==
  \E d \in Admin : \/ Reactivate(d) \/ CommitChange(d) \/ ChangeFails(d)
                   \/ \E forced \in BOOLEAN : Deactivate(d, forced)

AccessSpec == AccessInit /\ [][PinNext \/ AccountNext]_accessVars
-----------------------------------------------------------------------------
NoLogin == [step |-> "none"]
NoCall == "none"

SessionInit ==
  /\ challenge = [h \in Challenge |-> "none"]
  /\ login = [l \in Login |-> NoLogin]
  /\ session = [l \in Login |-> "none"]
  /\ served = [c \in Visit |-> NoCall]

\* createChallenge writes the row once the challenge is built.
CreateChallenge(h) ==
  /\ challenge[h] = "none"
  /\ challenge' = [challenge EXCEPT ![h] = "open"]
  /\ UNCHANGED <<login, session, served>>

ChallengeLapses(h) ==
  /\ challenge[h] = "open"
  /\ challenge' = [challenge EXCEPT ![h] = "lapsed"]
  /\ UNCHANGED <<login, session, served>>

\* verifyChallenge: signatures and time bounds hold, also of a challenge that
\* was used before, and the wallet is that of a user.
VerifyChallenge(l, h) ==
  /\ login[l] = NoLogin
  /\ challenge[h] \in {"open", "used"}
  /\ login' = [login EXCEPT ![l] = [step |-> "verified", signed |-> h]]
  /\ UNCHANGED <<challenge, session, served>>

\* The transaction: the challenge is used if it still is unused and has not
\* lapsed, and the session is created; or else neither. Of its answer the client
\* may hear nothing.
OpenSession(l) ==
  /\ login[l].step = "verified"
  /\ LET h == login[l].signed
     IN IF challenge[h] = "open"
        THEN /\ challenge' = [challenge EXCEPT ![h] = "used"]
             /\ session' = [session EXCEPT ![l] = "live"]
        ELSE UNCHANGED <<challenge, session>>
  /\ login' = [login EXCEPT ![l].step = "ended"]
  /\ UNCHANGED served

LoginDies(l) ==
  /\ login[l].step = "verified"
  /\ login' = [login EXCEPT ![l].step = "ended"]
  /\ UNCHANGED <<challenge, session, served>>

SessionExpires(l) ==
  /\ session[l] = "live"
  /\ session' = [session EXCEPT ![l] = "expired"]
  /\ UNCHANGED <<challenge, login, served>>

\* requireRestSession: findSession gives the row to a call while it is neither
\* revoked nor out of time; what becomes of it later, the call does not see.
FindSession(c, l) ==
  /\ served[c] = NoCall
  /\ session[l] = "live"
  /\ served' = [served EXCEPT ![c] = l]
  /\ UNCHANGED <<challenge, login, session>>

CallEnds(c) ==
  /\ served[c] # NoCall
  /\ served' = [served EXCEPT ![c] = NoCall]
  /\ UNCHANGED <<challenge, login, session>>

\* revokeSession, of the session the call was let in with.
Logout(c) ==
  /\ served[c] # NoCall
  /\ session' = [session EXCEPT ![served[c]] = "revoked"]
  /\ served' = [served EXCEPT ![c] = NoCall]
  /\ UNCHANGED <<challenge, login>>

SessionNext ==
  \/ \E h \in Challenge : CreateChallenge(h) \/ ChallengeLapses(h)
  \/ \E l \in Login : \/ OpenSession(l) \/ LoginDies(l) \/ SessionExpires(l)
                      \/ \E h \in Challenge : VerifyChallenge(l, h)
  \/ \E c \in Visit : \/ CallEnds(c) \/ Logout(c)
                     \/ \E l \in Login : FindSession(c, l)

SessionSpec == SessionInit /\ [][SessionNext]_sessionVars
-----------------------------------------------------------------------------
(* How often an account may call (services/rateLimit.service.js): a window *)
(* begins with a hit and is counted to its end, whoever is let through. A  *)
(* payment passes the general limit, then its own.                         *)

LimitOf == [general |-> GeneralMax, send |-> SendMax]
NoHits == [count |-> 0, resetAt |-> 0]

RateInit ==
  /\ moment = 0
  /\ counter = [l \in DOMAIN LimitOf |-> NoHits]
  /\ between = {}
  /\ verdicts = [l \in DOMAIN LimitOf |-> << >>]

RateTick ==
  /\ moment < MaxMoment
  /\ moment' = moment + 1
  /\ UNCHANGED <<counter, between, verdicts>>

\* The row as the one UPSERT leaves it: at resetAt the next window begins.
Consumed(l) ==
  IF counter[l].resetAt <= moment
  THEN [count |-> 1, resetAt |-> moment + RateWindow]
  ELSE [counter[l] EXCEPT !.count = @ + 1]

\* The sender of too many messages is warned of the first that is dropped.
Verdict(l) ==
  LET total == Consumed(l).count
  IN CASE total <= LimitOf[l] -> "passed"
       [] total = LimitOf[l] + 1 -> "warned"
       [] OTHER -> "refused"

Hit(l) ==
  /\ Len(verdicts[l]) < MaxHits
  /\ counter' = [counter EXCEPT ![l] = Consumed(l)]
  /\ verdicts' = [verdicts EXCEPT ![l] = Append(@, [at |-> moment, says |-> Verdict(l)])]
  /\ UNCHANGED moment

CallArrives(c, payment) ==
  /\ c \notin between
  /\ Hit("general")
  /\ between' = IF payment /\ Verdict("general") = "passed" THEN between \cup {c} ELSE between

PaymentArrives(c) ==
  /\ c \in between
  /\ Hit("send")
  /\ between' = between \ {c}

RateNext ==
  \/ RateTick
  \/ \E c \in Visit : PaymentArrives(c) \/ \E payment \in BOOLEAN : CallArrives(c, payment)

RateSpec == RateInit /\ [][RateNext]_rateLimitVars
-----------------------------------------------------------------------------
\* Every wrong PIN is counted and the lock is set when their number reaches the
\* limit (pin.service.js verifyPinAttempt), unless two attempts overlapped or
\* one died after the lock it found had run out; while such a lock is being
\* cleared the count says 0.
GuessesCounted ==
  \/ raced
  \/ \E a \in Attempt : attempt[a].step = "comparing" /\ attempt[a].row.lock = "expired"
  \/ /\ pin.attempts = wrong
     /\ wrong >= FailureLimit => pin.lock # "none"

\* The last record of the account tells its status, and the records alternate,
\* unless two administrators decided on the same row.
HistoryTells ==
  /\ records # << >> => records[Len(records)] = Status
  /\ \/ doubled
     \/ \A i \in 1 .. Len(records) : records[i] = (IF i % 2 = 1 THEN "deactivated" ELSE "active")

\* A challenge leads to one session, however many answers to it arrive together,
\* and is used up only with a session made; a call goes on with a session that
\* was opened so.
OneSessionEach ==
  /\ \A h \in Challenge :
        Cardinality({l \in Login : session[l] # "none" /\ login[l].signed = h})
          = (IF challenge[h] = "used" THEN 1 ELSE 0)
  /\ \A c \in Visit : served[c] # NoCall => session[served[c]] # "none" /\ login[served[c]].step = "ended"

\* What a limit has let through in the window's length before t.
PassedBefore(l, t) ==
  Cardinality({i \in DOMAIN verdicts[l] :
    verdicts[l][i].says = "passed" /\ verdicts[l][i].at \in (t - RateWindow + 1) .. t})

\* No stretch of a window's length sees more than two windows' worth of calls,
\* nobody is refused who has not had a window's worth within that stretch, and
\* the first refusal of each window, no other, is the one that warns.
LimitsHold ==
  \A l \in DOMAIN LimitOf :
    /\ \A t \in 0 .. MaxMoment : PassedBefore(l, t) <= 2 * LimitOf[l]
    /\ \A i \in DOMAIN verdicts[l] :
         LET v == verdicts[l][i]
         IN v.says # "passed" =>
              /\ PassedBefore(l, v.at) >= LimitOf[l]
              /\ (v.says = "warned") = (verdicts[l][i - 1].says = "passed")

\* The row of the customer, the records, the challenges and the counters tell
\* what happened (pin.service.js, account.service.js, restAuth.service.js,
\* rateLimit.service.js).
AccessTells == GuessesCounted /\ HistoryTells /\ OneSessionEach /\ LimitsHold
=============================================================================
