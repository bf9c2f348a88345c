------------------------ MODULE IdempotentSendProofs ------------------------
(***************************************************************************)
(* Theorems about IdempotentSend, for any number of requests, processes    *)
(* and attempts: its types, and that of the requests with one key at most  *)
(* one ever asks the wallet to pay (it implements OncePayment).            *)
(***************************************************************************)
EXTENDS IdempotentSend, FiniteSetTheorems, TLAPS

\* Every request that was received found or made the record.
RecordMade == \A r \in Request : req[r] # "new" => record \in Records

TypeInv == TypeOK /\ RecordMade

AdapterType == [Caller -> [step : AdapterSteps, attempt : Attempt, uncertain : BOOLEAN]]
EnvType == [Caller -> [Attempt -> [seq : Nat, state : EnvelopeStates]]]

USE SubmitAssumption, RequestAssumption DEF Request

\* A step of the adapter keeps the types of its call's state.
LEMMA NextAttemptTyped ==
  ASSUME NEW c \in Caller, SubmitTypeOK, NextAttempt(c)
  PROVE  adapter' \in AdapterType
<1>1. CASE adapter[c].attempt < MaxAttempts
  <2>1. adapter[c].attempt + 1 \in Attempt
    BY <1>1 DEF SubmitTypeOK, Attempt
  <2>. QED
    BY <1>1, <2>1, ZenonT(60) DEF NextAttempt, SubmitTypeOK, AdapterSteps, AdapterType
<1>2. CASE ~ (adapter[c].attempt < MaxAttempts)
  BY <1>2, ZenonT(60) DEF NextAttempt, SubmitTypeOK, AdapterSteps, AdapterType
<1>. QED
  BY <1>1, <1>2

\* So does a change of one field of one envelope.
LEMMA EnvelopeTyped ==
  ASSUME SubmitTypeOK, NEW c \in Caller, NEW k \in Attempt
  PROVE  /\ \A n \in Nat : [env EXCEPT ![c][k].seq = n]
                \in EnvType
         /\ \A s \in EnvelopeStates : [env EXCEPT ![c][k].state = s]
                \in EnvType
<1>. DEFINE Envelope == [seq : Nat, state : EnvelopeStates]
<1>. USE DEF EnvType
<1>1. env[c] \in [Attempt -> Envelope] /\ env[c][k] \in Envelope
  BY DEF SubmitTypeOK
<1>2. ASSUME NEW e \in Envelope
      PROVE  [env EXCEPT ![c] = [env[c] EXCEPT ![k] = e]] \in [Caller -> [Attempt -> Envelope]]
  <2>. HIDE DEF Envelope
  <2>1. [env[c] EXCEPT ![k] = e] \in [Attempt -> Envelope]
    BY <1>1, <1>2
  <2>. QED
    BY <2>1 DEF SubmitTypeOK, Envelope
<1>3. ASSUME NEW n \in Nat PROVE [env[c][k] EXCEPT !.seq = n] \in Envelope
  BY <1>1
<1>4. ASSUME NEW s \in EnvelopeStates PROVE [env[c][k] EXCEPT !.state = s] \in Envelope
  BY <1>1
<1>. QED
  BY <1>2, <1>3, <1>4

LEMMA AdapterTyped ==
  ASSUME NEW c \in Caller, SubmitTypeOK, AdapterStep(c) \/ CallSubmit(c)
  PROVE  SubmitTypeOK'
<1>1. ASSUME NEW step \in AdapterSteps, AdapterGoto(c, step)
      PROVE  adapter' \in AdapterType
  BY <1>1 DEF AdapterGoto, SubmitTypeOK, AdapterType
<1>6. CASE CallSubmit(c) \/ AcquireLock(c) \/ CannotBuild(c)
  BY <1>1, <1>6 DEF CallSubmit, AcquireLock, CannotBuild, AdapterSteps, SubmitTypeOK, AdapterType
<1>7. CASE AnswerApplied(c) \/ LookupFinds(c) \/ AnswerError(c)
  BY <1>1, <1>7 DEF AnswerApplied, LookupFinds, AnswerError, AdapterSteps, SubmitTypeOK, AdapterType
<1>8. CASE AnswerLost(c)
  BY <1>8, ZenonT(60) DEF AnswerLost, SubmitTypeOK, AdapterSteps
<1>9. adapter[c].attempt \in Attempt
  BY DEF SubmitTypeOK
<1>2. CASE LoadAndBuild(c)
  <2>1. account + 1 \in Nat
    BY DEF SubmitTypeOK
  <2>2. [env EXCEPT ![c][adapter[c].attempt].seq = account + 1] \in EnvType
    BY <1>9, <2>1, EnvelopeTyped
  <2>3. env' \in EnvType
    BY <1>2, <2>2 DEF LoadAndBuild
  <2>4. adapter' \in AdapterType
    BY <1>1, <1>2 DEF LoadAndBuild, AdapterSteps
  <2>. QED
    BY <1>2, <2>3, <2>4 DEF LoadAndBuild, SubmitTypeOK, EnvType, AdapterType
<1>3. CASE Post(c)
  <2>1. "inflight" \in EnvelopeStates
    BY DEF EnvelopeStates
  <2>2. [env EXCEPT ![c][adapter[c].attempt].state = "inflight"] \in EnvType
    BY <1>9, <2>1, EnvelopeTyped
  <2>3. env' \in EnvType
    BY <1>3, <2>2 DEF Post
  <2>4. adapter' \in AdapterType
    BY <1>1, <1>3 DEF Post, AdapterSteps
  <2>. QED
    BY <1>3, <2>3, <2>4 DEF Post, SubmitTypeOK, EnvType, AdapterType
<1>4. CASE LookupMisses(c)
  BY <1>4, NextAttemptTyped DEF LookupMisses, SubmitTypeOK, AdapterType
<1>5. CASE AnswerBadSequence(c)
  <2>1. CASE NextAttempt(c)
    BY <1>5, <2>1, NextAttemptTyped DEF AnswerBadSequence, SubmitTypeOK, AdapterType
  <2>2. CASE AdapterGoto(c, "returned")
    BY <1>1, <1>5, <2>2 DEF AnswerBadSequence, AdapterSteps, SubmitTypeOK, AdapterType
  <2>. QED
    BY <1>5, <2>1, <2>2 DEF AnswerBadSequence
<1>. QED
  BY <1>2, <1>3, <1>4, <1>5, <1>6, <1>7, <1>8 DEF AdapterStep

LEMMA NetworkTyped ==
  ASSUME SubmitTypeOK, Elsewhere
  PROVE  SubmitTypeOK'
<1>1. CASE \E c \in Caller, k \in Attempt : Network(c, k)
  <2>1. PICK c \in Caller, k \in Attempt : Network(c, k)
    BY <1>1
  <2>3. PICK state \in EnvelopeStates : env' = [env EXCEPT ![c][k].state = state]
    BY <2>1 DEF Network, EnvelopeStates
  <2>2. env' \in EnvType
    BY <2>3, EnvelopeTyped
  <2>. QED
    BY <2>1, <2>2 DEF Network, SubmitTypeOK, EnvType
<1>2. CASE OtherPayment
  BY <1>2 DEF OtherPayment, SubmitTypeOK
<1>. QED
  BY <1>1, <1>2 DEF Elsewhere

LEMMA CrashTyped ==
  ASSUME SubmitTypeOK, NEW p \in Process, AdapterCrash(p), UNCHANGED <<env, account>>
  PROVE  SubmitTypeOK'
BY ZenonT(60) DEF SubmitTypeOK, AdapterCrash, AdapterSteps
-----------------------------------------------------------------------------
LEMMA InitTyped == Init => TypeInv
BY DEF Init, SubmitInit, TypeInv, TypeOK, SubmitTypeOK, RecordMade, Steps, AdapterSteps,
       EnvelopeStates, Attempt

\* The fields of a record keep their types.
LEMMA RecordTyped ==
  ASSUME record \in Records
  PROVE  /\ \A s \in {"processing", "completed", "failed"} : [record EXCEPT !.state = s] \in Records
         /\ \A b \in BOOLEAN : [record EXCEPT !.leased = b] \in Records
BY DEF Records

LEMMA RequestTyped ==
  ASSUME TypeInv, NEW r \in Request, RequestStep(r) \/ DatabaseError(r)
  PROVE  TypeInv'
<1>. USE DEF TypeInv, TypeOK, RecordMade, Goto, Steps
<1>1. ASSUME UNCHANGED <<record, tx, submitVars>>, NEW step \in Steps, Goto(r, step), req[r] # "new"
      PROVE  TypeInv'
  BY <1>1 DEF submitVars, SubmitTypeOK
<1>2. CASE Create(r)
  <2>1. [state |-> "processing", leased |-> TRUE, fingerprint |-> Fingerprint[r]] \in Records
    BY DEF Records
  <2>2. record' \in Records
    BY <1>2, <2>1 DEF Create
  <2>3. UNCHANGED <<tx, submitVars>> /\ req' \in [Request -> Steps]
    BY <1>2 DEF Create
  <2>. QED
    BY <2>2, <2>3 DEF submitVars, SubmitTypeOK
<1>3. CASE PollFirst(r) \/ PollAgain(r)
  BY <1>1, <1>3 DEF PollFirst, PollAgain, Poll
<1>4. CASE Deadline(r) \/ DatabaseError(r) \/ CoreThrows(r) \/ PaymentThrows(r)
  BY <1>1, <1>4 DEF Deadline, DatabaseError, CoreThrows, PaymentThrows
<1>5. CASE ConfirmSettled(r) \/ Claim(r) \/ CompleteRecord(r) \/ FailRecord(r)
  <2>1. record \in Records /\ record' \in Records
    BY <1>5, RecordTyped DEF ConfirmSettled, Claim, CompleteRecord, FailRecord
  <2>2. UNCHANGED <<tx, submitVars>> /\ req' \in [Request -> Steps]
    BY <1>5 DEF ConfirmSettled, Claim, CompleteRecord, FailRecord
  <2>. QED
    BY <2>1, <2>2 DEF submitVars, SubmitTypeOK
<1>6. CASE ReserveRow(r)
  <2>1. SubmitTypeOK'
    BY <1>6, AdapterTyped DEF ReserveRow, submitVars, SubmitTypeOK
  <2>. QED
    BY <1>6, <2>1 DEF ReserveRow
<1>7. CASE MarkPending(r) \/ MarkFailed(r)
  BY <1>7 DEF MarkPending, MarkFailed, submitVars, SubmitTypeOK
<1>. QED
  BY <1>2, <1>3, <1>4, <1>5, <1>6, <1>7 DEF RequestStep

LEMMA NextTyped ==
  ASSUME TypeInv, [Next]_vars
  PROVE  TypeInv'
<1>1. ASSUME NEW r \in Request, AdapterStep(r) /\ UNCHANGED <<req, record, tx>>
      PROVE  TypeInv'
  BY <1>1, AdapterTyped DEF TypeInv, TypeOK, RecordMade
<1>2. CASE Elsewhere
  BY <1>2, NetworkTyped DEF TypeInv, TypeOK, RecordMade, Elsewhere
<1>3. CASE LeaseExpires
  BY <1>3, RecordTyped DEF LeaseExpires, TypeInv, TypeOK, RecordMade, submitVars, SubmitTypeOK
<1>4. CASE Settle
  BY <1>4 DEF Settle, TypeInv, TypeOK, RecordMade, submitVars, SubmitTypeOK
<1>5. ASSUME NEW p \in Process, CrashProcess(p)
      PROVE  TypeInv'
  <2>1. SubmitTypeOK'
    BY <1>5, CrashTyped DEF CrashProcess, TypeInv, TypeOK
  <2>. QED
    BY <1>5, <2>1 DEF CrashProcess, TypeInv, TypeOK, RecordMade, Steps
<1>6. CASE UNCHANGED vars
  BY <1>6 DEF vars, TypeInv, TypeOK, RecordMade, SubmitTypeOK
<1>. QED
  BY <1>1, <1>2, <1>3, <1>4, <1>5, <1>6, RequestTyped DEF Next, Work

\* The state of the requests, the record, the row and the adapter calls is
\* always of its type: no field of a record that does not exist is written
\* and no attempt past SEND_MAX_ATTEMPTS is made.
THEOREM SpecTypeOK == Spec => []TypeOK
<1>1. Spec => []TypeInv
  BY InitTyped, NextTyped, PTL DEF Spec
<1>2. TypeInv => TypeOK
  BY DEF TypeInv
<1>. QED
  BY <1>1, <1>2, PTL
-----------------------------------------------------------------------------
(***************************************************************************)
(* At most one payer.  The row with the reserved id is created by the step *)
(* that calls the wallet, and a row, once there, never goes away: whoever  *)
(* comes later finds its primary key taken.                                *)
(***************************************************************************)
PayerHasRow == Payers # {} => tx # "none"

AtMostOnePayer == \A r, s \in Payers : r = s

PaysInv == TypeInv /\ PayerHasRow /\ AtMostOnePayer

\* A call that was made stays made, and a row that exists stays.
LEMMA OnlyReserveCalls ==
  ASSUME TypeInv, [Next]_vars, ~ \E r \in Request : ReserveRow(r)
  PROVE  Payers' = Payers /\ (tx # "none" => tx' # "none")
<1>. USE DEF TypeInv, TypeOK, Payers
<1>1. ASSUME NEW r \in Request, RequestStep(r) \/ DatabaseError(r)
      PROVE  UNCHANGED adapter /\ (tx # "none" => tx' # "none")
  BY <1>1 DEF RequestStep, DatabaseError, Create, PollFirst, PollAgain, Poll, Deadline,
              ConfirmSettled, Claim, CoreThrows, MarkPending, PaymentThrows, MarkFailed,
              CompleteRecord, FailRecord, submitVars
<1>2. ASSUME NEW r \in Request, AdapterStep(r), UNCHANGED <<req, record, tx>>
      PROVE  Payers' = Payers /\ UNCHANGED tx
  <2>1. adapter[r].step # "idle"
    BY <1>2 DEF AdapterStep, AcquireLock, CannotBuild, LoadAndBuild, Post, AnswerApplied,
                AnswerLost, LookupFinds, LookupMisses, AnswerBadSequence, AnswerError
  <2>2. adapter'[r].step # "idle" /\ \A s \in Request \ {r} : adapter'[s] = adapter[s]
    <3>1. CASE AnswerLost(r)
      BY <3>1 DEF AnswerLost, SubmitTypeOK
    <3>2. CASE NextAttempt(r)
      BY <3>2 DEF NextAttempt, SubmitTypeOK
    <3>3. ASSUME NEW step \in AdapterSteps \ {"idle"}, AdapterGoto(r, step)
          PROVE  adapter'[r].step # "idle" /\ \A s \in Request \ {r} : adapter'[s] = adapter[s]
      BY <3>3 DEF AdapterGoto, SubmitTypeOK
    <3>. QED
      BY <1>2, <3>1, <3>2, <3>3
      DEF AdapterStep, AcquireLock, CannotBuild, LoadAndBuild, Post, AnswerApplied,
          LookupFinds, LookupMisses, AnswerBadSequence, AnswerError, AdapterSteps
  <2>. QED
    BY <1>2, <2>1, <2>2
<1>3. ASSUME NEW p \in Process, CrashProcess(p)
      PROVE  Payers' = Payers /\ UNCHANGED tx
  BY <1>3 DEF CrashProcess, AdapterCrash, SubmitTypeOK
<1>4. CASE Elsewhere \/ LeaseExpires \/ Settle \/ UNCHANGED vars
  BY <1>4 DEF Elsewhere, Network, OtherPayment, LeaseExpires, Settle, submitVars, vars
<1>. QED
  BY <1>1, <1>2, <1>3, <1>4 DEF Next, Work

\* The reservation is the one step that adds a payer, and only to none.
LEMMA ReserveAddsOne ==
  ASSUME PaysInv, NEW r \in Request, ReserveRow(r)
  PROVE  \/ Payers' = Payers /\ UNCHANGED tx
         \/ Payers = {} /\ Payers' = {r} /\ tx' # "none"
<1>1. CASE tx = "none"
  <2>1. Payers = {}
    BY <1>1 DEF PaysInv, PayerHasRow
  <2>2. Payers' = {r}
    BY <1>1, <2>1 DEF ReserveRow, CallSubmit, AdapterGoto, Payers, PaysInv, TypeInv, TypeOK, SubmitTypeOK
  <2>. QED
    BY <1>1, <2>1, <2>2 DEF ReserveRow
<1>2. CASE tx # "none"
  BY <1>2 DEF ReserveRow, Payers, submitVars
<1>. QED
  BY <1>1, <1>2

LEMMA PaysStep ==
  ASSUME PaysInv, [Next]_vars
  PROVE  PaysInv' /\ [Once!Next]_Payers
<1>1. TypeInv'
  BY NextTyped DEF PaysInv
<1>2. CASE ~ \E r \in Request : ReserveRow(r)
  <2>1. Payers' = Payers /\ (tx # "none" => tx' # "none")
    BY <1>2, OnlyReserveCalls DEF PaysInv
  <2>. QED
    BY <1>1, <2>1 DEF PaysInv, PayerHasRow, AtMostOnePayer
<1>3. ASSUME NEW r \in Request, ReserveRow(r)
      PROVE  PaysInv' /\ [Once!Next]_Payers
  <2>1. CASE Payers' = Payers /\ UNCHANGED tx
    BY <1>1, <2>1 DEF PaysInv, PayerHasRow, AtMostOnePayer
  <2>2. CASE Payers = {} /\ Payers' = {r} /\ tx' # "none"
    BY <1>1, <2>2 DEF PaysInv, PayerHasRow, AtMostOnePayer, Once!Next, Once!Pay
  <2>. QED
    BY <1>3, <2>1, <2>2, ReserveAddsOne
<1>. QED
  BY <1>2, <1>3

\* Of all the requests that carry one idempotency key, through any number of
\* expired leases, takeovers and crashes, at most one ever asks the wallet to
\* pay: the code implements OncePayment.
THEOREM SpecPaysOnce == Spec => PaysOnce
<1>1. Init => PaysInv /\ Once!Init
  <2>1. Init => Payers = {}
    BY DEF Init, SubmitInit, Payers
  <2>. QED
    BY <2>1, InitTyped DEF PaysInv, PayerHasRow, AtMostOnePayer, Once!Init
<1>2. PaysInv /\ [Next]_vars => PaysInv' /\ [Once!Next]_Payers
  BY PaysStep
<1>. QED
  BY <1>1, <1>2, PTL DEF Spec, PaysOnce, Once!Spec
-----------------------------------------------------------------------------
(***************************************************************************)
(* What the money did.  An attempt is followed by another one only when    *)
(* the network refused it, or after a lost answer; what is reported as     *)
(* paid was included; and other parameters are turned away by the first    *)
(* poll.                                                                   *)
(***************************************************************************)

\* The envelope of an attempt is posted once, at its own turn.
LaterUnsent ==
  \A c \in Caller :
    /\ \A k \in Attempt : k > adapter[c].attempt => env[c][k].state = "none"
    /\ adapter[c].step \in {"idle", "waiting", "loading", "loaded"} => Current(c) = "none"

\* Unless an answer was lost, every earlier attempt was refused.
EarlierRefused ==
  \A c \in Caller : ~ adapter[c].uncertain =>
    /\ adapter[c].step # "lookup"
    /\ \A k \in Attempt : k < adapter[c].attempt => env[c][k].state = "badseq"

SomePaid == \E r \in Request, k \in Attempt : TakenForPaid(r, k)

\* A hash is returned, a row read or settled as successful, and a record
\* completed only for an envelope that was applied, or that failed and was
\* found after a lost answer.
ReportedIsPaid ==
  \/ SomePaid
  \/ /\ \A r \in Request : adapter[r].step # "returned" /\ req[r] \notin {"confirming", "recording"}
     /\ tx # "success"
     /\ record.state # "completed"

SendInv ==
  TypeInv /\ LaterUnsent /\ EarlierRefused /\ ReportedIsPaid /\ OtherParametersRefused

\* Setting the state of one envelope leaves the others alone.
LEMMA EnvelopeStateSet ==
  ASSUME SubmitTypeOK, NEW c \in Caller, NEW k \in Attempt, NEW s \in EnvelopeStates,
         env' = [env EXCEPT ![c][k].state = s]
  PROVE  /\ env'[c][k].state = s
         /\ \A j \in Attempt \ {k} : env'[c][j] = env[c][j]
         /\ \A d \in Caller \ {c} : env'[d] = env[d]
<1>1. env'[c] = [env[c] EXCEPT ![k].state = s] /\ \A d \in Caller \ {c} : env'[d] = env[d]
  BY DEF SubmitTypeOK
<1>2. env'[c][k] = [env[c][k] EXCEPT !.state = s] /\ \A j \in Attempt \ {k} : env'[c][j] = env[c][j]
  BY <1>1 DEF SubmitTypeOK
<1>3. [env[c][k] EXCEPT !.state = s].state = s
  BY DEF SubmitTypeOK
<1>. QED
  BY <1>1, <1>2, <1>3

\* Setting a sequence number changes no state.
LEMMA EnvelopeNumberSet ==
  ASSUME SubmitTypeOK, NEW c \in Caller, NEW k \in Attempt, NEW n \in Nat,
         env' = [env EXCEPT ![c][k].seq = n]
  PROVE  \A d \in Caller, j \in Attempt : env'[d][j].state = env[d][j].state
<1>1. \A d \in Caller : env'[d] = IF d = c THEN [env[c] EXCEPT ![k].seq = n] ELSE env[d]
  BY DEF SubmitTypeOK
<1>2. \A j \in Attempt :
        [env[c] EXCEPT ![k].seq = n][j] = IF j = k THEN [env[c][k] EXCEPT !.seq = n] ELSE env[c][j]
  BY DEF SubmitTypeOK
<1>3. [env[c][k] EXCEPT !.seq = n].state = env[c][k].state
  BY DEF SubmitTypeOK
<1>. QED
  BY <1>1, <1>2, <1>3

\* A step of a call, one case for each way it treats its attempt and envelope.
LEMMA AdapterRefusedFirst ==
  ASSUME SubmitTypeOK, LaterUnsent, EarlierRefused, NEW c \in Caller, AdapterStep(c) \/ CallSubmit(c)
  PROVE  LaterUnsent' /\ EarlierRefused'
<1>. USE DEF LaterUnsent, EarlierRefused, Current, SubmitTypeOK
<1>. DEFINE Others == \A d \in Caller \ {c} : adapter'[d] = adapter[d] /\ env'[d] = env[d]
            Later == /\ \A k \in Attempt : k > adapter'[c].attempt => env'[c][k].state = "none"
                     /\ adapter'[c].step \in {"idle", "waiting", "loading", "loaded"} =>
                          env'[c][adapter'[c].attempt].state = "none"
            Earlier == ~ adapter'[c].uncertain =>
                         /\ adapter'[c].step # "lookup"
                         /\ \A k \in Attempt : k < adapter'[c].attempt => env'[c][k].state = "badseq"
<1>9. ASSUME Others, Later, Earlier PROVE LaterUnsent' /\ EarlierRefused'
  <2>1. \A d \in Caller \ {c} :
          /\ \A k \in Attempt : k > adapter'[d].attempt => env'[d][k].state = "none"
          /\ adapter'[d].step \in {"idle", "waiting", "loading", "loaded"} =>
               env'[d][adapter'[d].attempt].state = "none"
    BY <1>9
  <2>2. \A d \in Caller \ {c} : ~ adapter'[d].uncertain =>
          /\ adapter'[d].step # "lookup"
          /\ \A k \in Attempt : k < adapter'[d].attempt => env'[d][k].state = "badseq"
    BY <1>9
  <2>. HIDE DEF SubmitTypeOK
  <2>3. LaterUnsent'
    BY <1>9, <2>1
  <2>4. EarlierRefused'
    BY <1>9, <2>2
  <2>. QED
    BY <2>3, <2>4
<1>1. ASSUME NEW step \in AdapterSteps \ {"lookup"}, AdapterGoto(c, step), UNCHANGED env,
             adapter[c].step \in {"idle", "waiting", "loading"}
               \/ step \notin {"idle", "waiting", "loading", "loaded"}
      PROVE  LaterUnsent' /\ EarlierRefused'
  BY <1>1 DEF AdapterGoto
<1>2. CASE CallSubmit(c) \/ AcquireLock(c) \/ CannotBuild(c)
  BY <1>1, <1>2 DEF CallSubmit, AcquireLock, CannotBuild, AdapterSteps
<1>3. CASE AnswerApplied(c) \/ LookupFinds(c) \/ AnswerError(c)
  BY <1>1, <1>3 DEF AnswerApplied, LookupFinds, AnswerError, AdapterSteps
<1>4. CASE LoadAndBuild(c)
  <2>1. \A d \in Caller, j \in Attempt : env'[d][j].state = env[d][j].state
    BY <1>4, EnvelopeNumberSet DEF LoadAndBuild
  <2>2. \A d \in Caller : adapter'[d].attempt = adapter[d].attempt
                          /\ adapter'[d].uncertain = adapter[d].uncertain
                          /\ adapter'[d].step = IF d = c THEN "loaded" ELSE adapter[d].step
    BY <1>4 DEF LoadAndBuild, AdapterGoto
  <2>. QED
    BY <1>4, <2>1, <2>2 DEF LoadAndBuild
<1>5. CASE Post(c)
  <2>1. /\ env'[c][adapter[c].attempt].state = "inflight"
        /\ \A j \in Attempt \ {adapter[c].attempt} : env'[c][j] = env[c][j]
        /\ \A d \in Caller \ {c} : env'[d] = env[d]
    BY <1>5, EnvelopeStateSet DEF Post, EnvelopeStates
  <2>2. \A d \in Caller : adapter'[d].attempt = adapter[d].attempt
                          /\ adapter'[d].uncertain = adapter[d].uncertain
                          /\ adapter'[d].step = IF d = c THEN "sent" ELSE adapter[d].step
    BY <1>5 DEF Post, AdapterGoto
  <2>3. Others
    BY <1>5, <2>1 DEF Post, AdapterGoto
  <2>4. Later /\ Earlier
    BY <1>5, <2>1, <2>2 DEF Post, Attempt
  <2>. QED
    BY <1>9, <2>3, <2>4, SMTT(60)
<1>6. CASE AnswerLost(c)
  BY <1>6 DEF AnswerLost
<1>7. ASSUME NextAttempt(c), UNCHANGED env, adapter[c].uncertain \/ Current(c) = "badseq"
      PROVE  LaterUnsent' /\ EarlierRefused'
  <2>1. CASE adapter[c].attempt < MaxAttempts
    <3>1. /\ adapter'[c].attempt = adapter[c].attempt + 1
          /\ adapter'[c].uncertain = adapter[c].uncertain
          /\ adapter'[c].step = "loading"
          /\ \A d \in Caller \ {c} : adapter'[d] = adapter[d]
      BY <1>7, <2>1 DEF NextAttempt
    <3>2. adapter[c].attempt \in Attempt /\ adapter[c].attempt + 1 \in Attempt
      BY <2>1 DEF Attempt
    <3>3. Later
      <4>1. \A k \in Attempt : k > adapter[c].attempt => env[c][k].state = "none"
        BY DEF Attempt
      <4>2. \A k \in Attempt : k > adapter[c].attempt + 1 => k > adapter[c].attempt
        BY <3>2 DEF Attempt
      <4>3. env[c][adapter[c].attempt + 1].state = "none"
        BY <3>2, <4>1 DEF Attempt
      <4>. QED
        BY <1>7, <3>1, <3>2, <4>1, <4>2, <4>3
    <3>4. Earlier
      <4>1. \A k \in Attempt : k < adapter[c].attempt + 1 => k < adapter[c].attempt \/ k = adapter[c].attempt
        BY <3>2 DEF Attempt
      <4>. QED
        BY <1>7, <3>1, <3>2, <4>1
    <3>. QED
      BY <1>7, <1>9, <3>1, <3>3, <3>4
  <2>2. CASE ~ (adapter[c].attempt < MaxAttempts)
    BY <1>1, <1>7, <2>2 DEF NextAttempt, AdapterGoto, AdapterSteps
  <2>. QED
    BY <2>1, <2>2
<1>8. CASE LookupMisses(c) \/ AnswerBadSequence(c)
  BY <1>1, <1>7, <1>8 DEF LookupMisses, AnswerBadSequence, AdapterSteps
<1>. QED
  BY <1>2, <1>3, <1>4, <1>5, <1>6, <1>8 DEF AdapterStep

\* The network only decides about envelopes that were posted.
LEMMA NetworkRefusedFirst ==
  ASSUME SubmitTypeOK, LaterUnsent, EarlierRefused, Elsewhere
  PROVE  /\ LaterUnsent' /\ EarlierRefused'
         /\ SomePaid => SomePaid'
<1>1. CASE OtherPayment
  BY <1>1 DEF OtherPayment, LaterUnsent, EarlierRefused, Current, SomePaid, TakenForPaid
<1>2. ASSUME NEW c \in Caller, NEW k \in Attempt, Network(c, k)
      PROVE  /\ LaterUnsent' /\ EarlierRefused'
             /\ SomePaid => SomePaid'
  <2>1. PICK s \in EnvelopeStates : env' = [env EXCEPT ![c][k].state = s]
    BY <1>2 DEF Network, EnvelopeStates
  <2>2. /\ env'[c][k].state = s
        /\ \A j \in Attempt \ {k} : env'[c][j] = env[c][j]
        /\ \A d \in Caller \ {c} : env'[d] = env[d]
    BY <2>1, EnvelopeStateSet
  <2>3. env[c][k].state = "inflight" /\ UNCHANGED adapter
    BY <1>2 DEF Network
  <2>4. \A d \in Caller : adapter[d].attempt \in Attempt
    BY DEF SubmitTypeOK
  <2>. QED
    BY <2>2, <2>3, <2>4 DEF LaterUnsent, EarlierRefused, Current, SomePaid, TakenForPaid
<1>. QED
  BY <1>1, <1>2 DEF Elsewhere

\* What is found by hash was applied, or an answer of the call was lost: all
\* that a call posted without that was refused.
LEMMA FoundIsTaken ==
  ASSUME SubmitTypeOK, EarlierRefused, NEW c \in Caller, HashFound(c),
         adapter[c].step = "lookup" \/ Current(c) = "badseq"
  PROVE  SomePaid
<1>. DEFINE a == adapter[c].attempt
<1>1. a \in Attempt /\ 1 .. a \subseteq Attempt /\ \A k \in 1 .. a : k < a \/ k = a
  BY DEF SubmitTypeOK, Attempt
<1>2. PICK k \in 1 .. a : IncludedEnvelope(c, k)
  BY DEF HashFound
<1>3. adapter[c].uncertain
  BY <1>1, <1>2 DEF EarlierRefused, IncludedEnvelope, Current
<1>. QED
  BY <1>1, <1>2, <1>3 DEF SomePaid, TakenForPaid, IncludedEnvelope

\* An adapter call returns the hash of such an envelope; posting an envelope
\* overwrites none of them.
LEMMA AdapterReturnsPaid ==
  ASSUME SubmitTypeOK, LaterUnsent, EarlierRefused, NEW c \in Caller, AdapterStep(c) \/ CallSubmit(c)
  PROVE  /\ SomePaid => SomePaid'
         /\ adapter'[c].step = "returned" => SomePaid
         /\ \A d \in Caller \ {c} : adapter'[d] = adapter[d]
<1>. DEFINE Keeps == /\ \A d \in Caller \ {c} : adapter'[d] = adapter[d]
                     /\ \A d \in Caller : adapter[d].uncertain => adapter'[d].uncertain
<1>0. ASSUME Keeps, \A d \in Caller, j \in Attempt :
                      IncludedEnvelope(d, j) => env'[d][j].state = env[d][j].state
      PROVE  SomePaid => SomePaid'
  BY <1>0 DEF SomePaid, TakenForPaid, IncludedEnvelope
<1>1. ASSUME NEW step \in AdapterSteps, AdapterGoto(c, step)
      PROVE  adapter'[c].step = step /\ Keeps
  BY <1>1 DEF AdapterGoto, SubmitTypeOK
<1>2. ASSUME NextAttempt(c)
      PROVE  adapter'[c].step # "returned" /\ Keeps
  BY <1>2 DEF NextAttempt, SubmitTypeOK
<1>3. ASSUME Current(c) = "applied" PROVE SomePaid
  BY <1>3 DEF Current, SomePaid, TakenForPaid, SubmitTypeOK
<1>. HIDE DEF Keeps
<1>9. Keeps => \A d \in Caller \ {c} : adapter'[d] = adapter[d]
  BY DEF Keeps
<1>4. CASE CallSubmit(c) \/ AcquireLock(c) \/ CannotBuild(c) \/ AnswerError(c) \/ LookupMisses(c)
  BY <1>0, <1>1, <1>2, <1>4, <1>9 DEF CallSubmit, AcquireLock, CannotBuild, AnswerError, LookupMisses,
    AdapterSteps
<1>5. CASE AnswerApplied(c) \/ LookupFinds(c) \/ AnswerBadSequence(c)
  BY <1>0, <1>1, <1>2, <1>3, <1>5, <1>9, FoundIsTaken DEF AnswerApplied, LookupFinds, AnswerBadSequence,
    AdapterSteps
<1>6. CASE AnswerLost(c)
  <2>1. Keeps /\ adapter'[c].step = "lookup"
    BY <1>6 DEF AnswerLost, SubmitTypeOK, Keeps
  <2>. QED
    BY <1>0, <1>6, <1>9, <2>1 DEF AnswerLost
<1>7. CASE LoadAndBuild(c)
  <2>1. \A d \in Caller, j \in Attempt : env'[d][j].state = env[d][j].state
    BY <1>7, EnvelopeNumberSet DEF LoadAndBuild, SubmitTypeOK
  <2>. QED
    BY <1>0, <1>1, <1>7, <1>9, <2>1 DEF LoadAndBuild, AdapterSteps
<1>8. CASE Post(c)
  <2>. DEFINE a == adapter[c].attempt
  <2>1. a \in Attempt
    BY SMTT(60) DEF SubmitTypeOK
  <2>2. /\ \A j \in Attempt \ {a} : env'[c][j] = env[c][j]
        /\ \A d \in Caller \ {c} : env'[d] = env[d]
    BY <1>8, <2>1, EnvelopeStateSet DEF Post, EnvelopeStates
  <2>3. env[c][a].state = "none"
    BY <1>8 DEF Post, LaterUnsent, Current
  <2>. HIDE DEF a
  <2>4. \A d \in Caller, j \in Attempt : IncludedEnvelope(d, j) => env'[d][j].state = env[d][j].state
    BY <2>2, <2>3 DEF IncludedEnvelope
  <2>. QED
    BY <1>0, <1>1, <1>8, <1>9, <2>4 DEF Post, AdapterSteps
<1>. QED
  BY <1>4, <1>5, <1>6, <1>7, <1>8 DEF AdapterStep

\* What a request reports: it reads the row or the result of its call first.
LEMMA RequestReports ==
  ASSUME SendInv, NEW r \in Request, RequestStep(r) \/ DatabaseError(r)
  PROVE  SendInv'
<1>. USE DEF SendInv, TypeInv, TypeOK, RecordMade
<1>1. TypeInv'
  BY RequestTyped
<1>2. CASE UNCHANGED submitVars
  <2>1. LaterUnsent' /\ EarlierRefused' /\ (SomePaid => SomePaid')
    BY <1>2 DEF submitVars, LaterUnsent, EarlierRefused, Current, SomePaid, TakenForPaid
  <2>2. ReportedIsPaid'
    BY <1>2, <2>1 DEF ReportedIsPaid, submitVars, RequestStep, DatabaseError, Goto, Create,
      PollFirst, PollAgain, Poll, Deadline, ConfirmSettled, Claim, ReserveRow, CoreThrows,
      MarkPending, PaymentThrows, MarkFailed, CompleteRecord, FailRecord, NoRecord, Records
  <2>3. OtherParametersRefused'
    <3>. USE DEF OtherParametersRefused, Goto
    <3>1. CASE Create(r)
      BY <3>1 DEF Create, NoRecord, Records
    <3>2. CASE PollFirst(r) \/ PollAgain(r)
      <4>1. PICK step : /\ Goto(r, step)
                        /\ record.fingerprint # Fingerprint[r] => step = "threw"
        BY <3>2 DEF PollFirst, PollAgain, Poll
      <4>2. UNCHANGED record
        BY <3>2 DEF PollFirst, PollAgain, Poll
      <4>. QED
        BY <4>1, <4>2
    <3>3. CASE Deadline(r) \/ DatabaseError(r) \/ CoreThrows(r) \/ PaymentThrows(r) \/ ReserveRow(r)
      BY <3>3 DEF Deadline, DatabaseError, CoreThrows, PaymentThrows, ReserveRow
    <3>4. CASE ConfirmSettled(r) \/ CompleteRecord(r) \/ FailRecord(r)
      <4>1. record \in Records /\ record'.fingerprint = record.fingerprint /\ record # NoRecord
        BY <3>4 DEF ConfirmSettled, CompleteRecord, FailRecord, Records, NoRecord
      <4>. QED
        BY <3>4, <4>1 DEF ConfirmSettled, CompleteRecord, FailRecord
    <3>5. CASE Claim(r)
      <4>1. record \in Records /\ record'.fingerprint = record.fingerprint /\ record # NoRecord
        BY <3>5 DEF Claim, Records, NoRecord
      <4>. QED
        BY <3>5, <4>1 DEF Claim
    <3>6. CASE MarkPending(r) \/ MarkFailed(r)
      BY <3>6 DEF MarkPending, MarkFailed
    <3>. QED
      BY <3>1, <3>2, <3>3, <3>4, <3>5, <3>6 DEF RequestStep
  <2>. QED
    BY <1>1, <2>1, <2>2, <2>3
<1>3. CASE ReserveRow(r) /\ CallSubmit(r)
  <2>1. LaterUnsent' /\ EarlierRefused'
    BY <1>3, AdapterRefusedFirst
  <2>2. ReportedIsPaid'
    BY <1>3, AdapterReturnsPaid DEF ReportedIsPaid, ReserveRow, Goto
  <2>3. OtherParametersRefused'
    BY <1>3 DEF OtherParametersRefused, ReserveRow, Goto
  <2>. QED
    BY <1>1, <2>1, <2>2, <2>3
<1>. QED
  BY <1>2, <1>3 DEF RequestStep, DatabaseError, Create, PollFirst, PollAgain, Poll, Deadline,
    ConfirmSettled, Claim, ReserveRow, CoreThrows, MarkPending, PaymentThrows, MarkFailed,
    CompleteRecord, FailRecord

LEMMA SendStep == SendInv /\ [Next]_vars => SendInv'
<1>. SUFFICES ASSUME SendInv, [Next]_vars PROVE SendInv'
  OBVIOUS
<1>. USE DEF SendInv, TypeInv, TypeOK
<1>1. TypeInv'
  BY NextTyped
<1>2. ASSUME NEW r \in Request, AdapterStep(r), UNCHANGED <<req, record, tx>>
      PROVE  SendInv'
  <2>1. LaterUnsent' /\ EarlierRefused'
    BY <1>2, AdapterRefusedFirst
  <2>2. ReportedIsPaid'
    BY <1>2, AdapterReturnsPaid DEF ReportedIsPaid
  <2>. QED
    BY <1>1, <1>2, <2>1, <2>2 DEF OtherParametersRefused
<1>3. CASE Elsewhere
  <2>1. UNCHANGED <<adapter, req, record, tx>>
    BY <1>3 DEF Elsewhere, Network, OtherPayment
  <2>. QED
    BY <1>1, <1>3, <2>1, NetworkRefusedFirst DEF ReportedIsPaid, OtherParametersRefused
<1>4. CASE LeaseExpires \/ Settle \/ UNCHANGED vars
  <2>1. UNCHANGED <<submitVars, req>>
    BY <1>4 DEF LeaseExpires, Settle, vars, submitVars
  <2>2. LaterUnsent' /\ EarlierRefused' /\ (SomePaid => SomePaid')
    BY <2>1 DEF submitVars, LaterUnsent, EarlierRefused, Current, SomePaid, TakenForPaid
  <2>3. ReportedIsPaid'
    <3>1. tx' = "success" => tx = "success" \/ SomePaid
      BY <1>4 DEF LeaseExpires, Settle, vars, Applied, SomePaid, TakenForPaid
    <3>2. record'.state = record.state
      BY <1>4 DEF LeaseExpires, Settle, vars, Records
    <3>. QED
      BY <2>1, <2>2, <3>1, <3>2 DEF ReportedIsPaid, submitVars
  <2>4. OtherParametersRefused'
    BY <1>4, <2>1 DEF LeaseExpires, Settle, vars, Records, OtherParametersRefused
  <2>. QED
    BY <1>1, <2>2, <2>3, <2>4
<1>5. ASSUME NEW p \in Process, CrashProcess(p) PROVE SendInv'
  <2>1. UNCHANGED <<env, record, tx>>
    BY <1>5 DEF CrashProcess
  <2>2. \A r \in Request : adapter'[r] \in {adapter[r], [adapter[r] EXCEPT !.step = "crashed"]}
    BY <1>5 DEF CrashProcess, AdapterCrash
  <2>3. \A r \in Request : req'[r] = req[r] \/ req'[r] = "crashed"
    BY <1>5 DEF CrashProcess
  <2>4. \A r \in Request : /\ adapter'[r].attempt = adapter[r].attempt
                           /\ adapter'[r].uncertain = adapter[r].uncertain
                           /\ adapter'[r].step \in {adapter[r].step, "crashed"}
    <3>1. SUFFICES ASSUME NEW r \in Request
                   PROVE  /\ adapter'[r].attempt = adapter[r].attempt
                          /\ adapter'[r].uncertain = adapter[r].uncertain
                          /\ adapter'[r].step \in {adapter[r].step, "crashed"}
      OBVIOUS
    <3>2. adapter[r] \in [step : AdapterSteps, attempt : Attempt, uncertain : BOOLEAN]
      BY DEF SubmitTypeOK
    <3>. QED
      BY <2>2, <3>2
  <2>. QED
    BY <1>1, <2>1, <2>3, <2>4 DEF LaterUnsent, EarlierRefused, Current, ReportedIsPaid,
      SomePaid, TakenForPaid, OtherParametersRefused
<1>. QED
  BY <1>2, <1>3, <1>4, <1>5, RequestReports DEF Next, Work

LEMMA SendInvHolds == Spec => []SendInv
<1>1. Init => SendInv
  BY InitTyped DEF Init, SubmitInit, SendInv, LaterUnsent, EarlierRefused, Current, Attempt,
    ReportedIsPaid, OtherParametersRefused, NoRecord
<1>. QED
  BY <1>1, SendStep, PTL DEF Spec

\* A call whose writes were all answered has at most its last attempt applied.
LEMMA OneApplied ==
  ASSUME SendInv
  PROVE  OnlyLostAnswersDouble
<1>1. SUFFICES ASSUME NEW c \in Caller, ~ adapter[c].uncertain
               PROVE  ~ (Cardinality(Applied(c)) > 1)
  BY Zenon DEF OnlyLostAnswersDouble
<1>. DEFINE a == adapter[c].attempt
<1>2. \A k \in Attempt : k # a => env[c][k].state # "applied"
  <2>1. a \in Attempt
    BY DEF SendInv, TypeInv, TypeOK, SubmitTypeOK
  <2>. QED
    BY <1>1, <2>1 DEF Attempt, SendInv, LaterUnsent, EarlierRefused
<1>. HIDE DEF a
<1>3. Applied(c) = {} \/ Applied(c) = {a}
  BY <1>2 DEF Applied
<1>4. Cardinality(Applied(c)) \in {0, 1}
  BY <1>3, FS_EmptySet, FS_Singleton
<1>. QED
  BY <1>4

\* However leases expire and processes die, of the sends with one key: money
\* moves twice only after a lost answer, a completed record is about money that
\* moved unless after a lost answer a failed transaction was taken for it, and
\* other parameters are neither paid nor answered.
THEOREM SpecSendsAccounted == Spec => []SendsAccounted
<1>1. SendInv => SendsAccounted
  BY OneApplied DEF SendsAccounted, SendInv, CompletedIsPaid, ReportedIsPaid, SomePaid
<1>. QED
  BY <1>1, SendInvHolds, PTL
=============================================================================
