------------------------------ MODULE Privacy ------------------------------
(***************************************************************************)
(* One customer's data: requests to erase it, which an administrator       *)
(* approves, their propagation to the providers that hold a copy, and its  *)
(* repetition (compliance/privacy.service.js); legal holds; and the        *)
(* retention sweep over old rows (jobs/retention.jobs.js with              *)
(* compliance/retentionPolicy.js).                                         *)
(*                                                                         *)
(* Local data is anonymized in one transaction, which writes null to       *)
(* columns schema.prisma requires: with the client generated from it the   *)
(* transaction always fails, and so does the redaction of old rows. The    *)
(* model has that client and one that accepts the nulls.                   *)
(***************************************************************************)
EXTENDS Integers, FiniteSets

CONSTANTS Ask,       \* erasure requests
          Officer,   \* administrators deciding on them
          ById,      \* providers that delete by the user's id: voice
          ByRecord,  \* providers that need the phone number or job id
          MaxTasks,  \* bounds the tries at a provider task
          Hold,      \* legal holds
          Old,       \* models of PURGEABLE_MODELS the sweep goes through
          MaxSweeps  \* bounds the sweeps

Provider == ById \cup ByRecord

\* RETENTION_POLICIES: what is done to a row past its age, to which rows (the
\* guards of guardClauseFor), and whether the row names its user.
Policy ==
  [Notification |-> [action |-> "redact", finished |-> TRUE, owned |-> TRUE],
   WhatsappStatusEvent |-> [action |-> "delete", finished |-> FALSE, owned |-> FALSE],
   WebhookEvent |-> [action |-> "delete", finished |-> TRUE, owned |-> FALSE],
   ProcessedMessage |-> [action |-> "delete", finished |-> TRUE, owned |-> FALSE],
   VoiceCommand |-> [action |-> "redact", finished |-> FALSE, owned |-> TRUE],
   RestSession |-> [action |-> "delete", finished |-> TRUE, owned |-> TRUE],
   SimMessage |-> [action |-> "delete", finished |-> FALSE, owned |-> FALSE],
   RateLimitHit |-> [action |-> "delete", finished |-> FALSE, owned |-> FALSE]]

ASSUME PrivacyAssumption ==
  MaxTasks \in Nat \ {0} /\ MaxSweeps \in Nat /\ Old \subseteq DOMAIN Policy

VARIABLES tolerant,   \* whether the client accepts the nulls
          anonymized, \* User.anonymizedAt is set
          hold,       \* the LegalHold rows
          ask,        \* the PrivacyRequest rows: status, and whether the
                      \* snapshot of phone number and job id was taken and is
                      \* still in result
          officer,    \* what each administrator is doing, and for which target
          task,       \* the PrivacyProviderTask rows of each request
          hurried,    \* two administrators decided on one request
          old,        \* one old row of each model, of the customer if owned
          swept,      \* what the sweep is doing, and whom it protects
          sweeps

erasureVars == <<tolerant, anonymized, ask, officer, task, hurried>>
sweepVars == <<old, swept, sweeps>>
privacyVars == <<erasureVars, hold, sweepVars>>

NoTask == [status |-> "none", tries |-> 0, deleted |-> "nobody"]
Desk == [step |-> "idle", ask |-> "none", full |-> FALSE, held |-> {}, todo |-> {}]
NoSweep == [on |-> FALSE, held |-> {}, unheld |-> {}, todo |-> {}]

PrivacyInit ==
  /\ tolerant \in BOOLEAN
  /\ anonymized = FALSE
  /\ hold = [h \in Hold |-> "none"]
  /\ ask = [q \in Ask |-> [status |-> "none", taken |-> FALSE, snapshot |-> FALSE]]
  /\ officer = [o \in Officer |-> Desk]
  /\ task = [q \in Ask |-> [p \in Provider |-> NoTask]]
  /\ hurried = {}
  /\ old \in [Old -> {"live", "finished"}]
  /\ swept = NoSweep /\ sweeps = 0
-----------------------------------------------------------------------------
(* Legal holds. *)

\* hasActiveLegalHold: not released, not expired.
Holding == {h \in Hold : hold[h] = "active"}
\* heldUserIds: not expired; a released hold goes on protecting.
Protecting == {h \in Hold : hold[h] \in {"active", "released"}}

SetLegalHold(h) ==
  /\ hold[h] = "none"
  /\ hold' = [hold EXCEPT ![h] = "active"]
  /\ UNCHANGED <<erasureVars, sweepVars>>

ReleaseLegalHolds ==
  /\ Holding # {}
  /\ hold' = [h \in Hold |-> IF hold[h] = "active" THEN "released" ELSE hold[h]]
  /\ UNCHANGED <<erasureVars, sweepVars>>

HoldExpires(h) ==
  /\ hold[h] = "active"
  /\ hold' = [hold EXCEPT ![h] = "expired"]
  /\ UNCHANGED <<erasureVars, sweepVars>>
-----------------------------------------------------------------------------
(* Erasure. *)

\* The row, and the snapshot of what the providers know the customer by: the
\* second update may be missing.
RequestErasure(q) ==
  /\ ask[q].status = "none"
  /\ \E complete \in BOOLEAN :
       LET taken == complete /\ ~ anonymized
       IN ask' = [ask EXCEPT ![q] = [status |-> "pending", taken |-> taken, snapshot |-> taken]]
  /\ UNCHANGED <<tolerant, anonymized, officer, task, hurried, hold, sweepVars>>

Busy(q) == {o \in Officer : officer[o].ask = q}

\* approveRequest reads the status before it writes anything.
TakeUp(o, q, decision) ==
  /\ officer[o] = Desk
  /\ ask[q].status = "pending"
  /\ officer' = [officer EXCEPT ![o].step = decision, ![o].ask = q]
  /\ hurried' = IF Busy(q) # {} THEN hurried \cup {q} ELSE hurried
  /\ UNCHANGED <<tolerant, anonymized, ask, task, hold, sweepVars>>

Deny(o) ==
  /\ officer[o].step = "denying"
  /\ ask' = [ask EXCEPT ![officer[o].ask].status = "denied"]
  /\ officer' = [officer EXCEPT ![o] = Desk]
  /\ UNCHANGED <<tolerant, anonymized, task, hurried, hold, sweepVars>>

\* in_progress is written; fulfillErasure then reads the request for its target.
StartErasure(o) ==
  /\ officer[o].step = "approving"
  /\ LET q == officer[o].ask
     IN /\ ask' = [ask EXCEPT ![q].status = "in_progress"]
        /\ officer' = [officer EXCEPT ![o].step = "checking", ![o].full = ask[q].snapshot]
  /\ UNCHANGED <<tolerant, anonymized, task, hurried, hold, sweepVars>>

\* (Mutant: a hold does not suspend an erasure that was approved.)
CheckNoHold(o) ==
  /\ officer[o].step = "checking"
  /\ officer' = [officer EXCEPT ![o].step = IF anonymized THEN "telling" ELSE "anonymizing",
                                ![o].todo = IF anonymized THEN Provider ELSE {},
                                ![o].held = Hold \ {h \in Hold : hold[h] = "none"}]
  /\ UNCHANGED <<tolerant, anonymized, ask, task, hurried, hold, sweepVars>>

\* An anonymized customer's providers are told again; a hold suspends the rest.
CheckHold(o) ==
  /\ officer[o].step = "checking"
  /\ officer' = [officer EXCEPT
       ![o].step = IF anonymized THEN "telling" ELSE IF Holding # {} THEN "failing" ELSE "anonymizing",
       ![o].todo = IF anonymized THEN Provider ELSE {},
       ![o].held = Hold \ {h \in Hold : hold[h] = "none"}]
  /\ UNCHANGED <<tolerant, anonymized, ask, task, hurried, hold, sweepVars>>

\* anonymizeLocal, all or nothing; it does not look for holds.
Anonymize(o) ==
  /\ officer[o].step = "anonymizing"
  /\ \/ /\ tolerant
        /\ anonymized' = TRUE
        /\ officer' = [officer EXCEPT ![o].step = "telling", ![o].todo = Provider]
     \/ /\ officer' = [officer EXCEPT ![o].step = "failing"]
        /\ UNCHANGED anonymized
  /\ UNCHANGED <<tolerant, ask, task, hurried, hold, sweepVars>>

\* What a provider deletes: the customer if it was told who that is.
Deleted(p, full) == IF p \in ById \/ full THEN "customer" ELSE "nobody"

\* A try at a task: the answer is kept with it, or the process ends first. A
\* second propagation of a request makes tasks of its own; the model keeps one
\* row for each provider, that of the last.
TryTask(q, p, full, fresh) ==
  LET tries == IF fresh THEN 0 ELSE task[q][p].tries
  IN \E status \in {"pending", "success", "skipped", "failed"} :
       task' = [task EXCEPT ![q][p] =
         [status |-> status, tries |-> tries + 1,
          deleted |-> IF status = "success" THEN Deleted(p, full) ELSE "nobody"]]

\* runProviderPropagation: a row for each provider, tried once.
Tell(o) ==
  /\ officer[o].step = "telling"
  /\ \E p \in officer[o].todo :
       /\ TryTask(officer[o].ask, p, officer[o].full, TRUE)
       /\ officer' = [officer EXCEPT ![o].todo = @ \ {p}]
  /\ UNCHANGED <<tolerant, anonymized, ask, hurried, hold, sweepVars>>

\* (Mutant: the request is completed whatever became of it.)
CompleteAnyway(o) ==
  /\ \/ officer[o].step = "telling" /\ officer[o].todo = {}
     \/ officer[o].step = "failing"
  /\ ask' = [ask EXCEPT ![officer[o].ask].status = "completed", ![officer[o].ask].snapshot = FALSE]
  /\ officer' = [officer EXCEPT ![o] = Desk]
  /\ UNCHANGED <<tolerant, anonymized, task, hurried, hold, sweepVars>>

\* The result replaces the snapshot.
Complete(o) ==
  /\ officer[o].step = "telling" /\ officer[o].todo = {}
  /\ ask' = [ask EXCEPT ![officer[o].ask].status = "completed", ![officer[o].ask].snapshot = FALSE]
  /\ officer' = [officer EXCEPT ![o] = Desk]
  /\ UNCHANGED <<tolerant, anonymized, task, hurried, hold, sweepVars>>

\* A failed request is not pending: it cannot be approved again.
Fail(o) ==
  /\ officer[o].step = "failing"
  /\ ask' = [ask EXCEPT ![officer[o].ask].status = "failed", ![officer[o].ask].snapshot = FALSE]
  /\ officer' = [officer EXCEPT ![o] = Desk]
  /\ UNCHANGED <<tolerant, anonymized, task, hurried, hold, sweepVars>>

\* The process ends: a request that is in progress stays so.
OfficerDies(o) ==
  /\ officer[o] # Desk
  /\ officer' = [officer EXCEPT ![o] = Desk]
  /\ UNCHANGED <<tolerant, anonymized, ask, task, hurried, hold, sweepVars>>

\* retryProviders: the target is built from the request as it is now.
RetryProvider(q, p) ==
  /\ task[q][p].status = "failed" /\ task[q][p].tries < MaxTasks
  /\ TryTask(q, p, ask[q].snapshot, FALSE)
  /\ UNCHANGED <<tolerant, anonymized, ask, officer, hurried, hold, sweepVars>>
-----------------------------------------------------------------------------
(* Retention. *)

RowFinishes(m) ==
  /\ old[m] = "live"
  /\ old' = [old EXCEPT ![m] = "finished"]
  /\ UNCHANGED <<erasureVars, hold, swept, sweeps>>

\* runRetentionSweep reads the holds once, for all models.
StartRetention ==
  /\ ~ swept.on /\ sweeps < MaxSweeps
  /\ swept' = [on |-> TRUE, held |-> Protecting, unheld |-> Hold \ Protecting, todo |-> Old]
  /\ sweeps' = sweeps + 1
  /\ UNCHANGED <<erasureVars, hold, old>>

\* purgeModel: one statement. A model that fails does not stop the others.
Purge(m) ==
  /\ swept.on /\ m \in swept.todo
  /\ LET policy == Policy[m]
         due == /\ old[m] = "finished" \/ (old[m] = "live" /\ ~ policy.finished)
                /\ ~ (policy.owned /\ swept.held # {})
         done == [old EXCEPT ![m] = policy.action]
     IN \/ old' = IF due /\ (policy.action = "delete" \/ tolerant) THEN done ELSE old
        \/ UNCHANGED old
  /\ swept' = IF swept.todo = {m} THEN NoSweep ELSE [swept EXCEPT !.todo = @ \ {m}]
  /\ UNCHANGED <<erasureVars, hold, sweeps>>

RetentionDies ==
  /\ swept.on
  /\ swept' = NoSweep
  /\ UNCHANGED <<erasureVars, hold, old, sweeps>>

HoldNext ==
  \/ \E h \in Hold : SetLegalHold(h) \/ HoldExpires(h)
  \/ ReleaseLegalHolds

ErasureNext ==
  \/ \E q \in Ask : RequestErasure(q) \/ \E p \in Provider : RetryProvider(q, p)
  \/ \E o \in Officer :
       \/ Deny(o) \/ StartErasure(o) \/ CheckHold(o) \/ Anonymize(o) \/ Tell(o)
       \/ Complete(o) \/ Fail(o) \/ OfficerDies(o)
       \/ \E q \in Ask, decision \in {"approving", "denying"} : TakeUp(o, q, decision)

RetentionNext ==
  \/ \E m \in Old : RowFinishes(m) \/ Purge(m)
  \/ StartRetention \/ RetentionDies

PrivacySpec == PrivacyInit /\ [][HoldNext \/ ErasureNext \/ RetentionNext]_privacyVars
-----------------------------------------------------------------------------
Gone(m) == old[m] \in {"redact", "delete"}

\* A customer under a legal hold loses no row of ours to an erasure or a sweep
\* that looked for holds after it was set (privacy.service.js fulfillErasure,
\* retention.jobs.js "Purging a held customer's records would destroy the
\* evidence the hold exists to preserve"): an active hold then is one set later.
\* A provider is told of a customer who is anonymized only, so never of one
\* whose first erasure the hold suspends. Of those who are anonymized it is told
\* whatever holds are active: neither the approval of another request nor a
\* retry looks for them ("no provider propagation runs", retention.js:89-90).
HeldDataStays ==
  [][/\ ~ anonymized /\ anonymized' =>
          \E o \in Officer : officer[o].step = "anonymizing" /\ Holding \cap officer[o].held = {}
     /\ \A m \in Old : Policy[m].owned /\ ~ Gone(m) /\ Gone(m)' => Holding \subseteq swept.unheld
     /\ task' # task => anonymized]_privacyVars

\* A completed request has anonymized the customer and has a task for every
\* provider, that of a provider that answered having deleted the customer
\* unless the snapshot was missing; and nobody else's decision is on it, but
\* when two administrators took it up at once
\* (privacy.service.js approveRequest).
CompletedIsErased ==
  \A q \in Ask :
    /\ ask[q].status = "completed" => anonymized /\ \A p \in Provider : task[q][p].status # "none"
    /\ ask[q].status \in {"pending", "denied"} /\ q \notin hurried =>
         \A p \in Provider : task[q][p].status = "none"
=============================================================================
