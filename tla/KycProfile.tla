----------------------------- MODULE KycProfile -----------------------------
(***************************************************************************)
(* The identity profile of one customer and everybody who writes it:       *)
(* operators reviewing it and approving each other's overrides             *)
(* (compliance.controller.js), the customer starting a verification, the   *)
(* identity provider answering by callback, the sanctions screening of     *)
(* payments (compliance.service.js) and the escalation of stale profiles   *)
(* (verification.expiry.js).                                               *)
(*                                                                         *)
(* Every writer reads the row, decides, and writes it by id: between the   *)
(* two anybody else may write. The tier and risk score are copied to the   *)
(* User row by a second update, in a transaction only for callbacks.       *)
(***************************************************************************)
EXTENDS Integers

CONSTANTS Operator,    \* administrators who review
          Approval,    \* ids for KycApproval rows
          Override,     \* what operators ask for: some fields with new values
          Application, \* requests of the customer to be verified
          Callback,    \* deliveries by the identity provider
          Screening,   \* payments that are screened
          MaxReviews   \* bounds the reviews that are opened

ASSUME KycAssumption ==
  /\ \A r \in Override : \A f \in DOMAIN r : f \in {"status", "sanctions", "custody", "tier", "risk"}
  /\ MaxReviews \in Nat
  /\ [status |-> "none"] \notin Approval

-----------------------------------------------------------------------------
(* The matrices and bounds every review of a profile is checked against,   *)
(* the changes that need a second operator (compliance/kyc.transitions),   *)
(* and the decision made from a result of the provider (kycDecision).      *)

KycTransitions ==
  [not_started |-> {"pending"},
   pending     |-> {"approved", "rejected", "review"},
   review      |-> {"approved", "rejected", "pending"},
   approved    |-> {"review"},
   rejected    |-> {"review"}]

SanctionsTransitions ==
  [not_screened |-> {"cleared", "review", "blocked"},
   review       |-> {"cleared", "blocked"},
   cleared      |-> {"review"},
   blocked      |-> {"review"}]

CustodyTransitions ==
  [not_reviewed |-> {"approved", "review", "denied"},
   review       |-> {"approved", "denied"},
   approved     |-> {"review"},
   denied       |-> {"review"}]

Tiers == 0 .. 3
RiskScores == 0 .. 100
TierStepLimit == 1
RiskOverrideThreshold == 30

\* The decided columns of a KycProfile row.
Profile == [status : DOMAIN KycTransitions, sanctions : DOMAIN SanctionsTransitions,
            custody : DOMAIN CustodyTransitions, tier : Tiers, risk : RiskScores]

\* What the row becomes when the fields a request names take its values.
Target(current, requested) ==
  [f \in DOMAIN current |-> IF f \in DOMAIN requested THEN requested[f] ELSE current[f]]

Permits(matrix, from, to) == to = from \/ to \in matrix[from]

ValidTransition(current, target) ==
  /\ target \in Profile
  /\ Permits(KycTransitions, current.status, target.status)
  /\ Permits(SanctionsTransitions, current.sanctions, target.sanctions)
  /\ Permits(CustodyTransitions, current.custody, target.custody)

RequiresReason(current, target) == target # current

Distance(a, b) == IF a < b THEN b - a ELSE a - b

\* makerCheckerRequired. A blocked or denied profile that is left as it is
\* counts as well; a backward change of the status never gets this far.
MakerCheckerRequired(current, target) ==
  \/ ~ Permits(KycTransitions, current.status, target.status)
  \/ current.sanctions = "blocked" /\ target.sanctions # "review"
  \/ current.custody = "denied" /\ target.custody # "review"
  \/ Distance(current.tier, target.tier) > TierStepLimit
  \/ Distance(current.risk, target.risk) > RiskOverrideThreshold

\* What a result code of the provider comes to: the new status and tier.
\* Every result but an approval raises the risk score to 50 at least.
ProviderResults == {"verified", "mismatch", "unclear"}

EvaluateKycDecision(result, risk) ==
  CASE result = "verified" -> [status |-> "approved", tier |-> 1, risk |-> risk]
    [] result = "mismatch" -> [status |-> "rejected", tier |-> 0, risk |-> IF risk < 50 THEN 50 ELSE risk]
    [] result = "unclear"  -> [status |-> "review", tier |-> 0, risk |-> IF risk < 50 THEN 50 ELSE risk]
-----------------------------------------------------------------------------
VARIABLES profile,     \* the KycProfile row
          reference,   \* whether a job id of the provider is stored
          user,        \* User.kycTier and User.riskScore
          current,     \* the operators whose last copy of the row is still the row
          approval,    \* the KycApproval rows
          work,        \* what each operator is doing
          application, \* where each request of the customer is
          submitted,   \* whether the provider has accepted the job
          event,       \* the callbacks sent, and what became of them
          screening,   \* where each screening is
          sweep,       \* where the escalation of the profile is
          torn,        \* the User row may differ: a known cause has happened
          reviews      \* how many reviews were opened

kycVars == <<profile, reference, user, current, approval, work, application,
          submitted, event, screening, sweep, torn, reviews>>

NoProfile == [status |-> "not_started", sanctions |-> "not_screened",
              custody |-> "not_reviewed", tier |-> 0, risk |-> 0]
NoApproval == [status |-> "none"]

\* What an operator is doing: the row as it was shown for a review, or read for
\* an approval, the row that is to be written, the approval that is decided.
Resting == [step |-> "idle", seen |-> NoProfile, target |-> NoProfile, approval |-> NoApproval]
OperatorSteps == {"idle", "opened", "deciding", "updating", "syncing", "closing"}
Work == [step : OperatorSteps, seen : Profile, target : Profile, approval : Approval \cup {NoApproval}]

KycTypeOK ==
  /\ profile \in Profile
  /\ reference \in BOOLEAN
  /\ user \in [tier : Tiers, risk : RiskScores]
  /\ current \subseteq Operator
  /\ approval \in [Approval -> {NoApproval} \cup
       [status : {"pending", "approved", "superseded"}, target : Profile, by : Operator]]
  /\ work \in [Operator -> Work]
  /\ application \in [Application -> {"idle", "started", "submitting", "failing", "done"}]
  /\ submitted \in BOOLEAN
  /\ event \in [Callback -> [state : {"none", "sent", "read", "processed"},
                             result : ProviderResults, risk : RiskScores]]
  /\ screening \in [Screening -> [step : {"idle", "passed", "asking", "ended"}]]
  /\ sweep \in {"idle", "picked", "syncing", "done"}
  /\ torn \in BOOLEAN
  /\ reviews \in 0 .. MaxReviews

\* A profile created for a user who has a tier starts out approved.
KycInit ==
  /\ \E tier \in {0, 1} :
       /\ profile = [NoProfile EXCEPT !.tier = tier,
                                      !.status = IF tier > 0 THEN "approved" ELSE "not_started"]
       /\ user = [tier |-> tier, risk |-> 0]
  /\ reference = FALSE
  /\ current = {}
  /\ approval = [a \in Approval |-> NoApproval]
  /\ work = [o \in Operator |-> Resting]
  /\ application = [a \in Application |-> "idle"]
  /\ submitted = FALSE
  /\ event = [c \in Callback |-> [state |-> "none", result |-> "unclear", risk |-> 0]]
  /\ screening = [s \in Screening |-> [step |-> "idle"]]
  /\ sweep = "idle"
  /\ torn = FALSE
  /\ reviews = 0

\* Every update moves updatedAt: no copy but the writer's stays current.
Write(row, writer) == profile' = row /\ current' = writer

Ended == [step |-> "ended"]

applicant == <<application, submitted, reference>>
others == <<event, screening, sweep>>
-----------------------------------------------------------------------------
(* Operators. *)

\* The console shows the operator the row and its updatedAt.
Open(o) ==
  /\ work[o].step = "idle"
  /\ reviews < MaxReviews
  /\ reviews' = reviews + 1
  /\ work' = [work EXCEPT ![o].step = "opened", ![o].seen = profile]
  /\ current' = current \cup {o}
  /\ UNCHANGED <<profile, user, approval, applicant, others, torn>>

Drop(o) ==
  /\ work' = [work EXCEPT ![o] = Resting]
  /\ current' = current \ {o}

\* (Mutant: the version the operator saw is not compared.)
SeenAnyVersion(o) == work[o].step = "opened"

\* assertConcurrency: the row is the one the operator saw.
Seen(o) == o \in current

\* reviewKyc, which reads the row, up to the update or up to the request for a
\* second operator.
Review(o, r, reasoned) ==
  /\ work[o].step = "opened"
  /\ LET target == Target(profile, r)
         accepted == /\ Seen(o)
                     /\ ValidTransition(profile, target)
                     /\ RequiresReason(profile, target) => reasoned
     IN \/ /\ ~ accepted
           /\ Drop(o)
           /\ UNCHANGED approval
        \/ /\ accepted
           /\ ~ MakerCheckerRequired(profile, target)
           /\ work' = [work EXCEPT ![o].step = "updating", ![o].target = target]
           /\ current' = current \cup {o}
           /\ UNCHANGED approval
        \/ /\ accepted
           /\ MakerCheckerRequired(profile, target)
           /\ \E a \in Approval :
                /\ approval[a] = NoApproval
                /\ approval' = [approval EXCEPT ![a] =
                     [status |-> "pending", target |-> target, by |-> o]]
           /\ Drop(o)
  /\ UNCHANGED <<profile, user, applicant, others, torn, reviews>>

\* approveOverride: the approval is read and must be another operator's.
Approve(o, a) ==
  /\ work[o].step = "idle"
  /\ approval[a] # NoApproval
  /\ approval[a].status = "pending"
  /\ approval[a].by # o
  /\ work' = [work EXCEPT ![o].step = "deciding", ![o].approval = a]
  /\ UNCHANGED <<profile, user, current, approval, applicant, others, torn, reviews>>

\* The row is read and the proposed change validated against it.
Decide(o) ==
  /\ work[o].step = "deciding"
  /\ LET a == work[o].approval
         target == approval[a].target
     IN IF ValidTransition(profile, target)
        THEN /\ work' = [work EXCEPT ![o].step = "updating", ![o].seen = profile, ![o].target = target]
             /\ current' = current \cup {o}
             /\ UNCHANGED approval
        ELSE /\ approval' = [approval EXCEPT ![a].status = "superseded"]
             /\ Drop(o)
  /\ UNCHANGED <<profile, user, applicant, others, torn, reviews>>

\* The update of the profile names its id only.
Update(o) ==
  /\ work[o].step = "updating"
  /\ Write(work[o].target, {o})
  /\ work' = [work EXCEPT ![o].step = "syncing", ![o].seen = NoProfile]
  /\ UNCHANGED <<user, approval, applicant, others, torn, reviews>>

\* The tier and score just written are copied to the User row.
Sync(o) ==
  /\ work[o].step = "syncing"
  /\ user' = [tier |-> work[o].target.tier, risk |-> work[o].target.risk]
  /\ torn' = (o \notin current)
  /\ IF work[o].approval = NoApproval THEN Drop(o)
     ELSE /\ work' = [work EXCEPT ![o].step = "closing", ![o].target = NoProfile]
          /\ UNCHANGED current
  /\ UNCHANGED <<profile, approval, applicant, others, reviews>>

Close(o) ==
  /\ work[o].step = "closing"
  /\ approval' = [approval EXCEPT ![work[o].approval].status = "approved"]
  /\ Drop(o)
  /\ UNCHANGED <<profile, user, applicant, others, torn, reviews>>

\* The process ends, or the database refuses the next statement.
ReviewDies(o) ==
  /\ work[o].step \in {"updating", "syncing", "closing"}
  /\ torn' = (torn \/ work[o].step = "syncing")
  /\ Drop(o)
  /\ UNCHANGED <<profile, user, approval, applicant, others, reviews>>
-----------------------------------------------------------------------------
(* The customer and the identity provider. *)

\* startKycVerification: nothing to do if a job is already pending.
StartKyc(a) ==
  /\ application[a] = "idle"
  /\ LET pending == profile.status = "pending" /\ reference
     IN application' = [application EXCEPT ![a] = IF pending THEN "done" ELSE "started"]
  /\ UNCHANGED <<profile, reference, user, current, approval, work, submitted, others, torn, reviews>>

\* From whatever status the row has: also approved or rejected.
MarkPending(a) ==
  /\ application[a] = "started"
  /\ Write([profile EXCEPT !.status = "pending"], {})
  /\ reference' = TRUE
  /\ application' = [application EXCEPT ![a] = "submitting"]
  /\ UNCHANGED <<user, approval, work, submitted, others, torn, reviews>>

\* The provider accepts or refuses the job, and the answer arrives or not.
Submit(a) ==
  /\ application[a] = "submitting"
  /\ \/ submitted' = TRUE /\ application' = [application EXCEPT ![a] = "done"]
     \/ submitted' = TRUE /\ application' = [application EXCEPT ![a] = "failing"]
     \/ UNCHANGED submitted /\ application' = [application EXCEPT ![a] = "failing"]
  /\ UNCHANGED <<profile, reference, user, current, approval, work, others, torn, reviews>>

SubmissionFailed(a) ==
  /\ application[a] = "failing"
  /\ Write([profile EXCEPT !.status = "review"], {})
  /\ application' = [application EXCEPT ![a] = "done"]
  /\ UNCHANGED <<reference, user, approval, work, submitted, others, torn, reviews>>

ProviderDecides(c, result) ==
  /\ submitted
  /\ event[c].state = "none"
  /\ event' = [event EXCEPT ![c].state = "sent", ![c].result = result]
  /\ UNCHANGED <<profile, user, current, approval, work, applicant, screening, sweep, torn, reviews>>

\* processSmileIdCallback: one transaction, which reads the risk score ...
CallbackRead(c) ==
  /\ event[c].state = "sent"
  /\ reference
  /\ event' = [event EXCEPT ![c].state = "read", ![c].risk = profile.risk]
  /\ UNCHANGED <<profile, user, current, approval, work, applicant, screening, sweep, torn, reviews>>

\* (Mutant: the User row is left to a later update.)
CallbackWriteProfile(c) ==
  /\ event[c].state = "read"
  /\ LET d == EvaluateKycDecision(event[c].result, event[c].risk)
     IN Write([profile EXCEPT !.status = d.status, !.tier = d.tier, !.risk = d.risk], {})
  /\ event' = [event EXCEPT ![c].state = "processed", ![c].risk = 0]
  /\ UNCHANGED <<user, approval, work, applicant, screening, sweep, torn, reviews>>

\* ... and writes both rows (syncKycAndRiskState), from any status.
CallbackWrite(c) ==
  /\ event[c].state = "read"
  /\ LET d == EvaluateKycDecision(event[c].result, event[c].risk)
     IN /\ Write([profile EXCEPT !.status = d.status, !.tier = d.tier, !.risk = d.risk], {})
        /\ user' = [tier |-> d.tier, risk |-> d.risk]
  /\ event' = [event EXCEPT ![c].state = "processed", ![c].risk = 0]
  /\ torn' = FALSE
  /\ UNCHANGED <<approval, work, applicant, screening, sweep, reviews>>

\* The transaction is rolled back; the provider delivers the callback again.
CallbackFails(c) ==
  /\ event[c].state = "read"
  /\ event' = [event EXCEPT ![c].state = "sent", ![c].risk = 0]
  /\ UNCHANGED <<profile, user, current, approval, work, applicant, screening, sweep, torn, reviews>>
-----------------------------------------------------------------------------
(* Screening (screenSanctions), for a payment that got through the first   *)
(* checks of enforceTransactionPolicy.                                     *)

PolicyPasses(s) ==
  /\ screening[s].step = "idle"
  /\ profile.status = "approved"
  /\ profile.custody \notin {"denied", "review"}
  /\ profile.sanctions \notin {"blocked", "review"}
  /\ screening' = [screening EXCEPT ![s].step = "passed"]
  /\ UNCHANGED <<profile, user, current, approval, work, applicant, event, sweep, torn, reviews>>

\* The row is read again; a recent result is taken as it is. One that was held
\* against the customer meanwhile is no reason to stop, but to ask.
AskProvider(s) ==
  /\ screening[s].step = "passed"
  /\ \/ screening' = [screening EXCEPT ![s] = [step |-> "asking"]]
     \/ /\ profile.sanctions \notin {"blocked", "review"}
        /\ screening' = [screening EXCEPT ![s] = Ended]
  /\ UNCHANGED <<profile, user, current, approval, work, applicant, event, sweep, torn, reviews>>

\* The screening provider in use looks at countries only.
CountryResult == [open |-> "cleared", watched |-> "review", barred |-> "blocked"]
Countries == DOMAIN CountryResult

\* Screened are the customer and, with the country the money goes to, the
\* recipient, the address or the country alone, if any of them is named.
NoDestination == "none"
ScreeningSubjects(home, destination) == {home, destination} \ {NoDestination}

OverallStatus(results) ==
  CASE "blocked" \in results -> "blocked"
    [] "blocked" \notin results /\ "review" \in results -> "review"
    [] results = {"cleared"} -> "cleared"

\* The worst result of any subject, also of a recipient, becomes the status of
\* the customer.  Also over a block: of two payments checked together the one
\* to a barred country blocks the customer "permanently"
\* (compliance.service.js:548), and the other, which reads the block, asks about
\* its own destination and writes what it hears.
Persist(s, home, destination) ==
  /\ screening[s].step = "asking"
  /\ LET results == {CountryResult[c] : c \in ScreeningSubjects(home, destination)}
     IN Write([profile EXCEPT !.sanctions = OverallStatus(results)], {})
  /\ screening' = [screening EXCEPT ![s] = Ended]
  /\ UNCHANGED <<user, approval, work, applicant, event, sweep, torn, reviews>>

\* The provider does not answer: nothing is stored.
ScreeningFails(s) ==
  /\ screening[s].step = "asking"
  /\ screening' = [screening EXCEPT ![s] = Ended]
  /\ UNCHANGED <<profile, user, current, approval, work, applicant, event, sweep, torn, reviews>>
-----------------------------------------------------------------------------
(* The escalation of a stale profile (runVerificationExpirySweep). *)

PickStale ==
  /\ sweep = "idle"
  /\ profile.status = "approved"
  /\ sweep' = "picked"
  /\ UNCHANGED <<profile, user, current, approval, work, applicant, event, screening, torn, reviews>>

\* By id, whatever happened since the list was read.
Escalate ==
  /\ sweep = "picked"
  /\ Write([profile EXCEPT !.status = "review"], {})
  /\ sweep' = "syncing"
  /\ UNCHANGED <<user, approval, work, applicant, event, screening, torn, reviews>>

\* The tier of the User row is set to 0; that of the profile stays.
DropTier ==
  /\ sweep = "syncing"
  /\ user' = [user EXCEPT !.tier = 0]
  /\ torn' = TRUE
  /\ sweep' = "done"
  /\ UNCHANGED <<profile, current, approval, work, applicant, event, screening, reviews>>

KycNext ==
  \/ \E o \in Operator :
       \/ Open(o) \/ Decide(o) \/ Update(o) \/ Sync(o) \/ Close(o) \/ ReviewDies(o)
       \/ \E r \in Override, reasoned \in BOOLEAN : Review(o, r, reasoned)
       \/ \E a \in Approval : Approve(o, a)
  \/ \E a \in Application : StartKyc(a) \/ MarkPending(a) \/ Submit(a) \/ SubmissionFailed(a)
  \/ \E c \in Callback :
       \/ CallbackRead(c) \/ CallbackWrite(c) \/ CallbackFails(c)
       \/ \E result \in ProviderResults : ProviderDecides(c, result)
  \/ \E s \in Screening :
       \/ PolicyPasses(s) \/ AskProvider(s) \/ ScreeningFails(s)
       \/ \E home \in Countries, destination \in Countries \cup {NoDestination} :
            Persist(s, home, destination)
  \/ PickStale \/ Escalate \/ DropTier

KycSpec == KycInit /\ [][KycNext]_kycVars
-----------------------------------------------------------------------------
\* The operator's update of the profile is a step of its own.
Updates(o) == work[o].step = "updating" /\ work'[o].step = "syncing"
TwoOperators(o) ==
  LET a == work[o].approval IN a # NoApproval /\ approval[a].by # o

\* An operator's update of a row that nobody wrote since it was validated (the
\* two are apart, compliance.controller.js:85-160 and 224-242) replaces the row
\* he was shown, whatever the others did while he had it open; it is one the
\* matrices permit; and the tier moves by more than one step, or the risk score
\* by more than its threshold, only when two operators agreed. What is written
\* between the two is overwritten unseen, and what was decided between the
\* request of an approval and its decision was seen by neither.
DecisionsStand ==
  [][\A o \in Operator : Updates(o) /\ o \in current =>
       /\ profile = work[o].seen
       /\ ValidTransition(profile, profile')
       /\ MakerCheckerRequired(profile, profile') => TwoOperators(o)]_kycVars

\* The User row, which the limits of a payment are taken from in other parts,
\* has the profile's tier and risk score, but while an operator or the sweep
\* is between its two updates, and after a death there, a copy that was
\* overtaken, or an escalation.
UserFollows ==
  user # [tier |-> profile.tier, risk |-> profile.risk] =>
    \/ torn
    \/ sweep = "syncing"
    \/ \E o \in Operator : work[o].step = "syncing"
=============================================================================
