--------------------------- MODULE CustomerProofs ---------------------------
(***************************************************************************)
(* For any numbers of operators, reviews, requests, administrators, holds, *)
(* sessions, calls and keys: what one customer is promised. Each section   *)
(* is about one part: its invariant, the steps that keep it, its theorems. *)
(***************************************************************************)
EXTENDS KycProfile, Consent, Privacy, Renewal, Wallet, WalletKeys, Access,
        FiniteSetTheorems, TLAPS

-----------------------------------------------------------------------------
(* Identity verification. *)

\* What an operator's work rests on, while nobody else has written the row: that
\* it is the row he was shown, an update that was validated against it, a copy for the User row that is its
\* copy, and an approval that is another operator's.
WorkKnown(o) ==
  /\ o \in current /\ work[o].step = "syncing" => profile = work[o].target
  /\ o \in current /\ work[o].step \in {"opened", "updating"} => profile = work[o].seen
  /\ o \in current /\ work[o].step = "updating" =>
       /\ ValidTransition(profile, work[o].target)
       /\ MakerCheckerRequired(profile, work[o].target) => TwoOperators(o)
  /\ work[o].step \in {"deciding", "closing"} => work[o].approval # NoApproval
  /\ work[o].approval # NoApproval =>
       approval[work[o].approval] # NoApproval /\ approval[work[o].approval].by # o

KycInv == KycTypeOK /\ (\A o \in Operator : WorkKnown(o)) /\ UserFollows

\* Reviews and their columns.
LEMMA MatrixTypes ==
  /\ DOMAIN KycTransitions = {"not_started", "pending", "review", "approved", "rejected"}
  /\ DOMAIN SanctionsTransitions = {"not_screened", "review", "cleared", "blocked"}
  /\ DOMAIN CustodyTransitions = {"not_reviewed", "review", "approved", "denied"}
BY DEF KycTransitions, SanctionsTransitions, CustodyTransitions

\* An operator takes a step that leaves the profile alone.
LEMMA OperatorStep ==
  ASSUME KycInv, NEW o \in Operator, NEW w \in Work, work' = [work EXCEPT ![o] = w],
         UNCHANGED <<profile, applicant, others>>,
         current' \subseteq Operator, current' \ {o} \subseteq current,
         approval' \in [Approval -> {NoApproval} \cup
           [status : {"pending", "approved", "superseded"}, target : Profile, by : Operator]],
         \A a \in Approval : approval[a] # NoApproval =>
           approval'[a] # NoApproval /\ approval'[a].by = approval[a].by,
         user' \in [tier : Tiers, risk : RiskScores], torn' \in BOOLEAN, reviews' \in 0 .. MaxReviews,
         WorkKnown(o)', UserFollows'
  PROVE  KycInv'
<1>1. KycTypeOK'
  BY DEF KycInv, KycTypeOK, applicant, others
<1>2. ASSUME NEW p \in Operator PROVE WorkKnown(p)'
  <2>1. CASE p = o
    BY <2>1
  <2>2. CASE p # o
    <3>1. work'[p] = work[p] /\ work[p] \in Work /\ (p \in current' => p \in current) /\ WorkKnown(p)
      BY <2>2 DEF KycInv, KycTypeOK
    <3>2. work[p].approval # NoApproval => work[p].approval \in Approval
      BY <3>1 DEF Work
    <3> QED BY <3>1, <3>2 DEF WorkKnown, TwoOperators
  <2> QED BY <2>1, <2>2
<1> QED BY <1>1, <1>2 DEF KycInv

\* Somebody else writes the row: no operator's copy is the row any more.
LEMMA RowWritten ==
  ASSUME KycInv, NEW row \in Profile, Write(row, {}), UNCHANGED <<approval, work, reviews>>,
         KycTypeOK', UserFollows'
  PROVE  KycInv'
BY DEF KycInv, Write, WorkKnown, TwoOperators

\* Nothing an operator works on changes.
LEMMA OthersStep ==
  ASSUME KycInv, UNCHANGED <<profile, user, current, approval, work, torn, reviews>>,
         application' \in [Application -> {"idle", "started", "submitting", "failing", "done"}],
         submitted' \in BOOLEAN, reference' \in BOOLEAN,
         event' \in [Callback -> [state : {"none", "sent", "read", "processed"},
                                  result : ProviderResults, risk : RiskScores]],
         screening' \in [Screening -> [step : {"idle", "passed", "asking", "ended"}]],
         sweep' = sweep \/ (sweep' = "picked" /\ sweep = "idle")
  PROVE  KycInv'
<1>1. KycTypeOK'
  BY DEF KycInv, KycTypeOK
<1>2. \A o \in Operator : WorkKnown(o)'
  BY DEF KycInv, WorkKnown, TwoOperators
<1>3. UserFollows'
  BY DEF KycInv, UserFollows
<1> QED BY <1>1, <1>2, <1>3 DEF KycInv

\* The profile at the start and an operator at rest are what they have to be.
LEMMA ProfileTypes == NoProfile \in Profile /\ Resting \in Work
BY MatrixTypes DEF NoProfile, Profile, Resting, Work, OperatorSteps, Tiers, RiskScores

\* The work of an operator whose step ends it.
LEMMA RestsKnown ==
  ASSUME NEW o \in Operator, KycTypeOK, work' = [work EXCEPT ![o] = Resting]
  PROVE  WorkKnown(o)'
<1>1. work'[o] = Resting
  BY DEF KycTypeOK
<1>2. Resting.step = "idle" /\ Resting.approval = NoApproval
  BY DEF Resting
<1> QED BY <1>1, <1>2 DEF WorkKnown

\* A transition that is allowed leads to a row that can be stored.
LEMMA TargetValid ==
  ASSUME NEW c, NEW t, ValidTransition(c, t)
  PROVE  t \in Profile
BY DEF ValidTransition

\* Operators, step by step.
LEMMA OperatorKycInv ==
  ASSUME KycInv, NEW o \in Operator,
         \/ Open(o) \/ Decide(o) \/ Update(o) \/ Sync(o) \/ Close(o) \/ ReviewDies(o)
         \/ \E r \in Override, reasoned \in BOOLEAN : Review(o, r, reasoned)
         \/ \E a \in Approval : Approve(o, a)
  PROVE  KycInv'
<1>0. KycTypeOK /\ WorkKnown(o) /\ UserFollows
  BY DEF KycInv
<1>k. work[o] \in Work /\ DOMAIN work = Operator
  BY <1>0 DEF KycTypeOK
<1>t. /\ user \in [tier : Tiers, risk : RiskScores] /\ torn \in BOOLEAN /\ reviews \in 0 .. MaxReviews
      /\ current \subseteq Operator /\ profile \in Profile
      /\ approval \in [Approval -> {NoApproval} \cup
           [status : {"pending", "approved", "superseded"}, target : Profile, by : Operator]]
  BY <1>0 DEF KycTypeOK
<1>1. CASE Open(o)
  <2>1. PICK w : w = [work[o] EXCEPT !.step = "opened", !.seen = profile]
    OBVIOUS
  <2>2. w \in Work /\ w.step = "opened" /\ w.seen = profile /\ w.approval = work[o].approval
    BY <1>k, <1>t, <2>1 DEF Work, OperatorSteps
  <2>3. work' = [work EXCEPT ![o] = w]
    BY <1>1, <2>1 DEF Open
  <2>4. work'[o] = w
    BY <1>k, <2>3
  <2>5. WorkKnown(o)'
    BY <1>0, <1>1, <2>2, <2>4 DEF WorkKnown, Open
  <2>6. UserFollows'
    BY <1>0, <1>1, <1>k, <2>2, <2>3 DEF UserFollows, Open, others
  <2>7. reviews' \in 0 .. MaxReviews
    BY <1>t, <1>1, KycAssumption DEF Open
  <2> QED BY <1>1, <1>t, <2>2, <2>3, <2>5, <2>6, <2>7, OperatorStep DEF Open
<1>2. ASSUME NEW r \in Override, NEW reasoned \in BOOLEAN, Review(o, r, reasoned) PROVE KycInv'
  <2> DEFINE target == Target(profile, r)
             accepted == /\ Seen(o)
                         /\ ValidTransition(profile, target)
                         /\ RequiresReason(profile, target) => reasoned
  <2>0. /\ work[o].step = "opened"
        /\ UNCHANGED <<profile, user, applicant, others, torn, reviews>>
    BY <1>2 DEF Review
  <2>1. CASE Drop(o) /\ UNCHANGED approval
    <3>1. work' = [work EXCEPT ![o] = Resting] /\ current' = current \ {o}
      BY <2>1 DEF Drop
    <3>2. UserFollows'
      BY <1>0, <1>k, <2>0, <3>1 DEF UserFollows, others, Resting
    <3> QED BY <1>0, <1>t, <2>0, <2>1, <3>1, <3>2, RestsKnown, ProfileTypes, OperatorStep
  <2>2. CASE /\ accepted /\ ~ MakerCheckerRequired(profile, target)
             /\ work' = [work EXCEPT ![o].step = "updating", ![o].target = target]
             /\ current' = current \cup {o}
             /\ UNCHANGED approval
    <3>1. PICK w : w = [work[o] EXCEPT !.step = "updating", !.target = target]
      OBVIOUS
    <3>2. target \in Profile
      BY <2>2, TargetValid
    <3>3. w \in Work /\ w.step = "updating" /\ w.seen = work[o].seen /\ w.target = target /\ w.approval = work[o].approval
      BY <1>k, <3>1, <3>2 DEF Work, OperatorSteps
    <3>4. work' = [work EXCEPT ![o] = w]
      BY <2>2, <3>1
    <3>5. work'[o] = w
      BY <1>k, <3>4
    <3>6. WorkKnown(o)'
      BY <1>0, <2>0, <2>2, <3>3, <3>5 DEF WorkKnown, Seen
    <3>7. UserFollows'
      BY <1>0, <1>k, <2>0, <3>3, <3>4 DEF UserFollows, others
    <3> QED BY <1>t, <2>0, <2>2, <3>3, <3>4, <3>6, <3>7, OperatorStep
  <2>3. CASE /\ accepted /\ Drop(o)
             /\ \E a \in Approval :
                  /\ approval[a] = NoApproval
                  /\ approval' = [approval EXCEPT ![a] =
                       [status |-> "pending", target |-> target, by |-> o]]
    <3>1. work' = [work EXCEPT ![o] = Resting] /\ current' = current \ {o}
      BY <2>3 DEF Drop
    <3>2. UserFollows'
      BY <1>0, <1>k, <2>0, <3>1 DEF UserFollows, others, Resting
    <3>3. target \in Profile
      BY <2>3, TargetValid
    <3>4. /\ approval' \in [Approval -> {NoApproval} \cup
                [status : {"pending", "approved", "superseded"}, target : Profile, by : Operator]]
          /\ \A a \in Approval : approval[a] # NoApproval =>
               approval'[a] # NoApproval /\ approval'[a].by = approval[a].by
      BY <1>t, <2>3, <3>3
    <3> QED BY <1>0, <1>t, <2>0, <3>1, <3>2, <3>4, RestsKnown, ProfileTypes, OperatorStep
  <2> QED BY <1>2, <2>1, <2>2, <2>3 DEF Review
<1>3. ASSUME NEW a \in Approval, Approve(o, a) PROVE KycInv'
  <2>1. PICK w : w = [work[o] EXCEPT !.step = "deciding", !.approval = a]
    OBVIOUS
  <2>2. w \in Work /\ w.step = "deciding" /\ w.approval = a
    BY <1>k, <2>1 DEF Work, OperatorSteps
  <2>3. work' = [work EXCEPT ![o] = w]
    BY <1>3, <2>1 DEF Approve
  <2>4. work'[o] = w
    BY <1>k, <2>3
  <2>5. WorkKnown(o)'
    BY <1>3, <2>2, <2>4, KycAssumption DEF WorkKnown, Approve, NoApproval
  <2>6. UserFollows'
    BY <1>0, <1>3, <1>k, <2>2, <2>3, ZenonT(60) DEF UserFollows, Approve, others
  <2> QED BY <1>3, <1>t, <2>2, <2>3, <2>5, <2>6, OperatorStep DEF Approve
<1>4. CASE Decide(o)
  <2> DEFINE a == work[o].approval
             target == approval[a].target
  <2>0. /\ work[o].step = "deciding"
        /\ UNCHANGED <<profile, user, applicant, others, torn, reviews>>
    BY <1>4 DEF Decide
  <2>1. a \in Approval /\ a # NoApproval /\ approval[a] # NoApproval /\ approval[a].by # o
    BY <1>0, <1>k, <2>0 DEF WorkKnown, Work
  <2>2. CASE ValidTransition(profile, target)
    <3>1. PICK w : w = [work[o] EXCEPT !.step = "updating", !.seen = profile, !.target = target]
      OBVIOUS
    <3>2. target \in Profile
      BY <2>2, TargetValid
    <3>3. w \in Work /\ w.step = "updating" /\ w.seen = profile /\ w.target = target /\ w.approval = work[o].approval
      BY <1>k, <1>t, <3>1, <3>2 DEF Work, OperatorSteps
    <3>4. work' = [work EXCEPT ![o] = w] /\ current' = current \cup {o} /\ UNCHANGED approval
      BY <1>4, <2>2, <3>1 DEF Decide
    <3>5. work'[o] = w
      BY <1>k, <3>4
    <3>6. WorkKnown(o)'
      BY <2>0, <2>1, <2>2, <3>3, <3>4, <3>5 DEF WorkKnown, TwoOperators
    <3>7. UserFollows'
      BY <1>0, <1>k, <2>0, <3>3, <3>4 DEF UserFollows, others
    <3> QED BY <1>t, <2>0, <2>2, <3>3, <3>4, <3>6, <3>7, OperatorStep
  <2>3. CASE ~ ValidTransition(profile, target)
    <3>1. /\ approval' = [approval EXCEPT ![a].status = "superseded"]
          /\ work' = [work EXCEPT ![o] = Resting] /\ current' = current \ {o}
      BY <1>4, <2>3 DEF Decide, Drop
    <3>2. UserFollows'
      BY <1>0, <1>k, <2>0, <3>1 DEF UserFollows, others, Resting
    <3>3. /\ approval' \in [Approval -> {NoApproval} \cup
                [status : {"pending", "approved", "superseded"}, target : Profile, by : Operator]]
          /\ \A b \in Approval : approval[b] # NoApproval =>
               approval'[b] # NoApproval /\ approval'[b].by = approval[b].by
      BY <1>t, <2>1, <3>1 DEF NoApproval
    <3> QED BY <1>0, <1>t, <2>0, <3>1, <3>2, <3>3, RestsKnown, ProfileTypes, OperatorStep
  <2> QED BY <2>2, <2>3
<1>5. CASE Update(o)
  <2>1. PICK w : w = [work[o] EXCEPT !.step = "syncing", !.seen = NoProfile]
    OBVIOUS
  <2>2. w \in Work /\ w.step = "syncing" /\ w.target = work[o].target /\ w.approval = work[o].approval
    BY <1>k, <2>1, ProfileTypes DEF Work, OperatorSteps
  <2>3. /\ work' = [work EXCEPT ![o] = w] /\ profile' = work[o].target /\ current' = {o}
        /\ UNCHANGED <<user, approval, application, submitted, reference, event, screening, sweep, torn, reviews>>
    BY <1>5, <2>1 DEF Update, Write, applicant, others
  <2>4. work'[o] = w /\ \A p \in Operator \ {o} : work'[p] = work[p]
    BY <1>k, <2>3
  <2>5. profile' \in Profile
    BY <1>k, <2>3 DEF Work
  <2>6. KycTypeOK'
    BY <1>0, <2>2, <2>3, <2>5 DEF KycTypeOK
  <2>7. ASSUME NEW p \in Operator PROVE WorkKnown(p)'
    <3>1. CASE p = o
      BY <1>0, <2>2, <2>3, <2>4, <3>1 DEF WorkKnown
    <3>2. CASE p # o
      BY <2>3, <2>4, <3>2 DEF WorkKnown, KycInv
    <3> QED BY <3>1, <3>2
  <2>8. UserFollows'
    BY <1>0, <2>2, <2>3, <2>4 DEF UserFollows
  <2> QED BY <2>6, <2>7, <2>8 DEF KycInv
<1>6. CASE Sync(o)
  <2>0. /\ work[o].step = "syncing"
        /\ UNCHANGED <<profile, approval, applicant, others, reviews>>
        /\ user' = [tier |-> work[o].target.tier, risk |-> work[o].target.risk]
        /\ torn' = (o \notin current)
    BY <1>6 DEF Sync
  <2>1. user' \in [tier : Tiers, risk : RiskScores]
    BY <1>k, <2>0 DEF Work, Profile
  <2>2. torn' \in BOOLEAN
    <3>1. (o \notin current) \in BOOLEAN
      OBVIOUS
    <3> QED BY <2>0, <3>1, Zenon
  <2>3. UserFollows'
    <3>1. CASE o \in current
      BY <1>0, <2>0, <3>1 DEF WorkKnown, UserFollows
    <3>2. CASE o \notin current
      BY <2>0, <3>2 DEF UserFollows
    <3> QED BY <3>1, <3>2
  <2>4. CASE work[o].approval = NoApproval
    <3>1. work' = [work EXCEPT ![o] = Resting] /\ current' = current \ {o}
      BY <1>6, <2>4 DEF Sync, Drop
    <3> QED BY <1>0, <1>t, <2>0, <2>1, <2>2, <2>3, <3>1, RestsKnown, ProfileTypes, OperatorStep
  <2>5. CASE work[o].approval # NoApproval
    <3>1. PICK w : w = [work[o] EXCEPT !.step = "closing", !.target = NoProfile]
      OBVIOUS
    <3>2. w \in Work /\ w.step = "closing" /\ w.approval = work[o].approval
      BY <1>k, <3>1, ProfileTypes DEF Work, OperatorSteps
    <3>3. work' = [work EXCEPT ![o] = w] /\ current' = current
      BY <1>6, <2>5, <3>1 DEF Sync
    <3>4. work'[o] = w
      BY <1>k, <3>3
    <3>5. WorkKnown(o)'
      BY <1>0, <2>0, <2>5, <3>2, <3>4 DEF WorkKnown
    <3> QED BY <1>t, <2>0, <2>1, <2>2, <2>3, <3>2, <3>3, <3>5, OperatorStep
  <2> QED BY <2>4, <2>5
<1>7. CASE Close(o)
  <2>0. /\ work[o].step = "closing"
        /\ UNCHANGED <<profile, user, applicant, others, torn, reviews>>
        /\ approval' = [approval EXCEPT ![work[o].approval].status = "approved"]
        /\ work' = [work EXCEPT ![o] = Resting] /\ current' = current \ {o}
    BY <1>7 DEF Close, Drop
  <2>1. work[o].approval \in Approval /\ approval[work[o].approval] # NoApproval
    BY <1>0, <1>k, <2>0 DEF WorkKnown, Work
  <2>2. UserFollows'
    BY <1>0, <1>k, <2>0 DEF UserFollows, others, Resting
  <2>3. /\ approval' \in [Approval -> {NoApproval} \cup
              [status : {"pending", "approved", "superseded"}, target : Profile, by : Operator]]
        /\ \A b \in Approval : approval[b] # NoApproval =>
             approval'[b] # NoApproval /\ approval'[b].by = approval[b].by
    BY <1>t, <2>0, <2>1 DEF NoApproval
  <2> QED BY <1>0, <1>t, <2>0, <2>2, <2>3, RestsKnown, ProfileTypes, OperatorStep
<1>8. CASE ReviewDies(o)
  <2>0. /\ UNCHANGED <<profile, user, approval, applicant, others, reviews>>
        /\ torn' = (torn \/ work[o].step = "syncing")
        /\ work' = [work EXCEPT ![o] = Resting] /\ current' = current \ {o}
    BY <1>8 DEF ReviewDies, Drop
  <2>1. torn' \in BOOLEAN
    <3>1. (torn \/ work[o].step = "syncing") \in BOOLEAN
      OBVIOUS
    <3> QED BY <2>0, <3>1, Zenon
  <2>2. UserFollows'
    BY <1>0, <1>k, <2>0 DEF UserFollows, others, Resting
  <2> QED BY <1>0, <1>t, <2>0, <2>1, <2>2, RestsKnown, ProfileTypes, OperatorStep
<1> QED BY <1>1, <1>2, <1>3, <1>4, <1>5, <1>6, <1>7, <1>8

\* What a result of the provider comes to.
LEMMA DecisionTypes ==
  ASSUME NEW result \in ProviderResults, NEW risk \in RiskScores
  PROVE  LET d == EvaluateKycDecision(result, risk)
         IN d.status \in {"approved", "rejected", "review"} /\ d.tier \in Tiers /\ d.risk \in RiskScores
<1>1. CASE result = "verified"
  BY <1>1 DEF EvaluateKycDecision, Tiers, RiskScores
<1>2. CASE result = "mismatch"
  BY <1>2 DEF EvaluateKycDecision, Tiers, RiskScores
<1>3. CASE result = "unclear"
  BY <1>3 DEF EvaluateKycDecision, Tiers, RiskScores
<1> QED BY <1>1, <1>2, <1>3 DEF ProviderResults

\* The customer, the provider, screenings and the sweep.
LEMMA OtherKycInv ==
  ASSUME KycInv,
         \/ \E a \in Application : StartKyc(a) \/ MarkPending(a) \/ Submit(a) \/ SubmissionFailed(a)
         \/ \E c \in Callback :
              \/ CallbackRead(c) \/ CallbackWrite(c) \/ CallbackFails(c)
              \/ \E result \in ProviderResults : ProviderDecides(c, result)
         \/ \E s \in Screening :
              \/ PolicyPasses(s) \/ AskProvider(s) \/ ScreeningFails(s)
              \/ \E home \in Countries, destination \in Countries \cup {NoDestination} :
                   Persist(s, home, destination)
         \/ PickStale \/ Escalate \/ DropTier
  PROVE  KycInv'
<1>0. KycTypeOK /\ UserFollows
  BY DEF KycInv
<1>p. ASSUME NEW status \in {"pending", "review"}, NEW row, row = [profile EXCEPT !.status = status]
      PROVE  row \in Profile /\ row.tier = profile.tier /\ row.risk = profile.risk
  BY <1>0, <1>p, MatrixTypes DEF KycTypeOK, Profile
<1>1. ASSUME NEW a \in Application, StartKyc(a) \/ Submit(a) PROVE KycInv'
  <2>1. /\ UNCHANGED <<profile, user, current, approval, work, torn, reviews, reference, event, screening, sweep>>
        /\ submitted' \in BOOLEAN
    BY <1>0, <1>1 DEF StartKyc, Submit, others, KycTypeOK
  <2>2. application' \in [Application -> {"idle", "started", "submitting", "failing", "done"}]
    BY <1>0, <1>1 DEF StartKyc, Submit, KycTypeOK
  <2> QED BY <1>0, <2>1, <2>2, OthersStep DEF KycTypeOK
<1>2. ASSUME NEW a \in Application, MarkPending(a) PROVE KycInv'
  <2>1. PICK row : row = [profile EXCEPT !.status = "pending"]
    OBVIOUS
  <2>2. row \in Profile /\ row.tier = profile.tier /\ row.risk = profile.risk
    BY <1>p, <2>1
  <2>3. /\ Write(row, {}) /\ reference' = TRUE
        /\ application' = [application EXCEPT ![a] = "submitting"]
        /\ UNCHANGED <<user, approval, work, submitted, event, screening, sweep, torn, reviews>>
    BY <1>2, <2>1 DEF MarkPending, others
  <2>4. KycTypeOK'
    BY <1>0, <2>2, <2>3 DEF KycTypeOK, Write
  <2>5. UserFollows'
    BY <1>0, <2>2, <2>3 DEF UserFollows, Write
  <2> QED BY <2>2, <2>3, <2>4, <2>5, RowWritten
<1>3. ASSUME NEW a \in Application, SubmissionFailed(a) PROVE KycInv'
  <2>1. PICK row : row = [profile EXCEPT !.status = "review"]
    OBVIOUS
  <2>2. row \in Profile /\ row.tier = profile.tier /\ row.risk = profile.risk
    BY <1>p, <2>1
  <2>3. /\ Write(row, {}) /\ application' = [application EXCEPT ![a] = "done"]
        /\ UNCHANGED <<reference, user, approval, work, submitted, event, screening, sweep, torn, reviews>>
    BY <1>3, <2>1 DEF SubmissionFailed, others
  <2>4. KycTypeOK'
    BY <1>0, <2>2, <2>3 DEF KycTypeOK, Write
  <2>5. UserFollows'
    BY <1>0, <2>2, <2>3 DEF UserFollows, Write
  <2> QED BY <2>2, <2>3, <2>4, <2>5, RowWritten
<1>4. ASSUME NEW c \in Callback, \/ CallbackRead(c) \/ CallbackFails(c)
                                 \/ \E result \in ProviderResults : ProviderDecides(c, result)
      PROVE  KycInv'
  <2>1. /\ UNCHANGED <<profile, user, current, approval, work, torn, reviews, application, submitted, reference>>
        /\ UNCHANGED <<screening, sweep>>
    BY <1>4 DEF CallbackRead, CallbackFails, ProviderDecides, applicant
  <2>2. profile.risk \in RiskScores /\ 0 \in RiskScores
    BY <1>0 DEF KycTypeOK, Profile, RiskScores
  <2>3. event' \in [Callback -> [state : {"none", "sent", "read", "processed"},
                                 result : ProviderResults, risk : RiskScores]]
    BY <1>0, <1>4, <2>2 DEF CallbackRead, CallbackFails, ProviderDecides, KycTypeOK
  <2> QED BY <1>0, <2>1, <2>3, OthersStep DEF KycTypeOK
<1>5. ASSUME NEW c \in Callback, CallbackWrite(c) PROVE KycInv'
  <2>0. event[c].result \in ProviderResults /\ event[c].risk \in RiskScores /\ 0 \in RiskScores
    BY <1>0 DEF KycTypeOK, RiskScores
  <2>1. PICK d : d = EvaluateKycDecision(event[c].result, event[c].risk)
    OBVIOUS
  <2>2. d.status \in {"approved", "rejected", "review"} /\ d.tier \in Tiers /\ d.risk \in RiskScores
    BY <2>0, <2>1, DecisionTypes
  <2>3. PICK row : row = [profile EXCEPT !.status = d.status, !.tier = d.tier, !.risk = d.risk]
    OBVIOUS
  <2>4. row \in Profile /\ row.tier = d.tier /\ row.risk = d.risk
    BY <1>0, <2>2, <2>3, MatrixTypes DEF KycTypeOK, Profile
  <2>5. /\ Write(row, {}) /\ user' = [tier |-> d.tier, risk |-> d.risk] /\ torn' = FALSE
        /\ event' = [event EXCEPT ![c].state = "processed", ![c].risk = 0]
        /\ UNCHANGED <<approval, work, application, submitted, reference, screening, sweep, reviews>>
    BY <1>5, <2>1, <2>3, ZenonT(60) DEF CallbackWrite, applicant
  <2>6. KycTypeOK'
    <3>1. event' \in [Callback -> [state : {"none", "sent", "read", "processed"},
                                   result : ProviderResults, risk : RiskScores]]
      <4>1. PICK e : e = [event[c] EXCEPT !.state = "processed", !.risk = 0]
        OBVIOUS
      <4>2. e \in [state : {"none", "sent", "read", "processed"}, result : ProviderResults, risk : RiskScores]
        <5>1. event[c] \in [state : {"none", "sent", "read", "processed"}, result : ProviderResults, risk : RiskScores]
          BY <1>0 DEF KycTypeOK
        <5> QED BY <2>0, <4>1, <5>1
      <4>3. event' = [event EXCEPT ![c] = e]
        BY <2>5, <4>1
      <4> QED BY <1>0, <4>2, <4>3 DEF KycTypeOK
    <3> QED BY <1>0, <2>2, <2>4, <2>5, <3>1 DEF KycTypeOK, Write
  <2>7. UserFollows'
    BY <1>0, <2>4, <2>5 DEF UserFollows, Write
  <2> QED BY <2>4, <2>5, <2>6, <2>7, RowWritten
<1>6. ASSUME NEW s \in Screening, PolicyPasses(s) \/ AskProvider(s) \/ ScreeningFails(s) PROVE KycInv'
  <2>1. /\ UNCHANGED <<profile, user, current, approval, work, torn, reviews, application, submitted, reference>>
        /\ UNCHANGED <<event, sweep>>
    BY <1>6 DEF PolicyPasses, AskProvider, ScreeningFails, applicant
  <2>2. profile.sanctions \in DOMAIN SanctionsTransitions
    BY <1>0 DEF KycTypeOK, Profile
  <2>3. PICK r : /\ r \in [step : {"idle", "passed", "asking", "ended"}]
                 /\ screening' = [screening EXCEPT ![s] = r]
    <3>1. CASE PolicyPasses(s)
      <4>1. PICK r : r = [screening[s] EXCEPT !.step = "passed"]
        OBVIOUS
      <4>2. r \in [step : {"idle", "passed", "asking", "ended"}]
        BY <1>0, <4>1 DEF KycTypeOK
      <4> QED BY <3>1, <4>1, <4>2 DEF PolicyPasses
    <3>2. CASE screening' = [screening EXCEPT ![s] = Ended]
      BY <3>2, MatrixTypes DEF Ended
    <3>3. CASE screening' = [screening EXCEPT ![s] = [step |-> "asking"]]
      BY <2>2, <3>3
    <3> QED BY <1>6, <3>1, <3>2, <3>3 DEF AskProvider, ScreeningFails
  <2>4. screening' \in [Screening -> [step : {"idle", "passed", "asking", "ended"}]]
    BY <1>0, <2>3 DEF KycTypeOK
  <2> QED BY <1>0, <2>1, <2>4, OthersStep DEF KycTypeOK
<1>7. ASSUME NEW s \in Screening, NEW home \in Countries, NEW destination \in Countries \cup {NoDestination},
             Persist(s, home, destination)
      PROVE  KycInv'
  <2>1. PICK results : results = {CountryResult[c] : c \in ScreeningSubjects(home, destination)}
    OBVIOUS
  <2>2. OverallStatus(results) \in {"cleared", "review", "blocked"}
    <3>1. home \in ScreeningSubjects(home, destination) /\ ScreeningSubjects(home, destination) \subseteq Countries
      BY DEF ScreeningSubjects, Countries, CountryResult, NoDestination
    <3>2. results \subseteq {"cleared", "review", "blocked"} /\ results # {}
      BY <2>1, <3>1 DEF Countries, CountryResult
    <3>3. CASE "blocked" \in results
      BY <3>3 DEF OverallStatus
    <3>4. CASE "blocked" \notin results /\ "review" \in results
      BY <3>4 DEF OverallStatus
    <3>5. CASE "blocked" \notin results /\ "review" \notin results
      <4>1. results = {"cleared"}
        BY <3>2, <3>5
      <4> QED BY <4>1 DEF OverallStatus
    <3> QED BY <3>3, <3>4, <3>5
  <2>3. PICK row : row = [profile EXCEPT !.sanctions = OverallStatus(results)]
    OBVIOUS
  <2>4. row \in Profile /\ row.tier = profile.tier /\ row.risk = profile.risk
    BY <1>0, <2>2, <2>3, MatrixTypes DEF KycTypeOK, Profile
  <2>5. /\ Write(row, {}) /\ screening' = [screening EXCEPT ![s] = Ended]
        /\ UNCHANGED <<user, approval, work, application, submitted, reference, event, sweep, torn, reviews>>
    BY <1>7, <2>1, <2>3 DEF Persist, applicant
  <2>6. Ended \in [step : {"idle", "passed", "asking", "ended"}] /\ Ended.step = "ended"
    BY MatrixTypes DEF Ended
  <2>7. KycTypeOK'
    BY <1>0, <2>4, <2>5, <2>6 DEF KycTypeOK, Write
  <2>8. UserFollows'
    BY <1>0, <2>4, <2>5, <2>6 DEF UserFollows, Write, KycTypeOK
  <2> QED BY <2>4, <2>5, <2>7, <2>8, RowWritten
<1>8. CASE PickStale
  <2>1. /\ UNCHANGED <<profile, user, current, approval, work, torn, reviews, application, submitted, reference>>
        /\ UNCHANGED <<event, screening>> /\ sweep' = "picked" /\ sweep = "idle"
    BY <1>8 DEF PickStale, applicant
  <2> QED BY <1>0, <2>1, OthersStep DEF KycTypeOK
<1>9. CASE Escalate
  <2>1. PICK row : row = [profile EXCEPT !.status = "review"]
    OBVIOUS
  <2>2. row \in Profile
    BY <1>p, <2>1
  <2>3. /\ Write(row, {}) /\ sweep' = "syncing"
        /\ UNCHANGED <<user, approval, work, application, submitted, reference, event, screening, torn, reviews>>
    BY <1>9, <2>1 DEF Escalate, applicant
  <2>4. KycTypeOK'
    BY <1>0, <2>2, <2>3 DEF KycTypeOK, Write
  <2>5. UserFollows'
    BY <1>0, <2>3 DEF UserFollows
  <2> QED BY <2>2, <2>3, <2>4, <2>5, RowWritten
<1>10. CASE DropTier
  <2>1. /\ user' = [user EXCEPT !.tier = 0] /\ torn' = TRUE /\ sweep' = "done"
        /\ UNCHANGED <<profile, current, approval, work, application, submitted, reference, event, screening, reviews>>
    BY <1>10 DEF DropTier, applicant
  <2>2. user' \in [tier : Tiers, risk : RiskScores]
    BY <1>0, <2>1 DEF KycTypeOK, Tiers
  <2>3. KycTypeOK'
    BY <1>0, <2>1, <2>2 DEF KycTypeOK
  <2>4. \A o \in Operator : WorkKnown(o)'
    BY <2>1 DEF KycInv, WorkKnown, TwoOperators
  <2>5. UserFollows'
    BY <1>0, <2>1 DEF UserFollows
  <2> QED BY <2>3, <2>4, <2>5 DEF KycInv
<1> QED BY <1>1, <1>2, <1>3, <1>4, <1>5, <1>6, <1>7, <1>8, <1>9, <1>10

\* A step of another part keeps the profile.
LEMMA KycStutters == KycInv /\ UNCHANGED kycVars => KycInv'
BY DEF KycInv, KycTypeOK, WorkKnown, TwoOperators, UserFollows, kycVars

\* The profile at the start.
LEMMA InitKycInv == KycInit => KycInv
<1> SUFFICES ASSUME KycInit PROVE KycInv
  OBVIOUS
<1>1. profile \in Profile /\ user \in [tier : Tiers, risk : RiskScores] /\ user = [tier |-> profile.tier, risk |-> profile.risk]
  <2>1. PICK tier \in {0, 1} : /\ profile = [NoProfile EXCEPT !.tier = tier,
                                               !.status = IF tier > 0 THEN "approved" ELSE "not_started"]
                              /\ user = [tier |-> tier, risk |-> 0]
    BY DEF KycInit
  <2>2. PICK status \in {"approved", "not_started"} : status = (IF tier > 0 THEN "approved" ELSE "not_started")
    OBVIOUS
  <2>3. profile = [NoProfile EXCEPT !.tier = tier, !.status = status]
    BY <2>1, <2>2
  <2>5. tier \in Tiers /\ 0 \in RiskScores /\ status \in DOMAIN KycTransitions
    BY MatrixTypes DEF Tiers, RiskScores
  <2>4. profile \in Profile /\ profile.tier = tier /\ profile.risk = 0
    <3>1. NoProfile \in Profile /\ NoProfile.risk = 0
      BY ProfileTypes DEF NoProfile
    <3> QED BY <2>3, <2>5, <3>1 DEF Profile
  <2>6. user = [tier |-> profile.tier, risk |-> profile.risk]
    BY <2>1, <2>4
  <2> QED BY <2>1, <2>4, <2>5, <2>6
<1>2. KycTypeOK
  <2>1. /\ work \in [Operator -> Work]
        /\ approval \in [Approval -> {NoApproval} \cup
             [status : {"pending", "approved", "superseded"}, target : Profile, by : Operator]]
        /\ application \in [Application -> {"idle", "started", "submitting", "failing", "done"}]
    BY ProfileTypes DEF KycInit
  <2>3. reviews \in 0 .. MaxReviews
    BY KycAssumption DEF KycInit
  <2>2. /\ event \in [Callback -> [state : {"none", "sent", "read", "processed"},
                                  result : ProviderResults, risk : RiskScores]]
        /\ screening \in [Screening -> [step : {"idle", "passed", "asking", "ended"}]]
    BY MatrixTypes DEF KycInit, ProviderResults, RiskScores
  <2> QED BY <1>1, <2>1, <2>2, <2>3 DEF KycInit, KycTypeOK
<1>3. ASSUME NEW o \in Operator PROVE WorkKnown(o)
  <2>1. work[o].step = "idle" /\ work[o].approval = NoApproval
    BY DEF KycInit, Resting
  <2> QED BY <2>1 DEF WorkKnown
<1>4. UserFollows
  BY <1>1 DEF KycInit, UserFollows
<1> QED BY <1>2, <1>3, <1>4 DEF KycInv

\* The invariant of the profile holds in every state.
LEMMA KycInvariant == KycSpec => []KycInv
<1>1. KycInv /\ [KycNext]_kycVars => KycInv'
  BY OperatorKycInv, OtherKycInv, KycStutters DEF KycNext
<1> QED BY <1>1, InitKycInv, PTL DEF KycSpec

\* The User row has the tier and the risk score of the profile, but after the
\* causes that are noted.
THEOREM SpecUserFollows == KycSpec => []UserFollows
<1>1. KycInv => UserFollows
  BY DEF KycInv
<1> QED BY <1>1, KycInvariant, PTL

\* The step from an update to the copying of it is the update's.
LEMMA OnlyUpdate ==
  ASSUME KycTypeOK, KycNext, NEW o \in Operator, Updates(o)
  PROVE  Update(o)
<1>0. DOMAIN work = Operator /\ work[o].step = "updating" /\ work'[o].step = "syncing"
  BY DEF KycTypeOK, Updates
<1>1. work' # work
  BY <1>0
<1>k. Resting.step = "idle"
  BY DEF Resting
<1>2. ASSUME NEW p \in Operator, NEW r \in Override, NEW reasoned \in BOOLEAN, Review(p, r, reasoned) PROVE FALSE
  <2>1. p = o
    BY <1>0, <1>2 DEF Review, Drop
  <2> QED BY <1>0, <1>2, <2>1 DEF Review
<1>3. ASSUME NEW p \in Operator, Open(p) \/ Decide(p) \/ \E a \in Approval : Approve(p, a) PROVE FALSE
  <2>1. p = o
    BY <1>0, <1>3 DEF Open, Decide, Drop, Approve
  <2> QED BY <1>0, <1>3, <2>1 DEF Open, Decide, Approve
<1>4. ASSUME NEW p \in Operator, Sync(p) \/ Close(p) \/ ReviewDies(p) PROVE FALSE
  <2>1. p = o
    BY <1>0, <1>4 DEF Sync, Close, ReviewDies, Drop
  <2>2. ReviewDies(o)
    BY <1>0, <1>4, <2>1 DEF Sync, Close
  <2> QED BY <1>0, <1>k, <2>2 DEF ReviewDies, Drop
<1>5. ASSUME NEW p \in Operator, Update(p) PROVE Update(o)
  <2>1. p = o
    BY <1>0, <1>5 DEF Update
  <2> QED BY <1>5, <2>1
<1>6. ASSUME NEW a \in Application, StartKyc(a) \/ MarkPending(a) \/ Submit(a) \/ SubmissionFailed(a) PROVE FALSE
  BY <1>1, <1>6 DEF StartKyc, MarkPending, Submit, SubmissionFailed
<1>7. ASSUME NEW c \in Callback, \/ CallbackRead(c) \/ CallbackWrite(c) \/ CallbackFails(c)
                                 \/ \E result \in ProviderResults : ProviderDecides(c, result)
      PROVE  FALSE
  BY <1>1, <1>7 DEF CallbackRead, CallbackWrite, CallbackFails, ProviderDecides
<1>8. ASSUME NEW s \in Screening,
             \/ PolicyPasses(s) \/ AskProvider(s) \/ ScreeningFails(s)
             \/ \E home \in Countries, destination \in Countries \cup {NoDestination} : Persist(s, home, destination)
      PROVE  FALSE
  BY <1>1, <1>8 DEF PolicyPasses, AskProvider, ScreeningFails, Persist
<1>9. CASE PickStale \/ Escalate \/ DropTier
  BY <1>1, <1>9 DEF PickStale, Escalate, DropTier
<1> QED BY <1>2, <1>3, <1>4, <1>5, <1>6, <1>7, <1>8, <1>9 DEF KycNext

\* An operator's update of a row nobody wrote since it was validated replaces
\* the row he was shown by a permitted one, and a far one was agreed by two.
THEOREM SpecDecisionsStand == KycSpec => DecisionsStand
<1>1. KycInv /\ [KycNext]_kycVars =>
        [\A o \in Operator : Updates(o) /\ o \in current =>
           /\ profile = work[o].seen
           /\ ValidTransition(profile, profile')
           /\ MakerCheckerRequired(profile, profile') => TwoOperators(o)]_kycVars
  <2> SUFFICES ASSUME KycInv, KycNext, NEW o \in Operator, Updates(o), o \in current
               PROVE  /\ profile = work[o].seen
                      /\ ValidTransition(profile, profile')
                      /\ MakerCheckerRequired(profile, profile') => TwoOperators(o)
    OBVIOUS
  <2>1. Update(o)
    BY OnlyUpdate DEF KycInv
  <2>2. profile' = work[o].target /\ WorkKnown(o)
    BY <2>1 DEF Update, Write, KycInv
  <2> QED BY <2>2 DEF WorkKnown, Updates
<1> QED BY <1>1, KycInvariant, PTL DEF KycSpec, DecisionsStand

-----------------------------------------------------------------------------
(* Consent. *)

\* What a request has to go through.
Plans == {<< >>, Order} \cup {<<c>> : c \in Optional}

ConsentTypeOK ==
  /\ flagged \in BOOLEAN /\ broken \in BOOLEAN
  /\ flag \in {"opted_in", "opted_out", "unset"}
  /\ record \in [Optional -> {"unset", "granted", "denied"}]
  /\ audited \in [Optional -> {"unset", "granted", "denied"}]
  /\ keyword \in [Keyword -> [says : {"nothing", "refused", "granted", "denied"}, next : Nat, todo : Plans]]
  /\ settled \in {"nothing", "granted", "denied"}
  /\ \A k \in Running : keyword[k].says \in {"granted", "denied"} /\ keyword[k].next \in 1 .. 2 * Len(keyword[k].todo)

\* A request has written the records, and their audit rows, before the next.
Progress(k) ==
  /\ \A i \in 1 .. Len(keyword[k].todo) :
       LET c == keyword[k].todo[i]
       IN /\ 2 * i - 1 < keyword[k].next => record[c] = keyword[k].says
          /\ 2 * i < keyword[k].next => audited[c] = keyword[k].says
          /\ 2 * i - 1 >= keyword[k].next => audited[c] = record[c]
  /\ \A c \in Optional : (\A i \in 1 .. Len(keyword[k].todo) : keyword[k].todo[i] # c) => audited[c] = record[c]

Settled ==
  /\ \A c \in Optional : audited[c] = record[c]
  /\ settled # "nothing" => \A c \in Optional : record[c] = settled

Unbroken ==
  /\ \A j, k \in Running : j = k
  /\ \A k \in Running : Progress(k) /\ settled = "nothing"
  /\ Running = {} => Settled

ConsentInv == ConsentTypeOK /\ (broken \/ Unbroken)

\* What each plan names, and how long it is.
LEMMA PlanTypes ==
  /\ Optional = {"service", "product", "marketing"} /\ Optional \cap Required = {}
  /\ Len(Order) = 3 /\ Order[1] = "service" /\ Order[2] = "product" /\ Order[3] = "marketing"
  /\ \A c \in Optional : Len(<<c>>) = 1 /\ <<c>>[1] = c /\ <<c>> # << >>
  /\ Order # << >> /\ Len(<< >>) = 0
  /\ Cardinality(Optional) = 3
<1>1. Cardinality(Optional) = 3
  <2>1. IsFiniteSet({}) /\ Cardinality({}) = 0
    BY FS_EmptySet, Zenon
  <2>2. IsFiniteSet({"service"}) /\ Cardinality({"service"}) = 1
    BY FS_Singleton, Zenon
  <2>3. IsFiniteSet({"service"} \cup {"product"}) /\ Cardinality({"service"} \cup {"product"}) = 2
    BY <2>2, FS_AddElement
  <2>4. Cardinality(({"service"} \cup {"product"}) \cup {"marketing"}) = 3
    BY <2>3, FS_AddElement
  <2>5. Optional = ({"service"} \cup {"product"}) \cup {"marketing"}
    BY DEF Optional
  <2> QED BY <2>4, <2>5
<1> QED BY <1>1 DEF Optional, Required, Order

\* The next thing a request does, by the number it has got to.
LEMMA NextInPlan ==
  ASSUME ConsentTypeOK, NEW k \in Running
  PROVE  \E i \in 1 .. Len(keyword[k].todo) :
           /\ Category(k) = keyword[k].todo[i] /\ Category(k) \in Optional
           /\ keyword[k].next = 2 * i - 1 \/ keyword[k].next = 2 * i
           /\ keyword[k].next % 2 = 1 <=> keyword[k].next = 2 * i - 1
<1>1. keyword[k].todo \in Plans \ {<< >>} /\ keyword[k].next \in 1 .. 2 * Len(keyword[k].todo)
  BY DEF ConsentTypeOK, Running
<1>2. CASE keyword[k].todo = Order
  <2>1. keyword[k].next \in 1 .. 6
    BY <1>1, <1>2, PlanTypes
  <2>2. /\ (1 + 1) \div 2 = 1 /\ (2 + 1) \div 2 = 1 /\ (3 + 1) \div 2 = 2
        /\ (4 + 1) \div 2 = 2 /\ (5 + 1) \div 2 = 3 /\ (6 + 1) \div 2 = 3
        /\ 1 % 2 = 1 /\ 2 % 2 = 0 /\ 3 % 2 = 1 /\ 4 % 2 = 0 /\ 5 % 2 = 1 /\ 6 % 2 = 0
    OBVIOUS
  <2>3. CASE keyword[k].next \in {1, 2}
    BY <1>2, <2>2, <2>3, PlanTypes DEF Category
  <2>4. CASE keyword[k].next \in {3, 4}
    BY <1>2, <2>2, <2>4, PlanTypes DEF Category
  <2>5. CASE keyword[k].next \in {5, 6}
    BY <1>2, <2>2, <2>5, PlanTypes DEF Category
  <2>6. keyword[k].next \in {1, 2} \/ keyword[k].next \in {3, 4} \/ keyword[k].next \in {5, 6}
    BY <2>1
  <2> QED BY <2>3, <2>4, <2>5, <2>6, Zenon
<1>3. CASE \E c \in Optional : keyword[k].todo = <<c>>
  <2>1. keyword[k].next \in {1, 2} /\ Len(keyword[k].todo) = 1 /\ keyword[k].todo[1] \in Optional
    BY <1>1, <1>3, PlanTypes
  <2>2. (1 + 1) \div 2 = 1 /\ (2 + 1) \div 2 = 1 /\ 1 % 2 = 1 /\ 2 % 2 = 0
    OBVIOUS
  <2> QED BY <2>1, <2>2 DEF Category
<1> QED BY <1>1, <1>2, <1>3 DEF Plans

\* A plan names no category twice.
LEMMA PlanDistinct ==
  ASSUME NEW plan \in Plans, NEW i \in 1 .. Len(plan), NEW j \in 1 .. Len(plan), plan[i] = plan[j]
  PROVE  i = j
<1>1. CASE plan = Order
  BY <1>1, PlanTypes
<1>2. CASE \E c \in Optional : plan = <<c>>
  BY <1>2, PlanTypes
<1>3. CASE plan = << >>
  BY <1>3, PlanTypes
<1> QED BY <1>1, <1>2, <1>3 DEF Plans

\* A request begins.
LEMMA Begins ==
  ASSUME ConsentInv, NEW k \in Keyword, keyword[k] = NotSent,
         NEW says \in {"granted", "denied"}, NEW plan \in Plans, plan # << >>,
         keyword' = [keyword EXCEPT ![k] = [says |-> says, next |-> 1, todo |-> plan]],
         broken' = (broken \/ Running # {}), settled' = "nothing",
         flag' \in {"opted_in", "opted_out", "unset"}, UNCHANGED <<flagged, record, audited>>
  PROVE  ConsentInv'
<1>0. ConsentTypeOK /\ (broken \/ Unbroken)
  BY DEF ConsentInv
<1>1. PICK r : r = [says |-> says, next |-> 1, todo |-> plan]
  OBVIOUS
<1>2. /\ r \in [says : {"nothing", "refused", "granted", "denied"}, next : Nat, todo : Plans]
      /\ r.says = says /\ r.next = 1 /\ r.todo = plan
  BY <1>1
<1>3. keyword'[k] = r /\ \A j \in Keyword \ {k} : keyword'[j] = keyword[j]
  BY <1>0, <1>1 DEF ConsentTypeOK
<1>4. k \notin Running /\ Running' = Running \cup {k}
  BY <1>2, <1>3 DEF Running, NotSent
<1>5. Len(plan) >= 1
  BY PlanTypes DEF Plans
<1>6. broken' \in BOOLEAN
  <2>1. (broken \/ Running # {}) \in BOOLEAN
    OBVIOUS
  <2> QED BY <2>1, Zenon
<1>7. keyword' \in [Keyword -> [says : {"nothing", "refused", "granted", "denied"}, next : Nat, todo : Plans]]
  BY <1>0, <1>1, <1>2 DEF ConsentTypeOK
<1>l. Len(plan) \in Nat
  BY PlanTypes DEF Plans
<1>8. ConsentTypeOK'
  <2>1. \A j \in Running' : keyword'[j].says \in {"granted", "denied"} /\ keyword'[j].next \in 1 .. 2 * Len(keyword'[j].todo)
    <3>1. ASSUME NEW j \in Running
          PROVE  keyword'[j].says \in {"granted", "denied"} /\ keyword'[j].next \in 1 .. 2 * Len(keyword'[j].todo)
      <4>1. keyword'[j] = keyword[j]
        BY <1>3, <1>4 DEF Running
      <4> QED BY <1>0, <4>1 DEF ConsentTypeOK
    <3>2. 1 \in 1 .. 2 * Len(plan)
      BY <1>5, <1>l
    <3> QED BY <1>2, <1>3, <1>4, <3>1, <3>2
  <2> QED BY <1>0, <1>6, <1>7, <2>1 DEF ConsentTypeOK
<1>9. CASE broken'
  BY <1>8, <1>9 DEF ConsentInv
<1>10. CASE ~ broken'
  <2>1. Running = {} /\ Settled
    BY <1>0, <1>10 DEF Unbroken, ConsentTypeOK
  <2>2. Running' = {k}
    BY <1>4, <2>1
  <2>3. Progress(k)'
    <3>1. keyword'[k].todo = plan /\ keyword'[k].next = 1
      BY <1>2, <1>3
    <3>2. \A i \in 1 .. Len(plan) : plan[i] \in Optional /\ ~ (2 * i - 1 < 1) /\ ~ (2 * i < 1)
      <4>1. \A i \in 1 .. Len(plan) : plan[i] \in Optional
        BY PlanTypes DEF Plans
      <4>2. \A i \in 1 .. Len(plan) : ~ (2 * i - 1 < 1) /\ ~ (2 * i < 1)
        BY <1>l
      <4> QED BY <4>1, <4>2
    <3>3. \A c \in Optional : audited'[c] = record'[c]
      BY <2>1 DEF Settled
    <3> QED BY <3>1, <3>2, <3>3 DEF Progress
  <2>4. Unbroken'
    BY <2>2, <2>3 DEF Unbroken
  <2> QED BY <1>8, <2>4 DEF ConsentInv
<1> QED BY <1>9, <1>10

\* A request is refused.
LEMMA Refuses ==
  ASSUME ConsentInv, NEW k \in Keyword, keyword[k] = NotSent,
         keyword' = [keyword EXCEPT ![k].says = "refused"],
         broken' = (broken \/ Running # {}), settled' = "nothing", UNCHANGED <<flagged, flag, record, audited>>
  PROVE  ConsentInv'
<1>0. ConsentTypeOK /\ (broken \/ Unbroken)
  BY DEF ConsentInv
<1>1. PICK r : r = [keyword[k] EXCEPT !.says = "refused"]
  OBVIOUS
<1>2. /\ r \in [says : {"nothing", "refused", "granted", "denied"}, next : Nat, todo : Plans]
      /\ r.todo = << >>
  BY <1>0, <1>1 DEF ConsentTypeOK, NotSent
<1>3. /\ keyword' = [keyword EXCEPT ![k] = r]
      /\ keyword'[k] = r /\ \A j \in Keyword \ {k} : keyword'[j] = keyword[j]
  BY <1>0, <1>1 DEF ConsentTypeOK
<1>4. k \notin Running /\ Running' = Running
  BY <1>2, <1>3 DEF Running, NotSent
<1>5. broken' \in BOOLEAN
  <2>1. (broken \/ Running # {}) \in BOOLEAN
    OBVIOUS
  <2> QED BY <2>1, Zenon
<1>6. \A j \in Running : j \in Keyword /\ keyword'[j] = keyword[j]
  BY <1>3, <1>4 DEF Running
<1>7. ConsentTypeOK'
  <2>1. keyword' \in [Keyword -> [says : {"nothing", "refused", "granted", "denied"}, next : Nat, todo : Plans]]
    BY <1>0, <1>2, <1>3 DEF ConsentTypeOK
  <2>2. \A j \in Running' : keyword'[j].says \in {"granted", "denied"} /\ keyword'[j].next \in 1 .. 2 * Len(keyword'[j].todo)
    BY <1>0, <1>4, <1>6 DEF ConsentTypeOK
  <2> QED BY <1>0, <1>5, <2>1, <2>2 DEF ConsentTypeOK
<1>8. CASE broken'
  BY <1>7, <1>8 DEF ConsentInv
<1>9. CASE ~ broken'
  <2>1. Running = {} /\ Settled
    BY <1>0, <1>9 DEF Unbroken, ConsentTypeOK
  <2>2. Unbroken'
    BY <1>4, <2>1 DEF Unbroken, Settled
  <2> QED BY <1>7, <2>2 DEF ConsentInv
<1> QED BY <1>8, <1>9

\* A running request writes the next record, or its audit row, and goes on.
LEMMA GoesOn ==
  ASSUME ConsentInv, NEW k \in Running, NEW r,
         r \in [says : {"nothing", "refused", "granted", "denied"}, next : Nat, todo : Plans],
         r.says = keyword[k].says, r.todo = << >> \/ r.todo = keyword[k].todo,
         r.todo # << >> => r.next \in 1 .. 2 * Len(r.todo),
         keyword' = [keyword EXCEPT ![k] = r],
         record' \in [Optional -> {"unset", "granted", "denied"}],
         audited' \in [Optional -> {"unset", "granted", "denied"}],
         settled' \in {"nothing", "granted", "denied"}, UNCHANGED <<flagged, flag>>,
         broken' \in BOOLEAN, broken => broken',
         broken' \/ IF r.todo = << >> THEN Settled' ELSE Progress(k)' /\ settled' = settled
  PROVE  ConsentInv'
<1>0. ConsentTypeOK /\ (broken \/ Unbroken) /\ k \in Keyword
  BY DEF ConsentInv, Running
<1>1. keyword'[k] = r /\ \A j \in Keyword \ {k} : keyword'[j] = keyword[j]
  BY <1>0 DEF ConsentTypeOK
<1>2. Running' = IF r.todo = << >> THEN Running \ {k} ELSE Running
  BY <1>1 DEF Running
<1>3. ConsentTypeOK'
  <2>1. keyword' \in [Keyword -> [says : {"nothing", "refused", "granted", "denied"}, next : Nat, todo : Plans]]
    BY <1>0 DEF ConsentTypeOK
  <2>2. \A j \in Running' : keyword'[j].says \in {"granted", "denied"} /\ keyword'[j].next \in 1 .. 2 * Len(keyword'[j].todo)
    <3> SUFFICES ASSUME NEW j \in Running'
                 PROVE  keyword'[j].says \in {"granted", "denied"} /\ keyword'[j].next \in 1 .. 2 * Len(keyword'[j].todo)
      OBVIOUS
    <3>1. CASE j = k
      BY <1>0, <1>1, <1>2, <3>1 DEF ConsentTypeOK
    <3>2. CASE j # k
      BY <1>0, <1>1, <1>2, <3>2 DEF ConsentTypeOK, Running
    <3> QED BY <3>1, <3>2
  <2> QED BY <1>0, <2>1, <2>2 DEF ConsentTypeOK
<1>4. CASE broken'
  BY <1>3, <1>4 DEF ConsentInv
<1>5. CASE ~ broken'
  <2>1. Running = {k} /\ settled = "nothing"
    BY <1>0, <1>5 DEF Unbroken
  <2>2. Unbroken'
    <3>1. CASE r.todo = << >>
      <4>1. Running' = {} /\ Settled'
        BY <1>2, <1>5, <2>1, <3>1
      <4> QED BY <4>1 DEF Unbroken
    <3>2. CASE r.todo # << >>
      <4>1. Running' = {k} /\ Progress(k)' /\ settled' = "nothing"
        BY <1>2, <1>5, <2>1, <3>2
      <4> QED BY <4>1 DEF Unbroken
    <3> QED BY <3>1, <3>2
  <2> QED BY <1>3, <2>2 DEF ConsentInv
<1> QED BY <1>4, <1>5

\* Keywords and requests by category, step by step.
LEMMA NextConsentInv == ConsentInv /\ [ConsentNext]_consentVars => ConsentInv'
<1> SUFFICES ASSUME ConsentInv, [ConsentNext]_consentVars PROVE ConsentInv'
  OBVIOUS
<1>0. ConsentTypeOK /\ (broken \/ Unbroken)
  BY DEF ConsentInv
<1>1. ASSUME NEW k \in Keyword, NEW consent \in {"opted_out", "opted_in"}, Receive(k, consent) PROVE ConsentInv'
  <2>1. CASE flagged
    <3>1. Says(consent) \in {"granted", "denied"}
      BY DEF Says
    <3> QED BY <1>1, <2>1, <3>1, PlanTypes, Begins DEF Receive, Plans
  <2>2. CASE ~ flagged
    BY <1>1, <2>2, Refuses DEF Receive
  <2> QED BY <2>1, <2>2
<1>2. ASSUME NEW k \in Keyword, NEW c \in Categories, NEW status \in {"granted", "denied"}, SetCategory(k, c, status)
      PROVE  ConsentInv'
  <2>1. CASE c \in Required
    BY <1>2, <2>1, Refuses DEF SetCategory
  <2>2. CASE c \notin Required
    <3>1. c \in Optional /\ <<c>> \in Plans /\ <<c>> # << >>
      BY <2>2, PlanTypes DEF Categories, Plans
    <3> QED BY <1>0, <1>2, <2>2, <3>1, Begins DEF SetCategory, ConsentTypeOK
  <2> QED BY <2>1, <2>2
<1>3. ASSUME NEW k \in Keyword, Upsert(k) PROVE ConsentInv'
  <2>0. k \in Running
    BY <1>3 DEF Upsert
  <2>1. PICK i \in 1 .. Len(keyword[k].todo) :
          /\ Category(k) = keyword[k].todo[i] /\ Category(k) \in Optional
          /\ keyword[k].next = 2 * i - 1
    BY <1>0, <1>3, <2>0, NextInPlan DEF Upsert
  <2>2. PICK r : r = [keyword[k] EXCEPT !.next = keyword[k].next + 1]
    OBVIOUS
  <2>3. /\ r \in [says : {"nothing", "refused", "granted", "denied"}, next : Nat, todo : Plans]
        /\ r.says = keyword[k].says /\ r.todo = keyword[k].todo /\ r.next = 2 * i /\ r.todo # << >>
    <3>1. /\ keyword[k] \in [says : {"nothing", "refused", "granted", "denied"}, next : Nat, todo : Plans]
          /\ keyword[k].todo # << >> /\ i \in Int
      BY <1>0, <2>0 DEF ConsentTypeOK, Running
    <3>2. keyword[k].next + 1 = 2 * i /\ keyword[k].next + 1 \in Nat
      BY <2>1, <3>1
    <3> QED BY <2>2, <3>1, <3>2
  <2>4. keyword[k].says \in {"granted", "denied"} /\ r.next \in 1 .. 2 * Len(r.todo)
    <3>1. keyword[k].says \in {"granted", "denied"} /\ Len(r.todo) \in Nat
      BY <1>0, <2>0, <2>3, PlanTypes DEF ConsentTypeOK, Plans
    <3> QED BY <2>1, <2>3, <3>1
  <2>5. /\ keyword' = [keyword EXCEPT ![k] = r] /\ UNCHANGED <<flagged, flag, audited, settled, broken>>
        /\ record' = [record EXCEPT ![Category(k)] = keyword[k].says]
    BY <1>3, <2>2 DEF Upsert
  <2>6. record' \in [Optional -> {"unset", "granted", "denied"}]
    BY <1>0, <2>4, <2>5 DEF ConsentTypeOK
  <2>7. CASE broken
    BY <1>0, <2>0, <2>3, <2>4, <2>5, <2>6, <2>7, GoesOn DEF ConsentTypeOK
  <2>8. CASE ~ broken
    <3>1. Progress(k)
      BY <1>0, <2>0, <2>8 DEF Unbroken
    <3>2. keyword'[k] = r
      BY <1>0, <2>5 DEF ConsentTypeOK
    <3>3. \A c \in Optional \ {Category(k)} : record'[c] = record[c] /\ audited'[c] = audited[c]
      BY <1>0, <2>5 DEF ConsentTypeOK
    <3>4. record'[Category(k)] = keyword[k].says
      BY <1>0, <2>1, <2>5 DEF ConsentTypeOK
    <3>5. \A j \in 1 .. Len(r.todo) : r.todo[j] \in Optional /\ (r.todo[j] = Category(k) => j = i)
      <4>1. \A j \in 1 .. Len(r.todo) : r.todo[j] \in Optional
        BY <2>3, PlanTypes, SMTT(60) DEF Plans
      <4>2. r.todo \in Plans
        BY <2>3
      <4> QED BY <2>1, <2>3, <4>1, <4>2, PlanDistinct
    <3>6. ASSUME NEW j \in 1 .. Len(r.todo)
          PROVE  /\ 2 * j - 1 < r.next => record'[r.todo[j]] = r.says
                 /\ 2 * j < r.next => audited'[r.todo[j]] = r.says
                 /\ 2 * j - 1 >= r.next => audited'[r.todo[j]] = record'[r.todo[j]]
      <4>1. CASE j = i
        BY <2>1, <2>3, <3>4, <4>1
      <4>2. CASE j # i
        <5>1. record'[r.todo[j]] = record[r.todo[j]] /\ audited'[r.todo[j]] = audited[r.todo[j]]
          BY <3>3, <3>5, <4>2
        <5>2. /\ 2 * j - 1 < keyword[k].next => record[r.todo[j]] = r.says
              /\ 2 * j < keyword[k].next => audited[r.todo[j]] = r.says
              /\ 2 * j - 1 >= keyword[k].next => audited[r.todo[j]] = record[r.todo[j]]
          BY <2>3, <3>1 DEF Progress
        <5> QED BY <2>1, <2>3, <4>2, <5>1, <5>2
      <4> QED BY <4>1, <4>2
    <3>7. ASSUME NEW c \in Optional, \A j \in 1 .. Len(r.todo) : r.todo[j] # c PROVE audited'[c] = record'[c]
      BY <2>1, <2>3, <3>1, <3>3, <3>7, SMTT(60) DEF Progress
    <3>8. Progress(k)'
      BY <3>2, <3>6, <3>7 DEF Progress
    <3> QED BY <1>0, <2>0, <2>3, <2>4, <2>5, <2>6, <3>8, GoesOn DEF ConsentTypeOK
  <2> QED BY <2>7, <2>8
<1>4. ASSUME NEW k \in Keyword, Audit(k) PROVE ConsentInv'
  <2>0. k \in Running
    BY <1>4 DEF Audit
  <2>1. PICK i \in 1 .. Len(keyword[k].todo) :
          /\ Category(k) = keyword[k].todo[i] /\ Category(k) \in Optional
          /\ keyword[k].next = 2 * i
    <3>1. ~ (keyword[k].next % 2 = 1)
      BY <1>4 DEF Audit
    <3> QED BY <1>0, <2>0, <3>1, NextInPlan
  <2>l. Len(keyword[k].todo) \in Nat /\ keyword[k].todo \in Plans /\ keyword[k].todo # << >>
    BY <1>0, <2>0, PlanTypes DEF ConsentTypeOK, Plans, Running
  <2>2. PICK todo \in {<< >>, keyword[k].todo} :
          todo = IF keyword[k].next = 2 * Len(keyword[k].todo) THEN << >> ELSE keyword[k].todo
    OBVIOUS
  <2>3. PICK r : r = [keyword[k] EXCEPT !.next = keyword[k].next + 1, !.todo = todo]
    OBVIOUS
  <2>4. /\ r \in [says : {"nothing", "refused", "granted", "denied"}, next : Nat, todo : Plans]
        /\ r.says = keyword[k].says /\ r.todo = todo /\ r.next = 2 * i + 1
    <3>1. /\ keyword[k] \in [says : {"nothing", "refused", "granted", "denied"}, next : Nat, todo : Plans]
          /\ todo \in Plans /\ i \in Int
      BY <1>0, <2>0, <2>l DEF ConsentTypeOK, Running, Plans
    <3>2. keyword[k].next + 1 = 2 * i + 1 /\ keyword[k].next + 1 \in Nat
      BY <2>1, <3>1
    <3> QED BY <2>3, <3>1, <3>2
  <2>5. r.todo # << >> => r.todo = keyword[k].todo /\ r.next \in 1 .. 2 * Len(r.todo)
    <3> SUFFICES ASSUME r.todo # << >> PROVE r.todo = keyword[k].todo /\ r.next \in 1 .. 2 * Len(r.todo)
      OBVIOUS
    <3>1. r.todo = keyword[k].todo /\ 2 * i # 2 * Len(keyword[k].todo)
      BY <2>1, <2>2, <2>4
    <3> QED BY <2>1, <2>4, <2>l, <3>1
  <2>6. keyword[k].says \in {"granted", "denied"}
    BY <1>0, <2>0 DEF ConsentTypeOK
  <2>7. /\ keyword' = [keyword EXCEPT ![k] = r] /\ UNCHANGED <<flagged, flag, record, broken>>
        /\ audited' = [audited EXCEPT ![Category(k)] = keyword[k].says]
        /\ settled' = IF /\ keyword[k].next = 2 * Len(keyword[k].todo)
                         /\ Len(keyword[k].todo) = Cardinality(Optional)
                      THEN keyword[k].says ELSE settled
    BY <1>4, <2>2, <2>3 DEF Audit
  <2>8. audited' \in [Optional -> {"unset", "granted", "denied"}] /\ settled' \in {"nothing", "granted", "denied"}
    BY <1>0, <2>6, <2>7 DEF ConsentTypeOK
  <2>9. CASE broken
    BY <1>0, <2>0, <2>2, <2>4, <2>5, <2>7, <2>8, <2>9, GoesOn DEF ConsentTypeOK
  <2>10. CASE ~ broken
    <3>1. Progress(k) /\ settled = "nothing"
      BY <1>0, <2>0, <2>10 DEF Unbroken
    <3>2. keyword'[k] = r
      BY <1>0, <2>7 DEF ConsentTypeOK
    <3>3. \A c \in Optional \ {Category(k)} : record'[c] = record[c] /\ audited'[c] = audited[c]
      BY <1>0, <2>7 DEF ConsentTypeOK
    <3>4. audited'[Category(k)] = keyword[k].says /\ record' = record
      BY <1>0, <2>1, <2>7 DEF ConsentTypeOK
    <3>5. \A j \in 1 .. Len(keyword[k].todo) :
            keyword[k].todo[j] \in Optional /\ (keyword[k].todo[j] = Category(k) => j = i)
      <4>1. \A j \in 1 .. Len(keyword[k].todo) : keyword[k].todo[j] \in Optional
        BY <2>l, PlanTypes DEF Plans
      <4> QED BY <2>1, <2>l, <4>1, PlanDistinct
    <3>6. ASSUME NEW j \in 1 .. Len(keyword[k].todo)
          PROVE  LET c == keyword[k].todo[j]
                 IN /\ 2 * j - 1 < r.next => record'[c] = r.says
                    /\ 2 * j < r.next => audited'[c] = r.says
                    /\ 2 * j - 1 >= r.next => audited'[c] = record'[c]
      <4>0. /\ 2 * j - 1 < keyword[k].next => record[keyword[k].todo[j]] = r.says
            /\ 2 * j < keyword[k].next => audited[keyword[k].todo[j]] = r.says
            /\ 2 * j - 1 >= keyword[k].next => audited[keyword[k].todo[j]] = record[keyword[k].todo[j]]
        BY <2>4, <3>1 DEF Progress
      <4>1. CASE j = i
        BY <2>1, <2>4, <3>4, <4>0, <4>1
      <4>2. CASE j # i
        <5>1. audited'[keyword[k].todo[j]] = audited[keyword[k].todo[j]] /\ record' = record
          BY <3>3, <3>4, <3>5, <4>2
        <5> QED BY <2>1, <2>4, <4>0, <4>2, <5>1
      <4> QED BY <4>1, <4>2
    <3>7. ASSUME NEW c \in Optional, \A j \in 1 .. Len(keyword[k].todo) : keyword[k].todo[j] # c
          PROVE  audited'[c] = record'[c]
      BY <2>1, <3>1, <3>3, <3>7 DEF Progress
    <3>8. CASE r.todo # << >>
      <4>1. Progress(k)'
        BY <2>5, <3>2, <3>6, <3>7, <3>8, ZenonT(60) DEF Progress
      <4>2. settled' = settled
        BY <2>2, <2>4, <2>7, <3>8
      <4> QED BY <1>0, <2>0, <2>2, <2>4, <2>5, <2>7, <2>8, <3>8, <4>1, <4>2, GoesOn DEF ConsentTypeOK
    <3>9. CASE r.todo = << >>
      <4>1. keyword[k].next = 2 * Len(keyword[k].todo) /\ i = Len(keyword[k].todo)
        BY <2>1, <2>2, <2>4, <2>l, <3>9
      <4>2. ASSUME NEW j \in 1 .. Len(keyword[k].todo)
            PROVE  /\ record'[keyword[k].todo[j]] = keyword[k].says
                   /\ audited'[keyword[k].todo[j]] = keyword[k].says
        <5>1. 2 * j - 1 < r.next /\ 2 * j < r.next
          BY <2>1, <2>4, <2>l, <4>1
        <5> QED BY <2>4, <3>6, <5>1
      <4>3. \A c \in Optional : audited'[c] = record'[c]
        <5> TAKE c \in Optional
        <5>1. CASE \E j \in 1 .. Len(keyword[k].todo) : keyword[k].todo[j] = c
          BY <4>2, <5>1
        <5>2. CASE \A j \in 1 .. Len(keyword[k].todo) : keyword[k].todo[j] # c
          BY <3>7, <5>2
        <5> QED BY <5>1, <5>2
      <4>4. CASE Len(keyword[k].todo) = Cardinality(Optional)
        <5>1. keyword[k].todo = Order
          BY <2>l, <4>4, PlanTypes DEF Plans
        <5>2. \A c \in Optional : record'[c] = keyword[k].says
          BY <4>2, <5>1, PlanTypes
        <5>3. Settled'
          BY <2>7, <4>1, <4>3, <4>4, <5>2 DEF Settled
        <5> QED BY <1>0, <2>0, <2>2, <2>4, <2>7, <2>8, <3>9, <5>3, GoesOn DEF ConsentTypeOK
      <4>5. CASE Len(keyword[k].todo) # Cardinality(Optional)
        <5>1. settled' = "nothing"
          BY <2>7, <3>1, <4>5
        <5>2. Settled'
          BY <4>3, <5>1 DEF Settled
        <5> QED BY <1>0, <2>0, <2>2, <2>4, <2>7, <2>8, <3>9, <5>2, GoesOn DEF ConsentTypeOK
      <4> QED BY <4>4, <4>5
    <3> QED BY <3>8, <3>9
  <2> QED BY <2>9, <2>10
<1>5. ASSUME NEW k \in Keyword, KeywordDies(k) PROVE ConsentInv'
  <2>1. k \in Running
    BY <1>5 DEF KeywordDies
  <2>2. PICK r : r = [keyword[k] EXCEPT !.todo = << >>]
    OBVIOUS
  <2>3. /\ r \in [says : {"nothing", "refused", "granted", "denied"}, next : Nat, todo : Plans]
        /\ r.says = keyword[k].says /\ r.todo = << >>
    BY <1>0, <2>2 DEF ConsentTypeOK, Plans
  <2>4. keyword' = [keyword EXCEPT ![k] = r] /\ broken' = TRUE /\ UNCHANGED <<flagged, flag, record, audited, settled>>
    BY <1>5, <2>2 DEF KeywordDies
  <2> QED BY <1>0, <2>1, <2>3, <2>4, GoesOn DEF ConsentTypeOK
<1>6. CASE UNCHANGED consentVars
  BY <1>6 DEF consentVars, ConsentInv, ConsentTypeOK, Unbroken, Running, Progress, Settled
<1> QED BY <1>1, <1>2, <1>3, <1>4, <1>5, <1>6 DEF ConsentNext

\* Consent at the start.
LEMMA InitConsentInv == ConsentInit => ConsentInv
<1> SUFFICES ASSUME ConsentInit PROVE ConsentInv
  OBVIOUS
<1>1. NotSent \in [says : {"nothing", "refused", "granted", "denied"}, next : Nat, todo : Plans]
  BY DEF NotSent, Plans
<1>2. Running = {}
  BY DEF ConsentInit, Running, NotSent
<1>3. ConsentTypeOK
  BY <1>1, <1>2 DEF ConsentInit, ConsentTypeOK
<1>4. Unbroken
  BY <1>2 DEF ConsentInit, Unbroken, Settled
<1> QED BY <1>3, <1>4 DEF ConsentInv

\* The invariant of consent holds in every state.
LEMMA ConsentInvariant == ConsentSpec => []ConsentInv
BY InitConsentInv, NextConsentInv, PTL DEF ConsentSpec

\* Between requests, if none overlapped or died, every category is as the last
\* keyword said and as its audit row says.
THEOREM SpecKeywordApplies == ConsentSpec => []KeywordApplies
<1>1. ConsentInv => KeywordApplies
  <2> SUFFICES ASSUME ConsentInv, Running = {}, ~ broken
               PROVE  /\ settled # "nothing" =>
                           \A c \in Categories : Permitted(c) = (c \in Required \/ settled = "granted")
                      /\ \A c \in Optional : audited[c] = record[c]
    BY DEF KeywordApplies
  <2>1. Settled /\ settled \in {"nothing", "granted", "denied"}
    BY DEF ConsentInv, ConsentTypeOK, Unbroken
  <2>2. ASSUME settled # "nothing", NEW c \in Categories
        PROVE  Permitted(c) <=> (c \in Required \/ settled = "granted")
    <3>1. CASE c \in Required
      BY <3>1, PlanTypes DEF Permitted, ResolveCategoryStatus
    <3>2. CASE c \in Optional
      <4>1. record[c] = settled /\ settled # "unset" /\ c \notin Required
        BY <2>1, <2>2, <3>2, PlanTypes DEF Settled
      <4>2. ResolveCategoryStatus(c) = settled
        BY <3>2, <4>1 DEF ResolveCategoryStatus
      <4> QED BY <4>1, <4>2 DEF Permitted
    <3> QED BY <3>1, <3>2 DEF Categories
  <2>3. ASSUME settled # "nothing", NEW c \in Categories
        PROVE  Permitted(c) = (c \in Required \/ settled = "granted")
    BY <2>2, <2>3, Zenon DEF Permitted
  <2> QED BY <2>1, <2>3 DEF Settled
<1> QED BY <1>1, ConsentInvariant, PTL

-----------------------------------------------------------------------------
(* Renewal of the identity. *)

Row == [status : DOMAIN StatusTransitions, updated : 0 .. MaxAge, screened : 0 .. MaxAge,
        reminded : 0 .. MaxAge, type : Reminders \cup {NotReminded}]
CopySteps == {"read", "escalating"} \cup Reminders

\* The last reminder was written on the row: the row is no older than it, and
\* that of a customer not verified yet has its time.
Remembered(row, said) ==
  /\ row.updated <= said
  /\ row.status = "not_started" =>
       IF row.type = NotReminded THEN said = MaxAge ELSE row.reminded <= said

\* Except between a reminder and its stamp, the row and the copy the sweep has
\* just read remember it, unless a stamp was lost.
RenewalInv ==
  /\ identity \in Row /\ clean \in BOOLEAN /\ lost \in BOOLEAN
  /\ approved \in 0 .. MaxAge /\ spoken \in 0 .. MaxAge
  /\ copy = NoCopy \/ copy \in [step : CopySteps, row : Row]
  /\ lost \/ copy.step \in Reminders \/ Remembered(identity, spoken)
  /\ lost \/ copy.step # "read" \/ Remembered(copy.row, spoken)

\* A period leaves a row what it is, and as old against the last reminder.
LEMMA AgedRow ==
  ASSUME NEW row \in Row, NEW said \in 0 .. MaxAge
  PROVE  Aged(row) \in Row /\ (Remembered(row, said) => Remembered(Aged(row), OlderAge(said)))
<1>1. \A age \in 0 .. MaxAge : OlderAge(age) \in 0 .. MaxAge /\ (age = MaxAge => OlderAge(age) = MaxAge)
  BY RenewalAssumption DEF OlderAge
<1>2. \A a, b \in 0 .. MaxAge : a <= b => OlderAge(a) <= OlderAge(b)
  BY RenewalAssumption DEF OlderAge
<1>3. PICK r : r = Aged(row)
  OBVIOUS
<1>4. r \in Row /\ r.status = row.status /\ r.type = row.type
      /\ r.updated = OlderAge(row.updated) /\ r.reminded = OlderAge(row.reminded)
  BY <1>1, <1>3 DEF Aged, Row
<1>5. row.updated \in 0 .. MaxAge /\ row.reminded \in 0 .. MaxAge
  BY DEF Row
<1> QED BY <1>1, <1>2, <1>3, <1>4, <1>5 DEF Remembered

\* Another writer leaves a row that is younger than any reminder.
LEMMA OthersRemember ==
  ASSUME RenewalInv, NEW row \in Row, OthersWrite(row), approved' \in 0 .. MaxAge,
         row.status = "not_started" =>
           identity.status = "not_started" /\ row.type = identity.type /\ row.reminded = identity.reminded
  PROVE  RenewalInv'
<1>1. PICK r : r = [row EXCEPT !.updated = 0]
  OBVIOUS
<1>2. r \in Row /\ r.updated = 0 /\ r.status = row.status /\ r.type = row.type /\ r.reminded = row.reminded
  BY <1>1, RenewalAssumption DEF Row
<1>3. identity' = r /\ clean' = FALSE /\ copy' = copy /\ spoken' = spoken /\ lost' = lost
  BY <1>1 DEF OthersWrite
<1>4. Remembered(identity, spoken) => Remembered(r, spoken)
  BY <1>2, RenewalAssumption DEF RenewalInv, Remembered
<1> QED BY <1>2, <1>3, <1>4 DEF RenewalInv

\* Every writer, the sweep and the passing of time.
LEMMA NextRenewalInv == RenewalInv /\ [RenewalNext]_renewalVars => RenewalInv'
<1> SUFFICES ASSUME RenewalInv, [RenewalNext]_renewalVars PROVE RenewalInv'
  OBVIOUS
<1>0. /\ identity \in Row /\ clean \in BOOLEAN /\ lost \in BOOLEAN
      /\ approved \in 0 .. MaxAge /\ spoken \in 0 .. MaxAge
  BY DEF RenewalInv
<1>k. copy # NoCopy => copy \in [step : CopySteps, row : Row]
  BY DEF RenewalInv
<1>n. NoCopy.step = "idle" /\ {"idle", "read", "escalating"} \cap Reminders = {}
  BY DEF NoCopy, Reminders
<1>c. 0 \in 0 .. MaxAge /\ MaxAge \in 0 .. MaxAge
  BY RenewalAssumption
<1>s. DOMAIN StatusTransitions = {"not_started", "pending", "review", "approved", "rejected"}
  BY DEF StatusTransitions
<1>1. CASE PeriodPasses
  <2>1. /\ spoken' = OlderAge(spoken) /\ approved' = OlderAge(approved) /\ identity' = Aged(identity)
        /\ UNCHANGED <<clean, lost>>
    BY <1>1 DEF PeriodPasses
  <2>2. approved' \in 0 .. MaxAge /\ spoken' \in 0 .. MaxAge
    BY <1>0, <2>1, RenewalAssumption DEF OlderAge
  <2>3. identity' \in Row /\ (Remembered(identity, spoken) => Remembered(identity', spoken'))
    BY <1>0, <2>1, AgedRow
  <2>4. CASE copy = NoCopy
    <3>1. copy' = NoCopy
      BY <1>1, <2>4 DEF PeriodPasses
    <3> QED BY <1>0, <1>n, <2>1, <2>2, <2>3, <2>4, <3>1 DEF RenewalInv
  <2>5. CASE copy # NoCopy
    <3>1. PICK r : r = Aged(copy.row)
      OBVIOUS
    <3>2. r \in Row /\ (Remembered(copy.row, spoken) => Remembered(r, spoken'))
      BY <1>0, <1>k, <2>1, <2>5, <3>1, AgedRow
    <3>3. copy' = [copy EXCEPT !.row = r]
      BY <1>1, <2>5, <3>1 DEF PeriodPasses
    <3>4. copy' \in [step : CopySteps, row : Row] /\ copy'.row = r /\ copy'.step = copy.step
      BY <1>k, <2>5, <3>2, <3>3
    <3> QED BY <1>0, <2>1, <2>2, <2>3, <3>2, <3>4 DEF RenewalInv
  <2> QED BY <2>4, <2>5
<1>2. ASSUME NEW status \in {"pending", "review"}, StartVerification(status) PROVE RenewalInv'
  <2>1. PICK r : r = [identity EXCEPT !.status = status]
    OBVIOUS
  <2>2. r \in Row /\ r.status = status
    BY <1>0, <1>s, <2>1 DEF Row
  <2>3. OthersWrite(r) /\ approved' = approved
    BY <1>2, <2>1 DEF StartVerification
  <2> QED BY <1>0, <2>2, <2>3, OthersRemember
<1>3. ASSUME NEW status \in {"approved", "rejected", "review"}, ProviderAnswers(status) PROVE RenewalInv'
  <2>1. PICK r : r = [identity EXCEPT !.status = status, !.reminded = MaxAge, !.type = NotReminded]
    OBVIOUS
  <2>2. r \in Row /\ r.status = status
    BY <1>0, <1>c, <1>s, <2>1 DEF Row
  <2>3. OthersWrite(r) /\ approved' \in 0 .. MaxAge
    BY <1>0, <1>3, <1>c, <2>1 DEF ProviderAnswers
  <2> QED BY <2>2, <2>3, OthersRemember
<1>4. ASSUME NEW status \in DOMAIN StatusTransitions, OperatorDecides(status) PROVE RenewalInv'
  <2>1. PICK r : r = [identity EXCEPT !.status = status]
    OBVIOUS
  <2>2. r \in Row /\ r.status = status /\ r.type = identity.type /\ r.reminded = identity.reminded
    BY <1>0, <2>1 DEF Row
  <2>3. OthersWrite(r) /\ approved' \in 0 .. MaxAge
    BY <1>0, <1>4, <1>c, <2>1 DEF OperatorDecides
  <2>4. status = "not_started" => identity.status = "not_started"
    BY <1>0, <1>4 DEF OperatorDecides, StatusTransitions, Row
  <2> QED BY <2>2, <2>3, <2>4, OthersRemember
<1>5. CASE ScreenPayment
  <2>1. PICK r : r = [identity EXCEPT !.screened = 0]
    OBVIOUS
  <2>2. r \in Row /\ r.status = identity.status /\ r.type = identity.type /\ r.reminded = identity.reminded
    BY <1>0, <1>c, <2>1 DEF Row
  <2>3. OthersWrite(r) /\ approved' = approved
    BY <1>5, <2>1 DEF ScreenPayment
  <2> QED BY <1>0, <2>2, <2>3, OthersRemember
<1>6. CASE ReadProfiles
  <2>1. copy' \in [step : CopySteps, row : Row] /\ copy'.row = identity /\ copy'.step = "read" /\ copy = NoCopy
    BY <1>0, <1>6 DEF ReadProfiles, CopySteps
  <2> QED BY <1>0, <1>6, <1>n, <2>1 DEF RenewalInv, ReadProfiles
<1>7. CASE Notify
  <2>1. copy \in [step : CopySteps, row : Row] /\ copy.step = "read"
    BY <1>7, <1>k, <1>n DEF Notify
  <2>2. PICK due : due = Due(copy.row)
    OBVIOUS
  <2>3. due \in Reminders \cup {"escalation", "nothing"} /\ {"escalation", "nothing"} \cap Reminders = {}
    BY <2>2 DEF Due, Reminders
  <2>4. CASE due = "nothing"
    <3>1. copy' = NoCopy /\ spoken' = spoken /\ UNCHANGED <<identity, clean, approved, lost>>
      BY <1>7, <2>2, <2>3, <2>4 DEF Notify
    <3> QED BY <1>0, <1>n, <2>1, <3>1 DEF RenewalInv
  <2>5. CASE due # "nothing"
    <3>1. PICK step \in CopySteps : step = (IF due = "escalation" THEN "escalating" ELSE due)
      BY <2>3, <2>5 DEF CopySteps
    <3>2. copy' = [copy EXCEPT !.step = step] /\ UNCHANGED <<identity, clean, approved, lost>>
      BY <1>7, <2>2, <2>5, <3>1 DEF Notify
    <3>3. copy' \in [step : CopySteps, row : Row] /\ copy'.step = step /\ step # "read"
      BY <1>n, <2>1, <2>3, <3>1, <3>2
    <3>4. spoken' = (IF due \in Reminders THEN 0 ELSE spoken)
      BY <1>7, <2>2 DEF Notify
    <3>5. CASE due \in Reminders
      BY <1>0, <1>c, <2>3, <3>1, <3>2, <3>3, <3>4, <3>5 DEF RenewalInv
    <3>6. CASE due = "escalation"
      BY <1>0, <1>n, <2>1, <2>3, <3>2, <3>3, <3>4, <3>6 DEF RenewalInv
    <3> QED BY <2>3, <2>5, <3>5, <3>6
  <2> QED BY <2>4, <2>5
<1>8. CASE Stamp
  <2>1. copy.step \in Reminders /\ copy' = NoCopy /\ lost' = FALSE /\ UNCHANGED <<clean, approved, spoken>>
    BY <1>8 DEF Stamp
  <2>2. PICK step \in Reminders : step = copy.step
    BY <2>1
  <2>3. identity' = [identity EXCEPT !.updated = 0, !.reminded = 0, !.type = step]
    BY <1>8, <2>2 DEF Stamp
  <2>4. identity' \in Row /\ identity'.updated = 0 /\ identity'.reminded = 0 /\ identity'.type # NotReminded
    BY <1>0, <1>c, <2>2, <2>3 DEF Row, Reminders, NotReminded
  <2>5. Remembered(identity', spoken)
    BY <1>0, <2>4, RenewalAssumption DEF Remembered
  <2> QED BY <1>0, <1>n, <2>1, <2>4, <2>5 DEF RenewalInv
<1>9. CASE EscalateProfile
  <2>1. copy.row \in Row /\ copy.step = "escalating"
    BY <1>9, <1>k, <1>n DEF EscalateProfile
  <2>2. /\ identity' = [identity EXCEPT !.status = "review", !.updated = 0,
                                        !.reminded = copy.row.reminded, !.type = copy.row.type]
        /\ copy' = NoCopy /\ UNCHANGED <<clean, approved, spoken, lost>>
    BY <1>9 DEF EscalateProfile
  <2>3. identity' \in Row /\ identity'.updated = 0 /\ identity'.status = "review"
    BY <1>0, <1>c, <1>s, <2>1, <2>2 DEF Row
  <2>4. Remembered(identity', spoken)
    BY <1>0, <2>3, RenewalAssumption DEF Remembered
  <2> QED BY <1>0, <1>n, <2>2, <2>3, <2>4 DEF RenewalInv
<1>10. CASE SweepFails
  <2>1. copy' = NoCopy /\ lost' = (lost \/ copy.step \in Reminders) /\ UNCHANGED <<identity, clean, approved, spoken>>
    BY <1>10 DEF SweepFails
  <2>2. lost' \in BOOLEAN
    BY <1>0, <2>1
  <2>3. lost' \/ Remembered(identity, spoken)
    BY <2>1 DEF RenewalInv
  <2> QED BY <1>0, <1>n, <2>1, <2>2, <2>3 DEF RenewalInv
<1>11. CASE UNCHANGED renewalVars
  BY <1>11 DEF renewalVars, RenewalInv
<1> QED BY <1>1, <1>2, <1>3, <1>4, <1>5, <1>6, <1>7, <1>8, <1>9, <1>10, <1>11 DEF RenewalNext

\* The invariant of the renewal holds in every state.
LEMMA RenewalInvariant == RenewalSpec => []RenewalInv
<1>1. ASSUME RenewalInit PROVE RenewalInv
  <2>1. /\ identity \in [status : {"approved", "not_started"}, updated : {0},
                        screened : {0, MaxAge}, reminded : {MaxAge}, type : {NotReminded}]
        /\ copy = NoCopy /\ clean = TRUE /\ lost = FALSE /\ approved = 0 /\ spoken = MaxAge
    BY <1>1 DEF RenewalInit
  <2>2. 0 \in 0 .. MaxAge /\ MaxAge \in 0 .. MaxAge /\ {"approved", "not_started"} \subseteq DOMAIN StatusTransitions
    BY RenewalAssumption DEF StatusTransitions
  <2>3. identity \in Row /\ identity.updated = 0 /\ identity.type = NotReminded
    BY <2>1, <2>2 DEF Row
  <2>4. Remembered(identity, spoken)
    BY <2>1, <2>3, RenewalAssumption DEF Remembered
  <2>5. copy.step = "idle"
    BY <2>1 DEF NoCopy
  <2> QED BY <2>1, <2>2, <2>3, <2>4, <2>5 DEF RenewalInv
<1> QED BY <1>1, NextRenewalInv, PTL DEF RenewalSpec

\* No customer is nudged or reminded of a stale verification too soon after the
\* last reminder, whatever the order of the intervals and whoever else writes.
THEOREM SpecRemindersSpaced == RenewalSpec => RemindersSpaced
<1>1. RenewalInv /\ [RenewalNext]_renewalVars =>
        (copy.step = "read" /\ copy'.step \in {"stale", "missing"} => lost \/ spoken >= RepeatAge)
  <2> SUFFICES ASSUME RenewalInv, [RenewalNext]_renewalVars, copy.step = "read",
                      copy'.step \in {"stale", "missing"}, ~ lost
               PROVE  spoken >= RepeatAge
    OBVIOUS
  <2>1. copy \in [step : CopySteps, row : Row] /\ Remembered(copy.row, spoken) /\ spoken \in 0 .. MaxAge
    BY DEF RenewalInv, NoCopy
  <2>2. Notify
    <3>1. copy' # copy /\ copy # NoCopy /\ copy' # NoCopy
      BY DEF NoCopy
    <3>2. ASSUME PeriodPasses PROVE FALSE
      <4>1. PICK row : row = Aged(copy.row)
        OBVIOUS
      <4>2. copy' = [copy EXCEPT !.row = row]
        BY <3>1, <3>2, <4>1 DEF PeriodPasses
      <4>3. copy'.step = "read"
        BY <2>1, <4>2
      <4> QED BY <4>3
    <3> QED BY <3>1, <3>2, ZenonT(60) DEF RenewalNext, renewalVars, StartVerification, ProviderAnswers, OperatorDecides,
              ScreenPayment, OthersWrite, ReadProfiles, Stamp, EscalateProfile, SweepFails
  <2>3. PICK due : due = Due(copy.row)
    OBVIOUS
  <2>4. due = copy'.step /\ due \in {"stale", "missing"}
    BY <2>1, <2>2, <2>3 DEF Notify, NoCopy
  <2>5. CASE due = "stale"
    BY <2>1, <2>3, <2>5, RenewalAssumption DEF Due, KycStale, EscalationDue, Remembered, Row
  <2>6. CASE due = "missing"
    BY <2>1, <2>3, <2>6, RenewalAssumption DEF Due, RemindedRecently, Remembered, Row
  <2> QED BY <2>4, <2>5, <2>6
<1>2. RenewalInv /\ [RenewalNext]_renewalVars =>
        [copy.step = "read" /\ copy'.step \in {"stale", "missing"} => lost \/ spoken >= RepeatAge]_renewalVars
  BY <1>1
<1> QED BY <1>2, RenewalInvariant, PTL DEF RenewalSpec, RemindersSpaced

-----------------------------------------------------------------------------
(* The wallet. *)

WalletRow ==
  [key : Key, funded : BOOLEAN, funding : {"pending", "in_progress", "succeeded", "failed"}, fundLapsed : BOOLEAN,
   trust : {"pending", "in_progress", "succeeded", "failed", "blocked"}, tries : 0 .. MaxTries, trustLapsed : BOOLEAN]
RowCopy == [key : Key, trusted : BOOLEAN, tries : 0 .. MaxTries]
CallSteps ==
  {"idle", "creating", "found", "unfunded", "funding", "fund result", "trustless", "lining", "line result",
   "reset funding", "reset line"}
Calls == [step : CallSteps, row : {NoWallet} \cup RowCopy, ok : BOOLEAN, retry : BOOLEAN]

WalletTypeOK ==
  /\ wallet \in {NoWallet} \cup WalletRow
  /\ call \in [Caller -> Calls]
  /\ replaced \in BOOLEAN /\ overlap \in BOOLEAN
  /\ (replaced => Stored)

\* What a request goes on with: a row that exists, its key pair unless that has
\* been replaced, and what it has found on the network.
CallKnows(c) ==
  /\ call[c].step \notin {"idle", "creating"} => Stored
  /\ call[c].step \notin {"idle", "creating", "found"} =>
       call[c].row \in RowCopy /\ (replaced \/ call[c].row.key = wallet.key)
  /\ call[c].step \in {"trustless", "lining", "line result"} => wallet.funded
  /\ call[c].step = "fund result" /\ call[c].ok => call[c].row.key \in chainAccount
  /\ call[c].step = "line result" /\ call[c].ok => call[c].row.key \in line

\* An attempt holds its lease.
Leased(c) ==
  Stored /\ ~ overlap =>
    /\ Funding(c) => wallet.funding = "in_progress" /\ ~ wallet.fundLapsed
    /\ Lining(c) => wallet.trust = "in_progress" /\ ~ wallet.trustLapsed

FundedMarks == Stored /\ wallet.funding = "succeeded" => wallet.funded

WalletInv ==
  /\ WalletTypeOK /\ FundedMarks
  /\ \A c \in Caller : CallKnows(c) /\ Leased(c)
  /\ AttemptsApart /\ MarksAreReal

\* A row with a key is not the missing one.
LEMMA RowStored == \A w \in WalletRow : w # NoWallet
<1>1. ASSUME NEW w \in WalletRow PROVE w # NoWallet
  <2>1. "funded" \in DOMAIN w
    BY DEF WalletRow
  <2>2. "funded" \notin DOMAIN NoWallet
    BY DEF NoWallet
  <2> QED BY <2>1, <2>2
<1> QED BY <1>1

\* What a request keeps of the row it reads.
LEMMA CopyType ==
  ASSUME NEW w \in WalletRow
  PROVE  Copy(w) \in RowCopy /\ Copy(w).key = w.key
<1>1. PICK b \in BOOLEAN : b = (w.trust = "succeeded")
  <2>1. (w.trust = "succeeded") \in BOOLEAN
    OBVIOUS
  <2> QED BY <2>1, Zenon
<1>2. Copy(w) = [key |-> w.key, trusted |-> b, tries |-> w.tries]
  BY <1>1 DEF Copy
<1> QED BY <1>2 DEF WalletRow, RowCopy

\* A request goes on with a row, or ends.
LEMMA GoneOn ==
  ASSUME WalletTypeOK, NEW c \in Caller, NEW step \in CallSteps, NEW row \in {NoWallet} \cup RowCopy, GoOn(c, step, row)
  PROVE  /\ call' \in [Caller -> Calls] /\ \A d \in Caller \ {c} : call'[d] = call[d]
         /\ call'[c].step = step /\ call'[c].row = row /\ ~ call'[c].ok
<1>1. PICK r : r = [NoProvisioning EXCEPT !.step = step, !.row = row]
  OBVIOUS
<1>2. r \in Calls /\ r.step = step /\ r.row = row /\ ~ r.ok
  BY <1>1 DEF NoProvisioning, Calls
<1>3. call' = [call EXCEPT ![c] = r]
  BY <1>1 DEF GoOn
<1> QED BY <1>2, <1>3 DEF WalletTypeOK

\* A request that is done rests.
LEMMA CallEnded ==
  ASSUME WalletTypeOK, NEW c \in Caller, Done(c)
  PROVE  /\ call' \in [Caller -> Calls] /\ \A d \in Caller \ {c} : call'[d] = call[d]
         /\ call'[c].step = "idle"
<1>1. NoProvisioning \in Calls /\ NoProvisioning.step = "idle"
  BY DEF NoProvisioning, Calls, CallSteps
<1> QED BY <1>1 DEF Done, WalletTypeOK

\* A request turns to the next step of its attempt.
LEMMA Turns ==
  ASSUME WalletTypeOK, NEW c \in Caller, NEW step \in CallSteps, call' = [call EXCEPT ![c].step = step]
  PROVE  /\ call' \in [Caller -> Calls] /\ \A d \in Caller \ {c} : call'[d] = call[d]
         /\ call'[c].step = step /\ call'[c].row = call[c].row
<1>1. PICK r : r = [call[c] EXCEPT !.step = step]
  OBVIOUS
<1>2. r \in Calls /\ r.step = step /\ r.row = call[c].row
  BY <1>1 DEF WalletTypeOK, Calls
<1>3. call' = [call EXCEPT ![c] = r]
  BY <1>1
<1> QED BY <1>2, <1>3 DEF WalletTypeOK

\* A step of one request that leaves the row alone, and begins no attempt.
LEMMA CallStep ==
  ASSUME WalletInv, NEW c \in Caller, call' \in [Caller -> Calls], \A d \in Caller \ {c} : call'[d] = call[d],
         UNCHANGED <<wallet, replaced, overlap>>, chainAccount \subseteq chainAccount', line \subseteq line',
         CallKnows(c)', Funding(c)' => Funding(c), Lining(c)' => Lining(c)
  PROVE  WalletInv'
<1>1. WalletTypeOK' /\ FundedMarks'
  BY DEF WalletInv, WalletTypeOK, FundedMarks, Stored
<1>2. ASSUME NEW d \in Caller PROVE CallKnows(d)' /\ Leased(d)' /\ (Funding(d)' => Funding(d)) /\ (Lining(d)' => Lining(d))
  <2>1. CASE d = c
    BY <2>1 DEF WalletInv, Leased, Stored
  <2>2. CASE d # c
    BY <2>2 DEF WalletInv, CallKnows, Leased, Stored, Funding, Lining
  <2> QED BY <2>1, <2>2
<1>3. AttemptsApart' /\ MarksAreReal'
  BY <1>2 DEF WalletInv, AttemptsApart, MarksAreReal, Stored
<1> QED BY <1>1, <1>2, <1>3 DEF WalletInv

\* A step that writes the row.
LEMMA RowStep ==
  ASSUME WalletInv, wallet \in WalletRow, wallet' \in WalletRow, wallet'.key = wallet.key,
         wallet.funded => wallet'.funded, wallet'.funding = "succeeded" => wallet'.funded,
         call' \in [Caller -> Calls], UNCHANGED <<chainAccount, line, replaced>>, overlap' \in BOOLEAN,
         \A d \in Caller : call'[d] = call[d] \/ CallKnows(d)',
         ~ overlap' =>
           /\ \A d \in Caller : Funding(d)' => wallet'.funding = "in_progress" /\ ~ wallet'.fundLapsed
           /\ \A d \in Caller : Lining(d)' => wallet'.trust = "in_progress" /\ ~ wallet'.trustLapsed
           /\ \A c, d \in Caller : Funding(c)' /\ Funding(d)' => c = d
           /\ \A c, d \in Caller : Lining(c)' /\ Lining(d)' => c = d
           /\ wallet'.funded => wallet'.funding = "succeeded",
         ~ replaced =>
           /\ wallet'.funded => wallet.funded \/ wallet.key \in chainAccount
           /\ wallet'.trust = "succeeded" => wallet.trust = "succeeded" \/ wallet.key \in line
  PROVE  WalletInv'
<1>0. Stored /\ Stored'
  BY RowStored DEF Stored
<1>1. WalletTypeOK' /\ FundedMarks'
  BY <1>0 DEF WalletInv, WalletTypeOK, FundedMarks
<1>2. ASSUME NEW d \in Caller PROVE CallKnows(d)' /\ Leased(d)'
  <2>1. CallKnows(d)'
    BY <1>0 DEF WalletInv, CallKnows
  <2> QED BY <2>1 DEF Leased
<1>3. AttemptsApart' /\ MarksAreReal'
  BY <1>0 DEF WalletInv, AttemptsApart, MarksAreReal
<1> QED BY <1>1, <1>2, <1>3 DEF WalletInv

\* Requests that look, fund, open the line on the network, or end.
LEMMA LookingKeeps ==
  ASSUME WalletInv, NEW c \in Caller,
         LookUp(c) \/ ReadWallet(c) \/ Fund(c) \/ OpenLine(c) \/ ProvisioningDies(c) \/ StartReset(c)
  PROVE  WalletInv'
<1>0. WalletTypeOK /\ CallKnows(c) /\ DOMAIN call = Caller /\ call[c] \in Calls /\ FundedMarks
  BY DEF WalletInv, WalletTypeOK
<1>1. CASE LookUp(c)
  <2>1. PICK step \in {"found", "creating"} : step = IF Stored THEN "found" ELSE "creating"
    OBVIOUS
  <2>2. GoOn(c, step, NoWallet)
    BY <1>1, <2>1 DEF LookUp
  <2>3. /\ call' \in [Caller -> Calls] /\ \A d \in Caller \ {c} : call'[d] = call[d]
        /\ call'[c].step = step
    BY <1>0, <2>2, GoneOn, ZenonT(60) DEF CallSteps
  <2>4. CallKnows(c)' /\ ~ Funding(c)' /\ ~ Lining(c)'
    BY <1>1, <2>1, <2>3 DEF CallKnows, Funding, Lining, LookUp, Stored
  <2> QED BY <1>1, <2>3, <2>4, CallStep DEF LookUp, chainVars, fixedVars
<1>2. CASE ReadWallet(c)
  <2>1. wallet \in WalletRow
    BY <1>0, <1>2 DEF ReadWallet, CallAt, CallKnows, WalletTypeOK, Stored
  <2>2. PICK step \in {"unfunded", "trustless"} :
          step = IF wallet.funding # "succeeded" /\ ~ wallet.funded THEN "unfunded" ELSE "trustless"
    OBVIOUS
  <2>3. GoOn(c, step, Copy(wallet)) /\ Copy(wallet) \in RowCopy /\ Copy(wallet).key = wallet.key
    BY <1>2, <2>1, <2>2, CopyType DEF ReadWallet
  <2>4. /\ call' \in [Caller -> Calls] /\ \A d \in Caller \ {c} : call'[d] = call[d]
        /\ call'[c].step = step /\ call'[c].row = Copy(wallet)
    BY <1>0, <2>3, GoneOn, ZenonT(60) DEF CallSteps
  <2>5. step = "trustless" => wallet.funded
    BY <1>0, <2>1, <2>2, RowStored DEF FundedMarks, Stored
  <2>6. CallKnows(c)' /\ ~ Funding(c)' /\ ~ Lining(c)'
    BY <1>2, <2>1, <2>3, <2>4, <2>5, RowStored DEF CallKnows, Funding, Lining, ReadWallet, Stored
  <2> QED BY <1>2, <2>4, <2>6, CallStep DEF ReadWallet, chainVars, fixedVars
<1>3. CASE Fund(c)
  <2>1. PICK ok \in BOOLEAN : /\ call' = [call EXCEPT ![c].step = "fund result", ![c].ok = ok]
                              /\ ok => call[c].row.key \in chainAccount'
                              /\ chainAccount \subseteq chainAccount'
    BY <1>3 DEF Fund
  <2>2. PICK r : r = [call[c] EXCEPT !.step = "fund result", !.ok = ok]
    OBVIOUS
  <2>3. r \in Calls /\ r.step = "fund result" /\ r.ok = ok /\ r.row = call[c].row
    BY <1>0, <2>2 DEF Calls, CallSteps
  <2>4. call' = [call EXCEPT ![c] = r]
    BY <2>1, <2>2
  <2>5. call' \in [Caller -> Calls] /\ call'[c] = r /\ \A d \in Caller \ {c} : call'[d] = call[d]
    BY <1>0, <2>3, <2>4 DEF WalletTypeOK
  <2>6. UNCHANGED <<wallet, line, used, mainnet, replaced, overlap>> /\ call[c].step = "funding"
    BY <1>3 DEF Fund, fixedVars, CallAt
  <2>7. CallKnows(c)' /\ Funding(c) /\ ~ Lining(c)'
    BY <1>0, <2>1, <2>3, <2>5, <2>6 DEF CallKnows, Funding, Lining, Stored
  <2> QED BY <2>1, <2>5, <2>6, <2>7, CallStep
<1>4. CASE OpenLine(c)
  <2>1. PICK ok \in BOOLEAN, retry \in BOOLEAN :
          /\ call' = [call EXCEPT ![c].step = "line result", ![c].ok = ok, ![c].retry = retry]
          /\ ok => call[c].row.key \in line'
          /\ line \subseteq line'
    BY <1>4 DEF OpenLine
  <2>2. PICK r : r = [call[c] EXCEPT !.step = "line result", !.ok = ok, !.retry = retry]
    OBVIOUS
  <2>3. r \in Calls /\ r.step = "line result" /\ r.ok = ok /\ r.row = call[c].row
    BY <1>0, <2>2 DEF Calls, CallSteps
  <2>4. call' = [call EXCEPT ![c] = r]
    BY <2>1, <2>2
  <2>5. call' \in [Caller -> Calls] /\ call'[c] = r /\ \A d \in Caller \ {c} : call'[d] = call[d]
    BY <1>0, <2>3, <2>4 DEF WalletTypeOK
  <2>6. UNCHANGED <<wallet, chainAccount, used, mainnet, replaced, overlap>> /\ call[c].step = "lining"
    BY <1>4 DEF OpenLine, fixedVars, CallAt
  <2>7. CallKnows(c)' /\ Lining(c) /\ ~ Funding(c)'
    BY <1>0, <2>1, <2>3, <2>5, <2>6 DEF CallKnows, Funding, Lining, Stored
  <2> QED BY <2>1, <2>5, <2>6, <2>7, CallStep
<1>5. CASE ProvisioningDies(c)
  <2>1. /\ call' \in [Caller -> Calls] /\ \A d \in Caller \ {c} : call'[d] = call[d]
        /\ call'[c].step = "idle"
    BY <1>0, <1>5, CallEnded DEF ProvisioningDies
  <2>2. CallKnows(c)' /\ ~ Funding(c)' /\ ~ Lining(c)'
    BY <2>1 DEF CallKnows, Funding, Lining
  <2> QED BY <1>5, <2>1, <2>2, CallStep DEF ProvisioningDies, chainVars, fixedVars
<1>6. CASE StartReset(c)
  <2>1. wallet \in WalletRow
    BY <1>0, <1>6 DEF StartReset, WalletTypeOK, Stored
  <2>2. PICK step \in {"reset funding", "reset line"} :
          step = IF wallet.funding # "succeeded" /\ ~ wallet.funded THEN "reset funding" ELSE "reset line"
    OBVIOUS
  <2>3. GoOn(c, step, Copy(wallet)) /\ Copy(wallet) \in RowCopy /\ Copy(wallet).key = wallet.key
    BY <1>6, <2>1, <2>2, CopyType DEF StartReset
  <2>4. /\ call' \in [Caller -> Calls] /\ \A d \in Caller \ {c} : call'[d] = call[d]
        /\ call'[c].step = step /\ call'[c].row = Copy(wallet)
    BY <1>0, <2>3, GoneOn, ZenonT(60) DEF CallSteps
  <2>5. CallKnows(c)' /\ ~ Funding(c)' /\ ~ Lining(c)'
    BY <1>6, <2>1, <2>3, <2>4, RowStored DEF CallKnows, Funding, Lining, StartReset, Stored
  <2> QED BY <1>6, <2>4, <2>5, CallStep DEF StartReset, chainVars, fixedVars
<1> QED BY <1>1, <1>2, <1>3, <1>4, <1>5, <1>6

\* Requests that write the row.
LEMMA WritingKeeps ==
  ASSUME WalletInv, NEW c \in Caller,
         ClaimFunding(c) \/ RecordFunding(c) \/ ClaimLine(c) \/ RecordLine(c) \/ ResetFunding(c) \/ ResetLine(c)
  PROVE  WalletInv'
<1>0. WalletTypeOK /\ CallKnows(c) /\ DOMAIN call = Caller /\ call[c] \in Calls /\ FundedMarks /\ wallet \in WalletRow
  <2>1. Stored
    BY DEF WalletInv, CallKnows, ClaimFunding, RecordFunding, ClaimLine, RecordLine, ResetFunding, ResetLine, CallAt
  <2> QED BY <2>1 DEF WalletInv, WalletTypeOK, Stored
<1>s. Stored /\ \A w \in WalletRow : w # NoWallet
  BY <1>0, RowStored DEF Stored
<1>a. ~ overlap =>
        /\ \A d \in Caller : Funding(d) => wallet.funding = "in_progress" /\ ~ wallet.fundLapsed
        /\ \A d \in Caller : Lining(d) => wallet.trust = "in_progress" /\ ~ wallet.trustLapsed /\ wallet.funded
        /\ \A d, e \in Caller : Funding(d) /\ Funding(e) => d = e
        /\ \A d, e \in Caller : Lining(d) /\ Lining(e) => d = e
        /\ wallet.funded => wallet.funding = "succeeded"
  <2>1. \A d \in Caller : Lining(d) => wallet.funded
    BY DEF WalletInv, CallKnows, Lining
  <2> QED BY <1>s, <2>1 DEF WalletInv, Leased, AttemptsApart
<1>m. ~ replaced =>
        /\ wallet.funded => wallet.key \in chainAccount
        /\ wallet.trust = "succeeded" => wallet.key \in line
  BY <1>s DEF WalletInv, MarksAreReal
<1>f. overlap \in BOOLEAN
  BY <1>0 DEF WalletTypeOK
<1>1. CASE ClaimFunding(c)
  <2>0. call[c].step = "unfunded" /\ UNCHANGED <<chainAccount, line, used, mainnet, replaced, overlap>>
    BY <1>1 DEF ClaimFunding, CallAt, chainVars, fixedVars
  <2>1. CASE /\ wallet.funding \in {"pending", "failed"} \/ (wallet.funding = "in_progress" /\ wallet.fundLapsed)
             /\ wallet' = [wallet EXCEPT !.funding = "in_progress", !.fundLapsed = FALSE]
             /\ call' = [call EXCEPT ![c].step = "funding"]
    <3>1. /\ wallet' \in WalletRow /\ wallet'.key = wallet.key /\ wallet'.funded = wallet.funded
          /\ wallet'.trust = wallet.trust /\ wallet'.trustLapsed = wallet.trustLapsed
          /\ wallet'.funding = "in_progress" /\ ~ wallet'.fundLapsed
      BY <1>0, <2>1 DEF WalletRow
    <3>2. /\ call' \in [Caller -> Calls] /\ \A d \in Caller \ {c} : call'[d] = call[d]
          /\ call'[c].step = "funding" /\ call'[c].row = call[c].row
      BY <1>0, <2>1, Turns DEF CallSteps
    <3>3. CallKnows(c)'
      BY <1>0, <1>s, <2>0, <3>1, <3>2 DEF CallKnows, Stored
    <3>4. ~ overlap => ~ wallet.funded /\ \A d \in Caller : ~ Funding(d)
      BY <1>a, <2>1
    <3>5. \A d \in Caller : (Lining(d)' => Lining(d)) /\ (Funding(d)' => Funding(d) \/ d = c)
      BY <3>2 DEF Lining, Funding
    <3> QED BY <1>0, <1>a, <1>f, <2>0, <3>1, <3>2, <3>3, <3>4, <3>5, RowStep
  <2>2. CASE Done(c) /\ UNCHANGED wallet
    <3>1. /\ call' \in [Caller -> Calls] /\ \A d \in Caller \ {c} : call'[d] = call[d]
          /\ call'[c].step = "idle"
      BY <1>0, <2>2, CallEnded
    <3>2. CallKnows(c)' /\ ~ Funding(c)' /\ ~ Lining(c)'
      BY <3>1 DEF CallKnows, Funding, Lining
    <3> QED BY <2>0, <2>2, <3>1, <3>2, CallStep
  <2> QED BY <1>1, <2>1, <2>2 DEF ClaimFunding
<1>2. CASE RecordFunding(c)
  <2>0. /\ call[c].step = "fund result" /\ UNCHANGED <<chainAccount, line, used, mainnet, replaced, overlap>>
        /\ Funding(c)
    BY <1>2 DEF RecordFunding, CallAt, chainVars, fixedVars, Funding
  <2>a. ~ overlap => ~ wallet.funded /\ (\A d \in Caller : Funding(d) => d = c) /\ (\A d \in Caller : ~ Lining(d))
    BY <1>a, <2>0
  <2>1. CASE call[c].ok
    <3>1. wallet' = [wallet EXCEPT !.funded = TRUE, !.funding = "succeeded", !.trust = "pending"]
      BY <1>2, <2>1 DEF RecordFunding
    <3>2. /\ wallet' \in WalletRow /\ wallet'.key = wallet.key /\ wallet'.funded
          /\ wallet'.trust = "pending" /\ wallet'.funding = "succeeded"
      BY <1>0, <3>1 DEF WalletRow
    <3>3. GoOn(c, "trustless", Copy(wallet')) /\ Copy(wallet') \in RowCopy /\ Copy(wallet').key = wallet'.key
      BY <1>2, <2>1, <3>2, CopyType DEF RecordFunding
    <3>4. /\ call' \in [Caller -> Calls] /\ \A d \in Caller \ {c} : call'[d] = call[d]
          /\ call'[c].step = "trustless" /\ call'[c].row = Copy(wallet')
      <4>1. PICK row \in RowCopy : row = Copy(wallet')
        BY <3>3
      <4>2. GoOn(c, "trustless", row)
        BY <3>3, <4>1 DEF GoOn
      <4>3. /\ call' \in [Caller -> Calls] /\ \A d \in Caller \ {c} : call'[d] = call[d]
            /\ call'[c].step = "trustless" /\ call'[c].row = row
        <5>1. "trustless" \in CallSteps /\ row \in {NoWallet} \cup RowCopy
          BY DEF CallSteps
        <5> QED BY <1>0, <4>2, <5>1, GoneOn
      <4> QED BY <4>1, <4>3
    <3>5. CallKnows(c)'
      BY <1>0, <1>s, <3>2, <3>3, <3>4 DEF CallKnows, Stored
    <3>6. \A d \in Caller : (Lining(d)' => Lining(d)) /\ (Funding(d)' => Funding(d) /\ d # c)
      BY <3>4 DEF Lining, Funding
    <3>7. ~ replaced => wallet.key \in chainAccount
      BY <1>0, <2>0, <2>1 DEF CallKnows
    <3> QED BY <1>0, <1>f, <2>0, <2>a, <3>2, <3>4, <3>5, <3>6, <3>7, RowStep
  <2>2. CASE ~ call[c].ok
    <3>1. wallet' = [wallet EXCEPT !.funding = "failed"] /\ Done(c)
      BY <1>2, <2>2 DEF RecordFunding
    <3>2. /\ wallet' \in WalletRow /\ wallet'.key = wallet.key /\ wallet'.funded = wallet.funded
          /\ wallet'.trust = wallet.trust /\ wallet'.funding = "failed"
      BY <1>0, <3>1 DEF WalletRow
    <3>3. /\ call' \in [Caller -> Calls] /\ \A d \in Caller \ {c} : call'[d] = call[d]
          /\ call'[c].step = "idle"
      BY <1>0, <3>1, CallEnded
    <3>4. CallKnows(c)'
      BY <3>3 DEF CallKnows
    <3>5. \A d \in Caller : (Lining(d)' => Lining(d)) /\ (Funding(d)' => Funding(d) /\ d # c)
      BY <3>3 DEF Lining, Funding
    <3> QED BY <1>0, <1>f, <2>0, <2>a, <3>2, <3>3, <3>4, <3>5, RowStep
  <2> QED BY <2>1, <2>2
<1>3. CASE ClaimLine(c)
  <2>0. call[c].step = "trustless" /\ UNCHANGED <<chainAccount, line, used, mainnet, replaced, overlap>>
    BY <1>3 DEF ClaimLine, CallAt, chainVars, fixedVars
  <2>1. CASE /\ wallet.trust \in {"pending", "blocked", "failed"} \/ (wallet.trust = "in_progress" /\ wallet.trustLapsed)
             /\ wallet' = [wallet EXCEPT !.trust = "in_progress", !.trustLapsed = FALSE,
                                         !.tries = IF @ < MaxTries THEN @ + 1 ELSE @]
             /\ call' = [call EXCEPT ![c].step = "lining"]
    <3>0. PICK tries \in 0 .. MaxTries : tries = IF wallet.tries < MaxTries THEN wallet.tries + 1 ELSE wallet.tries
      BY <1>0, WalletAssumption DEF WalletRow
    <3>1. /\ wallet' \in WalletRow /\ wallet'.key = wallet.key /\ wallet'.funded = wallet.funded
          /\ wallet'.trust = "in_progress" /\ ~ wallet'.trustLapsed
          /\ wallet'.funding = wallet.funding /\ wallet'.fundLapsed = wallet.fundLapsed
      <4>1. wallet' = [wallet EXCEPT !.trust = "in_progress", !.trustLapsed = FALSE, !.tries = tries]
        BY <1>0, <2>1, <3>0 DEF WalletRow
      <4> QED BY <1>0, <3>0, <4>1 DEF WalletRow
    <3>2. /\ call' \in [Caller -> Calls] /\ \A d \in Caller \ {c} : call'[d] = call[d]
          /\ call'[c].step = "lining" /\ call'[c].row = call[c].row
      BY <1>0, <2>1, Turns DEF CallSteps
    <3>3. CallKnows(c)'
      BY <1>0, <1>s, <2>0, <3>1, <3>2 DEF CallKnows, Stored
    <3>4. ~ overlap => \A d \in Caller : ~ Lining(d)
      BY <1>a, <2>1
    <3>5. \A d \in Caller : (Lining(d)' => Lining(d) \/ d = c) /\ (Funding(d)' => Funding(d))
      BY <3>2 DEF Lining, Funding
    <3>6. wallet'.funding = "succeeded" => wallet'.funded
      BY <1>0, <1>s, <3>1 DEF FundedMarks
    <3> QED BY <1>0, <1>a, <1>f, <1>m, <2>0, <3>1, <3>2, <3>3, <3>4, <3>5, <3>6, RowStep
  <2>2. CASE Done(c) /\ UNCHANGED wallet
    <3>1. /\ call' \in [Caller -> Calls] /\ \A d \in Caller \ {c} : call'[d] = call[d]
          /\ call'[c].step = "idle"
      BY <1>0, <2>2, CallEnded
    <3>2. CallKnows(c)' /\ ~ Funding(c)' /\ ~ Lining(c)'
      BY <3>1 DEF CallKnows, Funding, Lining
    <3> QED BY <2>0, <2>2, <3>1, <3>2, CallStep
  <2> QED BY <1>3, <2>1, <2>2 DEF ClaimLine
<1>4. CASE RecordLine(c)
  <2>0. /\ call[c].step = "line result" /\ UNCHANGED <<chainAccount, line, used, mainnet, replaced, overlap>>
        /\ Lining(c) /\ Done(c)
    BY <1>4 DEF RecordLine, CallAt, chainVars, fixedVars, Lining
  <2>1. PICK trust \in {"succeeded", "pending", "failed"} :
          /\ wallet' = [wallet EXCEPT !.trust = trust]
          /\ trust = "succeeded" => call[c].ok
    <3>1. PICK trust : trust = IF call[c].ok THEN "succeeded"
                               ELSE IF call[c].retry /\ call[c].row.tries < MaxTries THEN "pending" ELSE "failed"
      OBVIOUS
    <3>2. wallet' = [wallet EXCEPT !.trust = trust]
      BY <1>4, <3>1 DEF RecordLine
    <3> QED BY <3>1, <3>2
  <2>2. /\ wallet' \in WalletRow /\ wallet'.key = wallet.key /\ wallet'.funded = wallet.funded
        /\ wallet'.trust = trust /\ wallet'.funding = wallet.funding /\ wallet'.fundLapsed = wallet.fundLapsed
    BY <1>0, <2>1 DEF WalletRow
  <2>3. /\ call' \in [Caller -> Calls] /\ \A d \in Caller \ {c} : call'[d] = call[d]
        /\ call'[c].step = "idle"
    BY <1>0, <2>0, CallEnded
  <2>4. CallKnows(c)'
    BY <2>3 DEF CallKnows
  <2>5. \A d \in Caller : (Lining(d)' => Lining(d) /\ d # c) /\ (Funding(d)' => Funding(d))
    BY <2>3 DEF Lining, Funding
  <2>6. ~ replaced /\ trust = "succeeded" => wallet.key \in line
    BY <1>0, <2>0, <2>1 DEF CallKnows
  <2>7. wallet'.funding = "succeeded" => wallet'.funded
    BY <1>0, <1>s, <2>2 DEF FundedMarks
  <2> QED BY <1>0, <1>a, <1>f, <2>0, <2>2, <2>3, <2>4, <2>5, <2>6, <2>7, RowStep
<1>5. CASE ResetFunding(c)
  <2>0. /\ call[c].step = "reset funding" /\ UNCHANGED <<chainAccount, line, used, mainnet, replaced>>
        /\ wallet' = [wallet EXCEPT !.funding = "pending", !.fundLapsed = FALSE]
        /\ overlap' = (overlap \/ wallet.funding = "succeeded" \/ \E d \in Caller : Funding(d))
        /\ call' = [call EXCEPT ![c].step = "reset line"]
    BY <1>5 DEF ResetFunding, CallAt, chainVars, fixedVars
  <2>1. /\ wallet' \in WalletRow /\ wallet'.key = wallet.key /\ wallet'.funded = wallet.funded
        /\ wallet'.trust = wallet.trust /\ wallet'.trustLapsed = wallet.trustLapsed /\ wallet'.funding = "pending"
    BY <1>0, <2>0 DEF WalletRow
  <2>2. /\ call' \in [Caller -> Calls] /\ \A d \in Caller \ {c} : call'[d] = call[d]
        /\ call'[c].step = "reset line" /\ call'[c].row = call[c].row
    BY <1>0, <2>0, Turns DEF CallSteps
  <2>3. CallKnows(c)'
    BY <1>0, <1>s, <2>0, <2>1, <2>2 DEF CallKnows, Stored
  <2>4. \A d \in Caller : (Lining(d)' => Lining(d)) /\ (Funding(d)' => Funding(d))
    BY <2>2 DEF Lining, Funding
  <2>5. overlap' \in BOOLEAN
    <3>1. (overlap \/ wallet.funding = "succeeded" \/ \E d \in Caller : Funding(d)) \in BOOLEAN
      OBVIOUS
    <3> QED BY <2>0, <3>1, Zenon
  <2>6. ~ overlap' => ~ overlap /\ wallet.funding # "succeeded" /\ \A d \in Caller : ~ Funding(d)
    BY <2>0
  <2> QED BY <1>0, <1>a, <1>m, <2>0, <2>1, <2>2, <2>3, <2>4, <2>5, <2>6, RowStep
<1>6. CASE ResetLine(c)
  <2>0. /\ call[c].step = "reset line" /\ UNCHANGED <<chainAccount, line, used, mainnet, replaced>>
        /\ GoOn(c, "found", NoWallet)
    BY <1>6 DEF ResetLine, CallAt, chainVars, fixedVars
  <2>1. /\ call' \in [Caller -> Calls] /\ \A d \in Caller \ {c} : call'[d] = call[d]
        /\ call'[c].step = "found"
    BY <1>0, <2>0, GoneOn DEF CallSteps
  <2>2. \A d \in Caller : (Lining(d)' => Lining(d)) /\ (Funding(d)' => Funding(d))
    BY <2>1 DEF Lining, Funding
  <2>3. CASE call[c].row.trusted
    <3>1. UNCHANGED <<wallet, overlap>>
      BY <1>6, <2>3 DEF ResetLine
    <3>2. CallKnows(c)'
      BY <1>s, <2>1, <3>1 DEF CallKnows, Stored
    <3> QED BY <2>0, <2>1, <2>2, <3>1, <3>2, CallStep
  <2>4. CASE ~ call[c].row.trusted
    <3>0. /\ wallet' = [wallet EXCEPT !.trust = "pending", !.tries = 0, !.trustLapsed = FALSE]
          /\ overlap' = (overlap \/ \E d \in Caller : Lining(d))
      BY <1>6, <2>4 DEF ResetLine
    <3>1. /\ wallet' \in WalletRow /\ wallet'.key = wallet.key /\ wallet'.funded = wallet.funded
          /\ wallet'.trust = "pending" /\ wallet'.funding = wallet.funding /\ wallet'.fundLapsed = wallet.fundLapsed
      <4>1. 0 \in 0 .. MaxTries
        BY WalletAssumption
      <4> QED BY <1>0, <3>0, <4>1 DEF WalletRow
    <3>2. CallKnows(c)'
      BY <1>s, <2>1, <3>1 DEF CallKnows, Stored
    <3>3. overlap' \in BOOLEAN
      <4>1. (overlap \/ \E d \in Caller : Lining(d)) \in BOOLEAN
        OBVIOUS
      <4> QED BY <3>0, <4>1, Zenon
    <3>4. ~ overlap' => ~ overlap /\ \A d \in Caller : ~ Lining(d)
      BY <3>0
    <3>5. wallet'.funding = "succeeded" => wallet'.funded
      BY <1>0, <1>s, <3>1 DEF FundedMarks
    <3> QED BY <1>0, <1>a, <1>m, <2>0, <2>1, <2>2, <3>1, <3>2, <3>3, <3>4, <3>5, RowStep
  <2> QED BY <2>3, <2>4
<1> QED BY <1>1, <1>2, <1>3, <1>4, <1>5, <1>6

\* A wallet is created, or keeps the one that was; leases lapse; a recovery
\* replaces the key pair.
LEMMA NextWalletInv == WalletInv /\ [WalletNext]_walletVars => WalletInv'
<1> SUFFICES ASSUME WalletInv, [WalletNext]_walletVars PROVE WalletInv'
  OBVIOUS
<1>0. WalletTypeOK /\ FundedMarks /\ overlap \in BOOLEAN
  BY DEF WalletInv, WalletTypeOK
<1>a. wallet \in WalletRow /\ ~ overlap =>
        /\ \A d \in Caller : Funding(d) => wallet.funding = "in_progress" /\ ~ wallet.fundLapsed
        /\ \A d \in Caller : Lining(d) => wallet.trust = "in_progress" /\ ~ wallet.trustLapsed
        /\ \A d, e \in Caller : Funding(d) /\ Funding(e) => d = e
        /\ \A d, e \in Caller : Lining(d) /\ Lining(e) => d = e
        /\ wallet.funded => wallet.funding = "succeeded"
  BY RowStored DEF WalletInv, Leased, AttemptsApart, Stored
<1>m. wallet \in WalletRow /\ ~ replaced =>
        /\ wallet.funded => wallet.key \in chainAccount
        /\ wallet.trust = "succeeded" => wallet.key \in line
  BY RowStored DEF WalletInv, MarksAreReal, Stored
<1>1. ASSUME NEW c \in Caller, NEW k \in Key, Create(c, k) PROVE WalletInv'
  <2>0. UNCHANGED <<chainAccount, line, mainnet, replaced, overlap>>
    BY <1>1 DEF Create, chainVars, fixedVars
  <2>1. CASE Stored
    <3>1. Done(c) /\ UNCHANGED wallet
      BY <1>1, <2>1 DEF Create
    <3>2. /\ call' \in [Caller -> Calls] /\ \A d \in Caller \ {c} : call'[d] = call[d]
          /\ call'[c].step = "idle"
      BY <1>0, <3>1, CallEnded
    <3>3. CallKnows(c)' /\ ~ Funding(c)' /\ ~ Lining(c)'
      BY <3>2 DEF CallKnows, Funding, Lining
    <3> QED BY <2>0, <3>1, <3>2, <3>3, CallStep
  <2>2. CASE ~ Stored
    <3>1. wallet' = NewRow(k) /\ GoOn(c, "found", NoWallet)
      BY <1>1, <2>2 DEF Create
    <3>2. /\ wallet' \in WalletRow /\ ~ wallet'.funded /\ wallet'.funding = "pending" /\ wallet'.trust = "pending"
      BY <3>1, WalletAssumption DEF NewRow, WalletRow
    <3>3. /\ call' \in [Caller -> Calls] /\ \A d \in Caller \ {c} : call'[d] = call[d]
          /\ call'[c].step = "found"
      BY <1>0, <3>1, GoneOn DEF CallSteps
    <3>4. Stored'
      BY <3>2, RowStored DEF Stored
    <3>5. ASSUME NEW d \in Caller PROVE CallKnows(d)' /\ ~ Funding(d)' /\ ~ Lining(d)'
      <4>1. CASE d = c
        BY <3>3, <3>4, <4>1 DEF CallKnows, Funding, Lining
      <4>2. CASE d # c
        <5>1. call'[d].step \in {"idle", "creating"}
          BY <2>2, <3>3, <4>2 DEF WalletInv, CallKnows
        <5> QED BY <5>1 DEF CallKnows, Funding, Lining
      <4> QED BY <4>1, <4>2
    <3>6. WalletTypeOK' /\ FundedMarks' /\ AttemptsApart' /\ MarksAreReal'
      BY <1>0, <2>0, <3>2, <3>3, <3>4, <3>5 DEF WalletTypeOK, FundedMarks, AttemptsApart, MarksAreReal
    <3>7. \A d \in Caller : Leased(d)'
      BY <3>5 DEF Leased
    <3> QED BY <3>5, <3>6, <3>7 DEF WalletInv
  <2> QED BY <2>1, <2>2
<1>2. CASE FundingLapses
  <2>0. /\ wallet' = [wallet EXCEPT !.fundLapsed = TRUE] /\ wallet \in WalletRow
        /\ overlap' = (overlap \/ \E c \in Caller : Funding(c))
        /\ UNCHANGED <<chainAccount, line, call, mainnet, replaced>>
    BY <1>0, <1>2 DEF FundingLapses, chainVars, fixedVars, WalletTypeOK, Stored
  <2>1. /\ wallet' \in WalletRow /\ wallet'.key = wallet.key /\ wallet'.funded = wallet.funded
        /\ wallet'.trust = wallet.trust /\ wallet'.trustLapsed = wallet.trustLapsed /\ wallet'.funding = wallet.funding
    BY <2>0 DEF WalletRow
  <2>2. overlap' \in BOOLEAN
    <3>1. (overlap \/ \E c \in Caller : Funding(c)) \in BOOLEAN
      OBVIOUS
    <3> QED BY <2>0, <3>1, Zenon
  <2>3. ~ overlap' => ~ overlap /\ \A d \in Caller : ~ Funding(d)
    BY <2>0
  <2>4. \A d \in Caller : (Lining(d)' <=> Lining(d)) /\ (Funding(d)' <=> Funding(d))
    BY <2>0 DEF Lining, Funding
  <2>5. (wallet'.funding = "succeeded" => wallet'.funded) /\ call' \in [Caller -> Calls]
    BY <1>0, <2>0, <2>1, RowStored DEF FundedMarks, Stored, WalletTypeOK
  <2> QED BY <1>a, <1>m, <2>0, <2>1, <2>2, <2>3, <2>4, <2>5, RowStep
<1>3. CASE LineLapses
  <2>0. /\ wallet' = [wallet EXCEPT !.trustLapsed = TRUE] /\ wallet \in WalletRow
        /\ overlap' = (overlap \/ \E c \in Caller : Lining(c))
        /\ UNCHANGED <<chainAccount, line, call, mainnet, replaced>>
    BY <1>0, <1>3 DEF LineLapses, chainVars, fixedVars, WalletTypeOK, Stored
  <2>1. /\ wallet' \in WalletRow /\ wallet'.key = wallet.key /\ wallet'.funded = wallet.funded
        /\ wallet'.trust = wallet.trust /\ wallet'.fundLapsed = wallet.fundLapsed /\ wallet'.funding = wallet.funding
    BY <2>0 DEF WalletRow
  <2>2. overlap' \in BOOLEAN
    <3>1. (overlap \/ \E c \in Caller : Lining(c)) \in BOOLEAN
      OBVIOUS
    <3> QED BY <2>0, <3>1, Zenon
  <2>3. ~ overlap' => ~ overlap /\ \A d \in Caller : ~ Lining(d)
    BY <2>0
  <2>4. \A d \in Caller : (Lining(d)' <=> Lining(d)) /\ (Funding(d)' <=> Funding(d))
    BY <2>0 DEF Lining, Funding
  <2>5. (wallet'.funding = "succeeded" => wallet'.funded) /\ call' \in [Caller -> Calls]
    BY <1>0, <2>0, <2>1, RowStored DEF FundedMarks, Stored, WalletTypeOK
  <2> QED BY <1>a, <1>m, <2>0, <2>1, <2>2, <2>3, <2>4, <2>5, RowStep
<1>4. ASSUME NEW k \in Key, ReplaceKey(k) PROVE WalletInv'
  <2>0. /\ wallet' = [wallet EXCEPT !.key = k] /\ wallet \in WalletRow /\ replaced' = TRUE
        /\ UNCHANGED <<chainAccount, line, call, mainnet, overlap>>
    BY <1>0, <1>4 DEF ReplaceKey, chainVars, WalletTypeOK, Stored
  <2>1. /\ wallet' \in WalletRow /\ wallet'.funded = wallet.funded /\ wallet'.funding = wallet.funding
        /\ wallet'.fundLapsed = wallet.fundLapsed /\ wallet'.trust = wallet.trust
        /\ wallet'.trustLapsed = wallet.trustLapsed
    BY <2>0 DEF WalletRow
  <2>2. Stored /\ Stored'
    BY <2>0, <2>1, RowStored DEF Stored
  <2>3. WalletTypeOK' /\ FundedMarks' /\ MarksAreReal'
    BY <1>0, <2>0, <2>1, <2>2 DEF WalletTypeOK, FundedMarks, MarksAreReal
  <2>4. \A d \in Caller : (Lining(d)' <=> Lining(d)) /\ (Funding(d)' <=> Funding(d))
    BY <2>0 DEF Lining, Funding
  <2>5. \A d \in Caller : CallKnows(d)'
    BY <2>0, <2>1, <2>2 DEF CallKnows, WalletInv
  <2>6. AttemptsApart' /\ \A d \in Caller : Leased(d)'
    BY <1>a, <2>0, <2>1, <2>4 DEF AttemptsApart, Leased
  <2> QED BY <2>3, <2>5, <2>6 DEF WalletInv
<1>5. CASE UNCHANGED walletVars
  BY <1>5 DEF walletVars, WalletInv, WalletTypeOK, FundedMarks, CallKnows, Leased, AttemptsApart, MarksAreReal, Stored,
    Funding, Lining
<1> QED BY <1>1, <1>2, <1>3, <1>4, <1>5, LookingKeeps, WritingKeeps DEF WalletNext

\* The invariant of the wallet holds in every state.
LEMMA WalletInvariant == WalletSpec => []WalletInv
<1>1. WalletInit => WalletInv
  <2> SUFFICES ASSUME WalletInit PROVE WalletInv
    OBVIOUS
  <2>1. NoProvisioning \in Calls /\ NoProvisioning.step = "idle"
    BY DEF NoProvisioning, Calls, CallSteps
  <2> QED BY <2>1 DEF WalletInit, WalletInv, WalletTypeOK, FundedMarks, CallKnows, Leased, AttemptsApart, MarksAreReal,
    Stored
<1> QED BY <1>1, NextWalletInv, PTL DEF WalletSpec

\* What the row says of the wallet is so, for any requests that provision it.
THEOREM SpecWalletTells == WalletSpec => []WalletTells
<1>1. WalletInv => WalletTells
  BY DEF WalletInv, WalletTells
<1> QED BY <1>1, WalletInvariant, PTL

-----------------------------------------------------------------------------
(* The keys of wallets. *)

Boxes == [secret : Secret, label : Versions, material : Versions]
KeyRows == [address : Secret, box : Boxes, version : Versions, provenance : {"verified", "assumed"}]
NotRotating == [step |-> "idle"]

KeyTypeOK ==
  /\ key \in KeyRows
  /\ rotating \in [Rotator -> {NotRotating} \cup [step : {"api", "script"}, row : KeyRows]]
  /\ deploy \in [api : {{"v1"}, Versions}, script : {{"v1"}, Versions}]
  /\ crossed \in BOOLEAN /\ mixed \in BOOLEAN

\* While every version written was known to both processes, the secret is under
\* a version the API has, and under that version's key.
LabelKnown == mixed \/ (key.box.label \in deploy.api /\ key.box.material = key.box.label)

KeyInv == KeyTypeOK /\ LabelKnown /\ SecretOfAddress

\* What a process encrypts is a box, and its own label's if it knows the version.
LEMMA Encrypted ==
  ASSUME NEW secret \in Secret, NEW v \in Versions, NEW known
  PROVE  /\ Encrypt(secret, v, known) \in Boxes
         /\ Encrypt(secret, v, known).secret = secret /\ Encrypt(secret, v, known).label = v
         /\ v \in known => Encrypt(secret, v, known).material = v
<1>1. PICK m \in Versions : m = Material(v, known)
  BY DEF Material, Versions
<1>2. Encrypt(secret, v, known) = [secret |-> secret, label |-> v, material |-> m]
  BY <1>1 DEF Encrypt, Box
<1>3. v \in known => m = v
  BY <1>1 DEF Material
<1> QED BY <1>2, <1>3 DEF Boxes

\* Deployments, rotations, recoveries and payments, step by step.
LEMMA NextKeyInv == KeyInv /\ [KeyNext]_keyVars => KeyInv'
<1> SUFFICES ASSUME KeyInv, [KeyNext]_keyVars PROVE KeyInv'
  OBVIOUS
<1>0. KeyTypeOK /\ LabelKnown /\ SecretOfAddress
  BY DEF KeyInv
<1>1. ASSUME NEW process \in {"api", "script"}, Deploy(process) PROVE KeyInv'
  <2>1. deploy' \in [api : {{"v1"}, Versions}, script : {{"v1"}, Versions}] /\ deploy.api \subseteq deploy'.api
    <3>1. CASE process = "api"
      BY <1>0, <1>1, <3>1 DEF Deploy, KeyTypeOK, Versions
    <3>2. CASE process = "script"
      BY <1>0, <1>1, <3>2 DEF Deploy, KeyTypeOK, Versions
    <3> QED BY <3>1, <3>2
  <2>2. rotating' \in [Rotator -> {NotRotating} \cup [step : {"api", "script"}, row : KeyRows]]
    BY <1>0, <1>1 DEF Deploy, KeyTypeOK, NotRotating
  <2> QED BY <1>0, <1>1, <2>1, <2>2 DEF Deploy, KeyInv, KeyTypeOK, LabelKnown, SecretOfAddress
<1>2. ASSUME NEW r \in Rotator, RotateRead(r) \/ \E v \in Versions : ScriptRead(r, v) PROVE KeyInv'
  <2>1. rotating' \in [Rotator -> {NotRotating} \cup [step : {"api", "script"}, row : KeyRows]]
    BY <1>0, <1>2 DEF RotateRead, ScriptRead, KeyTypeOK
  <2>2. UNCHANGED <<key, deploy, signed, crossed, mixed>>
    BY <1>2 DEF RotateRead, ScriptRead
  <2> QED BY <1>0, <2>1, <2>2 DEF KeyInv, KeyTypeOK, LabelKnown, SecretOfAddress
<1>3. ASSUME NEW r \in Rotator, NEW target \in Versions, RotateWrite(r, target) PROVE KeyInv'
  <2>0. /\ rotating[r] \in [step : {"api", "script"}, row : KeyRows] /\ deploy' = deploy /\ signed' = signed
        /\ rotating' = [rotating EXCEPT ![r] = NotRotating]
    BY <1>0, <1>3 DEF RotateWrite, KeyTypeOK, NotRotating
  <2>1. rotating' \in [Rotator -> {NotRotating} \cup [step : {"api", "script"}, row : KeyRows]]
    BY <1>0, <2>0 DEF KeyTypeOK
  <2>2. PICK process \in {"api", "script"} : process = rotating[r].step
    BY <2>0
  <2>3. PICK box \in Boxes : box = rotating[r].row.box
    BY <2>0 DEF KeyRows
  <2>4. CASE ~ Readable(box, deploy[process])
    <3>1. UNCHANGED <<key, crossed, mixed>>
      BY <1>3, <2>2, <2>3, <2>4 DEF RotateWrite
    <3> QED BY <1>0, <2>0, <2>1, <3>1 DEF KeyInv, KeyTypeOK, LabelKnown, SecretOfAddress
  <2>5. CASE Readable(box, deploy[process])
    <3>1. PICK new : new = Encrypt(box.secret, target, deploy[process])
      OBVIOUS
    <3>2. /\ new \in Boxes /\ new.secret = box.secret /\ new.label = target
          /\ target \in deploy[process] => new.material = target
      <4>1. box.secret \in Secret
        BY DEF Boxes
      <4> QED BY <3>1, <4>1, Encrypted
    <3>3. PICK version \in Versions : version = IF process = "script" THEN target ELSE key.version
      BY <1>0 DEF KeyTypeOK, KeyRows
    <3>4. /\ key' = [key EXCEPT !.box = new, !.version = version]
          /\ crossed' = (crossed \/ box.secret # key.address)
          /\ mixed' = (mixed \/ ~ ({target} \subseteq deploy.api \cap deploy.script))
      BY <1>3, <2>2, <2>3, <2>5, <3>1, <3>3 DEF RotateWrite
    <3>5. key' \in KeyRows /\ key'.box = new /\ key'.address = key.address
      BY <1>0, <3>2, <3>3, <3>4 DEF KeyTypeOK, KeyRows
    <3>6. crossed' \in BOOLEAN /\ mixed' \in BOOLEAN
      <4>1. (crossed \/ box.secret # key.address) \in BOOLEAN
        OBVIOUS
      <4>2. (mixed \/ ~ ({target} \subseteq deploy.api \cap deploy.script)) \in BOOLEAN
        OBVIOUS
      <4> QED BY <3>4, <4>1, <4>2, Zenon
    <3>7. SecretOfAddress'
      BY <1>0, <2>0, <3>2, <3>4, <3>5 DEF SecretOfAddress
    <3>8. LabelKnown'
      <4> SUFFICES ASSUME ~ mixed' PROVE key'.box.label \in deploy'.api /\ key'.box.material = key'.box.label
        BY DEF LabelKnown
      <4>1. target \in deploy.api /\ target \in deploy.script
        BY <3>4
      <4>2. target \in deploy[process]
        BY <4>1, <2>2
      <4> QED BY <2>0, <3>2, <3>5, <4>1, <4>2
    <3> QED BY <1>0, <2>0, <2>1, <3>5, <3>6, <3>7, <3>8 DEF KeyInv, KeyTypeOK
  <2> QED BY <2>4, <2>5
<1>4. ASSUME NEW k \in Secret, CompleteRecovery(k) PROVE KeyInv'
  <2>1. PICK v \in deploy.api : key' = [key EXCEPT !.address = k, !.box = Encrypt(k, v, deploy.api)]
    BY <1>4 DEF CompleteRecovery
  <2>2. v \in Versions
    BY <1>0 DEF KeyTypeOK, Versions
  <2>3. PICK new : new = Encrypt(k, v, deploy.api)
    OBVIOUS
  <2>4. new \in Boxes /\ new.secret = k /\ new.label = v /\ new.material = v
    BY <2>2, <2>3, Encrypted
  <2>5. key' \in KeyRows /\ key'.box = new /\ key'.address = k
    <3>1. key' = [key EXCEPT !.address = k, !.box = new]
      BY <2>1, <2>3
    <3> QED BY <1>0, <2>4, <3>1 DEF KeyTypeOK, KeyRows
  <2>6. UNCHANGED <<rotating, deploy, signed, crossed, mixed>>
    BY <1>4 DEF CompleteRecovery
  <2> QED BY <1>0, <2>4, <2>5, <2>6 DEF KeyInv, KeyTypeOK, LabelKnown, SecretOfAddress
<1>5. CASE Sign
  <2>1. signed' = signed \cup {<<key.address, key.box.secret>>} /\ UNCHANGED <<key, rotating, deploy, crossed, mixed>>
    BY <1>5 DEF Sign
  <2> QED BY <1>0, <2>1 DEF KeyInv, KeyTypeOK, LabelKnown, SecretOfAddress
<1>6. CASE CoolOff \/ (\E bypass \in BOOLEAN : StartRecovery(bypass)) \/ UNCHANGED keyVars
  <2>1. UNCHANGED <<key, rotating, deploy, signed, crossed, mixed>>
    BY <1>6 DEF CoolOff, StartRecovery, keyVars
  <2> QED BY <1>0, <2>1 DEF KeyInv, KeyTypeOK, LabelKnown, SecretOfAddress
<1> QED BY <1>1, <1>2, <1>3, <1>4, <1>5, <1>6 DEF KeyNext

\* The invariant of the keys holds in every state.
LEMMA KeyInvariant == KeySpec => []KeyInv
<1>1. KeyInit => KeyInv
  <2> SUFFICES ASSUME KeyInit PROVE KeyInv
    OBVIOUS
  <2>1. PICK k \in Secret, provenance \in {"verified", "assumed"} : key = KeyRow(k, provenance)
    BY DEF KeyInit
  <2>2. PICK box : box = Encrypt(k, "v1", {"v1"})
    OBVIOUS
  <2>3. box \in Boxes /\ box.secret = k /\ box.label = "v1" /\ box.material = "v1"
    BY <2>2, Encrypted DEF Versions
  <2>4. key = [address |-> k, box |-> box, version |-> "v1", provenance |-> provenance]
    BY <2>1, <2>2 DEF KeyRow
  <2>5. key \in KeyRows /\ key.box = box /\ key.address = k
    BY <2>3, <2>4 DEF KeyRows, Versions
  <2> QED BY <2>3, <2>5 DEF KeyInit, KeyInv, KeyTypeOK, LabelKnown, SecretOfAddress, NotRotating
<1> QED BY <1>1, NextKeyInv, PTL DEF KeySpec

\* The wallet can be paid from, but after a rotation that crossed a recovery,
\* or a version that a process did not know.
THEOREM SpecKeyServes == KeySpec => []KeyServes
<1>1. KeyInv => KeyServes
  <2> SUFFICES ASSUME KeyInv PROVE KeyServes
    OBVIOUS
  <2>1. SecretReadable
    BY DEF KeyInv, LabelKnown, SecretReadable, Readable, Material
  <2> QED BY <2>1 DEF KeyInv, KeyServes
<1> QED BY <1>1, KeyInvariant, PTL

-----------------------------------------------------------------------------
(* Erasure and retention. *)

\* What an administrator who acts on a request is doing.
Deciding == {"approving", "denying"}
Erasing == {"checking", "anonymizing", "telling", "failing"}

DeskType ==
  [step : {"idle"} \cup Deciding \cup Erasing, ask : Ask \cup {"none"}, full : BOOLEAN,
   held : SUBSET Hold, todo : SUBSET Provider]
AskType ==
  [status : {"none", "pending", "denied", "in_progress", "completed", "failed"},
   taken : BOOLEAN, snapshot : BOOLEAN]
TaskType ==
  [status : {"none", "pending", "success", "skipped", "failed"}, tries : Nat,
   deleted : {"nobody", "customer"}]

PrivacyTypeOK ==
  /\ tolerant \in BOOLEAN /\ anonymized \in BOOLEAN
  /\ hold \in [Hold -> {"none", "active", "released", "expired"}]
  /\ ask \in [Ask -> AskType]
  /\ officer \in [Officer -> DeskType]
  /\ task \in [Ask -> [Provider -> TaskType]]
  /\ hurried \subseteq Ask
  /\ old \in [Old -> {"live", "finished", "redact", "delete"}]
  /\ swept \in [on : BOOLEAN, held : SUBSET Hold, unheld : SUBSET Hold, todo : SUBSET Old]
  /\ sweeps \in Nat

\* An administrator at work has a request; a provider that was told has a
\* task; and the holds that were seen are not active when data is anonymized.
DeskHolds(o) ==
  /\ officer[o].step # "idle" => officer[o].ask \in Ask
  /\ officer[o].step = "telling" =>
       anonymized /\ \A p \in Provider \ officer[o].todo : task[officer[o].ask][p].status # "none"
  /\ \A h \in officer[o].held : hold[h] # "none" /\ (officer[o].step = "anonymizing" => hold[h] # "active")

\* A request nobody hurried has one administrator, who finds it pending until
\* the erasure starts, and in progress after.
AskHolds(q) ==
  /\ \A p \in Provider : task[q][p].status # "none" => anonymized
  /\ ask[q].status = "completed" => anonymized /\ \A p \in Provider : task[q][p].status # "none"
  /\ q \notin hurried =>
       /\ ask[q].status \in {"none", "pending", "denied"} => \A p \in Provider : task[q][p].status = "none"
       /\ \A o \in Officer : officer[o].step # "idle" /\ officer[o].ask = q =>
            /\ officer[o].step \in Deciding => ask[q].status = "pending"
            /\ officer[o].step \in Erasing => ask[q].status = "in_progress"
            /\ \A u \in Officer : officer[u].step # "idle" /\ officer[u].ask = q => u = o

PrivacyInv ==
  /\ PrivacyTypeOK
  /\ \A o \in Officer : DeskHolds(o)
  /\ \A q \in Ask : AskHolds(q)
  /\ swept.on => swept.held \cup swept.unheld = Hold

\* A sweep knows every hold it was started under, as protecting or not.
SweepType == [on : BOOLEAN, held : SUBSET Hold, unheld : SUBSET Hold, todo : SUBSET Old]
SweepHolds ==
  /\ old \in [Old -> {"live", "finished", "redact", "delete"}] /\ sweeps \in Nat
  /\ swept \in SweepType /\ (swept.on => swept.held \cup swept.unheld = Hold)

\* An administrator goes on with a request.
LEMMA Works ==
  ASSUME PrivacyInv, NEW o \in Officer, NEW q \in Ask, NEW r \in DeskType,
         officer' = [officer EXCEPT ![o] = r], r.step # "idle" => r.ask = q,
         ask' \in [Ask -> AskType], task' \in [Ask -> [Provider -> TaskType]],
         hurried' \subseteq Ask, anonymized' \in BOOLEAN, anonymized => anonymized',
         \A x \in Ask \ {q} : ask'[x] = ask[x] /\ task'[x] = task[x] /\ (x \in hurried' <=> x \in hurried),
         \A p \in Provider : task[q][p].status # "none" => task'[q][p].status # "none",
         DeskHolds(o)', AskHolds(q)', UNCHANGED <<tolerant, hold, sweepVars>>
  PROVE  PrivacyInv'
<1>1. officer'[o] = r /\ \A u \in Officer \ {o} : officer'[u] = officer[u]
  BY DEF PrivacyInv, PrivacyTypeOK
<1>2. PrivacyTypeOK'
  BY DEF PrivacyInv, PrivacyTypeOK, sweepVars
<1>3. ASSUME NEW u \in Officer \ {o} PROVE DeskHolds(u)'
  <2>1. DeskHolds(u) /\ officer'[u] = officer[u]
    BY <1>1 DEF PrivacyInv
  <2>2. ASSUME officer[u].ask \in Ask, NEW p \in Provider, task[officer[u].ask][p].status # "none"
        PROVE  task'[officer[u].ask][p].status # "none"
    <3>1. CASE officer[u].ask = q
      BY <2>2, <3>1
    <3>2. CASE officer[u].ask # q
      BY <2>2, <3>2
    <3> QED BY <3>1, <3>2
  <2> QED BY <2>1, <2>2 DEF DeskHolds
<1>4. ASSUME NEW x \in Ask \ {q} PROVE AskHolds(x)'
  <2>1. AskHolds(x) /\ ask'[x] = ask[x] /\ task'[x] = task[x] /\ (x \in hurried' <=> x \in hurried)
    BY DEF PrivacyInv
  <2>2. \A u \in Officer : officer'[u].step # "idle" /\ officer'[u].ask = x => u # o /\ officer'[u] = officer[u]
    BY <1>1
  <2>3. ask'[x].status = "completed" => anonymized' /\ \A p \in Provider : task'[x][p].status # "none"
    BY <2>1 DEF AskHolds
  <2>4. ASSUME x \notin hurried'
        PROVE  /\ ask'[x].status \in {"none", "pending", "denied"} => \A p \in Provider : task'[x][p].status = "none"
               /\ \A u \in Officer : officer'[u].step # "idle" /\ officer'[u].ask = x =>
                    /\ officer'[u].step \in Deciding => ask'[x].status = "pending"
                    /\ officer'[u].step \in Erasing => ask'[x].status = "in_progress"
                    /\ \A v \in Officer : officer'[v].step # "idle" /\ officer'[v].ask = x => v = u
    BY <2>1, <2>2, <2>4 DEF AskHolds
  <2>5. \A p \in Provider : task'[x][p].status # "none" => anonymized'
    BY <2>1 DEF AskHolds
  <2> QED BY <2>3, <2>4, <2>5 DEF AskHolds
<1> QED BY <1>2, <1>3, <1>4 DEF PrivacyInv, sweepVars

\* A try at a task leaves a row that is one.
LEMMA TaskTried ==
  ASSUME NEW q, NEW p, NEW full, NEW anew, TryTask(q, p, full, anew), anew \/ task[q][p].tries \in Nat
  PROVE  \E t \in TaskType : t.status # "none" /\ task' = [task EXCEPT ![q][p] = t]
<1>1. PICK tries \in Nat : tries = IF anew THEN 0 ELSE task[q][p].tries
  OBVIOUS
<1>2. PICK status \in {"pending", "success", "skipped", "failed"} :
        task' = [task EXCEPT ![q][p] =
          [status |-> status, tries |-> tries + 1,
           deleted |-> IF status = "success" THEN Deleted(p, full) ELSE "nobody"]]
  BY <1>1 DEF TryTask
<1>3. PICK deleted \in {"nobody", "customer"} :
        deleted = IF status = "success" THEN Deleted(p, full) ELSE "nobody"
  BY DEF Deleted
<1>4. PICK t : t = [status |-> status, tries |-> tries + 1, deleted |-> deleted]
  OBVIOUS
<1>5. t \in TaskType /\ t.status # "none"
  BY <1>4 DEF TaskType
<1> QED BY <1>2, <1>3, <1>4, <1>5

\* Requests, holds and rows at the start.
LEMMA InitPrivacyInv == PrivacyInit => PrivacyInv
<1> SUFFICES ASSUME PrivacyInit PROVE PrivacyInv
  OBVIOUS
<1>1. Desk \in DeskType /\ Desk.step = "idle" /\ Desk.held = {}
  BY DEF Desk, DeskType
<1>2. NoTask \in TaskType /\ NoTask.status = "none"
  BY DEF NoTask, TaskType
<1>3. NoSweep \in SweepType /\ NoSweep.on = FALSE
  BY DEF NoSweep, SweepType
<1>4. /\ ask \in [Ask -> AskType] /\ \A q \in Ask : ask[q].status = "none"
  BY DEF PrivacyInit, AskType
<1>5. /\ officer \in [Officer -> DeskType] /\ \A o \in Officer : officer[o] = Desk
  BY <1>1 DEF PrivacyInit
<1>6. /\ task \in [Ask -> [Provider -> TaskType]]
      /\ \A q \in Ask, p \in Provider : task[q][p] = NoTask
  BY <1>2 DEF PrivacyInit
<1>7. /\ old \in [Old -> {"live", "finished", "redact", "delete"}]
      /\ hold \in [Hold -> {"none", "active", "released", "expired"}]
      /\ swept = NoSweep /\ sweeps \in Nat /\ tolerant \in BOOLEAN /\ anonymized \in BOOLEAN /\ hurried = {}
  BY DEF PrivacyInit
<1>8. PrivacyTypeOK
  BY <1>3, <1>4, <1>5, <1>6, <1>7 DEF PrivacyTypeOK, SweepType
<1>9. \A o \in Officer : DeskHolds(o)
  BY <1>1, <1>5 DEF DeskHolds
<1>10. \A q \in Ask : AskHolds(q)
  BY <1>1, <1>2, <1>4, <1>5, <1>6 DEF AskHolds
<1> QED BY <1>3, <1>7, <1>8, <1>9, <1>10 DEF PrivacyInv

\* Holds, requests, administrators and the sweep, step by step.
LEMMA NextPrivacyInv ==
  PrivacyInv /\ [HoldNext \/ ErasureNext \/ RetentionNext]_privacyVars => PrivacyInv'
<1> SUFFICES ASSUME PrivacyInv, [HoldNext \/ ErasureNext \/ RetentionNext]_privacyVars PROVE PrivacyInv'
  OBVIOUS
<1>0. PrivacyTypeOK /\ (\A o \in Officer : DeskHolds(o)) /\ (\A q \in Ask : AskHolds(q))
  BY DEF PrivacyInv
<1>d. Desk \in DeskType /\ Desk.step = "idle" /\ Desk.held = {}
  BY DEF Desk, DeskType
<1>1. ASSUME NEW h \in Hold, SetLegalHold(h) PROVE PrivacyInv'
  <2>1. hold'[h] = "active" /\ \A g \in Hold \ {h} : hold'[g] = hold[g]
    BY <1>0, <1>1 DEF SetLegalHold, PrivacyTypeOK
  <2>2. ASSUME NEW o \in Officer PROVE DeskHolds(o)'
    <3>1. officer[o].held \subseteq Hold /\ h \notin officer[o].held
      BY <1>0, <1>1 DEF SetLegalHold, DeskHolds, PrivacyTypeOK, DeskType
    <3> QED BY <1>0, <1>1, <2>1, <3>1 DEF SetLegalHold, DeskHolds, erasureVars
  <2>3. PrivacyTypeOK'
    BY <1>0, <1>1 DEF SetLegalHold, PrivacyTypeOK, erasureVars, sweepVars
  <2> QED BY <1>1, <2>2, <2>3 DEF SetLegalHold, PrivacyInv, AskHolds, erasureVars, sweepVars
<1>2. ASSUME HoldNext, \A h \in Hold : ~ SetLegalHold(h) PROVE PrivacyInv'
  <2>1. /\ hold' \in [Hold -> {"none", "active", "released", "expired"}]
        /\ \A h \in Hold : /\ hold'[h] = hold[h] \/ hold'[h] \in {"released", "expired"}
    BY <1>0, <1>2 DEF HoldNext, HoldExpires, ReleaseLegalHolds, PrivacyTypeOK
  <2>2. UNCHANGED <<erasureVars, sweepVars>>
    BY <1>2 DEF HoldNext, HoldExpires, ReleaseLegalHolds
  <2>3. ASSUME NEW o \in Officer PROVE DeskHolds(o)'
    <3>1. officer[o].held \subseteq Hold
      BY <1>0 DEF PrivacyTypeOK, DeskType
    <3> QED BY <1>0, <2>1, <2>2, <3>1 DEF DeskHolds, erasureVars
  <2>4. PrivacyTypeOK'
    BY <1>0, <2>1, <2>2 DEF PrivacyTypeOK, erasureVars, sweepVars
  <2> QED BY <2>2, <2>3, <2>4 DEF PrivacyInv, AskHolds, erasureVars, sweepVars
<1>3. ASSUME NEW q \in Ask, RequestErasure(q) PROVE PrivacyInv'
  <2>1. PICK taken \in BOOLEAN : ask' = [ask EXCEPT ![q] = [status |-> "pending", taken |-> taken, snapshot |-> taken]]
    <3>1. PICK complete \in BOOLEAN : ask' = [ask EXCEPT ![q] =
            [status |-> "pending", taken |-> complete /\ ~ anonymized, snapshot |-> complete /\ ~ anonymized]]
      BY <1>3 DEF RequestErasure
    <3>2. (complete /\ ~ anonymized) \in BOOLEAN
      OBVIOUS
    <3> QED BY <3>1, <3>2, Zenon
  <2>2. /\ ask' \in [Ask -> AskType] /\ ask'[q].status = "pending"
        /\ \A x \in Ask \ {q} : ask'[x] = ask[x]
    BY <1>0, <2>1 DEF PrivacyTypeOK, AskType
  <2>3. UNCHANGED <<tolerant, anonymized, officer, task, hurried, hold, sweepVars>> /\ ask[q].status = "none"
    BY <1>3 DEF RequestErasure
  <2>4. PrivacyTypeOK'
    BY <1>0, <2>2, <2>3 DEF PrivacyTypeOK, sweepVars
  <2>5. ASSUME NEW x \in Ask PROVE AskHolds(x)'
    <3>1. CASE x = q
      <4>1. \A o \in Officer : q \notin hurried /\ officer[o].step # "idle" /\ officer[o].ask = q => FALSE
        BY <1>0, <2>3 DEF AskHolds, PrivacyTypeOK, DeskType, Deciding, Erasing
      <4> QED BY <1>0, <2>2, <2>3, <3>1, <4>1 DEF AskHolds
    <3>2. CASE x # q
      BY <1>0, <2>2, <2>3, <3>2 DEF AskHolds
    <3> QED BY <3>1, <3>2
  <2> QED BY <2>3, <2>4, <2>5 DEF PrivacyInv, DeskHolds, sweepVars
<1>4. ASSUME NEW q \in Ask, NEW p \in Provider, RetryProvider(q, p) PROVE PrivacyInv'
  <2>1. /\ task[q][p].status = "failed"
        /\ UNCHANGED <<tolerant, anonymized, ask, officer, hurried, hold, sweepVars>>
    BY <1>4 DEF RetryProvider
  <2>2. PICK r \in TaskType : r.status # "none" /\ task' = [task EXCEPT ![q][p] = r]
    <3>1. ask[q].snapshot \in BOOLEAN /\ task[q][p].tries \in Nat
      BY <1>0 DEF PrivacyTypeOK, AskType, TaskType
    <3>2. TryTask(q, p, ask[q].snapshot, FALSE)
      BY <1>4 DEF RetryProvider
    <3> QED BY <3>1, <3>2, TaskTried
  <2>3. /\ task' \in [Ask -> [Provider -> TaskType]]
        /\ \A x \in Ask, s \in Provider : task[x][s].status # "none" => task'[x][s].status # "none"
        /\ \A x \in Ask \ {q} : task'[x] = task[x]
    BY <1>0, <2>2 DEF PrivacyTypeOK
  <2>4. PrivacyTypeOK'
    BY <1>0, <2>1, <2>3 DEF PrivacyTypeOK, sweepVars
  <2>5. ASSUME NEW x \in Ask PROVE AskHolds(x)'
    <3>1. CASE x = q
      <4>1. AskHolds(q)
        BY <1>0
      <4>2. q \notin hurried => ask[q].status \notin {"none", "pending", "denied"}
        BY <2>1, <4>1 DEF AskHolds
      <4> QED BY <2>1, <2>3, <3>1, <4>1, <4>2 DEF AskHolds
    <3>2. CASE x # q
      BY <1>0, <2>1, <2>3, <3>2 DEF AskHolds
    <3> QED BY <3>1, <3>2
  <2>6. ASSUME NEW o \in Officer PROVE DeskHolds(o)'
    BY <1>0, <2>1, <2>3 DEF DeskHolds
  <2> QED BY <2>1, <2>4, <2>5, <2>6 DEF PrivacyInv, sweepVars
<1>5. ASSUME NEW o \in Officer, NEW q \in Ask, NEW decision \in Deciding, TakeUp(o, q, decision) PROVE PrivacyInv'
  <2>1. PICK r : r = [Desk EXCEPT !.step = decision, !.ask = q]
    OBVIOUS
  <2>2. r \in DeskType /\ r.step = decision /\ r.ask = q /\ r.held = {}
    BY <2>1 DEF Desk, DeskType, Deciding
  <2>3. officer' = [officer EXCEPT ![o] = r] /\ officer[o] = Desk /\ ask[q].status = "pending"
    BY <1>0, <1>5, <2>1 DEF TakeUp, PrivacyTypeOK
  <2>4. UNCHANGED <<tolerant, anonymized, ask, task, hold, sweepVars>>
    BY <1>5 DEF TakeUp
  <2>5. /\ hurried' \subseteq Ask /\ hurried \subseteq hurried' /\ \A x \in Ask \ {q} : x \in hurried' <=> x \in hurried
        /\ q \notin hurried' => \A u \in Officer : officer[u].ask # q
    BY <1>0, <1>5 DEF TakeUp, Busy, PrivacyTypeOK
  <2>6. officer'[o] = r /\ \A u \in Officer \ {o} : officer'[u] = officer[u]
    BY <1>0, <2>3 DEF PrivacyTypeOK
  <2>7. DeskHolds(o)'
    BY <2>2, <2>6 DEF DeskHolds, Deciding
  <2>8. AskHolds(q)'
    <3>1. \A u \in Officer : q \notin hurried' /\ officer'[u].ask = q => u = o
      BY <2>5, <2>6
    <3>2. AskHolds(q)
      BY <1>0
    <3> QED BY <2>2, <2>3, <2>4, <2>5, <2>6, <3>1, <3>2 DEF AskHolds, Deciding, Erasing
  <2> QED BY <1>0, <2>2, <2>3, <2>4, <2>5, <2>7, <2>8, Works DEF PrivacyTypeOK
<1>6. ASSUME NEW o \in Officer, \/ Deny(o) \/ StartErasure(o) \/ CheckHold(o) \/ Anonymize(o) \/ Tell(o)
                                \/ Complete(o) \/ Fail(o) \/ OfficerDies(o)
      PROVE  PrivacyInv'
  <2>q. officer[o] \in DeskType /\ DeskHolds(o)
    BY <1>0 DEF PrivacyTypeOK
  <2>1. ASSUME NEW q \in Ask, officer[o].ask = q, officer[o].step # "idle", NEW status \in {"denied", "completed", "failed"},
               officer' = [officer EXCEPT ![o] = Desk], ask'[q].status = status,
               ask' \in [Ask -> AskType], \A x \in Ask \ {q} : ask'[x] = ask[x],
               status = "completed" => anonymized /\ \A p \in Provider : task[q][p].status # "none",
               status = "denied" => officer[o].step = "denying",
               UNCHANGED <<tolerant, anonymized, task, hurried, hold, sweepVars>>
        PROVE  PrivacyInv'
    <3>1. officer'[o] = Desk /\ \A u \in Officer \ {o} : officer'[u] = officer[u]
      BY <1>0, <2>1 DEF PrivacyTypeOK
    <3>2. DeskHolds(o)'
      BY <1>d, <3>1 DEF DeskHolds
    <3>3. AskHolds(q)'
      <4>1. AskHolds(q)
        BY <1>0
      <4>2. q \notin hurried => \A u \in Officer : ~ (officer'[u].step # "idle" /\ officer'[u].ask = q)
        BY <1>d, <2>1, <3>1, <4>1 DEF AskHolds
      <4>3. q \notin hurried /\ status = "denied" => \A p \in Provider : task[q][p].status = "none"
        BY <2>1, <4>1 DEF AskHolds, Deciding
      <4>4. \A p \in Provider : task'[q][p].status # "none" => anonymized'
        BY <2>1, <4>1 DEF AskHolds
      <4> QED BY <2>1, <4>2, <4>3, <4>4 DEF AskHolds
    <3> QED BY <1>0, <1>d, <2>1, <3>2, <3>3, Works DEF PrivacyTypeOK
  <2>2. CASE Deny(o)
    <3>1. PICK q \in Ask : officer[o].ask = q /\ officer[o].step = "denying"
      BY <2>2, <2>q DEF Deny, DeskHolds
    <3>2. PICK a : a = [ask[q] EXCEPT !.status = "denied"]
      OBVIOUS
    <3>3. a \in AskType /\ a.status = "denied" /\ ask' = [ask EXCEPT ![q] = a]
      BY <1>0, <2>2, <3>1, <3>2 DEF Deny, PrivacyTypeOK, AskType
    <3>4. ask' \in [Ask -> AskType] /\ ask'[q] = a /\ \A x \in Ask \ {q} : ask'[x] = ask[x]
      BY <1>0, <3>3 DEF PrivacyTypeOK
    <3> QED BY <2>1, <2>2, <3>1, <3>3, <3>4 DEF Deny
  <2>3. CASE Complete(o)
    <3>1. PICK q \in Ask : officer[o].ask = q /\ officer[o].step = "telling" /\ officer[o].todo = {}
      BY <2>3, <2>q DEF Complete, DeskHolds
    <3>2. PICK a : a = [ask[q] EXCEPT !.status = "completed", !.snapshot = FALSE]
      OBVIOUS
    <3>3. a \in AskType /\ a.status = "completed" /\ ask' = [ask EXCEPT ![q] = a]
      BY <1>0, <2>3, <3>1, <3>2, ZenonT(60) DEF Complete, PrivacyTypeOK, AskType
    <3>4. ask' \in [Ask -> AskType] /\ ask'[q] = a /\ \A x \in Ask \ {q} : ask'[x] = ask[x]
      BY <1>0, <3>3 DEF PrivacyTypeOK
    <3>5. anonymized /\ \A p \in Provider : task[q][p].status # "none"
      BY <2>q, <3>1 DEF DeskHolds
    <3> QED BY <2>1, <2>3, <3>1, <3>3, <3>4, <3>5 DEF Complete
  <2>4. CASE Fail(o)
    <3>1. PICK q \in Ask : officer[o].ask = q /\ officer[o].step = "failing"
      BY <2>4, <2>q DEF Fail, DeskHolds
    <3>2. PICK a : a = [ask[q] EXCEPT !.status = "failed", !.snapshot = FALSE]
      OBVIOUS
    <3>3. a \in AskType /\ a.status = "failed" /\ ask' = [ask EXCEPT ![q] = a]
      BY <1>0, <2>4, <3>1, <3>2, ZenonT(60) DEF Fail, PrivacyTypeOK, AskType
    <3>4. ask' \in [Ask -> AskType] /\ ask'[q] = a /\ \A x \in Ask \ {q} : ask'[x] = ask[x]
      BY <1>0, <3>3 DEF PrivacyTypeOK
    <3> QED BY <2>1, <2>4, <3>1, <3>3, <3>4 DEF Fail
  <2>5. CASE OfficerDies(o)
    <3>1. officer' = [officer EXCEPT ![o] = Desk] /\ UNCHANGED <<tolerant, anonymized, ask, task, hurried, hold, sweepVars>>
      BY <2>5 DEF OfficerDies
    <3>2. officer'[o] = Desk /\ \A u \in Officer \ {o} : officer'[u] = officer[u]
      BY <1>0, <3>1 DEF PrivacyTypeOK
    <3>3. PrivacyTypeOK'
      BY <1>0, <1>d, <3>1 DEF PrivacyTypeOK, sweepVars
    <3>4. ASSUME NEW u \in Officer PROVE DeskHolds(u)'
      BY <1>0, <1>d, <3>1, <3>2 DEF DeskHolds
    <3>5. ASSUME NEW x \in Ask PROVE AskHolds(x)'
      BY <1>0, <1>d, <3>1, <3>2 DEF AskHolds
    <3> QED BY <3>1, <3>3, <3>4, <3>5 DEF PrivacyInv, sweepVars
  <2>6. ASSUME NEW q \in Ask, officer[o].ask = q, officer[o].step \in Erasing, NEW r \in DeskType, r.step \in Erasing, r.ask = q,
               officer' = [officer EXCEPT ![o] = r], DeskHolds(o)', task' \in [Ask -> [Provider -> TaskType]],
               \A x \in Ask \ {q} : task'[x] = task[x],
               \A p \in Provider : task[q][p].status # "none" => task'[q][p].status # "none",
               anonymized' \in BOOLEAN, anonymized => anonymized', task' = task \/ anonymized',
               UNCHANGED <<tolerant, ask, hurried, hold, sweepVars>>
        PROVE  PrivacyInv'
    <3>1. officer'[o] = r /\ \A u \in Officer \ {o} : officer'[u] = officer[u]
      BY <1>0, <2>6 DEF PrivacyTypeOK
    <3>2. AskHolds(q)'
      <4>1. AskHolds(q)
        BY <1>0
      <4>2. q \notin hurried => /\ ask[q].status = "in_progress"
                                /\ \A u \in Officer : officer'[u].step # "idle" /\ officer'[u].ask = q => u = o
        BY <2>6, <3>1, <4>1 DEF AskHolds, Erasing
      <4>3. \A p \in Provider : task'[q][p].status # "none" => anonymized'
        BY <2>6, <4>1 DEF AskHolds
      <4>4. ask'[q].status = "completed" => anonymized' /\ \A p \in Provider : task'[q][p].status # "none"
        BY <2>6, <4>1 DEF AskHolds
      <4> QED BY <2>6, <3>1, <4>1, <4>2, <4>3, <4>4 DEF AskHolds, Erasing, Deciding
    <3> QED BY <1>0, <2>6, <3>2, Works DEF PrivacyTypeOK
  <2>7. CASE StartErasure(o)
    <3>1. PICK q \in Ask : officer[o].ask = q /\ officer[o].step = "approving"
      BY <2>7, <2>q DEF StartErasure, DeskHolds
    <3>2. PICK a : a = [ask[q] EXCEPT !.status = "in_progress"]
      OBVIOUS
    <3>3. a \in AskType /\ a.status = "in_progress" /\ ask' = [ask EXCEPT ![q] = a]
      BY <1>0, <2>7, <3>1, <3>2, ZenonT(60) DEF StartErasure, PrivacyTypeOK, AskType
    <3>4. ask' \in [Ask -> AskType] /\ ask'[q] = a /\ \A x \in Ask \ {q} : ask'[x] = ask[x]
      BY <1>0, <3>3 DEF PrivacyTypeOK
    <3>5. PICK r : r = [officer[o] EXCEPT !.step = "checking", !.full = ask[q].snapshot]
      OBVIOUS
    <3>6. /\ r \in DeskType /\ r.step = "checking" /\ r.ask = q /\ r.held = officer[o].held
      BY <1>0, <2>q, <3>1, <3>5 DEF DeskType, PrivacyTypeOK, AskType, Erasing
    <3>7. officer' = [officer EXCEPT ![o] = r] /\ UNCHANGED <<tolerant, anonymized, task, hurried, hold, sweepVars>>
      BY <2>7, <3>1, <3>5 DEF StartErasure
    <3>8. officer'[o] = r /\ \A u \in Officer \ {o} : officer'[u] = officer[u]
      BY <1>0, <3>7 DEF PrivacyTypeOK
    <3>9. DeskHolds(o)'
      BY <2>q, <3>6, <3>7, <3>8 DEF DeskHolds
    <3>10. AskHolds(q)'
      <4>1. AskHolds(q)
        BY <1>0
      <4>2. q \notin hurried => \A u \in Officer : officer'[u].step # "idle" /\ officer'[u].ask = q => u = o
        BY <3>1, <3>8, <4>1 DEF AskHolds
      <4>3. \A p \in Provider : task'[q][p].status # "none" => anonymized'
        BY <3>7, <4>1 DEF AskHolds
      <4> QED BY <3>3, <3>4, <3>6, <3>7, <3>8, <4>2, <4>3 DEF AskHolds, Deciding, Erasing
    <3> QED BY <1>0, <3>4, <3>6, <3>7, <3>9, <3>10, Works DEF PrivacyTypeOK
  <2>8. CASE CheckHold(o)
    <3>1. PICK q \in Ask : officer[o].ask = q /\ officer[o].step = "checking"
      BY <2>8, <2>q DEF CheckHold, DeskHolds
    <3>a. PICK step \in {"telling", "failing", "anonymizing"} :
            step = IF anonymized THEN "telling" ELSE IF Holding # {} THEN "failing" ELSE "anonymizing"
      OBVIOUS
    <3>b. PICK todo \in SUBSET Provider : todo = IF anonymized THEN Provider ELSE {}
      OBVIOUS
    <3>2. /\ step = IF anonymized THEN "telling" ELSE IF Holding # {} THEN "failing" ELSE "anonymizing"
          /\ todo = IF anonymized THEN Provider ELSE {}
      BY <3>a, <3>b
    <3>3. PICK held \in SUBSET Hold : held = Hold \ {h \in Hold : hold[h] = "none"}
      OBVIOUS
    <3>4. PICK r : r = [officer[o] EXCEPT !.step = step, !.todo = todo, !.held = held]
      OBVIOUS
    <3>c. step \in Erasing
      BY <3>2 DEF Erasing
    <3>d. officer[o] \in DeskType
      BY <1>0, <2>q
    <3>5. r \in DeskType /\ r.step = step /\ r.ask = q /\ r.held = held /\ r.todo = todo
      BY <3>1, <3>4, <3>c, <3>d DEF DeskType
    <3>6. officer' = [officer EXCEPT ![o] = r] /\ UNCHANGED <<tolerant, anonymized, ask, task, hurried, hold, sweepVars>>
      BY <2>8, <3>2, <3>3, <3>4 DEF CheckHold
    <3>7. officer'[o] = r
      BY <1>0, <3>6 DEF PrivacyTypeOK
    <3>8. \A h \in held : hold[h] # "none" /\ (step = "anonymizing" => hold[h] # "active")
      BY <3>2, <3>3 DEF Holding
    <3>9. DeskHolds(o)'
      <4>1. step = "telling" => anonymized /\ todo = Provider
        BY <3>2
      <4> QED BY <3>5, <3>6, <3>7, <3>8, <4>1 DEF DeskHolds
    <3>10. step \in Erasing /\ officer[o].step \in Erasing
      BY <3>1 DEF Erasing
    <3> QED BY <1>0, <2>6, <3>1, <3>5, <3>6, <3>9, <3>10 DEF PrivacyTypeOK
  <2>9. CASE Anonymize(o)
    <3>1. PICK q \in Ask : officer[o].ask = q /\ officer[o].step = "anonymizing"
      BY <2>9, <2>q DEF Anonymize, DeskHolds
    <3>2. officer[o].step \in Erasing /\ UNCHANGED <<tolerant, ask, task, hurried, hold, sweepVars>>
      BY <2>9, <3>1 DEF Anonymize, Erasing
    <3>3. CASE anonymized' = TRUE /\ officer' = [officer EXCEPT ![o].step = "telling", ![o].todo = Provider]
      <4>1. PICK r : r = [officer[o] EXCEPT !.step = "telling", !.todo = Provider]
        OBVIOUS
      <4>2. /\ r \in DeskType /\ r.step = "telling" /\ r.ask = q /\ r.held = officer[o].held /\ r.todo = Provider
            /\ officer' = [officer EXCEPT ![o] = r]
        BY <2>q, <3>1, <3>3, <4>1 DEF DeskType, Erasing
      <4>3. officer'[o] = r
        BY <1>0, <4>2 DEF PrivacyTypeOK
      <4>4. DeskHolds(o)' /\ r.step \in Erasing
        BY <2>q, <3>2, <3>3, <4>2, <4>3 DEF DeskHolds, Erasing
      <4> QED BY <1>0, <2>6, <3>1, <3>2, <3>3, <4>2, <4>4 DEF PrivacyTypeOK
    <3>4. CASE officer' = [officer EXCEPT ![o].step = "failing"] /\ UNCHANGED anonymized
      <4>1. PICK r : r = [officer[o] EXCEPT !.step = "failing"]
        OBVIOUS
      <4>2. /\ r \in DeskType /\ r.step = "failing" /\ r.ask = q /\ r.held = officer[o].held
            /\ officer' = [officer EXCEPT ![o] = r]
        BY <2>q, <3>1, <3>4, <4>1 DEF DeskType, Erasing
      <4>3. officer'[o] = r
        BY <1>0, <4>2 DEF PrivacyTypeOK
      <4>4. DeskHolds(o)' /\ r.step \in Erasing
        BY <2>q, <3>2, <4>2, <4>3 DEF DeskHolds, Erasing
      <4> QED BY <1>0, <2>6, <3>1, <3>2, <3>4, <4>2, <4>4 DEF PrivacyTypeOK
    <3> QED BY <2>9, <3>3, <3>4 DEF Anonymize
  <2>10. CASE Tell(o)
    <3>1. PICK q \in Ask : officer[o].ask = q /\ officer[o].step = "telling"
      BY <2>10, <2>q DEF Tell, DeskHolds
    <3>2. PICK p \in officer[o].todo :
            /\ TryTask(q, p, officer[o].full, TRUE)
            /\ officer' = [officer EXCEPT ![o].todo = @ \ {p}]
      BY <2>10, <3>1 DEF Tell
    <3>3. PICK t \in TaskType : t.status # "none" /\ task' = [task EXCEPT ![q][p] = t]
      BY <3>2, TaskTried
    <3>4. PICK r : r = [officer[o] EXCEPT !.todo = officer[o].todo \ {p}]
      OBVIOUS
    <3>5. /\ r \in DeskType /\ r.step = "telling" /\ r.ask = q /\ r.held = officer[o].held
          /\ r.todo = officer[o].todo \ {p} /\ p \in Provider
          /\ officer' = [officer EXCEPT ![o] = r]
      BY <2>q, <3>1, <3>2, <3>4 DEF DeskType
    <3>6. officer'[o] = r
      BY <1>0, <3>5 DEF PrivacyTypeOK
    <3>7. /\ task' \in [Ask -> [Provider -> TaskType]] /\ \A x \in Ask \ {q} : task'[x] = task[x]
          /\ task'[q][p] = t /\ \A s \in Provider \ {p} : task'[q][s] = task[q][s]
      BY <1>0, <3>3, <3>5 DEF PrivacyTypeOK
    <3>8. UNCHANGED <<tolerant, anonymized, ask, hurried, hold, sweepVars>>
      BY <2>10 DEF Tell
    <3>9. DeskHolds(o)'
      <4>1. \A s \in Provider \ r.todo : task'[q][s].status # "none"
        BY <2>q, <3>1, <3>3, <3>5, <3>7 DEF DeskHolds
      <4> QED BY <2>q, <3>1, <3>5, <3>6, <3>8, <4>1 DEF DeskHolds
    <3>10. /\ r.step \in Erasing /\ officer[o].step \in Erasing
           /\ \A s \in Provider : task[q][s].status # "none" => task'[q][s].status # "none"
      BY <3>1, <3>3, <3>5, <3>7 DEF Erasing
    <3>11. anonymized /\ anonymized \in BOOLEAN /\ anonymized' = anonymized
      BY <1>0, <2>q, <3>1, <3>8 DEF DeskHolds, PrivacyTypeOK
    <3>12. anonymized' \in BOOLEAN /\ (anonymized => anonymized') /\ (task' = task \/ anonymized')
      BY <3>11
    <3>13. UNCHANGED <<tolerant, ask, hurried, hold, sweepVars>>
      BY <3>8
    <3> QED BY <2>6, <3>1, <3>5, <3>7, <3>9, <3>10, <3>12, <3>13, ZenonT(60)
  <2> QED BY <1>6, <2>2, <2>3, <2>4, <2>5, <2>7, <2>8, <2>9, <2>10
<1>7. ASSUME RetentionNext PROVE PrivacyInv'
  <2>1. UNCHANGED <<erasureVars, hold>>
    BY <1>7 DEF RetentionNext, RowFinishes, StartRetention, Purge, RetentionDies
  <2>n. NoSweep \in SweepType /\ NoSweep.on = FALSE
    BY DEF NoSweep, SweepType
  <2>2. SweepHolds
    BY DEF PrivacyInv, PrivacyTypeOK, SweepHolds, SweepType
  <2>3. SweepHolds'
    <3>1. ASSUME NEW m \in Old, RowFinishes(m) PROVE SweepHolds'
      BY <2>2, <3>1 DEF RowFinishes, SweepHolds
    <3>2. CASE StartRetention
      <4>1. Protecting \in SUBSET Hold /\ Hold \ Protecting \in SUBSET Hold /\ Protecting \cup (Hold \ Protecting) = Hold
        BY DEF Protecting
      <4> QED BY <2>2, <3>2, <4>1 DEF StartRetention, SweepHolds, SweepType
    <3>3. CASE RetentionDies
      BY <2>2, <2>n, <3>3 DEF RetentionDies, SweepHolds
    <3>4. ASSUME NEW m \in Old, Purge(m) PROVE SweepHolds'
      <4>1. Policy[m].action \in {"redact", "delete"}
        BY PrivacyAssumption DEF Policy
      <4>2. old' = [old EXCEPT ![m] = Policy[m].action] \/ old' = old
        BY <3>4 DEF Purge
      <4>3. old' \in [Old -> {"live", "finished", "redact", "delete"}]
        BY <2>2, <4>1, <4>2 DEF SweepHolds
      <4>4. swept' = NoSweep \/ swept' = [swept EXCEPT !.todo = @ \ {m}]
        BY <3>4 DEF Purge
      <4>5. swept' \in SweepType /\ (swept'.on => swept'.held \cup swept'.unheld = Hold)
        BY <2>2, <2>n, <4>4 DEF SweepHolds, SweepType
      <4> QED BY <2>2, <3>4, <4>3, <4>5 DEF Purge, SweepHolds
    <3> QED BY <1>7, <3>1, <3>2, <3>3, <3>4 DEF RetentionNext
  <2>4. PrivacyTypeOK'
    BY <1>0, <2>1, <2>3 DEF PrivacyTypeOK, SweepHolds, SweepType, erasureVars
  <2>5. \A o \in Officer : DeskHolds(o)'
    BY <1>0, <2>1 DEF DeskHolds, erasureVars
  <2>6. \A q \in Ask : AskHolds(q)'
    BY <1>0, <2>1 DEF AskHolds, erasureVars
  <2> QED BY <2>3, <2>4, <2>5, <2>6 DEF PrivacyInv, SweepHolds
<1>8. CASE UNCHANGED privacyVars
  BY <1>0, <1>8 DEF privacyVars, erasureVars, sweepVars, PrivacyInv, PrivacyTypeOK, DeskHolds, AskHolds
<1> QED
  BY <1>1, <1>2, <1>3, <1>4, <1>5, <1>6, <1>7, <1>8
  DEF HoldNext, ErasureNext, RetentionNext, Deciding

\* A completed request has anonymized the customer and told every provider, and
\* one that was not decided twice has told nobody before it was approved.
THEOREM SpecCompletedIsErased == PrivacySpec => []CompletedIsErased
<1>1. PrivacyInv => CompletedIsErased
  BY DEF PrivacyInv, AskHolds, CompletedIsErased
<1> QED BY <1>1, InitPrivacyInv, NextPrivacyInv, PTL DEF PrivacySpec

\* What one step may take from a customer under a hold.
LEMMA StepHeldDataStays ==
  ASSUME PrivacyInv, [HoldNext \/ ErasureNext \/ RetentionNext]_privacyVars
  PROVE  /\ ~ anonymized /\ anonymized' =>
              \E o \in Officer : officer[o].step = "anonymizing" /\ Holding \cap officer[o].held = {}
         /\ \A m \in Old : Policy[m].owned /\ ~ Gone(m) /\ Gone(m)' => Holding \subseteq swept.unheld
         /\ task' # task => anonymized
<1>1. ASSUME ~ anonymized, anonymized'
      PROVE  \E o \in Officer : officer[o].step = "anonymizing" /\ Holding \cap officer[o].held = {}
  <2>1. PICK o \in Officer : Anonymize(o)
    BY <1>1, ZenonT(60) DEF HoldNext, ErasureNext, RetentionNext, privacyVars, erasureVars, SetLegalHold, HoldExpires, ReleaseLegalHolds,
       RequestErasure, RetryProvider, Deny, StartErasure, CheckHold, Tell, Complete, Fail, OfficerDies, TakeUp,
       RowFinishes, Purge, StartRetention, RetentionDies
  <2>2. officer[o].step = "anonymizing" /\ DeskHolds(o)
    BY <2>1 DEF Anonymize, PrivacyInv
  <2> QED BY <2>2, SMTT(60) DEF DeskHolds, Holding
<1>2. ASSUME NEW m \in Old, Policy[m].owned, ~ Gone(m), Gone(m)' PROVE Holding \subseteq swept.unheld
  <2>1. old' # old
    BY <1>2 DEF Gone
  <2>2. old \in [Old -> {"live", "finished", "redact", "delete"}]
    BY DEF PrivacyInv, PrivacyTypeOK
  <2>3. PICK n \in Old : Purge(n) \/ RowFinishes(n)
    BY <2>1, ZenonT(60) DEF HoldNext, ErasureNext, RetentionNext, privacyVars, erasureVars, sweepVars, SetLegalHold, HoldExpires,
       ReleaseLegalHolds, RequestErasure, RetryProvider, Deny, StartErasure, CheckHold, Anonymize, Tell, Complete, Fail,
       OfficerDies, TakeUp, StartRetention, RetentionDies
  <2>4. CASE RowFinishes(n)
    BY <1>2, <2>2, <2>4 DEF RowFinishes, Gone
  <2>5. CASE Purge(n)
    <3>1. swept.on /\ (Policy[n].owned => swept.held = {}) /\ old' = [old EXCEPT ![n] = Policy[n].action]
      BY <2>1, <2>5 DEF Purge
    <3>2. n = m
      BY <1>2, <2>2, <3>1 DEF Gone
    <3>3. swept.held \cup swept.unheld = Hold
      BY <3>1 DEF PrivacyInv
    <3> QED BY <1>2, <3>1, <3>2, <3>3 DEF Holding
  <2> QED BY <2>3, <2>4, <2>5
<1>3. ASSUME task' # task PROVE anonymized
  <2>1. CASE \E o \in Officer : Tell(o)
    BY <2>1 DEF Tell, PrivacyInv, DeskHolds
  <2>2. CASE \E q \in Ask, p \in Provider : RetryProvider(q, p)
    BY <2>2 DEF RetryProvider, PrivacyInv, AskHolds
  <2> QED BY <1>3, <2>1, <2>2, ZenonT(60) DEF HoldNext, ErasureNext, RetentionNext, privacyVars, erasureVars, SetLegalHold,
       HoldExpires, ReleaseLegalHolds, RequestErasure, Deny, StartErasure, CheckHold, Anonymize, Complete, Fail,
       OfficerDies, TakeUp, RowFinishes, Purge, StartRetention, RetentionDies
<1> QED BY <1>1, <1>2, <1>3

\* No erasure and no sweep takes our rows of a customer whose hold it could see,
\* and no provider is told of a customer who is not anonymized.
THEOREM SpecHeldDataStays == PrivacySpec => HeldDataStays
<1>1. PrivacyInv /\ [HoldNext \/ ErasureNext \/ RetentionNext]_privacyVars =>
        [/\ ~ anonymized /\ anonymized' =>
              \E o \in Officer : officer[o].step = "anonymizing" /\ Holding \cap officer[o].held = {}
         /\ \A m \in Old : Policy[m].owned /\ ~ Gone(m) /\ Gone(m)' => Holding \subseteq swept.unheld
         /\ task' # task => anonymized]_privacyVars
  BY StepHeldDataStays
<1> QED BY <1>1, InitPrivacyInv, NextPrivacyInv, PTL DEF PrivacySpec, HeldDataStays

-----------------------------------------------------------------------------
(* PIN, account and sessions. *)

PinRow == [attempts : Nat, lock : {"none", "active", "expired"}]

\* An attempt at work holds a row that did not lock, or whose lock had run out.
PinTypeOK ==
  /\ pin \in PinRow
  /\ attempt \in [Attempt -> [step : {"idle", "clearing", "comparing"}, row : PinRow]]
  /\ \A a \in Attempt : attempt[a].step # "idle" => attempt[a].row.lock # "active"
  /\ \A a \in Attempt : attempt[a].step = "clearing" => attempt[a].row.lock = "expired"
  /\ fresh \subseteq Attempt /\ wrong \in Nat /\ raced \in BOOLEAN

\* An attempt goes on after it has cleared the lock that had run out.
AfterLock(a) == attempt[a].step = "comparing" /\ attempt[a].row.lock = "expired"

\* The count is that of the wrong PINs, and who is to write has read it: or it
\* is in the copy of an attempt that cleared it, or will be raced.
PinHolds ==
  \/ raced
  \/ \E a \in Attempt \ fresh : AfterLock(a)
  \/ \E a \in fresh : AfterLock(a) /\ pin = Unlocked /\ attempt[a].row.attempts = wrong
  \/ /\ pin.attempts = wrong
     /\ wrong >= FailureLimit => pin.lock # "none"
     /\ \A a \in fresh : attempt[a].step # "idle" => attempt[a].row = pin

PinInv == PinTypeOK /\ PinHolds

\* The records alternate while nobody's change was decided on another's row.
AccountInv ==
  /\ account \in [deactivated : BOOLEAN, pending : BOOLEAN]
  /\ change \in [Admin -> {"idle", "active", "deactivated"}]
  /\ records \in Seq({"active", "deactivated"}) /\ doubled \in BOOLEAN
  /\ IF records = << >> THEN Status = "active" ELSE records[Len(records)] = Status
  /\ doubled \/ \A i \in 1 .. Len(records) : records[i] = (IF i % 2 = 1 THEN "deactivated" ELSE "active")

\* A session stems from an answer that has ended and that signs a used
\* challenge; no other answer has used it.
SessionTypeOK ==
  /\ challenge \in [Challenge -> {"none", "open", "used", "lapsed"}]
  /\ login \in [Login -> {NoLogin} \cup [step : {"verified", "ended"}, signed : Challenge]]
  /\ session \in [Login -> {"none", "live", "expired", "revoked"}]
  /\ served \in [Visit -> Login \cup {NoCall}]

SessionInv ==
  /\ SessionTypeOK
  /\ \A l \in Login : session[l] # "none" => login[l].step = "ended" /\ challenge[login[l].signed] = "used"
  /\ \A l, k \in Login : session[l] # "none" /\ session[k] # "none" /\ login[l].signed = login[k].signed => l = k
  /\ \A h \in Challenge : challenge[h] = "used" => \E l \in Login : session[l] # "none" /\ login[l].signed = h
  /\ \A c \in Visit : served[c] # NoCall => session[served[c]] # "none" /\ login[served[c]].step = "ended"

\* An attempt that writes its row is the only one whose copy is the row.
LEMMA PinWritten ==
  ASSUME PinInv, NEW a \in Attempt, attempt[a].step # "idle", NEW row \in PinRow, WritePin(a, row),
         NEW t \in [step : {"idle", "clearing", "comparing"}, row : PinRow],
         t.step # "clearing", t.step # "idle" => t.row = attempt[a].row,
         attempt' = [attempt EXCEPT ![a] = t], wrong' \in Nat,
         a \in fresh /\ PinHolds /\ ~ raced =>
           \/ \E b \in Attempt \ {a} : AfterLock(b)
           \/ t.step = "comparing" /\ t.row.lock = "expired" /\ row = Unlocked /\ t.row.attempts = wrong'
           \/ t.step = "idle" /\ row.attempts = wrong' /\ (wrong' >= FailureLimit => row.lock # "none")
  PROVE  PinInv'
<1>1. attempt'[a] = t /\ \A b \in Attempt \ {a} : attempt'[b] = attempt[b]
  BY DEF PinInv, PinTypeOK
<1>2. pin' = row /\ fresh' = {a} /\ raced' = (raced \/ a \notin fresh)
  BY DEF WritePin
<1>3. raced' \in BOOLEAN
  <2>1. (raced \/ a \notin fresh) \in BOOLEAN
    OBVIOUS
  <2> QED BY <1>2, <2>1, Zenon
<1>4. PinTypeOK'
  <2>1. attempt' \in [Attempt -> [step : {"idle", "clearing", "comparing"}, row : PinRow]]
    BY DEF PinInv, PinTypeOK
  <2>2. \A b \in Attempt : /\ attempt'[b].step # "idle" => attempt'[b].row.lock # "active"
                           /\ attempt'[b].step = "clearing" => attempt'[b].row.lock = "expired"
    BY <1>1 DEF PinInv, PinTypeOK
  <2> QED BY <1>2, <1>3, <2>1, <2>2 DEF PinTypeOK
<1>5. PinHolds'
  <2>1. CASE raced \/ a \notin fresh
    BY <1>2, <2>1 DEF PinHolds
  <2>2. CASE a \in fresh /\ ~ raced
    <3>1. CASE \E b \in Attempt \ {a} : AfterLock(b)
      BY <1>1, <1>2, <3>1 DEF PinHolds, AfterLock
    <3>2. CASE t.step = "comparing" /\ t.row.lock = "expired" /\ row = Unlocked /\ t.row.attempts = wrong'
      BY <1>1, <1>2, <3>2 DEF PinHolds, AfterLock
    <3>3. CASE t.step = "idle" /\ row.attempts = wrong' /\ (wrong' >= FailureLimit => row.lock # "none")
      BY <1>1, <1>2, <3>3 DEF PinHolds
    <3> QED BY <2>2, <3>1, <3>2, <3>3 DEF PinInv
  <2> QED BY <2>1, <2>2
<1> QED BY <1>4, <1>5 DEF PinInv

\* Attempts, the clearing of the lock and its end.
LEMMA NextPinInv == PinInv /\ [PinNext \/ AccountNext]_accessVars => PinInv'
<1> SUFFICES ASSUME PinInv, [PinNext \/ AccountNext]_accessVars PROVE PinInv'
  OBVIOUS
<1>0. PinTypeOK /\ PinHolds
  BY DEF PinInv
<1>u. Unlocked \in PinRow /\ Unlocked.attempts = 0 /\ Unlocked.lock = "none"
  BY DEF Unlocked, PinRow
<1>n. /\ NoAttempt \in [step : {"idle", "clearing", "comparing"}, row : PinRow]
      /\ NoAttempt.step = "idle"
  BY <1>u DEF NoAttempt
<1>l. FailureLimit \in Nat \ {0}
  BY AccessAssumption
<1>1. ASSUME NEW a \in Attempt, ReadPin(a) PROVE PinInv'
  <2>1. PICK t \in [step : {"idle", "clearing", "comparing"}, row : PinRow] :
          /\ attempt' = [attempt EXCEPT ![a] = t]
          /\ t.step # "idle" => t.row = pin /\ t.row.lock # "active"
          /\ t.step = "comparing" => t.row.lock # "expired"
          /\ t.step = "clearing" => t.row.lock = "expired"
    <3>1. CASE pin.lock = "active"
      BY <1>1, <1>n, <3>1 DEF ReadPin
    <3>2. CASE pin.lock # "active"
      <4>1. PICK step \in {"clearing", "comparing"} : step = IF pin.lock = "expired" THEN "clearing" ELSE "comparing"
        OBVIOUS
      <4>2. PICK t : t = [step |-> step, row |-> pin]
        OBVIOUS
      <4>3. /\ t \in [step : {"idle", "clearing", "comparing"}, row : PinRow]
            /\ t.step = step /\ t.row = pin
        BY <1>0, <4>2 DEF PinTypeOK
      <4>4. attempt' = [attempt EXCEPT ![a] = t]
        BY <1>1, <3>2, <4>1, <4>2 DEF ReadPin
      <4> QED BY <3>2, <4>1, <4>3, <4>4
    <3> QED BY <3>1, <3>2
  <2>2. attempt'[a] = t /\ \A b \in Attempt \ {a} : attempt'[b] = attempt[b]
    BY <1>0, <2>1 DEF PinTypeOK
  <2>3. fresh' = fresh \cup {a} /\ UNCHANGED <<pin, wrong, raced>> /\ attempt[a].step = "idle"
    BY <1>1 DEF ReadPin
  <2>4. PinTypeOK'
    <3>1. attempt' \in [Attempt -> [step : {"idle", "clearing", "comparing"}, row : PinRow]]
      BY <1>0, <2>1 DEF PinTypeOK
    <3>2. \A b \in Attempt : /\ attempt'[b].step # "idle" => attempt'[b].row.lock # "active"
                             /\ attempt'[b].step = "clearing" => attempt'[b].row.lock = "expired"
      BY <1>0, <2>1, <2>2 DEF PinTypeOK
    <3> QED BY <1>0, <2>3, <3>1, <3>2 DEF PinTypeOK
  <2>5. \A b \in Attempt : AfterLock(b) => b # a /\ attempt'[b] = attempt[b]
    BY <2>2, <2>3 DEF AfterLock
  <2>6. PinHolds'
    <3>1. CASE raced
      BY <2>3, <3>1 DEF PinHolds
    <3>2. CASE \E b \in Attempt \ fresh : AfterLock(b)
      BY <2>3, <2>5, <3>2 DEF PinHolds, AfterLock
    <3>3. CASE \E b \in fresh : AfterLock(b) /\ pin = Unlocked /\ attempt[b].row.attempts = wrong
      <4>1. PICK b \in fresh : AfterLock(b) /\ pin = Unlocked /\ attempt[b].row.attempts = wrong
        BY <3>3
      <4>2. b \in fresh' /\ AfterLock(b)' /\ pin' = Unlocked /\ attempt'[b].row.attempts = wrong'
        BY <1>0, <2>3, <2>5, <4>1 DEF AfterLock, PinTypeOK
      <4> QED BY <4>2 DEF PinHolds
    <3>4. CASE /\ pin.attempts = wrong
               /\ wrong >= FailureLimit => pin.lock # "none"
               /\ \A b \in fresh : attempt[b].step # "idle" => attempt[b].row = pin
      <4>1. \A b \in fresh' : attempt'[b].step # "idle" => attempt'[b].row = pin
        BY <1>0, <2>1, <2>2, <2>3, <3>4 DEF PinTypeOK
      <4> QED BY <2>3, <3>4, <4>1 DEF PinHolds
    <3> QED BY <1>0, <3>1, <3>2, <3>3, <3>4 DEF PinHolds
  <2> QED BY <2>4, <2>6 DEF PinInv
<1>w. ASSUME NEW a \in Attempt, a \in fresh, attempt[a].step # "idle", ~ raced,
             ~ \E b \in Attempt \ {a} : AfterLock(b)
      PROVE  attempt[a].row.attempts = wrong
  <2>1. CASE \E b \in Attempt \ fresh : AfterLock(b)
    BY <1>w, <2>1
  <2>2. CASE \E b \in fresh : AfterLock(b) /\ pin = Unlocked /\ attempt[b].row.attempts = wrong
    BY <1>0, <1>w, <2>2 DEF PinTypeOK
  <2>3. CASE pin.attempts = wrong /\ \A b \in fresh : attempt[b].step # "idle" => attempt[b].row = pin
    BY <1>w, <2>3
  <2> QED BY <1>0, <1>w, <2>1, <2>2, <2>3 DEF PinHolds
<1>2. ASSUME NEW a \in Attempt, ClearExpired(a) PROVE PinInv'
  <2>1. PICK t : t = [attempt[a] EXCEPT !.step = "comparing"]
    OBVIOUS
  <2>2. /\ t \in [step : {"idle", "clearing", "comparing"}, row : PinRow]
        /\ t.step = "comparing" /\ t.row = attempt[a].row
    BY <1>0, <2>1 DEF PinTypeOK
  <2>3. /\ attempt[a].step = "clearing" /\ WritePin(a, Unlocked) /\ wrong' = wrong
        /\ attempt' = [attempt EXCEPT ![a] = t]
    BY <1>2, <2>1 DEF ClearExpired
  <2>4. t.row.lock = "expired"
    BY <1>0, <2>2, <2>3 DEF PinTypeOK
  <2> QED BY <1>0, <1>u, <1>w, <2>2, <2>3, <2>4, PinWritten DEF PinTypeOK
<1>3. ASSUME NEW a \in Attempt, RightPin(a) PROVE PinInv'
  <2>1. ~ (0 >= FailureLimit)
    BY <1>l
  <2> QED BY <1>0, <1>3, <1>u, <1>n, <2>1, PinWritten DEF RightPin
<1>4. ASSUME NEW a \in Attempt, WrongPin(a) PROVE PinInv'
  <2>1. PICK attempts : attempts = attempt[a].row.attempts + 1
    OBVIOUS
  <2>2. attempts \in Nat /\ wrong + 1 \in Nat /\ wrong' = wrong + 1 /\ attempt[a].step = "comparing"
    BY <1>0, <1>4, <2>1 DEF WrongPin, PinTypeOK, PinRow
  <2>3. PICK lock \in {"active", "none"} : lock = IF attempts >= FailureLimit THEN "active" ELSE "none"
    OBVIOUS
  <2>4. PICK row : row = [attempts |-> attempts, lock |-> lock]
    OBVIOUS
  <2>5. row \in PinRow /\ row.attempts = attempts /\ row.lock = lock
    BY <2>2, <2>4 DEF PinRow
  <2>6. WritePin(a, row) /\ attempt' = [attempt EXCEPT ![a] = NoAttempt]
    BY <1>4, <2>1, <2>3, <2>4 DEF WrongPin
  <2>7. attempt[a].row.attempts = wrong => attempts = wrong' /\ (wrong' >= FailureLimit => lock # "none")
    BY <2>1, <2>2, <2>3
  <2> QED BY <1>w, <1>n, <2>2, <2>5, <2>6, <2>7, PinWritten
<1>5. ASSUME NEW a \in Attempt, ClearPinLock(a) PROVE PinInv'
  <2>1. pin' = Unlocked /\ fresh' = {} /\ wrong' = 0 /\ UNCHANGED <<attempt, raced>>
    BY <1>5 DEF ClearPinLock
  <2>2. PinTypeOK'
    BY <1>0, <1>u, <2>1 DEF PinTypeOK
  <2>3. PinHolds'
    <3>1. ~ (0 >= FailureLimit)
      BY <1>l
    <3> QED BY <1>u, <2>1, <3>1 DEF PinHolds
  <2> QED BY <2>2, <2>3 DEF PinInv
<1>6. ASSUME LockExpires PROVE PinInv'
  <2>1. PICK row : row = [pin EXCEPT !.lock = "expired"]
    OBVIOUS
  <2>2. row \in PinRow /\ row.attempts = pin.attempts /\ row.lock = "expired" /\ pin.lock = "active"
    BY <1>0, <1>6, <2>1 DEF LockExpires, PinTypeOK, PinRow
  <2>3. pin' = row /\ UNCHANGED <<attempt, fresh, wrong, raced>>
    BY <1>6, <2>1 DEF LockExpires
  <2>4. PinTypeOK'
    BY <1>0, <2>2, <2>3 DEF PinTypeOK
  <2>5. PinHolds'
    <3>1. CASE raced
      BY <2>3, <3>1 DEF PinHolds
    <3>2. CASE \E b \in Attempt \ fresh : AfterLock(b)
      BY <2>3, <3>2 DEF PinHolds, AfterLock
    <3>3. CASE pin = Unlocked
      BY <1>u, <2>2, <3>3
    <3>4. CASE /\ pin.attempts = wrong
               /\ wrong >= FailureLimit => pin.lock # "none"
               /\ \A b \in fresh : attempt[b].step # "idle" => attempt[b].row = pin
      <4>1. \A b \in fresh : attempt[b].step = "idle"
        BY <1>0, <2>2, <3>4 DEF PinTypeOK
      <4> QED BY <2>2, <2>3, <3>4, <4>1 DEF PinHolds
    <3> QED BY <1>0, <3>1, <3>2, <3>3, <3>4 DEF PinHolds
  <2> QED BY <2>4, <2>5 DEF PinInv
<1>7. ASSUME NEW a \in Attempt, AttemptDies(a) PROVE PinInv'
  <2>1. attempt' = [attempt EXCEPT ![a] = NoAttempt] /\ UNCHANGED <<pin, fresh, wrong>>
    BY <1>7 DEF AttemptDies
  <2>2. attempt'[a] = NoAttempt /\ \A b \in Attempt \ {a} : attempt'[b] = attempt[b]
    BY <1>0, <2>1 DEF PinTypeOK
  <2>3. raced' = (raced \/ attempt[a].row.lock = "expired")
    BY <1>7 DEF AttemptDies
  <2>4. raced' \in BOOLEAN
    <3>1. (raced \/ attempt[a].row.lock = "expired") \in BOOLEAN
      OBVIOUS
    <3> QED BY <2>3, <3>1, Zenon
  <2>5. PinTypeOK'
    <3>1. attempt' \in [Attempt -> [step : {"idle", "clearing", "comparing"}, row : PinRow]]
      BY <1>0, <1>n, <2>1 DEF PinTypeOK
    <3>2. \A b \in Attempt : /\ attempt'[b].step # "idle" => attempt'[b].row.lock # "active"
                             /\ attempt'[b].step = "clearing" => attempt'[b].row.lock = "expired"
      BY <1>0, <1>n, <2>2 DEF PinTypeOK
    <3> QED BY <1>0, <2>1, <2>4, <3>1, <3>2 DEF PinTypeOK
  <2>6. PinHolds'
    <3>1. CASE raced \/ attempt[a].row.lock = "expired"
      BY <2>3, <3>1 DEF PinHolds
    <3>2. CASE ~ raced /\ attempt[a].row.lock # "expired"
      <4>1. \A b \in Attempt : AfterLock(b) => attempt'[b] = attempt[b]
        BY <2>2, <3>2 DEF AfterLock
      <4>2. \A b \in fresh : attempt'[b].step # "idle" => attempt'[b] = attempt[b]
        BY <1>0, <1>n, <2>2 DEF PinTypeOK
      <4>3. CASE \E b \in Attempt \ fresh : AfterLock(b)
        BY <2>1, <4>1, <4>3 DEF PinHolds, AfterLock
      <4>4. CASE \E b \in fresh : AfterLock(b) /\ pin = Unlocked /\ attempt[b].row.attempts = wrong
        BY <1>0, <2>1, <4>1, <4>4 DEF PinHolds, AfterLock, PinTypeOK
      <4>5. CASE /\ pin.attempts = wrong
                 /\ wrong >= FailureLimit => pin.lock # "none"
                 /\ \A b \in fresh : attempt[b].step # "idle" => attempt[b].row = pin
        BY <2>1, <4>2, <4>5 DEF PinHolds
      <4> QED BY <1>0, <3>2, <4>3, <4>4, <4>5 DEF PinHolds
    <3> QED BY <3>1, <3>2
  <2> QED BY <2>5, <2>6 DEF PinInv
<1>8. CASE AccountNext \/ UNCHANGED accessVars
  <2>1. UNCHANGED pinVars
    BY <1>8 DEF AccountNext, Reactivate, CommitChange, ChangeFails, Deactivate, accessVars
  <2> QED BY <2>1 DEF pinVars, PinInv, PinTypeOK, PinHolds, AfterLock
<1> QED BY <1>1, <1>2, <1>3, <1>4, <1>5, <1>6, <1>7, <1>8 DEF PinNext

\* Administrators' changes of the account's status.
LEMMA NextAccountInv == AccountInv /\ [PinNext \/ AccountNext]_accessVars => AccountInv'
<1> SUFFICES ASSUME AccountInv, [PinNext \/ AccountNext]_accessVars PROVE AccountInv'
  OBVIOUS
<1>1. ASSUME NEW d \in Admin, CommitChange(d) PROVE AccountInv'
  <2>1. PICK c \in {"active", "deactivated"} : c = change[d]
    BY <1>1 DEF CommitChange, AccountInv
  <2>2. PICK b \in BOOLEAN : b = (c = "deactivated")
    <3>1. (c = "deactivated") \in BOOLEAN
      OBVIOUS
    <3> QED BY <3>1, Zenon
  <2>3. account' = [account EXCEPT !.deactivated = b] /\ records' = Append(records, c)
    BY <1>1, <2>1, <2>2 DEF CommitChange
  <2>4. /\ account' \in [deactivated : BOOLEAN, pending : BOOLEAN]
        /\ account'.deactivated = b /\ Status' = c
    BY <2>1, <2>2, <2>3 DEF AccountInv, Status
  <2>5. change' \in [Admin -> {"idle", "active", "deactivated"}]
    BY <1>1 DEF CommitChange, AccountInv
  <2>6. doubled' = (doubled \/ Status = c)
    BY <1>1, <2>1 DEF CommitChange
  <2>7. doubled' \in BOOLEAN
    <3>1. (doubled \/ Status = c) \in BOOLEAN
      OBVIOUS
    <3> QED BY <2>6, <3>1, Zenon
  <2>8. /\ records' \in Seq({"active", "deactivated"}) /\ Len(records') = Len(records) + 1 /\ Len(records) \in Nat
        /\ records' # << >> /\ records'[Len(records')] = c
        /\ \A i \in 1 .. Len(records) : records'[i] = records[i]
    BY <2>3 DEF AccountInv
  <2>9. ASSUME ~ doubled' PROVE \A i \in 1 .. Len(records') : records'[i] = (IF i % 2 = 1 THEN "deactivated" ELSE "active")
    <3>1. ~ doubled /\ Status # c
      BY <2>6, <2>9
    <3>2. \A i \in 1 .. Len(records) : records[i] = (IF i % 2 = 1 THEN "deactivated" ELSE "active")
      BY <3>1 DEF AccountInv
    <3>3. c = IF Len(records') % 2 = 1 THEN "deactivated" ELSE "active"
      <4>1. CASE records = << >>
        <5>1. Len(records') = 1 /\ Status = "active"
          BY <2>8, <4>1 DEF AccountInv
        <5> QED BY <3>1, <5>1
      <4>2. CASE records # << >>
        <5>1. Len(records) \in 1 .. Len(records) /\ records[Len(records)] = Status
          BY <2>8, <4>2 DEF AccountInv
        <5>2. Status = IF Len(records) % 2 = 1 THEN "deactivated" ELSE "active"
          BY <3>2, <5>1
        <5>3. Len(records) % 2 = 1 <=> ~ (Len(records') % 2 = 1)
          BY <2>8
        <5> QED BY <3>1, <5>2, <5>3
      <4> QED BY <4>1, <4>2
    <3>4. \A i \in 1 .. Len(records') : i \in 1 .. Len(records) \/ i = Len(records')
      BY <2>8
    <3> QED BY <2>8, <3>2, <3>3, <3>4
  <2> QED BY <2>4, <2>5, <2>7, <2>8, <2>9 DEF AccountInv
<1>2. ASSUME NEW d \in Admin, NEW c \in {"idle", "active", "deactivated"}, change' = [change EXCEPT ![d] = c],
             UNCHANGED <<account, records, doubled>>
      PROVE  AccountInv'
  BY <1>2 DEF AccountInv, Status
<1>3. CASE PinNext \/ UNCHANGED accessVars
  <2>1. UNCHANGED accountVars
    BY <1>3 DEF PinNext, ReadPin, ClearExpired, RightPin, WrongPin, ClearPinLock, AttemptDies, LockExpires, accessVars
  <2> QED BY <2>1 DEF accountVars, AccountInv, Status
<1> QED BY <1>1, <1>2, <1>3 DEF AccountNext, Reactivate, ChangeFails, Deactivate

\* Challenges, their answers, sessions and calls.
LEMMA NextSessionInv == SessionInv /\ [SessionNext]_sessionVars => SessionInv'
<1> SUFFICES ASSUME SessionInv, [SessionNext]_sessionVars PROVE SessionInv'
  OBVIOUS
<1>0. SessionTypeOK
  BY DEF SessionInv
<1>n. NoLogin.step = "none"
  BY DEF NoLogin
<1>1. ASSUME NEW h \in Challenge, CreateChallenge(h) \/ ChallengeLapses(h) PROVE SessionInv'
  <2>1. challenge[h] # "used" /\ UNCHANGED <<login, session, served>>
    BY <1>1 DEF CreateChallenge, ChallengeLapses
  <2>2. /\ challenge' \in [Challenge -> {"none", "open", "used", "lapsed"}]
        /\ \A g \in Challenge : challenge'[g] = "used" <=> challenge[g] = "used"
    BY <1>0, <1>1 DEF CreateChallenge, ChallengeLapses, SessionTypeOK
  <2>3. \A l \in Login : session[l] # "none" => login[l].signed \in Challenge
    BY <1>n DEF SessionInv, SessionTypeOK
  <2> QED BY <2>1, <2>2, <2>3 DEF SessionInv, SessionTypeOK
<1>2. ASSUME NEW l \in Login, NEW h \in Challenge, VerifyChallenge(l, h) PROVE SessionInv'
  <2>1. PICK r : r = [step |-> "verified", signed |-> h]
    OBVIOUS
  <2>2. login' = [login EXCEPT ![l] = r] /\ UNCHANGED <<challenge, session, served>> /\ login[l] = NoLogin
    BY <1>2, <2>1 DEF VerifyChallenge
  <2>3. /\ login' \in [Login -> {NoLogin} \cup [step : {"verified", "ended"}, signed : Challenge]]
        /\ \A k \in Login \ {l} : login'[k] = login[k]
    BY <1>0, <2>1, <2>2 DEF SessionTypeOK
  <2>4. session[l] = "none" /\ \A c \in Visit : served[c] # NoCall => served[c] # l
    BY <1>0, <1>n, <2>2 DEF SessionInv, SessionTypeOK
  <2> QED BY <2>2, <2>3, <2>4 DEF SessionInv, SessionTypeOK
<1>3. ASSUME NEW l \in Login, OpenSession(l) \/ LoginDies(l) PROVE SessionInv'
  <2>1. login[l].step = "verified" /\ served' = served
    BY <1>3 DEF OpenSession, LoginDies
  <2>2. PICK h \in Challenge : login[l].signed = h /\ login[l] \in [step : {"verified", "ended"}, signed : Challenge]
    BY <1>0, <1>n, <2>1 DEF SessionTypeOK
  <2>3. PICK r : r = [login[l] EXCEPT !.step = "ended"]
    OBVIOUS
  <2>4. login' = [login EXCEPT ![l] = r] /\ r.step = "ended" /\ r.signed = h
    BY <1>3, <2>2, <2>3 DEF OpenSession, LoginDies
  <2>5. /\ login' \in [Login -> {NoLogin} \cup [step : {"verified", "ended"}, signed : Challenge]]
        /\ login'[l] = r /\ \A k \in Login \ {l} : login'[k] = login[k]
    <3>1. r \in [step : {"verified", "ended"}, signed : Challenge]
      BY <2>2, <2>3
    <3> QED BY <1>0, <2>4, <3>1 DEF SessionTypeOK
  <2>6. session[l] = "none"
    BY <1>0, <2>1 DEF SessionInv, SessionTypeOK
  <2>7. CASE UNCHANGED <<challenge, session>>
    BY <2>1, <2>2, <2>4, <2>5, <2>6, <2>7 DEF SessionInv, SessionTypeOK
  <2>8. CASE challenge[h] = "open" /\ challenge' = [challenge EXCEPT ![h] = "used"] /\ session' = [session EXCEPT ![l] = "live"]
    <3>1. /\ challenge' \in [Challenge -> {"none", "open", "used", "lapsed"}] /\ challenge'[h] = "used"
          /\ \A g \in Challenge \ {h} : challenge'[g] = challenge[g]
      BY <1>0, <2>8 DEF SessionTypeOK
    <3>2. /\ session' \in [Login -> {"none", "live", "expired", "revoked"}] /\ session'[l] = "live"
          /\ \A k \in Login \ {l} : session'[k] = session[k]
      BY <1>0, <2>8 DEF SessionTypeOK
    <3>3. \A k \in Login : session[k] # "none" => k # l /\ login[k].signed # h
      BY <2>6, <2>8 DEF SessionInv
    <3>4. \A k \in Login : session'[k] # "none" => login'[k].step = "ended" /\ challenge'[login'[k].signed] = "used"
      BY <2>4, <2>5, <3>1, <3>2, <3>3, <1>n DEF SessionInv, SessionTypeOK
    <3>5. \A j, k \in Login : session'[j] # "none" /\ session'[k] # "none" /\ login'[j].signed = login'[k].signed => j = k
      BY <2>4, <2>5, <3>2, <3>3 DEF SessionInv
    <3>6. \A g \in Challenge : challenge'[g] = "used" => \E k \in Login : session'[k] # "none" /\ login'[k].signed = g
      <4> SUFFICES ASSUME NEW g \in Challenge, challenge'[g] = "used"
                   PROVE  \E k \in Login : session'[k] # "none" /\ login'[k].signed = g
        OBVIOUS
      <4>1. CASE g = h
        BY <2>4, <2>5, <3>2, <4>1
      <4>2. CASE g # h
        <5>1. PICK k \in Login : session[k] # "none" /\ login[k].signed = g
          BY <3>1, <4>2 DEF SessionInv
        <5> QED BY <2>5, <3>2, <3>3, <5>1
      <4> QED BY <4>1, <4>2
    <3>7. \A c \in Visit : served'[c] # NoCall => session'[served'[c]] # "none" /\ login'[served'[c]].step = "ended"
      BY <1>0, <2>1, <2>4, <2>5, <3>2 DEF SessionInv, SessionTypeOK
    <3> QED BY <1>0, <2>1, <2>5, <3>1, <3>2, <3>4, <3>5, <3>6, <3>7 DEF SessionInv, SessionTypeOK
  <2> QED BY <1>3, <2>2, <2>7, <2>8 DEF OpenSession, LoginDies
<1>4. ASSUME NEW l \in Login, session[l] # "none", NEW status \in {"expired", "revoked"},
             session' = [session EXCEPT ![l] = status], UNCHANGED <<challenge, login>>,
             served' \in [Visit -> Login \cup {NoCall}], \A c \in Visit : served'[c] \in {served[c], NoCall}
      PROVE  SessionInv'
  <2>1. /\ session' \in [Login -> {"none", "live", "expired", "revoked"}]
        /\ \A k \in Login : session'[k] # "none" <=> session[k] # "none"
    BY <1>0, <1>4 DEF SessionTypeOK
  <2>2. \A c \in Visit : served'[c] # NoCall => served'[c] = served[c] /\ served[c] \in Login
    BY <1>0, <1>4 DEF SessionTypeOK
  <2> QED BY <1>4, <2>1, <2>2 DEF SessionInv, SessionTypeOK
<1>5. ASSUME NEW l \in Login, SessionExpires(l) PROVE SessionInv'
  BY <1>0, <1>4, <1>5 DEF SessionExpires, SessionTypeOK
<1>6. ASSUME NEW c \in Visit, Logout(c) PROVE SessionInv'
  <2>1. served[c] \in Login /\ session[served[c]] # "none"
    BY <1>0, <1>6 DEF Logout, SessionInv, SessionTypeOK
  <2>2. served' \in [Visit -> Login \cup {NoCall}] /\ \A d \in Visit : served'[d] \in {served[d], NoCall}
    BY <1>0, <1>6 DEF Logout, SessionTypeOK
  <2> QED BY <1>4, <1>6, <2>1, <2>2 DEF Logout
<1>7. ASSUME NEW c \in Visit, NEW l \in Login, FindSession(c, l) PROVE SessionInv'
  <2>1. session[l] = "live" /\ login[l].step = "ended" /\ UNCHANGED <<challenge, login, session>>
    BY <1>7 DEF FindSession, SessionInv
  <2>2. /\ served' \in [Visit -> Login \cup {NoCall}] /\ served'[c] = l
        /\ \A d \in Visit \ {c} : served'[d] = served[d]
    BY <1>0, <1>7 DEF FindSession, SessionTypeOK
  <2> QED BY <2>1, <2>2 DEF SessionInv, SessionTypeOK
<1>8. ASSUME NEW c \in Visit, CallEnds(c) PROVE SessionInv'
  <2>1. /\ served' \in [Visit -> Login \cup {NoCall}]
        /\ \A d \in Visit : served'[d] = served[d] \/ served'[d] = NoCall
    BY <1>0, <1>8 DEF CallEnds, SessionTypeOK
  <2> QED BY <1>8, <2>1 DEF CallEnds, SessionInv, SessionTypeOK
<1>9. CASE UNCHANGED sessionVars
  BY <1>9 DEF sessionVars, SessionInv, SessionTypeOK
<1> QED BY <1>1, <1>2, <1>3, <1>5, <1>6, <1>7, <1>8, <1>9 DEF SessionNext

\* What these invariants say of the rows.
LEMMA InvOneSessionEach == SessionInv => OneSessionEach
<1> SUFFICES ASSUME SessionInv PROVE OneSessionEach
  OBVIOUS
<1>1. ASSUME NEW h \in Challenge
      PROVE  Cardinality({l \in Login : session[l] # "none" /\ login[l].signed = h}) = (IF challenge[h] = "used" THEN 1 ELSE 0)
  <2> DEFINE S == {l \in Login : session[l] # "none" /\ login[l].signed = h}
  <2>1. CASE challenge[h] = "used"
    <3>1. PICK l \in Login : S = {l}
      <4>1. PICK l \in Login : session[l] # "none" /\ login[l].signed = h
        BY <2>1 DEF SessionInv
      <4>2. \A k \in S : k = l
        BY <4>1 DEF SessionInv
      <4> QED BY <4>1, <4>2
    <3>2. Cardinality({l}) = 1
      BY FS_Singleton, Zenon
    <3> QED BY <2>1, <3>1, <3>2
  <2>2. CASE challenge[h] # "used"
    <3>1. S = {}
      BY <2>2 DEF SessionInv
    <3>2. Cardinality({}) = 0
      BY FS_EmptySet, Zenon
    <3> QED BY <2>2, <3>1, <3>2
  <2> QED BY <2>1, <2>2
<1> QED BY <1>1 DEF SessionInv, OneSessionEach

-----------------------------------------------------------------------------
(* How often an account may call. *)

\* The hits of a limit, each with the number of the hit its window began with:
\* a window begins when the one before is over, and lasts as long as it may.
HitType == [at : Nat, says : {"passed", "warned", "refused"}]

Windows(v, first) ==
  \A i \in 1 .. Len(v) :
    /\ first[i] <= i /\ v[i].at < v[first[i]].at + RateWindow
    /\ \A j \in 1 .. i :
         /\ v[j].at <= v[i].at
         /\ j >= first[i] => first[j] = first[i]
         /\ j < first[i] => v[first[j]].at + RateWindow <= v[first[i]].at

\* What a limit says to the n-th hit of a window.
SaysTo(n, limit) == IF n <= limit THEN "passed" ELSE IF n = limit + 1 THEN "warned" ELSE "refused"

\* The hits of a limit, and what its counter makes of the last window.
Counted(l, first) ==
  LET v == verdicts[l] n == Len(v)
  IN /\ Windows(v, first)
     /\ \A i \in 1 .. n : v[i].at <= moment /\ v[i].says = SaysTo(i - first[i] + 1, LimitOf[l])
     /\ n = 0 => counter[l] = NoHits
     /\ n # 0 => counter[l] = [count |-> n - first[n] + 1, resetAt |-> v[first[n]].at + RateWindow]

RateInv ==
  /\ moment \in Nat
  /\ counter \in [DOMAIN LimitOf -> [count : Nat, resetAt : Nat]]
  /\ verdicts \in [DOMAIN LimitOf -> Seq(HitType)]
  /\ \A l \in DOMAIN LimitOf : \E first \in [1 .. Len(verdicts[l]) -> 1 .. Len(verdicts[l])] : Counted(l, first)

\* The limits are numbers, and there is one for each kind of call.
LEMMA LimitTypes ==
  /\ RateWindow \in Nat \ {0}
  /\ \A l \in DOMAIN LimitOf : LimitOf[l] \in Nat \ {0}
  /\ NoHits \in [count : Nat, resetAt : Nat] /\ NoHits.resetAt = 0
BY RateAssumption DEF LimitOf, NoHits

\* A hit of a sequence of hits.
LEMMA HitTyped ==
  ASSUME NEW v \in Seq(HitType), NEW i \in 1 .. Len(v)
  PROVE  v[i] \in HitType /\ v[i].at \in Nat
<1>1. v[i] \in HitType
  OBVIOUS
<1> QED BY <1>1 DEF HitType

\* A hit opens a window or falls into the last.
Grows(v, first, hit, g, w, f) ==
  /\ v \in Seq(HitType) /\ first \in [1 .. Len(v) -> 1 .. Len(v)] /\ Windows(v, first)
  /\ hit \in HitType /\ g \in 1 .. Len(v) + 1 /\ \A i \in 1 .. Len(v) : v[i].at <= hit.at
  /\ \/ g = Len(v) + 1 /\ (Len(v) # 0 => v[first[Len(v)]].at + RateWindow <= hit.at)
     \/ Len(v) # 0 /\ g = first[Len(v)] /\ hit.at < v[g].at + RateWindow
  /\ w = Append(v, hit)
  /\ f = [i \in 1 .. Len(v) + 1 |-> IF i <= Len(v) THEN first[i] ELSE g]

\* Either way the windows stay windows.
LEMMA WindowsGrow ==
  ASSUME NEW v, NEW first, NEW hit, NEW g, NEW w, NEW f, Grows(v, first, hit, g, w, f)
  PROVE  Windows(w, f) /\ f \in [1 .. Len(w) -> 1 .. Len(w)]
<1> USE DEF Grows
<1> DEFINE n == Len(v)
<1>0. n \in Nat /\ RateWindow \in Nat \ {0} /\ hit.at \in Nat
  BY LimitTypes DEF HitType
<1>1. /\ Len(w) = n + 1 /\ w[n + 1] = hit
      /\ \A i \in 1 .. n : w[i] = v[i] /\ v[i].at \in Nat
  <2>1. Len(w) = n + 1 /\ w[n + 1] = hit /\ \A i \in 1 .. n : w[i] = v[i]
    OBVIOUS
  <2> QED BY <2>1, HitTyped
<1>2. /\ f[n + 1] = g
      /\ \A i \in 1 .. n : f[i] = first[i] /\ first[i] \in 1 .. n
  <2>1. n + 1 \in 1 .. n + 1 /\ ~ (n + 1 <= n)
    BY <1>0
  <2>2. f[n + 1] = g
    BY <2>1
  <2>3. ASSUME NEW i \in 1 .. n PROVE f[i] = first[i] /\ first[i] \in 1 .. n
    <3>1. i \in 1 .. n + 1 /\ i <= n
      BY <1>0
    <3> QED BY <3>1
  <2> QED BY <2>2, <2>3
<1>3. f \in [1 .. Len(w) -> 1 .. Len(w)]
  BY <1>0, <1>1
<1>4. ASSUME NEW i \in 1 .. n
      PROVE  /\ f[i] <= i /\ w[i].at < w[f[i]].at + RateWindow
             /\ \A j \in 1 .. i :
                  /\ w[j].at <= w[i].at
                  /\ j >= f[i] => f[j] = f[i]
                  /\ j < f[i] => w[f[j]].at + RateWindow <= w[f[i]].at
  <2>1. \A j \in 1 .. i : j \in 1 .. n
    BY <1>0
  <2>2. /\ first[i] <= i /\ v[i].at < v[first[i]].at + RateWindow
        /\ \A j \in 1 .. i :
             /\ v[j].at <= v[i].at
             /\ j >= first[i] => first[j] = first[i]
             /\ j < first[i] => v[first[j]].at + RateWindow <= v[first[i]].at
    BY DEF Windows
  <2>3. f[i] = first[i] /\ w[i] = v[i] /\ w[f[i]] = v[first[i]]
    BY <1>1, <1>2
  <2>4. \A j \in 1 .. i : f[j] = first[j] /\ w[j] = v[j] /\ w[f[j]] = v[first[j]]
    BY <1>1, <1>2, <2>1
  <2> QED BY <2>2, <2>3, <2>4
<1>5. f[n + 1] <= n + 1 /\ w[n + 1].at < w[f[n + 1]].at + RateWindow
  BY <1>0, <1>1, <1>2
<1>6. ASSUME NEW j \in 1 .. n
      PROVE  /\ w[j].at <= w[n + 1].at
             /\ j >= f[n + 1] => f[j] = f[n + 1]
             /\ j < f[n + 1] => w[f[j]].at + RateWindow <= w[f[n + 1]].at
  <2>1. n \in 1 .. n /\ j \in 1 .. n
    BY <1>0
  <2>2. /\ first[n] <= n
        /\ j >= first[n] => first[j] = first[n]
        /\ j < first[n] => v[first[j]].at + RateWindow <= v[first[n]].at
    BY <2>1 DEF Windows
  <2>3. CASE g = n + 1
    <3>1. /\ v[first[n]].at + RateWindow <= hit.at
          /\ v[first[n]].at \in Nat /\ v[first[j]].at \in Nat
      BY <1>0, <1>1, <1>2, <2>1, <2>3
    <3>2. v[first[j]].at + RateWindow <= hit.at
      <4>1. PICK a \in Nat, b \in Nat : a = v[first[j]].at /\ b = v[first[n]].at
        BY <3>1
      <4>2. CASE j >= first[n]
        BY <2>2, <3>1, <4>2
      <4>3. CASE j < first[n]
        <5>1. a + RateWindow <= b /\ b + RateWindow <= hit.at
          BY <2>2, <3>1, <4>1, <4>3
        <5>2. a + RateWindow <= hit.at
          BY <1>0, <5>1
        <5> QED BY <4>1, <5>2
      <4>4. first[n] \in Nat /\ j \in Nat
        BY <1>2, <2>1
      <4> QED BY <4>2, <4>3, <4>4
    <3>3. f[j] = first[j] /\ w[f[j]] = v[first[j]] /\ w[j] = v[j] /\ w[n + 1] = hit /\ f[n + 1] = n + 1
      BY <1>0, <1>1, <1>2, <2>1, <2>3
    <3>5. ~ (j >= n + 1)
      BY <1>0
    <3>4. v[j].at <= hit.at
      BY <2>1
    <3> QED BY <3>2, <3>3, <3>4, <3>5
  <2>4. CASE g # n + 1
    <3>1. g = first[n] /\ g \in 1 .. n
      BY <1>2, <2>1, <2>4
    <3>2. /\ f[j] = first[j] /\ w[f[j]] = v[first[j]] /\ w[j] = v[j] /\ w[n + 1] = hit
          /\ f[n + 1] = first[n] /\ w[f[n + 1]] = v[first[n]]
      BY <1>0, <1>1, <1>2, <2>1, <3>1
    <3>3. v[j].at <= hit.at
      BY <2>1
    <3> QED BY <2>2, <3>2, <3>3
  <2> QED BY <2>3, <2>4
<1>7. \A j \in 1 .. n + 1 : j \in 1 .. n \/ j = n + 1
  BY <1>0
<1>8. \A i \in 1 .. Len(w) :
        /\ f[i] <= i /\ w[i].at < w[f[i]].at + RateWindow
        /\ \A j \in 1 .. i :
             /\ w[j].at <= w[i].at
             /\ j >= f[i] => f[j] = f[i]
             /\ j < f[i] => w[f[j]].at + RateWindow <= w[f[i]].at
  <2> SUFFICES ASSUME NEW i \in 1 .. n + 1
               PROVE  /\ f[i] <= i /\ w[i].at < w[f[i]].at + RateWindow
                      /\ \A j \in 1 .. i :
                           /\ w[j].at <= w[i].at
                           /\ j >= f[i] => f[j] = f[i]
                           /\ j < f[i] => w[f[j]].at + RateWindow <= w[f[i]].at
    BY <1>1
  <2>1. CASE i \in 1 .. n
    BY <1>4, <2>1
  <2>2. CASE i = n + 1
    <3>1. ASSUME NEW j \in 1 .. i
          PROVE  /\ w[j].at <= w[i].at
                 /\ j >= f[i] => f[j] = f[i]
                 /\ j < f[i] => w[f[j]].at + RateWindow <= w[f[i]].at
      <4>1. CASE j \in 1 .. n
        BY <1>6, <2>2, <4>1
      <4>2. CASE j = n + 1
        BY <1>0, <1>1, <1>2, <2>2, <4>2
      <4> QED BY <1>7, <2>2, <4>1, <4>2
    <3> QED BY <1>5, <2>2, <3>1
  <2> QED BY <1>7, <2>1, <2>2
<1> QED BY <1>3, <1>8 DEF Windows

\* The counter of a limit and its verdicts, hit by hit.
LEMMA HitCounts ==
  ASSUME RateInv, NEW l \in DOMAIN LimitOf, Hit(l)
  PROVE  RateInv'
<1> DEFINE n == Len(verdicts[l])
<1>1. PICK first \in [1 .. n -> 1 .. n] : Counted(l, first)
  BY DEF RateInv
<1>2. /\ moment \in Nat /\ verdicts[l] \in Seq(HitType) /\ n \in Nat /\ UNCHANGED moment
      /\ RateWindow \in Nat \ {0} /\ LimitOf[l] \in Nat \ {0} /\ counter[l] \in [count : Nat, resetAt : Nat]
  BY LimitTypes DEF RateInv, Hit
<1>3. PICK row : row = Consumed(l)
  OBVIOUS
<1>4. PICK says : says = Verdict(l)
  OBVIOUS
<1>5. PICK g \in 1 .. n + 1 : g = IF counter[l].resetAt <= moment THEN n + 1 ELSE first[n]
  <2>1. CASE counter[l].resetAt <= moment
    <3>1. n + 1 \in 1 .. n + 1
      BY <1>2
    <3> QED BY <2>1, <3>1, Zenon
  <2>2. CASE ~ (counter[l].resetAt <= moment)
    <3>1. n # 0
      BY <1>1, <1>2, <2>2, LimitTypes DEF Counted
    <3>2. first[n] \in 1 .. n + 1
      BY <1>2, <3>1
    <3> QED BY <2>2, <3>2, Zenon
  <2> QED BY <2>1, <2>2
<1>6. n # 0 => /\ counter[l].count = n - first[n] + 1
               /\ counter[l].resetAt = verdicts[l][first[n]].at + RateWindow
               /\ first[n] \in 1 .. n /\ verdicts[l][first[n]].at \in Nat
  <2> SUFFICES ASSUME n # 0
               PROVE  /\ counter[l].count = n - first[n] + 1
                      /\ counter[l].resetAt = verdicts[l][first[n]].at + RateWindow
                      /\ first[n] \in 1 .. n /\ verdicts[l][first[n]].at \in Nat
    OBVIOUS
  <2>1. first[n] \in 1 .. n
    BY <1>2
  <2>2. verdicts[l][first[n]].at \in Nat
    BY <1>2, <2>1, HitTyped
  <2>3. counter[l] = [count |-> n - first[n] + 1, resetAt |-> verdicts[l][first[n]].at + RateWindow]
    BY <1>1 DEF Counted
  <2> QED BY <2>1, <2>2, <2>3
<1>7. counter[l].resetAt > moment => n # 0
  BY <1>1, <1>2, LimitTypes DEF Counted
<1>8. row.count = n + 1 - g + 1 /\ row.count \in Nat
  <2>1. CASE counter[l].resetAt <= moment
    BY <1>2, <1>3, <1>5, <2>1 DEF Consumed
  <2>2. CASE ~ (counter[l].resetAt <= moment)
    <3>1. row.count = counter[l].count + 1 /\ n # 0
      BY <1>2, <1>3, <1>7, <2>2 DEF Consumed
    <3>2. g = first[n] /\ counter[l].count = n - g + 1 /\ g \in 1 .. n
      BY <1>5, <1>6, <2>2, <3>1
    <3> QED BY <1>2, <3>1, <3>2
  <2> QED BY <2>1, <2>2
<1>9. says = SaysTo(row.count, LimitOf[l]) /\ says \in {"passed", "warned", "refused"}
  BY <1>2, <1>3, <1>4, <1>8 DEF Verdict, SaysTo
<1>10. PICK hit : hit = [at |-> moment, says |-> says]
  OBVIOUS
<1>11. hit \in HitType /\ hit.at = moment /\ hit.says = says
  BY <1>2, <1>9, <1>10 DEF HitType
<1>12. PICK w : w = Append(verdicts[l], hit)
  OBVIOUS
<1>13. /\ counter' = [counter EXCEPT ![l] = row] /\ verdicts' = [verdicts EXCEPT ![l] = w]
  BY <1>3, <1>4, <1>10, <1>12 DEF Hit
<1>14. /\ w \in Seq(HitType) /\ Len(w) = n + 1 /\ w[n + 1] = hit
       /\ \A i \in 1 .. n : w[i] = verdicts[l][i]
  BY <1>2, <1>11, <1>12
<1>15. PICK f : f = [i \in 1 .. n + 1 |-> IF i <= n THEN first[i] ELSE g]
  OBVIOUS
<1>16. Windows(w, f) /\ f \in [1 .. Len(w) -> 1 .. Len(w)]
  <2>1. \A i \in 1 .. n : verdicts[l][i].at <= hit.at
    BY <1>1, <1>11 DEF Counted
  <2>2. \/ g = n + 1 /\ (n # 0 => verdicts[l][first[n]].at + RateWindow <= hit.at)
        \/ n # 0 /\ g = first[n] /\ hit.at < verdicts[l][g].at + RateWindow
    BY <1>2, <1>5, <1>6, <1>7, <1>11, SMTT(60)
  <2>3. Windows(verdicts[l], first)
    BY <1>1 DEF Counted
  <2> HIDE DEF n
  <2> QED
    <3>1. Grows(verdicts[l], first, hit, g, w, f)
      BY <1>2, <1>11, <1>12, <1>15, <2>1, <2>2, <2>3, Zenon DEF n, Grows
    <3> QED BY <3>1, WindowsGrow, Zenon
<1>17. /\ f[n + 1] = g /\ \A i \in 1 .. n : f[i] = first[i]
       /\ row = [count |-> n + 1 - g + 1, resetAt |-> w[g].at + RateWindow]
       /\ row \in [count : Nat, resetAt : Nat]
  <2>1. f[n + 1] = g /\ \A i \in 1 .. n : f[i] = first[i]
    BY <1>2, <1>15
  <2>2. row \in [count : Nat, resetAt : Nat] /\ row.resetAt = w[g].at + RateWindow
    <3>1. CASE counter[l].resetAt <= moment
      BY <1>2, <1>3, <1>5, <1>11, <1>14, <3>1 DEF Consumed
    <3>2. CASE ~ (counter[l].resetAt <= moment)
      <4>1. row = [counter[l] EXCEPT !.count = counter[l].count + 1] /\ n # 0
        BY <1>2, <1>3, <1>7, <3>2 DEF Consumed
      <4>2. g = first[n] /\ g \in 1 .. n
        BY <1>5, <1>6, <3>2, <4>1
      <4>3. row \in [count : Nat, resetAt : Nat] /\ row.resetAt = counter[l].resetAt
        BY <1>2, <4>1, SMTT(60)
      <4>4. w[g] = verdicts[l][first[n]]
        BY <1>14, <4>2
      <4> QED BY <1>6, <4>1, <4>3, <4>4
    <3> QED BY <3>1, <3>2
  <2>3. row = [count |-> row.count, resetAt |-> row.resetAt]
    BY <2>2
  <2> QED BY <1>8, <2>1, <2>2, <2>3
<1>18. verdicts'[l] = w /\ counter'[l] = row /\ \A m \in DOMAIN LimitOf \ {l} : verdicts'[m] = verdicts[m] /\ counter'[m] = counter[m]
  BY <1>13 DEF RateInv
<1>19. \E h \in [1 .. Len(verdicts'[l]) -> 1 .. Len(verdicts'[l])] : Counted(l, h)'
  <2>1. \A i \in 1 .. n + 1 : w[i].at <= moment' /\ w[i].says = SaysTo(i - f[i] + 1, LimitOf[l])
    <3>1. ASSUME NEW i \in 1 .. n PROVE w[i].at <= moment' /\ w[i].says = SaysTo(i - f[i] + 1, LimitOf[l])
      BY <1>1, <1>2, <1>14, <1>17 DEF Counted
    <3> SUFFICES ASSUME NEW i \in 1 .. n + 1 PROVE w[i].at <= moment' /\ w[i].says = SaysTo(i - f[i] + 1, LimitOf[l])
      OBVIOUS
    <3>3. i \in 1 .. n \/ i = n + 1
      BY <1>2
    <3>4. CASE i = n + 1
      <4>0. w[i] = hit /\ f[i] = g
        BY <1>14, <1>17, <3>4, Zenon
      <4>1. row.count = i - g + 1
        BY <1>2, <1>8, <3>4
      <4> QED BY <1>2, <1>9, <1>11, <4>0, <4>1
    <3> QED BY <3>1, <3>3, <3>4
  <2>2. n + 1 # 0
    BY <1>2
  <2>3. Counted(l, f)'
    <3>1. Windows(verdicts'[l], f)
      BY <1>16, <1>18, Zenon
    <3>2. Len(verdicts'[l]) = n + 1
      BY <1>14, <1>18, Zenon
    <3>3. \A i \in 1 .. n + 1 : verdicts'[l][i].at <= moment' /\ verdicts'[l][i].says = SaysTo(i - f[i] + 1, LimitOf[l])
      BY <2>1, <1>18, Zenon
    <3>4. \A i \in 1 .. Len(verdicts'[l]) :
            verdicts'[l][i].at <= moment' /\ verdicts'[l][i].says = SaysTo(i - f[i] + 1, LimitOf[l])
      BY <3>2, <3>3, Zenon
    <3>5. Len(verdicts'[l]) # 0
      BY <2>2, <3>2, Zenon
    <3>6. counter'[l] = [count |-> Len(verdicts'[l]) - f[Len(verdicts'[l])] + 1,
                         resetAt |-> verdicts'[l][f[Len(verdicts'[l])]].at + RateWindow]
      <4>1. f[Len(w)] = g
        BY <1>14, <1>17, Zenon
      <4>2. row.count = Len(w) - g + 1
        BY <1>2, <1>8, <1>14
      <4>3. row = [count |-> row.count, resetAt |-> w[g].at + RateWindow]
        BY <1>17
      <4>4. row.count = Len(w) - f[Len(w)] + 1
        BY <4>1, <4>2, Zenon
      <4>5. row = [count |-> Len(w) - f[Len(w)] + 1, resetAt |-> w[f[Len(w)]].at + RateWindow]
        BY <4>1, <4>3, <4>4, Zenon
      <4> QED BY <1>18, <4>5, Zenon
    <3> HIDE DEF n
    <3> QED BY <3>1, <3>4, <3>5, <3>6, Zenon DEF Counted
  <2> QED BY <1>16, <1>18, <2>3
<1>20. ASSUME NEW m \in DOMAIN LimitOf \ {l}
       PROVE  \E h \in [1 .. Len(verdicts'[m]) -> 1 .. Len(verdicts'[m])] : Counted(m, h)'
  <2>1. PICK h \in [1 .. Len(verdicts[m]) -> 1 .. Len(verdicts[m])] : Counted(m, h)
    BY DEF RateInv
  <2>2. Counted(m, h)'
    BY <1>2, <1>18, <2>1 DEF Counted
  <2> QED BY <1>18, <2>1, <2>2
<1>21. /\ counter' \in [DOMAIN LimitOf -> [count : Nat, resetAt : Nat]]
       /\ verdicts' \in [DOMAIN LimitOf -> Seq(HitType)]
  BY <1>13, <1>14, <1>17 DEF RateInv
<1> QED BY <1>2, <1>19, <1>20, <1>21 DEF RateInv

\* Calls, payments and time, step by step.
LEMMA NextRateInv == RateInv /\ [RateNext]_rateLimitVars => RateInv'
<1> SUFFICES ASSUME RateInv, [RateNext]_rateLimitVars PROVE RateInv'
  OBVIOUS
<1>1. "general" \in DOMAIN LimitOf /\ "send" \in DOMAIN LimitOf
  BY DEF LimitOf
<1>2. CASE \E c \in Visit : PaymentArrives(c) \/ \E payment \in BOOLEAN : CallArrives(c, payment)
  BY <1>1, <1>2, HitCounts DEF PaymentArrives, CallArrives
<1>3. CASE RateTick \/ UNCHANGED rateLimitVars
  <2>1. UNCHANGED <<counter, verdicts>> /\ moment' \in Nat /\ moment' >= moment
    BY <1>3 DEF RateTick, rateLimitVars, RateInv
  <2>2. ASSUME NEW l \in DOMAIN LimitOf, NEW h \in [1 .. Len(verdicts[l]) -> 1 .. Len(verdicts[l])], Counted(l, h)
        PROVE  Counted(l, h)'
    <3>0. verdicts[l] \in Seq(HitType)
      BY DEF RateInv
    <3>1. \A i \in 1 .. Len(verdicts[l]) : verdicts[l][i].at \in Nat
      BY <3>0, HitTyped
    <3>2. \A i \in 1 .. Len(verdicts[l]) : verdicts[l][i].at <= moment'
      BY <2>1, <2>2, <3>1 DEF Counted, RateInv
    <3> QED BY <2>1, <2>2, <3>2 DEF Counted
  <2> QED BY <2>1, <2>2 DEF RateInv
<1> QED BY <1>2, <1>3 DEF RateNext

\* No more hits of one window are let through than the limit says.
LEMMA PassedOfWindow ==
  ASSUME RateInv, NEW l \in DOMAIN LimitOf, NEW first \in [1 .. Len(verdicts[l]) -> 1 .. Len(verdicts[l])], Counted(l, first),
         NEW g \in 1 .. Len(verdicts[l]),
         NEW S \in SUBSET {i \in 1 .. Len(verdicts[l]) : first[i] = g /\ verdicts[l][i].says = "passed"}
  PROVE  IsFiniteSet(S) /\ Cardinality(S) \in Nat /\ Cardinality(S) <= LimitOf[l]
<1> DEFINE L == LimitOf[l]
<1>1. L \in Nat \ {0} /\ g \in Int /\ g + L - 1 \in Int /\ Len(verdicts[l]) \in Nat
  BY LimitTypes DEF RateInv
<1>2. S \subseteq g .. g + L - 1
  <2> SUFFICES ASSUME NEW i \in S PROVE i \in g .. g + L - 1
    OBVIOUS
  <2>1. i \in 1 .. Len(verdicts[l]) /\ first[i] = g /\ verdicts[l][i].says = "passed"
    OBVIOUS
  <2>2. g <= i /\ SaysTo(i - g + 1, L) = "passed"
    BY <2>1 DEF Counted, Windows
  <2>3. i - g + 1 <= L
    BY <2>2 DEF SaysTo
  <2> QED BY <1>1, <2>1, <2>2, <2>3
<1>3. IsFiniteSet(g .. g + L - 1) /\ Cardinality(g .. g + L - 1) = L
  <2>1. ~ (g > g + L - 1) /\ (g + L - 1) - g + 1 = L
    BY <1>1
  <2> QED BY <1>1, <2>1, FS_Interval
<1>4. IsFiniteSet(S) /\ Cardinality(S) <= Cardinality(g .. g + L - 1)
  BY <1>2, <1>3, FS_Subset
<1> QED BY <1>3, <1>4, FS_CardinalityType

\* What the counters say of any stretch of time.
LEMMA InvLimitsHold == RateInv => LimitsHold
<1> SUFFICES ASSUME RateInv, NEW l \in DOMAIN LimitOf
             PROVE  /\ \A t \in 0 .. MaxMoment : PassedBefore(l, t) <= 2 * LimitOf[l]
                    /\ \A i \in DOMAIN verdicts[l] :
                         LET v == verdicts[l][i]
                         IN v.says # "passed" =>
                              /\ PassedBefore(l, v.at) >= LimitOf[l]
                              /\ (v.says = "warned") = (verdicts[l][i - 1].says = "passed")
  BY DEF LimitsHold
<1> DEFINE n == Len(verdicts[l])
           L == LimitOf[l]
           at(i) == verdicts[l][i].at
           passed(t) == {i \in 1 .. n : verdicts[l][i].says = "passed" /\ at(i) \in (t - RateWindow + 1) .. t}
<1>1. PICK first \in [1 .. n -> 1 .. n] : Counted(l, first)
  BY DEF RateInv
<1>2. /\ n \in Nat /\ DOMAIN verdicts[l] = 1 .. n /\ L \in Nat \ {0} /\ RateWindow \in Nat \ {0}
      /\ \A i \in 1 .. n : at(i) \in Nat /\ first[i] \in 1 .. n /\ at(first[i]) \in Nat
  <2>1. verdicts[l] \in Seq(HitType)
    BY DEF RateInv
  <2>2. \A i \in 1 .. n : at(i) \in Nat
    BY <2>1, HitTyped
  <2> QED BY <2>1, <2>2, LimitTypes
<1>w. RateWindow \in Nat \ {0}
  BY LimitTypes
<1>3. ASSUME NEW i \in 1 .. n
      PROVE  first[i] <= i /\ at(first[i]) <= at(i) /\ at(i) < at(first[i]) + RateWindow
  <2>1. first[i] <= i
    BY <1>1 DEF Counted, Windows
  <2>2. first[i] \in 1 .. i
    BY <1>2, <2>1
  <2> QED BY <1>1, <2>1, <2>2 DEF Counted, Windows
<1>4. ASSUME NEW i \in 1 .. n, NEW j \in 1 .. n, first[i] # first[j]
      PROVE  \/ at(first[i]) + RateWindow <= at(first[j])
             \/ at(first[j]) + RateWindow <= at(first[i])
  <2>1. CASE j <= i
    <3>1. j \in 1 .. i
      BY <1>2, <2>1
    <3> QED BY <1>1, <1>2, <1>4, <3>1 DEF Counted, Windows
  <2>2. CASE i <= j
    <3>1. i \in 1 .. j
      BY <1>2, <2>2
    <3> QED BY <1>1, <1>2, <1>4, <3>1 DEF Counted, Windows
  <2> QED BY <1>2, <2>1, <2>2
<1>5. ASSUME NEW t \in Nat PROVE IsFiniteSet(passed(t)) /\ Cardinality(passed(t)) \in Nat /\ PassedBefore(l, t) = Cardinality(passed(t))
  <2>1. IsFiniteSet(1 .. n)
    <3>1. 1 \in Int /\ n \in Int
      BY <1>2
    <3> QED BY <3>1, FS_Interval, Zenon
  <2>2. IsFiniteSet(passed(t))
    BY <2>1, FS_Subset
  <2>3. PassedBefore(l, t) = Cardinality(passed(t))
    BY <1>2 DEF PassedBefore
  <2> QED BY <2>2, <2>3, FS_CardinalityType
<1>6. ASSUME NEW t \in 0 .. MaxMoment PROVE PassedBefore(l, t) <= 2 * L
  <2>0. t \in Nat
    BY RateAssumption
  <2>a. ASSUME NEW k \in passed(t)
        PROVE  at(first[k]) <= t /\ t + 1 < at(first[k]) + 2 * RateWindow
    <3>1. k \in 1 .. n /\ at(k) \in (t - RateWindow + 1) .. t
      OBVIOUS
    <3>2. PICK a \in Nat, b \in Nat : a = at(first[k]) /\ b = at(k)
      BY <1>2, <3>1
    <3>3. a <= b /\ b < a + RateWindow
      BY <1>3, <3>1, <3>2
    <3>4. b \in (t - RateWindow + 1) .. t
      BY <3>1, <3>2
    <3>5. b <= t /\ t + 1 <= b + RateWindow
      BY <1>w, <2>0, <3>4
    <3>6. a <= t /\ t + 1 < a + 2 * RateWindow
      BY <1>w, <2>0, <3>3, <3>5, SMTT(60)
    <3> QED BY <3>2, <3>6
  <2>1. CASE passed(t) = {}
    <3>1. Cardinality({}) = 0
      BY FS_EmptySet, Zenon
    <3>2. PassedBefore(l, t) = 0
      BY <1>5, <2>0, <2>1, <3>1
    <3> QED BY <1>2, <3>2
  <2>2. ASSUME NEW i \in passed(t) PROVE PassedBefore(l, t) <= 2 * L
    <3> DEFINE A == {m \in passed(t) : first[m] = first[i]}
    <3>1. i \in 1 .. n /\ IsFiniteSet(A) /\ Cardinality(A) \in Nat /\ Cardinality(A) <= L
      <4>1. A \in SUBSET {m \in 1 .. n : first[m] = first[i] /\ verdicts[l][m].says = "passed"}
        OBVIOUS
      <4>2. i \in 1 .. n /\ first[i] \in 1 .. n
        BY <1>2
      <4> HIDE DEF A
      <4> QED BY <1>1, <4>1, <4>2, PassedOfWindow, Zenon
    <3>2. CASE passed(t) = A
      <4>1. PICK c \in Nat : c = Cardinality(A)
        BY <3>1
      <4>2. PassedBefore(l, t) = c /\ c <= L
        BY <1>5, <2>0, <3>1, <3>2, <4>1
      <4>3. c <= 2 * L
        BY <1>2, <4>2
      <4> QED BY <4>2, <4>3
    <3>3. ASSUME NEW j \in passed(t), first[j] # first[i] PROVE PassedBefore(l, t) <= 2 * L
      <4> DEFINE B == {m \in passed(t) : first[m] = first[j]}
      <4>1. j \in 1 .. n /\ IsFiniteSet(B) /\ Cardinality(B) \in Nat /\ Cardinality(B) <= L
        <5>1. B \in SUBSET {m \in 1 .. n : first[m] = first[j] /\ verdicts[l][m].says = "passed"}
          OBVIOUS
        <5>2. j \in 1 .. n /\ first[j] \in 1 .. n
          BY <1>2
        <5> HIDE DEF B
        <5> QED BY <1>1, <5>1, <5>2, PassedOfWindow, Zenon
      <4>2. ASSUME NEW m \in passed(t) PROVE first[m] = first[i] \/ first[m] = first[j]
        <5> SUFFICES ASSUME first[m] # first[i], first[m] # first[j] PROVE FALSE
          OBVIOUS
        <5>1. PICK a \in Nat, b \in Nat, c \in Nat : a = at(first[i]) /\ b = at(first[j]) /\ c = at(first[m])
          BY <1>2
        <5>2. \A x \in {a, b, c} : x <= t /\ t + 1 < x + 2 * RateWindow
          BY <2>a, <5>1
        <5>3. i \in 1 .. n /\ j \in 1 .. n /\ m \in 1 .. n
          OBVIOUS
        <5>4. /\ a + RateWindow <= b \/ b + RateWindow <= a
              /\ a + RateWindow <= c \/ c + RateWindow <= a
              /\ b + RateWindow <= c \/ c + RateWindow <= b
          BY <1>4, <3>3, <5>1, <5>3
        <5> QED BY <1>2, <2>0, <5>2, <5>4
      <4>3. passed(t) = A \cup B
        BY <4>2, SMTT(60)
      <4>4. Cardinality(A \cup B) = Cardinality(A) + Cardinality(B) - Cardinality(A \cap B)
        BY <3>1, <4>1, FS_Union
      <4>5. Cardinality(A \cap B) \in Nat
        <5>1. A \cap B \in SUBSET A
          OBVIOUS
        <5>2. IsFiniteSet(A \cap B)
          BY <3>1, <5>1, FS_Subset
        <5> QED BY <5>2, FS_CardinalityType
      <4>6. Cardinality(passed(t)) <= 2 * L
        <5>1. PICK a \in Nat, b \in Nat, c \in Nat : a = Cardinality(A) /\ b = Cardinality(B) /\ c = Cardinality(A \cap B)
          BY <3>1, <4>1, <4>5
        <5>2. a <= L /\ b <= L /\ Cardinality(passed(t)) = a + b - c
          BY <3>1, <4>1, <4>3, <4>4, <5>1, Zenon
        <5>3. a + b - c <= 2 * L
          BY <1>2, <5>2
        <5> QED BY <5>2, <5>3, SMTT(60)
      <4> QED BY <1>5, <2>0, <4>6
    <3> QED BY <3>2, <3>3
  <2> QED BY <2>1, <2>2
<1>7. ASSUME NEW i \in 1 .. n, verdicts[l][i].says # "passed"
      PROVE  /\ PassedBefore(l, at(i)) >= L
             /\ (verdicts[l][i].says = "warned") = (verdicts[l][i - 1].says = "passed")
  <2> DEFINE g == first[i]
  <2>1. g \in 1 .. n /\ g <= i /\ verdicts[l][i].says = SaysTo(i - g + 1, L)
    BY <1>1, <1>2, <1>3 DEF Counted
  <2>2. i - g + 1 > L
    BY <1>2, <1>7, <2>1 DEF SaysTo
  <2>3. ASSUME NEW j \in g .. i PROVE j \in 1 .. n /\ first[j] = g /\ verdicts[l][j].says = SaysTo(j - g + 1, L) /\ at(j) <= at(i)
    <3>1. j \in 1 .. i /\ j \in 1 .. n /\ j >= g
      BY <1>2, <2>1
    <3>2. first[j] = g /\ at(j) <= at(i)
      BY <1>1, <3>1 DEF Counted, Windows
    <3>3. verdicts[l][j].says = SaysTo(j - first[j] + 1, L)
      BY <1>1, <3>1 DEF Counted
    <3> QED BY <3>1, <3>2, <3>3
  <2>4. g .. g + L - 1 \in SUBSET passed(at(i))
    <3> SUFFICES ASSUME NEW j \in g .. g + L - 1 PROVE j \in passed(at(i))
      OBVIOUS
    <3>1. j \in g .. i /\ j - g + 1 <= L
      BY <1>2, <2>1, <2>2
    <3>2. j \in 1 .. n /\ first[j] = g /\ verdicts[l][j].says = "passed" /\ at(j) <= at(i)
      BY <2>3, <3>1 DEF SaysTo
    <3>3. at(g) <= at(j) /\ at(i) < at(g) + RateWindow
      BY <1>3, <3>2
    <3>4. at(j) \in (at(i) - RateWindow + 1) .. at(i)
      <4>1. PICK a \in Nat, b \in Nat, c \in Nat : a = at(g) /\ b = at(j) /\ c = at(i)
        BY <1>2, <2>1, <3>2
      <4>2. b <= c /\ a <= b /\ c < a + RateWindow
        BY <3>2, <3>3, <4>1
      <4>3. b \in (c - RateWindow + 1) .. c
        BY <1>2, <4>2
      <4> QED BY <4>1, <4>3
    <3> QED BY <3>2, <3>4
  <2>5. PassedBefore(l, at(i)) >= L
    <3>1. ~ (g > g + L - 1) /\ (g + L - 1) - g + 1 = L /\ g \in Int /\ g + L - 1 \in Int
      BY <1>2, <2>1, SMTT(60)
    <3>2. Cardinality(g .. g + L - 1) = L
      BY <3>1, FS_Interval
    <3>3. at(i) \in Nat
      BY <1>2
    <3>4. IsFiniteSet(passed(at(i))) /\ PassedBefore(l, at(i)) = Cardinality(passed(at(i)))
      BY <1>5, <3>3
    <3>5. Cardinality(g .. g + L - 1) <= Cardinality(passed(at(i)))
      BY <2>4, <3>4, FS_Subset
    <3> QED BY <1>2, <1>5, <3>2, <3>3, <3>4, <3>5
  <2>6. (verdicts[l][i].says = "warned") = (verdicts[l][i - 1].says = "passed")
    <3>0. L \in Nat \ {0} /\ i \in Nat /\ g \in Nat
      BY <1>2, <2>1
    <3>1. i - 1 \in g .. i /\ (i - 1) - g + 1 = i - g
      BY <2>2, <3>0
    <3>2. verdicts[l][i - 1].says = SaysTo(i - g, L)
      BY <2>3, <3>1
    <3>3. SaysTo(i - g, L) = "passed" <=> i - g <= L
      BY DEF SaysTo
    <3>4. SaysTo(i - g + 1, L) = "warned" <=> i - g + 1 = L + 1
      <4>1. ~ (i - g + 1 <= L)
        BY <1>2, <2>1, <2>2
      <4> QED BY <4>1 DEF SaysTo
    <3>5. i - g <= L <=> i - g + 1 = L + 1
      BY <1>2, <2>1, <2>2
    <3> QED BY <2>1, <3>2, <3>3, <3>4, <3>5
  <2> QED BY <2>5, <2>6
<1> QED BY <1>2, <1>6, <1>7

\* The PIN, the account, the sessions and the counters at the start.
LEMMA InitAccessInv ==
  /\ AccessInit => PinInv /\ AccountInv
  /\ SessionInit => SessionInv
  /\ RateInit => RateInv
<1>1. AccessInit => PinInv
  <2> SUFFICES ASSUME AccessInit PROVE PinInv
    OBVIOUS
  <2>1. Unlocked \in PinRow /\ Unlocked.attempts = 0
    BY DEF Unlocked, PinRow
  <2>2. /\ NoAttempt \in [step : {"idle", "clearing", "comparing"}, row : PinRow]
        /\ NoAttempt.step = "idle"
    BY <2>1 DEF NoAttempt
  <2>3. ~ (0 >= FailureLimit)
    BY AccessAssumption
  <2>4. PinTypeOK
    BY <2>1, <2>2 DEF AccessInit, PinTypeOK
  <2> QED BY <2>1, <2>3, <2>4 DEF AccessInit, PinInv, PinHolds
<1>2. AccessInit => AccountInv
  <2> SUFFICES ASSUME AccessInit PROVE AccountInv
    OBVIOUS
  <2>1. account \in [deactivated : BOOLEAN, pending : BOOLEAN] /\ Status = "active"
    BY DEF AccessInit, Status
  <2>2. change \in [Admin -> {"idle", "active", "deactivated"}] /\ records = << >> /\ doubled \in BOOLEAN
    BY DEF AccessInit
  <2>3. << >> \in Seq({"active", "deactivated"}) /\ Len(<< >>) = 0
    OBVIOUS
  <2> QED BY <2>1, <2>2, <2>3 DEF AccountInv
<1>3. SessionInit => SessionInv
  BY DEF SessionInit, SessionInv, SessionTypeOK, NoLogin
<1>4. RateInit => RateInv
  <2> SUFFICES ASSUME RateInit PROVE RateInv
    OBVIOUS
  <2>1. ASSUME NEW l \in DOMAIN LimitOf PROVE \E first \in [1 .. Len(verdicts[l]) -> 1 .. Len(verdicts[l])] : Counted(l, first)
    <3>1. verdicts[l] = << >> /\ counter[l] = NoHits /\ Len(verdicts[l]) = 0
      BY DEF RateInit
    <3>2. PICK f : f = [i \in 1 .. Len(verdicts[l]) |-> i]
      OBVIOUS
    <3>3. f \in [1 .. Len(verdicts[l]) -> 1 .. Len(verdicts[l])]
      BY <3>2
    <3>4. Counted(l, f)
      BY <3>1 DEF Counted, Windows
    <3> QED BY <3>3, <3>4
  <2>2. /\ counter \in [DOMAIN LimitOf -> [count : Nat, resetAt : Nat]]
        /\ verdicts \in [DOMAIN LimitOf -> Seq(HitType)]
    BY LimitTypes DEF RateInit
  <2> QED BY <2>1, <2>2 DEF RateInit, RateInv
<1> QED BY <1>1, <1>2, <1>3, <1>4

\* The PIN, the account, the sessions and the limits at once, whatever the order
\* of their steps: the count of wrong PINs, the records of the account, one
\* session for each challenge, and how many calls pass in any stretch of time.
THEOREM SpecAccessTells == AccessSpec /\ SessionSpec /\ RateSpec => []AccessTells
<1>1. AccountInv => HistoryTells
  BY DEF AccountInv, HistoryTells
<1>2. PinInv => GuessesCounted
  BY DEF PinInv, PinTypeOK, PinHolds, AfterLock, GuessesCounted, Unlocked
<1>3. PinInv /\ AccountInv /\ SessionInv /\ RateInv => AccessTells
  BY <1>1, <1>2, InvOneSessionEach, InvLimitsHold DEF AccessTells
<1> QED
  BY <1>3, InitAccessInv, NextPinInv, NextAccountInv, NextSessionInv, NextRateInv, PTL
  DEF AccessSpec, SessionSpec, RateSpec
=============================================================================
