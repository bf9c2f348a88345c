------------------------------ MODULE Renewal ------------------------------
(***************************************************************************)
(* The sweep over identity profiles that have grown old: reminders, and    *)
(* the escalation of those not acted on (compliance/verification.expiry.js *)
(* runVerificationExpirySweep), over one profile with the other writers of *)
(* its row (compliance.service.js, compliance.controller.js). KycProfile   *)
(* has the columns that are decided, which are left out here.              *)
(*                                                                         *)
(* Time is counted in periods. The row's updatedAt is set by every update, *)
(* that of a screening or a reminder included; there is no column for the  *)
(* time of the approval, which the model remembers beside the row.         *)
(***************************************************************************)
EXTENDS Integers

CONSTANTS KycStaleAge,    \* KYC_STALE_DAYS, 365, as the others in periods
          EscalateAge, \* KYC_ESCALATION_DAYS, 30
          ScreenAge,   \* SANCTION_EXPIRY_DAYS, 180
          RepeatAge,   \* the 7 and 14 days before a reminder is repeated
          MaxAge       \* ages are not told apart past this

ASSUME RenewalAssumption ==
  /\ {KycStaleAge, EscalateAge, ScreenAge, RepeatAge, MaxAge} \subseteq Nat
  /\ \A age \in {KycStaleAge, EscalateAge, ScreenAge, RepeatAge} : age < MaxAge
  /\ RepeatAge <= KycStaleAge

VARIABLES identity, \* the row: status, ages of its last update, screening and
                    \* reminder, and the type of the last reminder
          copy,     \* the row as the sweep read it, and what it is doing
          clean,    \* nobody wrote the row since the sweep read it
          approved, \* age of the approval
          spoken,   \* age of the last reminder's Notification row
          lost      \* that reminder was not stamped on the profile

renewalVars == <<identity, copy, clean, approved, spoken, lost>>

NoCopy == [step |-> "idle"]
NotReminded == "none"
Reminders == {"expired_sanctions", "stale", "missing"}

\* KYC_STATUS_TRANSITIONS.
StatusTransitions ==
  [not_started |-> {"pending"}, pending |-> {"approved", "rejected", "review"},
   review |-> {"approved", "rejected", "pending"}, approved |-> {"review"}, rejected |-> {"review"}]

RenewalInit ==
  /\ identity \in [status : {"approved", "not_started"}, updated : {0},
                   screened : {0, MaxAge}, reminded : {MaxAge}, type : {NotReminded}]
  /\ copy = NoCopy
  /\ clean = TRUE /\ lost = FALSE
  /\ approved = 0 /\ spoken = MaxAge

OlderAge(age) == IF age < MaxAge THEN age + 1 ELSE age
Aged(row) == [row EXCEPT !.updated = OlderAge(@), !.screened = OlderAge(@), !.reminded = OlderAge(@)]

PeriodPasses ==
  /\ identity' = Aged(identity)
  /\ copy' = IF copy = NoCopy THEN copy ELSE [copy EXCEPT !.row = Aged(@)]
  /\ approved' = OlderAge(approved) /\ spoken' = OlderAge(spoken)
  /\ UNCHANGED <<clean, lost>>
-----------------------------------------------------------------------------
(* The other writers. *)

OthersWrite(row) ==
  /\ identity' = [row EXCEPT !.updated = 0]
  /\ clean' = FALSE
  /\ UNCHANGED <<copy, spoken, lost>>

\* startKycVerification, and its second update if the submission failed.
StartVerification(status) ==
  /\ OthersWrite([identity EXCEPT !.status = status])
  /\ UNCHANGED approved

\* The callback's metadata replaces the one there was, reminder and all.
ProviderAnswers(status) ==
  /\ identity.status # "not_started"
  /\ OthersWrite([identity EXCEPT !.status = status, !.reminded = MaxAge, !.type = NotReminded])
  /\ approved' = IF status = "approved" THEN 0 ELSE approved

\* reviewKyc: along the matrix, or leaving the status as it is.
OperatorDecides(status) ==
  /\ status = identity.status \/ status \in StatusTransitions[identity.status]
  /\ OthersWrite([identity EXCEPT !.status = status])
  /\ approved' = IF status = "approved" /\ identity.status # "approved" THEN 0 ELSE approved

\* A payment is screened, whatever the result.
ScreenPayment ==
  /\ OthersWrite([identity EXCEPT !.screened = 0])
  /\ UNCHANGED approved
-----------------------------------------------------------------------------
(* The sweep. *)

\* Only approved and not yet started profiles are looked at.
ReadProfiles ==
  /\ copy = NoCopy
  /\ identity.status \in {"approved", "not_started"}
  /\ copy' = [step |-> "read", row |-> identity]
  /\ clean' = TRUE
  /\ UNCHANGED <<identity, approved, spoken, lost>>

\* isSanctionExpired, isKycStale, isEscalationDue.
SanctionExpired(row) == row.screened > ScreenAge
KycStale(row) == row.status = "approved" /\ row.updated > KycStaleAge
EscalationDue(row) == KycStale(row) /\ row.type # NotReminded /\ row.reminded > EscalateAge

RemindedRecently(row) == row.type # NotReminded /\ row.reminded < RepeatAge

\* The first that applies, in the order of the sweep.
Due(row) ==
  CASE EscalationDue(row) -> "escalation"
    [] ~ EscalationDue(row) /\ row.status = "approved" /\ SanctionExpired(row) -> "expired_sanctions"
    [] ~ EscalationDue(row) /\ KycStale(row) /\ ~ SanctionExpired(row) /\ ~ RemindedRecently(row) -> "stale"
    [] row.status = "not_started" /\ ~ RemindedRecently(row) -> "missing"
    [] OTHER -> "nothing"

\* The Notification row is written before the profile is stamped.
Notify ==
  /\ copy.step = "read"
  /\ LET due == Due(copy.row)
     IN /\ copy' = IF due = "nothing" THEN NoCopy
                   ELSE [copy EXCEPT !.step = IF due = "escalation" THEN "escalating" ELSE due]
        /\ spoken' = IF due \in Reminders THEN 0 ELSE spoken
  /\ UNCHANGED <<identity, clean, approved, lost>>

\* (Mutant: the metadata that was read goes over the reminder, not under it.)
StampUnder ==
  /\ copy.step \in Reminders
  /\ identity' = IF copy.row.type = NotReminded
                 THEN [identity EXCEPT !.updated = 0, !.reminded = 0, !.type = copy.step]
                 ELSE [identity EXCEPT !.updated = 0, !.reminded = copy.row.reminded, !.type = copy.row.type]
  /\ copy' = NoCopy
  /\ lost' = FALSE
  /\ UNCHANGED <<clean, approved, spoken>>

\* The stamp goes over the metadata that was read.
Stamp ==
  /\ copy.step \in Reminders
  /\ identity' = [identity EXCEPT !.updated = 0, !.reminded = 0, !.type = copy.step]
  /\ copy' = NoCopy
  /\ lost' = FALSE
  /\ UNCHANGED <<clean, approved, spoken>>

\* escalateToReview: by id, with the metadata that was read.
EscalateProfile ==
  /\ copy.step = "escalating"
  /\ identity' = [identity EXCEPT !.status = "review", !.updated = 0,
                                  !.reminded = copy.row.reminded, !.type = copy.row.type]
  /\ copy' = NoCopy
  /\ UNCHANGED <<clean, approved, spoken, lost>>

\* The update fails, or the process ends; a reminder is then sent again.
SweepFails ==
  /\ copy # NoCopy
  /\ copy' = NoCopy
  /\ lost' = (lost \/ copy.step \in Reminders)
  /\ UNCHANGED <<identity, clean, approved, spoken>>

RenewalNext ==
  \/ PeriodPasses
  \/ \E status \in {"pending", "review"} : StartVerification(status)
  \/ \E status \in {"approved", "rejected", "review"} : ProviderAnswers(status)
  \/ \E status \in DOMAIN StatusTransitions : OperatorDecides(status)
  \/ ScreenPayment
  \/ ReadProfiles \/ Notify \/ Stamp \/ EscalateProfile \/ SweepFails

RenewalSpec == RenewalInit /\ [][RenewalNext]_renewalVars
-----------------------------------------------------------------------------
\* A customer is not nudged or reminded of a stale verification again before the
\* time the code says has gone by since the last reminder of any type, whoever
\* wrote the profile in between, unless the stamp of that one was lost
\* (verification.expiry.js runVerificationExpirySweep "Don't re-send").
RemindersSpaced ==
  [][copy.step = "read" /\ copy'.step \in {"stale", "missing"} => lost \/ spoken >= RepeatAge]_renewalVars

=============================================================================
