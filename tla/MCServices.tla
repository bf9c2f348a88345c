----------------------------- MODULE MCServices -----------------------------
(***************************************************************************)
(* Instances for TLC of the modules of which no other instance is made:    *)
(* the webhook's intake of a message, prices, the audit trail, callbacks,  *)
(* Horizon endpoints, administrators, their lists and dialogs, Telegram,   *)
(* the migration of phone numbers, dead letters, and the renewal of        *)
(* verifications. They share no state, so a behaviour is one of one of     *)
(* them, chosen at the start.                                              *)
(***************************************************************************)
EXTENDS Money, RateCache, AuditLog, Callbacks, HorizonPool, Administration,
        TelegramLinks, PhoneMigration, AdminLists, Inbound, DeadLetters, Renewal, TLC

CONSTANT message

VARIABLE part  \* the component that moves

Times == [m \in {message} |-> 1]
TriedAmounts == 0 .. 7 \cup {49, 50, 149, 150, 151}
TriedRates == {<<1, 0>>, <<5, 1>>, <<125, 2>>, <<33, 2>>, <<15, 0>>}
TriedPrecisions == {0, 2, 3}
\* The rows have the number of one person, in an old spelling or the canonical
\* one, or no number.
TriedNotes ==
  LET someone == CHOOSE p \in Person : TRUE
  IN [Note -> {Spelled(someone, "local"), Spelled(someone, "canonical"), Garbage}]
TwoEndpoints == <<"first", "second">>

\* Sessions and administrators' requests, webhook requests, operators and runs
\* of a job, which are the same two values in parts that never move together.
Alike == Permutations(Operator)

\* The parts that rest start in one state only. The list of users is the
\* list of wallets with a filter less.
MCInit ==
  /\ part \in {"money", "rates", "audit", "callbacks",
               "pool", "admin", "telegram", "migration", "lists", "dialogs", "inbound",
               "letters", "renewal"}
  /\ MoneyInit /\ RateInit /\ CallbackInit
  /\ PoolInit /\ TelegramInit /\ Init /\ LetterInit
  /\ RenewalInit /\ (part # "renewal" => identity.status = "approved" /\ identity.screened = 0)
  /\ AuditInit /\ (part # "audit" => ledger = "audit")
  /\ AdminInit /\ (part # "admin" => ~ Known(Bootstrap))
  /\ IF part = "migration" THEN MigrationInit /\ noteNo \in TriedNotes
     ELSE /\ number = [u \in Customer |-> Absent] /\ walletNo = number /\ opening = number
          /\ noteNo = [n \in Note |-> Absent]
          /\ migration = NoMigration /\ snapshot = NoSnapshot /\ runsLeft = 0
  /\ ListInit /\ DialogInit
  /\ IF part = "lists" THEN list # UsersList
     ELSE ListedRows = {} /\ list = UsersList /\ fetches[1].url.filter = "none"

Only(name) ==
  /\ part = name /\ UNCHANGED part
  /\ IF name = "money" THEN TRUE ELSE UNCHANGED sum
  /\ IF name = "rates" THEN TRUE ELSE UNCHANGED rateVars
  /\ IF name = "audit" THEN TRUE ELSE UNCHANGED auditVars
  /\ IF name = "callbacks" THEN TRUE ELSE UNCHANGED callbackVars
  /\ IF name = "pool" THEN TRUE ELSE UNCHANGED poolVars
  /\ IF name = "admin" THEN TRUE ELSE UNCHANGED adminVars
  /\ IF name = "telegram" THEN TRUE ELSE UNCHANGED telegramVars
  /\ IF name = "migration" THEN TRUE ELSE UNCHANGED migrationVars
  /\ IF name = "lists" THEN TRUE ELSE UNCHANGED listVars
  /\ IF name = "dialogs" THEN TRUE ELSE UNCHANGED dialogVars
  /\ IF name = "inbound" THEN TRUE ELSE UNCHANGED vars
  /\ IF name = "letters" THEN TRUE ELSE UNCHANGED letterVars
  /\ IF name = "renewal" THEN TRUE ELSE UNCHANGED renewalVars

MCNext ==
  \/ Only("money") /\ TrySum
  \/ Only("rates") /\ RateNext
  \/ Only("audit") /\ AuditNext
  \/ Only("callbacks") /\ CallbackNext
  \/ Only("pool") /\ PoolNext
  \/ Only("admin") /\ AdminNext
  \/ Only("telegram") /\ TelegramNext
  \/ Only("migration") /\ MigrationNext
  \/ Only("lists") /\ ListNext
  \/ Only("dialogs") /\ DialogNext
  \/ Only("inbound") /\ Next
  \/ Only("letters") /\ LetterNext
  \/ Only("renewal") /\ RenewalNext

MCSpec ==
  /\ MCInit
  /\ [][MCNext]_<<part, sum, rateVars, auditVars, callbackVars,
                  poolVars, adminVars, telegramVars, migrationVars, listVars,
                  dialogVars, vars, letterVars, renewalVars>>
=============================================================================
