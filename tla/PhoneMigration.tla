--------------------------- MODULE PhoneMigration ---------------------------
(***************************************************************************)
(* The scripts that rewrite phone numbers stored in an old spelling:       *)
(* canonicalize-phone-numbers.js (users and wallets one by one, then the   *)
(* other tables) and migrate-customer-identities.js (all or nothing, with  *)
(* a snapshot to roll back to). They read first and write by id later,     *)
(* while the bot registers whom it does not find under the canonical       *)
(* spelling.                                                               *)
(***************************************************************************)
EXTENDS Integers, FiniteSets

CONSTANTS Person, Customer,  \* who owns a number; ids of users
          Note, Contact,     \* rows of the other tables; the contacts of an owner are among them
          MaxMigrations      \* bound: runs of the scripts

ASSUME MigrationAssumption == MaxMigrations \in Nat /\ "nobody" \notin Person /\ Contact \subseteq Note

VARIABLES number,    \* User.phoneNumber
          walletNo,  \* the phone number on the wallet of each user
          noteNo,    \* the numbers in the other rows
          opening,   \* createOrGetWallet: the number of the owner it has read
          migration, \* the script
          snapshot,  \* of the last identity migration: the old numbers
          runsLeft   \* (bound) runs to come

migrationVars == <<number, walletNo, noteNo, opening, migration, snapshot, runsLeft>>

Spelled(p, form) == [person |-> p, form |-> form]
Absent == Spelled("nobody", "canonical")   \* no user, no wallet, nothing under way
Garbage == Spelled("nobody", "garbage")    \* a stored string that is no phone number
Valid(n) == n \notin {Absent, Garbage}
Canonical(n) == [n EXCEPT !.form = "canonical"]
NoMigration == [step |-> "none"]
NoSnapshot == [users |-> <<>>, wallets |-> <<>>]

StoredNumbers == {Absent, Garbage} \cup [person : Person, form : {"canonical", "local"}]

MigrationInit ==
  /\ number \in [Customer -> StoredNumbers]
  /\ \A u, v \in Customer : number[u] = number[v] => u = v \/ number[u] = Absent
  /\ walletNo \in {[u \in Customer |-> IF u \in having THEN number[u] ELSE Absent] :
                     having \in SUBSET {u \in Customer : Valid(number[u])}}
  /\ noteNo \in [Note -> StoredNumbers \ {Absent}]
  /\ \A c, d \in Contact : noteNo[c] = noteNo[d] => c = d
  /\ opening = [u \in Customer |-> Absent]
  /\ migration = NoMigration /\ snapshot = NoSnapshot
  /\ runsLeft = MaxMigrations

Migrating(step) == migration.step = step
-----------------------------------------------------------------------------
(* The bot. *)

RegisterCustomer(u, p) ==
  /\ number[u] = Absent
  /\ \A v \in Customer : number[v] # Spelled(p, "canonical")
  /\ number' = [number EXCEPT ![u] = Spelled(p, "canonical")]
  /\ UNCHANGED <<walletNo, noteNo, opening, migration, snapshot, runsLeft>>

\* createOrGetWallet reads the owner by the canonical number ...
ReadOwner(u) ==
  /\ Valid(number[u]) /\ number[u] = Canonical(number[u])
  /\ walletNo[u] = Absent /\ opening[u] = Absent
  /\ opening' = [opening EXCEPT ![u] = number[u]]
  /\ UNCHANGED <<number, walletNo, noteNo, migration, snapshot, runsLeft>>

\* ... and copies it to the wallet.
CopyNumber(u) ==
  /\ opening[u] # Absent
  /\ walletNo' = [walletNo EXCEPT ![u] = opening[u]]
  /\ opening' = [opening EXCEPT ![u] = Absent]
  /\ UNCHANGED <<number, noteNo, migration, snapshot, runsLeft>>
-----------------------------------------------------------------------------
(* canonicalize-phone-numbers.js --apply.                                  *)

\* Those whose number another user's is equivalent to are left for review.
Colliding == {u \in Customer : Valid(number[u]) /\ \E v \in Customer \ {u} :
                                 Valid(number[v]) /\ Canonical(number[v]) = Canonical(number[u])}
Outdated == {u \in Customer : Valid(number[u]) /\ number[u] # Canonical(number[u])}

ScanUsers ==
  /\ migration.step \in {"none", "done", "failed"} /\ runsLeft > 0
  /\ runsLeft' = runsLeft - 1
  /\ migration' = [step |-> "scanning", updates |-> [u \in Outdated \ Colliding |-> Canonical(number[u])]]
  /\ UNCHANGED <<number, walletNo, noteNo, opening, snapshot>>

\* Two contacts of an owner with equivalent numbers are for review as well, and
\* what is no number is passed over.
OutdatedNotes == {n \in Note : Valid(noteNo[n]) /\ noteNo[n] # Canonical(noteNo[n])}
CollidingContacts == {n \in Contact : Valid(noteNo[n]) /\ \E c \in Contact \ {n} :
                                         Canonical(noteNo[c]) = Canonical(noteNo[n])}

ScanNotes ==
  /\ Migrating("scanning")
  /\ migration' = [step |-> "applying", updates |-> migration.updates,
                   notes |-> OutdatedNotes \ CollidingContacts]
  /\ UNCHANGED <<number, walletNo, noteNo, opening, snapshot, runsLeft>>

NumberFree(u, n) == \A v \in Customer \ {u} : number[v] # n

\* (Mutant: the wallet is left out of the transaction.)
ApplyToUserAlone(u) ==
  /\ Migrating("applying") /\ u \in DOMAIN migration.updates
  /\ NumberFree(u, migration.updates[u])
  /\ number' = [number EXCEPT ![u] = migration.updates[u]]
  /\ migration' = [migration EXCEPT !.updates = [v \in DOMAIN @ \ {u} |-> @[v]]]
  /\ UNCHANGED <<walletNo, noteNo, opening, snapshot, runsLeft>>

\* The number is unique: one that has been registered since the scan fails the
\* transaction, and the script with it, between two users.
ApplyToUser(u) ==
  /\ Migrating("applying") /\ u \in DOMAIN migration.updates
  /\ IF NumberFree(u, migration.updates[u])
     THEN /\ number' = [number EXCEPT ![u] = migration.updates[u]]
          /\ walletNo' = [walletNo EXCEPT ![u] = IF @ = Absent THEN @ ELSE migration.updates[u]]
          /\ migration' = [migration EXCEPT !.updates = [v \in DOMAIN @ \ {u} |-> @[v]]]
     ELSE migration' = [step |-> "failed"] /\ UNCHANGED <<number, walletNo>>
  /\ UNCHANGED <<noteNo, opening, snapshot, runsLeft>>

\* One transaction for the rows of all the other tables. (The index on owner and
\* number never fails it: ContactsDistinct.)
ApplyToNotes ==
  /\ Migrating("applying") /\ DOMAIN migration.updates = {}
  /\ noteNo' = [n \in Note |-> IF n \in migration.notes THEN Canonical(noteNo[n]) ELSE noteNo[n]]
  /\ migration' = [step |-> "done"]
  /\ UNCHANGED <<number, walletNo, opening, snapshot, runsLeft>>

\* The script is killed, or the database fails.
MigrationDies ==
  /\ migration.step \in {"scanning", "applying", "moving"}
  /\ migration' = [step |-> "failed"]
  /\ UNCHANGED <<number, walletNo, noteNo, opening, snapshot, runsLeft>>
-----------------------------------------------------------------------------
(* migrate-customer-identities.js.                                         *)

\* A collision, or a number that is none, and it will not write.
ScanIdentities ==
  /\ migration.step \in {"none", "done", "failed"} /\ runsLeft > 0
  /\ runsLeft' = runsLeft - 1
  /\ LET users == [u \in Outdated |-> number[u]]
         wallets == [u \in {v \in Outdated : walletNo[v] \notin {Absent, Canonical(number[v])}} |-> walletNo[u]]
     IN IF Colliding = {} /\ \A u \in Customer : number[u] # Garbage
        THEN migration' = [step |-> "moving", taken |-> [users |-> users, wallets |-> wallets]]
        ELSE migration' = [step |-> "failed"]
  /\ UNCHANGED <<number, walletNo, noteNo, opening, snapshot>>

\* One transaction; the report with the snapshot is returned after it.
MoveIdentities ==
  /\ Migrating("moving")
  /\ LET old == migration.taken
     IN IF \A u \in DOMAIN old.users : NumberFree(u, Canonical(old.users[u]))
        THEN /\ number' = [u \in Customer |->
                  IF u \in DOMAIN old.users THEN Canonical(old.users[u]) ELSE number[u]]
             /\ walletNo' = [u \in Customer |->
                  IF u \in DOMAIN old.wallets THEN Canonical(old.users[u]) ELSE walletNo[u]]
             /\ snapshot' = old
             /\ migration' = NoMigration
        ELSE migration' = [step |-> "failed"] /\ UNCHANGED <<number, walletNo, snapshot>>
  /\ UNCHANGED <<noteNo, opening, runsLeft>>

\* The users and the wallets of the snapshot, in one transaction.
RollBackIdentities ==
  /\ migration.step \in {"none", "done", "failed"} /\ runsLeft > 0
  /\ snapshot # NoSnapshot
  /\ runsLeft' = runsLeft - 1
  /\ number' = [u \in Customer |-> IF u \in DOMAIN snapshot.users THEN snapshot.users[u] ELSE number[u]]
  /\ walletNo' = [u \in Customer |-> IF u \in DOMAIN snapshot.wallets THEN snapshot.wallets[u] ELSE walletNo[u]]
  /\ migration' = NoMigration
  /\ UNCHANGED <<noteNo, opening, snapshot>>

MigrationNext ==
  \/ \E u \in Customer : \/ ReadOwner(u) \/ CopyNumber(u) \/ ApplyToUser(u)
                         \/ \E p \in Person : RegisterCustomer(u, p)
  \/ ScanUsers \/ ScanNotes \/ ApplyToNotes \/ MigrationDies
  \/ ScanIdentities \/ MoveIdentities \/ RollBackIdentities

MigrationSpec == MigrationInit /\ [][MigrationNext]_migrationVars
-----------------------------------------------------------------------------
\* A wallet goes by its owner's number through every run, half a run and
\* rollback ("without silently merging financial identities",
\* canonicalize-phone-numbers.js:16), but for a wallet opened after an identity
\* migration that is then rolled back: the snapshot does not have it.
WalletFollows ==
  \A u \in Customer :
    walletNo[u] \notin {Absent, number[u]} => u \in DOMAIN snapshot.users \ DOMAIN snapshot.wallets

\* A run that reports no failure leaves no old spelling but of those who have
\* to be reviewed, users and contacts, whoever has registered meanwhile.
DoneIsCanonical ==
  Migrating("done") => Outdated \subseteq Colliding /\ OutdatedNotes \subseteq CollidingContacts

\* No contact is given the number of another of its owner (schema.prisma:292).
ContactsDistinct == \A c, d \in Contact : Valid(noteNo[c]) /\ noteNo[c] = noteNo[d] => c = d

NumbersMigrated == WalletFollows /\ DoneIsCanonical /\ ContactsDistinct
=============================================================================
