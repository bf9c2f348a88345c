----------------------------- MODULE WalletKeys -----------------------------
(***************************************************************************)
(* The key pair of a wallet: the secret is stored encrypted, encrypted     *)
(* again under a newer key version by the API or by a script, replaced by  *)
(* a recovery, and used to sign (wallet/walletRecovery.service.js,         *)
(* scripts/rotate-wallet-keys.js, services/crypto.service.js).             *)
(*                                                                         *)
(* What a ciphertext can be read with is the key material the writing      *)
(* process had for the version it wrote on it; a process that does not     *)
(* know a version uses that of v1. Rotations and recoveries read the row   *)
(* and write it by id.                                                     *)
(***************************************************************************)
EXTENDS Integers

CONSTANTS Secret,   \* key pairs that may be generated
          Rotator   \* rotations of the stored secret

Versions == {"v1", "v2"}
Networks == {"testnet", "mainnet"}

VARIABLES key,       \* the key columns of the Wallet row
          drawn,      \* key pairs generated so far
          rotating,  \* what each rotation is doing
          recovery,  \* where the recovery of the wallet is
          deploy,    \* versions configured in the API, and known to the script
          network,   \* the network of the deployment
          signed,    \* payments signed: for which address, with which secret
          crossed,   \* a rotation and a recovery overlapped
          mixed      \* a version was written that not both processes knew

keyVars == <<key, drawn, rotating, recovery, deploy, network, signed, crossed, mixed>>

\* Ciphertext: whose secret, under which label, with which key material.
Box(secret, label, material) == [secret |-> secret, label |-> label, material |-> material]

\* resolveKey: an unknown version is read with the key of v1.
Material(version, known) == IF version \in known THEN version ELSE "v1"
Encrypt(secret, version, known) == Box(secret, version, Material(version, known))
Readable(box, known) == box.material = Material(box.label, known)

KeyRow(k, provenance) ==
  [address |-> k, box |-> Encrypt(k, "v1", {"v1"}), version |-> "v1", provenance |-> provenance]

Fresh == Secret \ drawn

\* Rows from before the network was recorded have assumed their network.
KeyInit ==
  /\ network \in Networks
  /\ deploy = [api |-> {"v1"}, script |-> {"v1"}]
  /\ \E k \in Secret, provenance \in {"verified", "assumed"} :
       drawn = {k} /\ key = KeyRow(k, provenance)
  /\ rotating = [r \in Rotator |-> [step |-> "idle"]]
  /\ recovery = "none"
  /\ signed = {}
  /\ crossed = FALSE /\ mixed = FALSE
-----------------------------------------------------------------------------
\* Version v2 is configured: in the API by a restart, for the script by hand.
\* The rotations under way in that process end.
Deploy(process) ==
  /\ "v2" \notin deploy[process]
  /\ deploy' = [deploy EXCEPT ![process] = Versions]
  /\ rotating' = [r \in Rotator |-> IF rotating[r].step = process THEN [step |-> "idle"]
                                    ELSE rotating[r]]
  /\ UNCHANGED <<key, drawn, recovery, signed, crossed, mixed, network>>

\* rotateWalletKey reads the row (the version has to be given: the default is
\* a function crypto.service.js does not export) ...
RotateRead(r) ==
  /\ rotating[r].step = "idle"
  /\ rotating' = [rotating EXCEPT ![r] = [step |-> "api", row |-> key]]
  /\ UNCHANGED <<key, drawn, recovery, deploy, signed, crossed, mixed, network>>

\* ... and the script a list of rows, of which it skips those already rotated.
ScriptRead(r, target) ==
  /\ rotating[r].step = "idle"
  /\ key.version # target \/ key.box.label # target
  /\ rotating' = [rotating EXCEPT ![r] = [step |-> "script", row |-> key]]
  /\ UNCHANGED <<key, drawn, recovery, deploy, signed, crossed, mixed, network>>

\* What was read is decrypted, encrypted under the target version and written
\* back by id. The script writes the version's column too.
RotateWrite(r, target) ==
  /\ rotating[r].step \in {"api", "script"}
  /\ LET process == rotating[r].step
         box == rotating[r].row.box
         known == deploy[process]
     IN IF ~ Readable(box, known) THEN UNCHANGED <<key, crossed, mixed>>
        ELSE /\ key' = [key EXCEPT !.box = Encrypt(box.secret, target, known),
                                     !.version = IF process = "script" THEN target ELSE @]
             /\ crossed' = (crossed \/ box.secret # key.address)
             /\ mixed' = (mixed \/ ~ ({target} \subseteq deploy.api \cap deploy.script))
  /\ rotating' = [rotating EXCEPT ![r] = [step |-> "idle"]]
  /\ UNCHANGED <<drawn, recovery, deploy, signed, network>>

\* initiateWalletRecovery answers a record that the caller keeps.
StartRecovery(bypass) ==
  /\ recovery = "none"
  /\ recovery' = IF bypass THEN "ready" ELSE "cooling off"
  /\ UNCHANGED <<key, drawn, rotating, deploy, signed, crossed, mixed, network>>

CoolOff ==
  /\ recovery = "cooling off"
  /\ recovery' = "ready"
  /\ UNCHANGED <<key, drawn, rotating, deploy, signed, crossed, mixed, network>>

\* (Mutant: only the address is replaced.)
CompleteAddressOnly(k) ==
  /\ recovery = "ready" /\ k \in Fresh
  /\ drawn' = drawn \cup {k}
  /\ key' = [key EXCEPT !.address = k]
  /\ UNCHANGED <<rotating, recovery, deploy, signed, crossed, mixed, network>>

\* completeWalletRecovery: a new key pair, encrypted under the active version,
\* takes the place of the old one, whose secret is gone. The record of the
\* recovery may be used again.
CompleteRecovery(k) ==
  /\ recovery = "ready" /\ k \in Fresh
  /\ drawn' = drawn \cup {k}
  /\ \E v \in deploy.api : key' = [key EXCEPT !.address = k, !.box = Encrypt(k, v, deploy.api)]
  /\ UNCHANGED <<rotating, recovery, deploy, signed, crossed, mixed, network>>

\* assertUsableOnActiveNetwork; the lookups ask for the active network only.
Usable(row) == network = "mainnet" => row.provenance = "verified"

\* submitPayment signs with the secret of the row.
Sign ==
  /\ Usable(key)
  /\ Readable(key.box, deploy.api)
  /\ signed' = signed \cup {<<key.address, key.box.secret>>}
  /\ UNCHANGED <<key, drawn, rotating, recovery, deploy, crossed, mixed, network>>

KeyNext ==
  \/ \E process \in {"api", "script"} : Deploy(process)
  \/ \E r \in Rotator : \/ RotateRead(r)
                        \/ \E v \in Versions : ScriptRead(r, v) \/ RotateWrite(r, v)
  \/ \E bypass \in BOOLEAN : StartRecovery(bypass)
  \/ CoolOff \/ Sign
  \/ \E k \in Secret : CompleteRecovery(k)

KeySpec == KeyInit /\ [][KeyNext]_keyVars
-----------------------------------------------------------------------------
\* The stored secret is that of the stored address, and payments are signed
\* with it, unless a rotation wrote back what it had read before a recovery.
SecretOfAddress ==
  \/ crossed
  \/ /\ key.box.secret = key.address
     /\ \A s \in signed : s[1] = s[2]

\* The API can read the stored secret, unless a rotation wrote a version which
\* the API or the script had no key for (crypto.service.js resolveKey then
\* takes the key of v1, without an error).
SecretReadable == mixed \/ Readable(key.box, deploy.api)

\* The wallet can be paid from: the secret is its own and can be decrypted
\* (walletRecovery.service.js, crypto.service.js).
KeyServes == SecretOfAddress /\ SecretReadable
=============================================================================
