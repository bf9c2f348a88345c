------------------------------- MODULE Wallet -------------------------------
(***************************************************************************)
(* The wallet of one customer: created, funded and given a trustline by    *)
(* whichever request needs it (wallet/wallet.service.js on top of          *)
(* wallet/stellar.adapter.js), and put back to pending by an               *)
(* administrator. A request goes on with the row it read: a stage is       *)
(* claimed by a conditional update with a lease of five minutes, and its   *)
(* result is written by id.                                                *)
(***************************************************************************)
EXTENDS Integers, FiniteSets

CONSTANTS Key,       \* key pairs that may be generated
          Caller,    \* requests that need the wallet, and the administrator's
          MaxTries   \* attempts after which a failure is not called retryable

ASSUME WalletAssumption == MaxTries \in Nat \ {0}

VARIABLES wallet,    \* the Wallet row
          chainAccount, \* key pairs with an account on the network
          line,      \* key pairs with the USDC trustline
          used,      \* key pairs generated so far
          call,      \* what each request is doing
          mainnet,   \* the network of the deployment
          replaced,  \* a recovery has replaced the key pair
          overlap    \* a lease ran out, or was reset, under a running attempt

walletVars == <<wallet, chainAccount, line, used, call, mainnet, replaced, overlap>>

NoWallet == [key |-> "none"]
NewRow(k) ==
  [key |-> k, funded |-> FALSE, funding |-> "pending", fundLapsed |-> FALSE,
   trust |-> "pending", tries |-> 0, trustLapsed |-> FALSE]

\* What a request uses of the row it has read.
Copy(row) == [key |-> row.key, trusted |-> row.trust = "succeeded", tries |-> row.tries]

NoProvisioning == [step |-> "idle", row |-> NoWallet, ok |-> FALSE, retry |-> FALSE]

WalletInit ==
  /\ mainnet \in BOOLEAN
  /\ wallet = NoWallet
  /\ chainAccount = {} /\ line = {} /\ used = {}
  /\ call = [c \in Caller |-> NoProvisioning]
  /\ replaced = FALSE
  /\ overlap = FALSE

Stored == wallet # NoWallet
CallAt(c, step) == call[c].step = step
Unused == Key \ used

\* A request goes on with the row it has just read or written.
GoOn(c, step, row) == call' = [call EXCEPT ![c] = [NoProvisioning EXCEPT !.step = step, !.row = row]]
Done(c) == call' = [call EXCEPT ![c] = NoProvisioning]

chainVars == <<chainAccount, line>>
fixedVars == <<mainnet, replaced>>
-----------------------------------------------------------------------------
(* createOrGetWallet. *)

\* The customer's wallet on this network is looked up.
LookUp(c) ==
  /\ CallAt(c, "idle")
  /\ IF Stored THEN GoOn(c, "found", NoWallet) ELSE GoOn(c, "creating", NoWallet)
  /\ UNCHANGED <<wallet, chainVars, used, fixedVars, overlap>>

\* A key pair is generated and the row inserted; the unique constraint sends
\* the loser of a race to the winner's row, which it returns as it is.
Create(c, k) ==
  /\ CallAt(c, "creating")
  /\ k \in Unused
  /\ used' = used \cup {k}
  /\ IF Stored THEN Done(c) /\ UNCHANGED wallet
     ELSE /\ wallet' = NewRow(k)
          /\ GoOn(c, "found", NoWallet)
  /\ UNCHANGED <<chainVars, fixedVars, overlap>>
-----------------------------------------------------------------------------
(* provisionWallet and ensureUsdcTrustline. *)

ReadWallet(c) ==
  /\ CallAt(c, "found")
  /\ GoOn(c, IF wallet.funding # "succeeded" /\ ~ wallet.funded THEN "unfunded" ELSE "trustless", Copy(wallet))
  /\ UNCHANGED <<wallet, chainVars, used, fixedVars, overlap>>

\* (Mutant: whoever comes claims.)
ClaimFundingAnyway(c) ==
  /\ CallAt(c, "unfunded")
  /\ wallet' = [wallet EXCEPT !.funding = "in_progress", !.fundLapsed = FALSE]
  /\ call' = [call EXCEPT ![c].step = "funding"]
  /\ UNCHANGED <<chainVars, used, fixedVars, overlap>>

ClaimFunding(c) ==
  /\ CallAt(c, "unfunded")
  /\ IF \/ wallet.funding \in {"pending", "failed"}
        \/ wallet.funding = "in_progress" /\ wallet.fundLapsed
     THEN /\ wallet' = [wallet EXCEPT !.funding = "in_progress", !.fundLapsed = FALSE]
          /\ call' = [call EXCEPT ![c].step = "funding"]
     ELSE Done(c) /\ UNCHANGED wallet
  /\ UNCHANGED <<chainVars, used, fixedVars, overlap>>

\* fundTestnetAccount, up to three requests of which any may have funded the
\* account without saying so. No error it ends with is a retryable one, so
\* the number of attempts, which is counted too, decides nothing.
Fund(c) ==
  /\ CallAt(c, "funding")
  /\ \/ /\ ~ mainnet
        /\ chainAccount' = chainAccount \cup {call[c].row.key}
        /\ \E ok \in BOOLEAN : call' = [call EXCEPT ![c].step = "fund result", ![c].ok = ok]
     \/ /\ call' = [call EXCEPT ![c].step = "fund result", ![c].ok = FALSE]
        /\ UNCHANGED chainAccount
  /\ UNCHANGED <<wallet, line, used, fixedVars, overlap>>

\* The result is written by id, and a success starts the trustline over.
RecordFunding(c) ==
  /\ CallAt(c, "fund result")
  /\ IF call[c].ok
     THEN /\ wallet' = [wallet EXCEPT !.funded = TRUE, !.funding = "succeeded", !.trust = "pending"]
          /\ GoOn(c, "trustless", Copy(wallet'))
     ELSE /\ wallet' = [wallet EXCEPT !.funding = "failed"]
          /\ Done(c)
  /\ UNCHANGED <<chainVars, used, fixedVars, overlap>>

\* The trustline's claim. One that is succeeded is not claimed.
ClaimLine(c) ==
  /\ CallAt(c, "trustless")
  /\ IF \/ wallet.trust \in {"pending", "blocked", "failed"}
        \/ wallet.trust = "in_progress" /\ wallet.trustLapsed
     THEN /\ wallet' = [wallet EXCEPT !.trust = "in_progress", !.trustLapsed = FALSE,
                                      !.tries = IF @ < MaxTries THEN @ + 1 ELSE @]
          /\ call' = [call EXCEPT ![c].step = "lining"]
     ELSE Done(c) /\ UNCHANGED wallet
  /\ UNCHANGED <<chainVars, used, fixedVars, overlap>>

\* establishTrustline for the key pair of the row that was read: nothing to
\* do if the line is there; up to three submissions, whose lost answers are
\* looked up. The only error worth a retry is an account that is not there.
OpenLine(c) ==
  /\ CallAt(c, "lining")
  /\ LET k == call[c].row.key
         Result(ok, retry) ==
           call' = [call EXCEPT ![c].step = "line result", ![c].ok = ok, ![c].retry = retry]
     IN \/ /\ k \in chainAccount
           /\ line' = line \cup {k}
           /\ \E ok \in BOOLEAN : Result(ok, FALSE)
        \/ k \in chainAccount /\ Result(FALSE, FALSE) /\ UNCHANGED line
        \/ k \notin chainAccount /\ Result(FALSE, TRUE) /\ UNCHANGED line
  /\ UNCHANGED <<wallet, chainAccount, used, fixedVars, overlap>>

RecordLine(c) ==
  /\ CallAt(c, "line result")
  /\ wallet' = [wallet EXCEPT !.trust =
       IF call[c].ok THEN "succeeded"
       ELSE IF call[c].retry /\ call[c].row.tries < MaxTries THEN "pending" ELSE "failed"]
  /\ Done(c)
  /\ UNCHANGED <<chainVars, used, fixedVars, overlap>>

ProvisioningDies(c) ==
  /\ ~ CallAt(c, "idle")
  /\ Done(c)
  /\ UNCHANGED <<wallet, chainVars, used, fixedVars, overlap>>

Funding(c) == call[c].step \in {"funding", "fund result"}
Lining(c) == call[c].step \in {"lining", "line result"}

\* Five minutes pass since a claim.
FundingLapses ==
  /\ Stored /\ wallet.funding = "in_progress" /\ ~ wallet.fundLapsed
  /\ wallet' = [wallet EXCEPT !.fundLapsed = TRUE]
  /\ overlap' = (overlap \/ \E c \in Caller : Funding(c))
  /\ UNCHANGED <<chainVars, used, call, fixedVars>>

LineLapses ==
  /\ Stored /\ wallet.trust = "in_progress" /\ ~ wallet.trustLapsed
  /\ wallet' = [wallet EXCEPT !.trustLapsed = TRUE]
  /\ overlap' = (overlap \/ \E c \in Caller : Lining(c))
  /\ UNCHANGED <<chainVars, used, call, fixedVars>>

\* recoverWallet of an administrator, who then goes on like any request. Each
\* reset is an update of its own, decided on the row read first.
StartReset(c) ==
  /\ CallAt(c, "idle") /\ Stored
  /\ GoOn(c, IF wallet.funding # "succeeded" /\ ~ wallet.funded THEN "reset funding" ELSE "reset line", Copy(wallet))
  /\ UNCHANGED <<wallet, chainVars, used, fixedVars, overlap>>

ResetFunding(c) ==
  /\ CallAt(c, "reset funding")
  /\ wallet' = [wallet EXCEPT !.funding = "pending", !.fundLapsed = FALSE]
  /\ overlap' = (overlap \/ wallet.funding = "succeeded" \/ \E d \in Caller : Funding(d))
  /\ call' = [call EXCEPT ![c].step = "reset line"]
  /\ UNCHANGED <<chainVars, used, fixedVars>>

ResetLine(c) ==
  /\ CallAt(c, "reset line")
  /\ IF ~ call[c].row.trusted
     THEN /\ wallet' = [wallet EXCEPT !.trust = "pending", !.tries = 0, !.trustLapsed = FALSE]
          /\ overlap' = (overlap \/ \E d \in Caller : Lining(d))
     ELSE UNCHANGED <<wallet, overlap>>
  /\ GoOn(c, "found", NoWallet)
  /\ UNCHANGED <<chainVars, used, fixedVars>>
-----------------------------------------------------------------------------
\* completeWalletRecovery: the row gets a new key pair, and keeps the marks of
\* the old one (see WalletKeys).
ReplaceKey(k) ==
  /\ Stored /\ k \in Unused
  /\ used' = used \cup {k}
  /\ wallet' = [wallet EXCEPT !.key = k]
  /\ replaced' = TRUE
  /\ UNCHANGED <<chainVars, call, mainnet, overlap>>

WalletNext ==
  \/ \E c \in Caller :
       \/ LookUp(c) \/ ReadWallet(c) \/ ClaimFunding(c) \/ Fund(c) \/ RecordFunding(c)
       \/ ClaimLine(c) \/ OpenLine(c) \/ RecordLine(c) \/ ProvisioningDies(c)
       \/ StartReset(c) \/ ResetFunding(c) \/ ResetLine(c)
       \/ \E k \in Key : Create(c, k)
  \/ FundingLapses \/ LineLapses
  \/ \E k \in Key : ReplaceKey(k)

WalletSpec == WalletInit /\ [][WalletNext]_walletVars
-----------------------------------------------------------------------------
\* One request funds the account at a time, one opens the trustline, and a
\* wallet recorded as funded is not then said to have failed (the leases of
\* wallet.service.js), but after a lease that ran out, or was reset, under an
\* attempt that still goes on.
AttemptsApart ==
  Stored =>
    \/ overlap
    \/ /\ \A c, d \in Caller : Funding(c) /\ Funding(d) => c = d
       /\ \A c, d \in Caller : Lining(c) /\ Lining(d) => c = d
       /\ wallet.funded => wallet.funding = "succeeded"

\* A wallet recorded as funded has its account, and one whose trustline is
\* recorded has the line, or the key pair has been replaced since: a recovery
\* keeps both marks, and the new account does not exist.
MarksAreReal ==
  Stored =>
    \/ replaced
    \/ /\ wallet.funded => wallet.key \in chainAccount
       /\ wallet.trust = "succeeded" => wallet.key \in line

\* What the row says of the wallet is so, whichever requests provision it
\* (wallet.service.js provisionWallet, ensureUsdcTrustline).
WalletTells == AttemptsApart /\ MarksAreReal
=============================================================================
