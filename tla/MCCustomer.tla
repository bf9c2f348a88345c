----------------------------- MODULE MCCustomer -----------------------------
(***************************************************************************)
(* Instances for TLC: one customer's PIN, account, sessions, call limits,  *)
(* consent, data, wallet, wallet keys and deposits. They share no state,   *)
(* so a behaviour of this instance is a behaviour of one of them, chosen   *)
(* at the start.                                                           *)
(***************************************************************************)
EXTENDS Access, Consent, Privacy, Wallet, WalletKeys, Deposits, TLC

VARIABLE part  \* the component that moves

\* The officers, the callers of a wallet and the sweeps, which are the same two
\* values in parts that never move together.
Alike == Permutations(Call)

\* The parts that rest start in one state only.
MCInit ==
  /\ part \in {"pin", "account", "consent", "erasure", "retention",
               "wallet", "keys", "sessions", "limits", "deposits"}
  /\ AccessInit /\ (part # "account" => ~ account.pending)
  /\ SessionInit /\ RateInit /\ Init
  /\ ConsentInit /\ (part # "consent" => flagged)
  /\ PrivacyInit /\ (part \notin {"erasure", "retention"} => tolerant)
                 /\ (part # "retention" => old = [m \in Old |-> "live"])
  /\ WalletInit /\ (part # "wallet" => mainnet)
  /\ KeyInit /\ (part # "keys" =>
       network = "testnet" /\ key = KeyRow(CHOOSE k \in Secret : TRUE, "verified"))

Only(names) ==
  /\ part \in names /\ UNCHANGED part
  /\ IF part \in {"pin", "account"} THEN TRUE ELSE UNCHANGED accessVars
  /\ IF part = "sessions" THEN TRUE ELSE UNCHANGED sessionVars
  /\ IF part = "limits" THEN TRUE ELSE UNCHANGED rateLimitVars
  /\ IF part = "consent" THEN TRUE ELSE UNCHANGED consentVars
  /\ IF part \in {"erasure", "retention"} THEN TRUE ELSE UNCHANGED privacyVars
  /\ IF part = "wallet" THEN TRUE ELSE UNCHANGED walletVars
  /\ IF part = "keys" THEN TRUE ELSE UNCHANGED keyVars
  /\ IF part = "deposits" THEN TRUE ELSE UNCHANGED vars

MCNext ==
  \/ Only({"pin"}) /\ PinNext
  \/ Only({"account"}) /\ AccountNext
  \/ Only({"sessions"}) /\ SessionNext
  \/ Only({"limits"}) /\ RateNext
  \/ Only({"consent"}) /\ ConsentNext
  \/ Only({"erasure"}) /\ ErasureNext
  \/ Only({"retention"}) /\ RetentionNext
  \/ Only({"erasure", "retention"}) /\ HoldNext
  \/ Only({"wallet"}) /\ WalletNext
  \/ Only({"keys"}) /\ KeyNext
  \/ Only({"deposits"}) /\ Next

MCSpec ==
  /\ MCInit
  /\ [][MCNext]_<<part, accessVars, sessionVars, rateLimitVars, consentVars, privacyVars,
                  walletVars, keyVars, vars>>
=============================================================================
